SPECIFICATION FairSpec
CONSTANTS
  r1 = r1
  r2 = r2
  Relays <- MCRelays
  Configs <- MCConfigs
  MAX_STEPS = 2
  MAX_MACROS = 2
  MaxElapsed = 2
  BleEnabled = TRUE
INVARIANT TypeOK OnlyActiveStepDriven StepWithinMacro
PROPERTY NoEarlyRelease RunsToCompletion EngineFreed ImplementsRelaySequence
