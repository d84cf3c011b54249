SPECIFICATION Spec
CONSTANTS
  Devices = {d1, d2}
  None = None
  MAX_PAIRED_PHONES = 1
  MAX_TRACKED_TOKENS = 1
  PAIRING_HOLD = 2
  FACTORY_RESET_HOLD = 4
  PAIRING_WINDOW = 1
  TOKEN_WINDOW = 1
  MAX_CALLS = 1
  PassMax = 2
INVARIANTS TypeOK QuietPhoneServed
PROPERTY PairedByHold WindowsClose
