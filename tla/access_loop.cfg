SPECIFICATION FairSpec
CONSTANTS
  master = master
  tag = tag
  odd = odd
  None = None
  r1 = r1
  Cards <- MCCards
  BadLength <- MCBadLength
  MAX_USER_UIDS = 1
  MASTER_AWAY_DELAY = 1
  MASTER_REDETECT_DELAY = 1
  MASTER_HOLD_TIME = 2
  IMPATIENCE_TIMEOUT = 2
  WARNING_TIMEOUT = 1
  EXIT_TIMEOUT = 2
  Lockouts <- MCLockouts
  Relays <- MCRelays
  MAX_STEPS = 1
  Macros <- MCMacros
  MaxElapsed = 1
  TagMacro <- MCTagMacro
INVARIANT LockoutClosesAll
PROPERTY HoldRequired LockoutNeverShrinks PromptOnlyWhenDue ProgrammingTimesOut RelayReleased PromptGiven
