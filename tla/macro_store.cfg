SPECIFICATION Spec
CONSTANTS
  MAX_MACROS = 2
  DEFAULT_COUNT = 1
  MaxSaves = 3
INVARIANTS TypeOK SavedIsLoaded
CHECK_DEADLOCK FALSE
