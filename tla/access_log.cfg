SPECIFICATION Spec
CONSTANTS
  LOG_MAX_ENTRIES = 2
  Epoch = 100
  MaxEvents = 4
  MaxTime = 2
  MaxBoots = 2
INVARIANTS TypeOK NewestInOrder Durable TimesTrue
CHECK_DEADLOCK FALSE
