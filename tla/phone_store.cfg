SPECIFICATION Spec
CONSTANTS
  p1 = p1
  p2 = p2
  p3 = p3
  p4 = p4
  None = None
  Phones <- MCPhones
  MAX_PAIRED_PHONES = 3
  BleEnabled = TRUE
SYMMETRY Symmetry
INVARIANT TypeOK PairedAsTold NothingLost
CONSTRAINT Bounded
