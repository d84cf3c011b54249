SPECIFICATION Spec
CONSTANTS
  a = a
  b = b
  c = c
  d = d
  None = None
  Cards <- MCCards
  MAX_USER_UIDS = 3
SYMMETRY Symmetry
INVARIANT TypeOK RemovedIsGone Dense
PROPERTY ImplementsUidSet
