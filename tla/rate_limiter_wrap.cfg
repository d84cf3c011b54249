SPECIFICATION Spec
CONSTANTS
  nonce = nonce
  pair = pair
  cmd = cmd
  Clients = {c1, c2}
  MAX_IPS = 1
  Endpoints = {nonce, pair, cmd}
  MaxPerWindow <- MCMaxPerWindow
  MinInterval <- MCMinInterval
  Window = 6
  Lockout = 3
  LOCKOUT_MULTIPLIER = 2
  MaxLockout = 12
  Second = 2
  Modulus = 8
  MaxTime = 12
INVARIANT LockoutEnds
CHECK_DEADLOCK FALSE
