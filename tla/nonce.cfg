SPECIFICATION NonceSpec
CONSTANTS
  n1 = n1
  n2 = n2
  n3 = n3
  n4 = n4
  n5 = n5
  None = None
  Nonces <- MCNonces
  MAX_NONCES = 3
  NONCE_EXPIRY = 1
  CLEANUP_INTERVAL = 2
SYMMETRY Symmetry
INVARIANT TypeOK SingleUse LiveNonceKept
PROPERTY NoLateAcceptance
