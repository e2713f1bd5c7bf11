SPECIFICATION MirrorSpec
CONSTANTS
  a = a
  b = b
  c = c
  Contents = {a, b, c}
  Size <- MCSize
  Names = {1, 2}
  Legacy <- MCLegacy
  Partial = Partial
  Unknown = Unknown
  NoFile = NoFile
  Legacies = {TRUE, FALSE}
  Workers = {w1, w2}
  Updates <- MCUpdates
INVARIANTS TypeOK PoolHonest Delivered
PROPERTIES ImplementsStore Terminates
CHECK_DEADLOCK FALSE
