SPECIFICATION Spec
CONSTANTS
  k1 = k1  k2 = k2
  Conns <- MCConns
  Modes <- MCFull
INVARIANTS
  EndDrainsAll
CHECK_DEADLOCK FALSE
