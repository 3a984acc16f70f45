SPECIFICATION Spec
CONSTANTS
  Socks = {c1, c2}
  NSlots = 2
  TimeOut = 1
  MaxKeepAlive = 2
  MaxReads = 1
  MaxWrites = 2
  StickyEvent = FALSE
  None = None
SYMMETRY SockSymmetry
INVARIANT PoolSound
INVARIANT OwnAnswer
INVARIANT ScriptRunsOnce
INVARIANT BufferIsTheScripts
INVARIANT DroppedOnlyAtCap
INVARIANT AnswersArrive
PROPERTY OverrunOnlyLateOrSent
