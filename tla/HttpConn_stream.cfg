SPECIFICATION Spec
CONSTANTS
  Requests <- ClientRequests
  IO_SIZE = 3
  MAX_PAGE_SIZE = 21
  MAX_POSTLENGTH = 4
  Files = {0, 1, 3, 5, 7}
  Pieces = {1, 4, 8}
  MaxSaid = 20
  MaxAfter = 4
INVARIANT RequestWhole
INVARIANT NoneLeftWaiting
INVARIANT LengthTold
PROPERTY Implements
