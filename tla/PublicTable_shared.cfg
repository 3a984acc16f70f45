SPECIFICATION FairSpec
CONSTANTS
  n = n
  a = a
  b = b
  x = x
  y = y
  Less = Less
  Equal = Equal
  Greater = Greater
  Threads = {1, 2}
  Keys = {"k1", "k2"}
  Numbers = {n}
  Texts = {a, b}
  Times = {x, y}
  Strs = {"s1", "s2"}
  MaxCalls = 4
  Missing = Missing
  Nil = Nil
  Cmp <- Sign
INVARIANT StringsOwned
PROPERTY Implements
PROPERTY CallsReturn
CHECK_DEADLOCK FALSE
