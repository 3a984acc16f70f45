SPECIFICATION FairSpec
CONSTANTS
  Socks = {c1, c2}
  NSlots = 2
  TimeOut = 1
  MaxKeepAlive = 256
  MaxReads = 0
  MaxWrites = 1
  StickyEvent = FALSE
  None = None
PROPERTY QueueServed
