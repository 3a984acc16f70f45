SPECIFICATION FairSpec
CONSTANTS
  Socks = {c1, c2}
  NSlots = 1
  TimeOut = 1
  MaxKeepAlive = 1
  MaxReads = 0
  MaxWrites = 1
  StickyEvent = TRUE
  None = None
PROPERTY ConnectionsEnd
PROPERTY QueueServed
