SPECIFICATION DbgFairSpec
CONSTANTS
  Sources <- Prefix
  Lines = {1}
  MaxCalls = 3
  MaxEvents = 3
  MaxInbox = 1
CHECK_DEADLOCK FALSE
INVARIANT ToldIsSet
