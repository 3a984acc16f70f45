SPECIFICATION DbgFairSpec
CONSTANTS
  Sources <- Apart
  Lines = {1}
  MaxCalls = 3
  MaxEvents = 7
  MaxInbox = 1
CHECK_DEADLOCK FALSE
PROPERTY NeverTooDeep
PROPERTY StopsWhereAsked
PROPERTY EndsWithoutClient
