SPECIFICATION DbgFairSpec
CONSTANTS
  Sources <- Apart
  Lines = {1}
  MaxCalls = 3
  MaxEvents = 2
  MaxInbox = 1
CHECK_DEADLOCK FALSE
PROPERTY ResumedRuns
