SPECIFICATION LockSpec
CONSTANTS
  Lockers = {t1, t2}
  Max_Read_Threads = 2
  Rounds = 1
CHECK_DEADLOCK FALSE
INVARIANT ReadersOrWriter
