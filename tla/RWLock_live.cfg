SPECIFICATION LockFairSpec
CONSTANTS
  Lockers = {t1, t2, t3}
  Max_Read_Threads = 2
  Rounds = 2
CHECK_DEADLOCK FALSE
INVARIANT OneWriter
INVARIANT EventsComeBack
PROPERTY EveryoneGoesOn
