SPECIFICATION Spec
CONSTANTS
  PageNumber = 3
  PageSize = 2
INVARIANT ListOK
INVARIANT ExhaustedWhenFull
INVARIANT WalkReachesAll
PROPERTY PoolSpec
