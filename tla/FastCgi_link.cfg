\* One link after the other.  The process ends when the pool is full, so
\* that is no deadlock.
SPECIFICATION FairSpec
CONSTANTS
  Ids <- MCIds
  NSlots = 2
INVARIANT TableSound
INVARIANT QueueSound
INVARIANT OwnAnswers
PROPERTY Answered
CHECK_DEADLOCK FALSE
