SPECIFICATION FairSpec
CONSTANTS
  Keys = {k1, k2, k3, k4}
  bucket_elems = 3
  Empty = Empty
INVARIANT FindIsRight
PROPERTY LoopsEnd
