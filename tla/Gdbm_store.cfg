SPECIFICATION Spec
CONSTANTS
  Keys = {1, 2}
  Hash <- KeyHash
  HashBits = 3
  Values = {"small", "huge"}
  SizeOf <- ValueSize
  NoValue = "none"
  Torn = "torn"
  bucket_elems = 1
  BUCKET_AVAIL = 3
  cache_size = 3
  block_size = 2
  InitBits = 1
  avail_size = 5
  av_block = 1
  Units = 48
  MaxOps = 5
INVARIANT SpaceSound
INVARIANT CacheCoherent
PROPERTY Implements
