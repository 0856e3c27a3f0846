\* A client subscribes before reference data has been downloaded.
SPECIFICATION Spec
CONSTANTS
  s1 = s1
  s2 = s2
  s3 = s3
  PerpDexs <- ThreeDexs
  Selected <- TwoSelected
  DexOf <- Listing
  Symbols = {s1, s2, s3}
  Discarded = {}
  MaxSubs = 2
  MaxDrops = 0
INVARIANTS
  OrderStreamsHaveDex
