\* Three symbols on two selected dexes, one discarded, two symbols a stream, two drops.
SPECIFICATION Spec
CONSTANTS
  s1 = s1
  s2 = s2
  s3 = s3
  Symbols = {s1, s2, s3}
  PerpDexs <- ThreeDexs
  Selected <- TwoSelected
  DexOf <- Listing
  Discarded = {s2}
  MaxSubs = 2
  MaxDrops = 2
INVARIANTS
  TypeOK
  SubscribedExactlyOnce
  EverySymbolHasOneStream
  ReadyMeansComplete
