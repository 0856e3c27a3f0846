\* One stream for each of two symbols, one lost connection: progress.
SPECIFICATION LiveSpec
CONSTANTS
  s1 = s1
  s2 = s2
  s3 = s3
  PerpDexs <- ThreeDexs
  Selected <- TwoSelected
  DexOf <- Listing
  Symbols = {s1, s3}
  Discarded = {}
  MaxSubs = 1
  MaxDrops = 1
PROPERTIES
  ReferenceDataCompletes
  SeenSymbolsSubscribed
