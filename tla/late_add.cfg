SPECIFICATION Spec
CONSTANTS
  Feature = {f1}
  MaxFeatures = 1
  MaxArrays = 2
  MaxSends = 1
  MaxAsks = 1
  Digest4 <- InjectiveDigest
  NoEntry = NoEntry
  AddAfterSend = TRUE
  MayEnd = FALSE
  Strays = {}
  f1 = f1
INVARIANT SchemaMatchesHash
