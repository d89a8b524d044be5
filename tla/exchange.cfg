SPECIFICATION Spec
CONSTANTS
  Feature = {f1, f2}
  MaxFeatures = 2
  MaxArrays = 2
  MaxSends = 2
  MaxAsks = 1
  Digest4 <- InjectiveDigest
  NoEntry = NoEntry
  AddAfterSend = FALSE
  MayEnd = FALSE
  Strays = {}
  f1 = f1
  f2 = f2
SYMMETRY FeatureSymmetry
INVARIANTS TypeOK Answerable SchemaMatchesHash
PROPERTY DecodesByOwnSchema
