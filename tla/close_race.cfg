SPECIFICATION Spec
CONSTANTS
  Feature = {f1}
  MaxFeatures = 1
  MaxArrays = 1
  MaxSends = 1
  MaxAsks = 0
  Digest4 <- InjectiveDigest
  NoEntry = NoEntry
  AddAfterSend = FALSE
  MayEnd = TRUE
  Strays = {}
  f1 = f1
CHECK_DEADLOCK FALSE
INVARIANT CloseIsLast
