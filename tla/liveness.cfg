SPECIFICATION FairSpec
CONSTANTS
  Feature = {f1}
  MaxFeatures = 1
  MaxArrays = 1
  MaxSends = 2
  MaxAsks = 1
  Digest4 <- InjectiveDigest
  NoEntry = NoEntry
  AddAfterSend = FALSE
  MayEnd = TRUE
  Strays = {"text", "not_json", "ping", "pong"}
  f1 = f1
CHECK_DEADLOCK FALSE
PROPERTIES CloseEnds Delivered DecodesByOwnSchema
