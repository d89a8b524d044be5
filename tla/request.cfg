SPECIFICATION FairSpec
CONSTANTS
  d1 = d1
  d2 = d2
  d3 = d3
  s1 = s1
  s2 = s2
  Device = {d1, d3}
  Schema = {s1, s2}
  SchemaOf <- TwoSchemas
  Digest4 <- InjectiveDigest
  NoSchema = NoSchema
  MaxRuns = 2
  MayRefuse = TRUE
  MayBreak = TRUE
CHECK_DEADLOCK FALSE
INVARIANTS TypeOK SuccessIsTrue
PROPERTIES DecodesByOwnSchema RunEnds
