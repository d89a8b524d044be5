SPECIFICATION Spec
CONSTANTS
  MaxFeatures = 2
  MaxBuffer = 26
  MaxName = 25
  PointerSize = 8
  IdLengths = {11, 64}
  ValueLengths = {12}
  IntLengths = {5}
  NameLengths = {25}
  MaxFrames = 1
INVARIANTS TypeOK SchemaDescribesValues SizeIsLength EncryptsTheRest FillingIsInBuffer
