SPECIFICATION Spec
CONSTANTS
  MaxFeatures = 1
  MaxBuffer = 26
  MaxName = 25
  PointerSize = 8
  IdLengths = {11}
  ValueLengths = {7}
  IntLengths = {1}
  NameLengths = {3}
  MaxFrames = 1
INVARIANT PostSizeIsLength
