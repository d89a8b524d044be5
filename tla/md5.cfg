SPECIFICATION Spec
CONSTANTS
  BlockBytes = 64
  LengthBytes = 8
  MaxLength = 130
CHECK_DEADLOCK FALSE
INVARIANTS TypeOK Padded Scheduled
