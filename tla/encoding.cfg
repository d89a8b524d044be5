SPECIFICATION Spec
CONSTANTS
  Width = 16
  Shift = 13
CHECK_DEADLOCK FALSE
INVARIANTS TypeOK RoundTrip SelfDelimiting SizeAgrees Compact
