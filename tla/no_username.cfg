SPECIFICATION FairHandshakeSpec
CONSTANTS
  Field = 5
  Base = 2
  Payload <- Payloads
  Key <- Keys
  MaxFrames = 0
  Responses <- Answers
CHECK_DEADLOCK FALSE
PROPERTY ClientConnects
