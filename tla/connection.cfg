SPECIFICATION FairHandshakeSpec
CONSTANTS
  Field = 5
  Base = 2
  Payload <- Payloads
  Key <- Keys
  MaxFrames = 2
  Responses <- Answers
CHECK_DEADLOCK FALSE
INVARIANTS TypeOK TextsAreReceived EndsForAReason  LinesThenFrames
PROPERTIES TextsArrive HandshakeEnds
