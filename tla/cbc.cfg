SPECIFICATION Spec
CONSTANTS
  Plaintexts <- MCPlaintexts
  Keys <- MCKeys
  Headers <- MCHeaders
CHECK_DEADLOCK FALSE
INVARIANTS TypeOK Chained RoundTrip BlocksAreStandard
