SPECIFICATION RezSpec
CONSTANTS
  GivenForks <- MCAccents
  Edits <- MCNoEdits
INVARIANTS
  RoundTrip
CHECK_DEADLOCK FALSE
