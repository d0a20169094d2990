CONSTANTS
  c1 = c1
  c2 = c2
  Cps = {c1, c2}
  Jobs = {j1, j2}
  Stored <- MCStored
  Joined <- MCJoined
  Provider = "twilio"
  Sandbox = TRUE
  MaxRows = 4
  MaxFaults = 1
SPECIFICATION Spec
INVARIANTS EvidenceBeforeWire RecordsAreTrue
PROPERTIES EveryRowSettles
CHECK_DEADLOCK FALSE
