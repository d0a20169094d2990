CONSTANTS
  r1 = r1
  r2 = r2
  Partners = {partner}
  Requests = {r1, r2}
  MaxIdentity = 3
  MaxLog = 3
  LeiFound = {"issued"}
SPECIFICATION Spec
SYMMETRY RequestSymmetry
INVARIANT EvidenceIsOfIdentity
CHECK_DEADLOCK FALSE
