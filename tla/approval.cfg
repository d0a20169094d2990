SPECIFICATION Spec
CONSTANTS
  r1 = r1
  r2 = r2
  ana = ana
  bo = bo
  aud = aud
  award = award
  settle = settle
  small = small
  k1 = k1
  s1 = s1
  s2 = s2
  Requests <- MCRequests
  Actors <- MCActors
  Roles <- MCRoles
  Payloads <- MCPayloads
  TypeOf <- MCTypeOf
  Amount <- MCAmount
  MutationTypes <- MCMutationTypes
  Threshold <- MCThreshold
  Lifetime <- MCLifetime
  Policy <- MCPolicy
  Keys = {k1}
  NoKey = NoKey
  Sessions = {s1, s2}
  Horizon = 3
INVARIANTS FourEyes OneRowPerKey AuditTellsHistory
PROPERTIES OnlyLegalMoves DeadlineHolds
CHECK_DEADLOCK FALSE
SYMMETRY MCSymmetry
