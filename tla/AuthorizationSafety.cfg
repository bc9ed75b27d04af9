SPECIFICATION Spec
CONSTANTS
  NoName = NoName
  NoGrant = NoGrant
  NoRequest = NoRequest
  r1 = r1
  r2 = r2
  g1 = g1
  g2 = g2
  p1 = p1
  p2 = p2
  o1 = o1
  Names = {n1}
  Requests <- MCRequests
  Grants <- MCGrants
  Polls <- MCTwoPolls
  Owners <- MCOneOwner
  RequestTtl = 1
  SessionTtl = 1
  Retention = 1
  BatchLimit = 1
  Horizon = 2
  MaxTime = 1
SYMMETRY MCSymmetry
INVARIANTS
  OneGrantPerRequest
  GrantsAreBacked
  ActiveNamesUnique
PROPERTIES
  LegalTransitions
