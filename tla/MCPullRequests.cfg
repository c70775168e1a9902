CONSTANTS
  alice = alice
  bob = bob
  org = org
  c1 = c1
  p1 = p1
  p2 = p2
  Users = {alice, bob}
  Admins = {}
  Organizations = {org}
  Anonymous = Anonymous
  Requests = {p1, p2}
  Shas = {c1}
  Null = Null
  Undefined = Undefined
  Owner = org
  Members <- MCMembers
  Private = TRUE
  MaxIncarnations = 2
  MaxNumber = 2
  MaxRequests = 3
SPECIFICATION Spec
SYMMETRY Slots
INVARIANTS
  TypeOK
  MergedHasSha
  ReviewsHaveTarget
PROPERTIES
  UpdateIsAuthorized
  ImplementsLog
\* Only MaxRequests requests arrive.
CHECK_DEADLOCK FALSE
