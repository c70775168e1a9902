CONSTANTS
  alice = alice
  bob = bob
  org = org
  p1 = p1
  p2 = p2
  Users = {alice, bob}
  Admins = {}
  Organizations = {org}
  Anonymous = Anonymous
  Requests = {p1, p2}
  Owner = org
  Members <- MCMembers
  Private = TRUE
  MaxIncarnations = 2
  MaxRequests = 4
  MaxIssues = 2
SPECIFICATION Spec
SYMMETRY Slots
INVARIANTS
  TypeOK
  NumbersDense
  IssuesAudited
PROPERTIES
  EditIsAuthorized
  ImplementsLog
\* Only MaxRequests requests arrive.
CHECK_DEADLOCK FALSE
