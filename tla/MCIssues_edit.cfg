CONSTANTS
  alice = alice
  bob = bob
  org = org
  p1 = p1
  p2 = p2
  Users = {alice, bob}
  Admins = {}
  Organizations = {org}
  Anonymous = Anonymous
  Requests = {p1, p2}
  Owner = org
  Members <- MCMembers
  Private = TRUE
  MaxIncarnations = 2
  MaxRequests = 3
  MaxIssues = 2
SPECIFICATION Spec
SYMMETRY Slots
PROPERTY EditIsAlwaysAuthorized
\* Only MaxRequests requests arrive.
CHECK_DEADLOCK FALSE
