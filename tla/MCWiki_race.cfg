CONSTANTS
  alice = alice
  bob = bob
  org = org
  home = home
  p1 = p1
  p2 = p2
  p3 = p3
  Users = {alice, bob}
  Admins = {}
  Organizations = {org}
  Anonymous = Anonymous
  Requests = {p1, p2, p3}
  Slugs = {home}
  Owner = org
  Members <- MCMembers
  Private = FALSE
  MaxIncarnations = 1
  MaxRequests = 3
SPECIFICATION WikiSpec
SYMMETRY Slots
INVARIANT EveryUpdateCounts
\* Only MaxRequests requests arrive.
CHECK_DEADLOCK FALSE
