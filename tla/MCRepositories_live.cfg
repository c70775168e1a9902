CONSTANTS
  alice = alice
  bob = bob
  org = org
  r1 = r1
  p1 = p1
  p2 = p2
  Users = {alice}
  Admins = {}
  Organizations = {org}
  Anonymous = Anonymous
  Requests = {p1, p2}
  Repos = {r1}
  RepoOwner <- OfOrganization
  MaxIncarnations = 2
  MaxMembers = 1
  MaxFaults = 0
SPECIFICATION FairSpec
INVARIANT
  MutatorsMayWrite
PROPERTY
  LeakIsReclaimed
