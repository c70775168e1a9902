CONSTANTS
  alice = alice
  bob = bob
  org = org
  r1 = r1
  p1 = p1
  p2 = p2
  Users = {alice, bob}
  Admins = {}
  Organizations = {org}
  Anonymous = Anonymous
  Requests = {p1, p2}
  Repos = {r1}
  RepoOwner <- OfUser
  MaxIncarnations = 2
  MaxMembers = 0
  MaxFaults = 1
SPECIFICATION Spec
SYMMETRY Slots
INVARIANTS
  TypeOK
  RowHasStorage
  ContentIsOwn
  NoLeakedStorage
  CreationsAudited
  AuditedDeleteIsFinal
  MutatorsMayWrite
