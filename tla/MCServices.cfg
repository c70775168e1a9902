CONSTANTS
  alice = alice
  bob = bob
  org = org
  club = club
  p1 = p1
  p2 = p2
  secret1 = secret1
  Users = {alice, bob}
  Admins = {}
  Organizations = {org, club}
  Anonymous = Anonymous
  Requests = {p1, p2}
  MaxRequests = 3
  Owner = org
  Members <- MCMembers
  Founders <- MCFounders
  Private = TRUE
  MaxIncarnations = 2
  Scopes = {org, alice}
  Names = {lib}
  Versions = {v1}
  Sources = {ts, js}
  TeamSlugs = {core}
  Usernames = {alice, bob, nobody}
  MaxNumber = 2
  Tags = {v1}
  Notes = {ts, js}
  Events = {push}
  Slugs = {home}
  Passwords = {secret1, wrong}
  Password <- MCPassword
  PublicKeys = {key1}
  MaxValue = 2
  MaxLines = 2
  MaxBody = 4
SPECIFICATION Spec
SYMMETRY Slots
INVARIANTS
  TypeOK
  ListingIsExact
  DispatchIsComplete
  VersionCountsWrites
  VersionIsBounded
  ScriptIsRunAsWritten
  ResponseIsExact
PROPERTIES
  VersionsArePermanent
  TeamsGrowByOwners
  ProjectsAreALog
  ReleasesArePermanent
  CredentialsBind
\* Only MaxRequests requests arrive.
CHECK_DEADLOCK FALSE
