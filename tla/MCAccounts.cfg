CONSTANTS
  a = a
  b = b
  c = c
  p1 = p1
  p2 = p2
  Names = {a, b, c}
  Anonymous = Anonymous
  Requests = {p1, p2}
  MaxRequests = 4
SPECIFICATION Spec
SYMMETRY Symmetry
INVARIANTS
  TypeOK
  NamesDisjoint
  OneBootstrap
  OrganizationsHaveOwner
PROPERTIES
  MembershipIsGranted
\* Only MaxRequests requests arrive.
CHECK_DEADLOCK FALSE
