--------------------------- MODULE MCRepositories ---------------------------
(* Small instances of Repositories: one repository, of a user or of an     *)
(* organization that gets its first member.                                *)
EXTENDS Repositories, TLC

CONSTANTS alice, bob, org, r1, p1, p2

OfUser == r1 :> alice
OfOrganization == r1 :> org

Slots == Permutations(Requests)
=============================================================================
