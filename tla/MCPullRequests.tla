--------------------------- MODULE MCPullRequests ---------------------------
(* Small instances of PullRequests: a private repository of an             *)
(* organization with an owner, who may write, and a member, who may only   *)
(* read, propose and review.                                               *)
EXTENDS PullRequests, TLC

CONSTANTS alice, bob, org, c1, p1, p2

MCMembers == {<<org, alice, "owner">>, <<org, bob, "member">>}

Slots == Permutations(Requests)
=============================================================================
