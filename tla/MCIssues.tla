------------------------------ MODULE MCIssues ------------------------------
(* Small instances of Issues: a private repository of an organization with *)
(* an owner, who may write, and a member, who may only read.               *)
EXTENDS Issues, TLC

CONSTANTS alice, bob, org, p1, p2

MCMembers == {<<org, alice, "owner">>, <<org, bob, "member">>}

Slots == Permutations(Requests)
=============================================================================
