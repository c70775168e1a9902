------------------------------- MODULE MCWiki -------------------------------
(* Small instances of Wiki: a public repository of an organization with an *)
(* owner, who may write, and a member, who may only read.                  *)
EXTENDS Wiki, TLC

CONSTANTS alice, bob, org, home, p1, p2, p3

MCMembers == {<<org, alice, "owner">>, <<org, bob, "member">>}

Slots == Permutations(Requests)
=============================================================================
