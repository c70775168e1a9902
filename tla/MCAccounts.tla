----------------------------- MODULE MCAccounts -----------------------------
(* Small instances of Accounts: three names, any of which can become a     *)
(* user or an organization, so names are interchangeable.                  *)
EXTENDS Accounts, TLC

CONSTANTS a, b, c, p1, p2

Symmetry == Permutations(Requests) \cup Permutations(Names)
=============================================================================
