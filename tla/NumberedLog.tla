---------------------------- MODULE NumberedLog ----------------------------
(***************************************************************************)
(* What the issues of a repository promise to its readers: a log.  Number  *)
(* n is the n-th item; a number is given once, to one author, and neither  *)
(* is ever changed or reused; the log only disappears as a whole, with its *)
(* repository.  Titles, bodies and states are not part of the promise.     *)
(* Issues.tla and PullRequests.tla are shown to implement this.            *)
(***************************************************************************)
EXTENDS Sequences

CONSTANT Authors

VARIABLE log   \* log[n] is the author of item n

Init == log = <<>>

Submit(author) == log' = Append(log, author)

Clear == log' = <<>>

Next == (\E a \in Authors : Submit(a)) \/ Clear

Spec == Init /\ [][Next]_log
=============================================================================
