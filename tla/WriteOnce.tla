----------------------------- MODULE WriteOnce -----------------------------
(***************************************************************************)
(* What published versions and releases promise: under a key something is  *)
(* put once, by somebody allowed to, and stays as it was put.  Permission  *)
(* is given and never taken away.  Versions are kept for ever; releases    *)
(* disappear all together, with their repository.                          *)
(* Registry.tla and Releases.tla are shown to implement this.              *)
(***************************************************************************)
CONSTANTS Keys, Authors, Contents

VARIABLES
  store,    \* key -> <<author, content>>
  allowed   \* who may put what: <<key, author>>

Empty == [k \in {} |-> 0]

Init ==
  /\ store = Empty
  /\ allowed \subseteq Keys \X Authors

Put(k, author, content) ==
  /\ k \notin DOMAIN store
  /\ <<k, author>> \in allowed
  /\ store' = [j \in DOMAIN store \cup {k} |->
                 IF j = k THEN <<author, content>> ELSE store[j]]
  /\ UNCHANGED allowed

Grant ==
  /\ allowed' \subseteq Keys \X Authors
  /\ allowed \subseteq allowed'
  /\ UNCHANGED store

Clear == store' = Empty /\ UNCHANGED allowed

Write == \E k \in Keys, a \in Authors, c \in Contents : Put(k, a, c)

Spec == Init /\ [][Write \/ Grant]_<<store, allowed>>

ClearableSpec == Init /\ [][Write \/ Grant \/ Clear]_<<store, allowed>>
=============================================================================
