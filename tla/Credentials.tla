---------------------------- MODULE Credentials ----------------------------
(***************************************************************************)
(* API tokens and SSH keys, and who a request acts for.  Credentials are a *)
(* password or a token, under a username (Basic) or alone (Bearer); the    *)
(* token is looked up, marked as used, and its user looked up, in three    *)
(* calls.  Users are those of Accounts.tla and stay; two of them may have  *)
(* chosen the same password.  Hashes are left out: a token's is unique, a  *)
(* password's is checked against one user.                                 *)
(***************************************************************************)
EXTENDS Serving, FiniteSets

CONSTANTS
  Passwords,     \* passwords, none of which is a token
  Password,      \* the password of each user
  PublicKeys     \* SSH public keys

VARIABLES
  tokens,   \* the api_tokens table: token -> user
  used,     \* the tokens with a last_used_at
  keys,     \* the ssh_keys table: id -> <<user, public key>>
  keysMade  \* SSH keys that were ever added; ids are not used again

credentialsVars == <<req, started, audit, tokens, used, keys, keysMade>>

(* Tokens are random; the n-th that is issued is n, and 0 is none of them. *)
Tokens == DOMAIN tokens
Secrets == Passwords \cup 0..MaxRequests
KeyIds == 1..MaxRequests
Operations == {"create_token", "list_keys", "add_key", "delete_key"}

(* createApiToken takes username and password from the body and checks     *)
(* them like Basic credentials.                                            *)
Schemes(op) == IF op = "create_token" THEN {"basic"} ELSE {"basic", "bearer"}

Steps == {"password", "token", "touch", "owner",
          "create_token", "list_keys", "add_key", "delete_key", "audit"}

(* actor is the principal, Anonymous until it is known.                    *)
Request ==
  {Idle} \cup
  [step : Steps, op : Operations, scheme : {"basic", "bearer"}, name : Users,
   secret : Secrets, actor : Actors, key : PublicKeys, id : Nat]

TablesUnchanged == UNCHANGED <<tokens, used, keys, keysMade>>
NoRows == [k \in {} |-> 0]
-----------------------------------------------------------------------------
CredentialsInit ==
  /\ ServingInit
  /\ tokens = NoRows
  /\ used = {}
  /\ keys = NoRows
  /\ keysMade = 0

Start(p, op, scheme, name, secret, key, id) ==
  /\ scheme \in Schemes(op)
  /\ IF op = "delete_key" THEN id # 0 ELSE id = 0
  /\ Arrive(p, [step |-> IF scheme = "basic" THEN "password" ELSE "token",
                op |-> op, scheme |-> scheme, name |-> name, secret |-> secret,
                actor |-> Anonymous, key |-> key, id |-> id])
  /\ TablesUnchanged

Authenticated(p, u) == Becomes(p, [req[p] EXCEPT !.actor = u,
                                                 !.step = req[p].op])

(* authenticateBasic: the user's password, or else a token ...             *)
CheckPassword(p) ==
  /\ At(p, "password")
  /\ IF Password[req[p].name] = req[p].secret
       THEN Authenticated(p, req[p].name)
       ELSE GoTo(p, "token")
  /\ TablesUnchanged /\ Quietly

(* authenticateToken: findUserIdByTokenHash ...                            *)
FindToken(p) ==
  /\ At(p, "token")
  /\ IF req[p].secret \in Tokens THEN GoTo(p, "touch")
                                 ELSE Answer(p)                 \* 401
  /\ TablesUnchanged /\ Quietly

(* ... touchToken ...                                                      *)
TouchToken(p) ==
  /\ At(p, "touch")
  /\ used' = used \cup {req[p].secret}
  /\ GoTo(p, "owner")
  /\ UNCHANGED <<tokens, keys, keysMade>> /\ Quietly

(* Mutant: a token is good under any username.                             *)
FindOwnerOfAny(p) ==
  /\ At(p, "owner")
  /\ Authenticated(p, tokens[req[p].secret])
  /\ TablesUnchanged /\ Quietly

(* ... findById, and with Basic credentials the name has to be the token's *)
(* user.                                                                   *)
FindOwner(p) ==
  LET u == tokens[req[p].secret] IN
  /\ At(p, "owner")
  /\ IF req[p].scheme = "basic" => u = req[p].name
       THEN Authenticated(p, u)
       ELSE Answer(p)                                           \* 401
  /\ TablesUnchanged /\ Quietly
-----------------------------------------------------------------------------
(* createApiToken                                                          *)
InsertToken(p) ==
  LET t == Cardinality(Tokens) + 1 IN
  /\ At(p, "create_token")
  /\ tokens' = [k \in Tokens \cup {t} |->
                  IF k = t THEN req[p].actor ELSE tokens[k]]
  /\ GoTo(p, "audit")
  /\ UNCHANGED <<used, keys, keysMade>> /\ Quietly

ListSshKeys(p) ==
  /\ At(p, "list_keys")
  /\ Answer(p)
  /\ TablesUnchanged /\ Quietly

(* addSshKey: INSERT, refused when anybody has the public key (UNIQUE)     *)
AddSshKey(p) ==
  LET id == keysMade + 1 IN
  /\ At(p, "add_key")
  /\ IF \E k \in DOMAIN keys : keys[k][2] = req[p].key
       THEN Answer(p) /\ TablesUnchanged                        \* 409
       ELSE /\ keys' = [k \in DOMAIN keys \cup {id} |->
                          IF k = id THEN <<req[p].actor, req[p].key>>
                                    ELSE keys[k]]
            /\ keysMade' = id
            /\ GoTo(p, "audit")
            /\ UNCHANGED <<tokens, used>>
  /\ Quietly

(* deleteSshKey: DELETE ... WHERE user_id = ... AND id = ..., which may    *)
(* delete nothing and is answered the same.                                *)
DeleteSshKey(p) ==
  /\ At(p, "delete_key")
  /\ keys' = [k \in {k \in DOMAIN keys :
                       ~(k = req[p].id /\ keys[k][1] = req[p].actor)}
                |-> keys[k]]
  /\ GoTo(p, "audit")
  /\ UNCHANGED <<tokens, used, keysMade>> /\ Quietly

Action(op) == CASE op = "create_token" -> "token.create"
                [] op = "add_key" -> "ssh_key.add"
                [] OTHER -> "ssh_key.delete"

Audit(p) == At(p, "audit") /\ Record(p, Action(req[p].op)) /\ TablesUnchanged

Fail(p) == Drop(p) /\ TablesUnchanged

Authenticate(p) ==
  CheckPassword(p) \/ FindToken(p) \/ TouchToken(p) \/ FindOwner(p)

CredentialsNext ==
  \/ \E p \in Requests, op \in Operations, scheme \in {"basic", "bearer"},
        name \in Users, secret \in Passwords \cup 0..Cardinality(Tokens),
        key \in PublicKeys, id \in 0..keysMade :
        Start(p, op, scheme, name, secret, key, id)
  \/ \E p \in Requests : \/ Authenticate(p) \/ InsertToken(p)
                         \/ ListSshKeys(p) \/ AddSshKey(p)
                         \/ DeleteSshKey(p) \/ Audit(p) \/ Fail(p)

CredentialsSpec == CredentialsInit /\ [][CredentialsNext]_credentialsVars
-----------------------------------------------------------------------------
CredentialsTypeOK ==
  /\ Tokens \subseteq 1..MaxRequests
  /\ tokens \in [Tokens -> Users]
  /\ used \subseteq Tokens
  /\ DOMAIN keys \subseteq KeyIds
  /\ \A k \in DOMAIN keys : keys[k][1] \in Users /\ keys[k][2] \in PublicKeys
  /\ keysMade \in 0..MaxRequests
  /\ req \in [Requests -> Request]
  /\ started \in Nat

(* The users whose credentials a request carries.                          *)
Presented(q) ==
  {u \in Users :
     \/ q.scheme = "basic" /\ q.name = u /\ Password[u] = q.secret
     \/ /\ q.secret \in Tokens
        /\ tokens[q.secret] = u
        /\ q.scheme = "basic" => q.name = u}

TokensOf(u) == {t \in Tokens : tokens[t] = u}
KeysOf(u) == {k \in DOMAIN keys : keys[k][1] = u}

(* What a step may change, and by whom it is done.                         *)
BindsCredentials ==
  \A u \in Users :
    /\ TokensOf(u) \subseteq TokensOf(u)'
    /\ TokensOf(u) # TokensOf(u)' \/ KeysOf(u) # KeysOf(u)' =>
         \E p \in Requests : req'[p] # req[p] /\ u \in Presented(req[p])

(* Tokens and SSH keys of a user come, and SSH keys go, only by a request  *)
(* that carried the user's own password or one of the user's tokens, under *)
(* the user's name where it gave one; tokens, which may have been issued   *)
(* for a token, never go.                                                  *)
CredentialsBind == [][BindsCredentials]_credentialsVars
=============================================================================
