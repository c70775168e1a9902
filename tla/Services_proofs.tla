-------------------------- MODULE Services_proofs --------------------------
(***************************************************************************)
(* Proofs about MCServices, for every number of requests, users, packages, *)
(* teams, pages, releases, webhooks, tokens and projects.  The components  *)
(* share no state, so each has an invariant of its own, under the          *)
(* condition that it is the one that runs; what the steps of the others    *)
(* leave alone is one lemma.  The output of git and the SQL script come    *)
(* next, of any length, with the lemmas on texts both need, and last the   *)
(* types of all the tables.                                                *)
(***************************************************************************)
EXTENDS MCServices, FiniteSetTheorems, SequenceTheorems, WellFoundedInduction,
        TLAPS

(* A behaviour runs one component: its steps, and none of another.         *)
LEMMA OneComponent ==
  ASSUME [Next]_vars
  PROVE  /\ component' = component
         /\ component = "registry" => [Reg!RegistryNext]_Reg!registryVars
         /\ component = "teams" => [Tea!TeamsNext]_Tea!teamsVars
         /\ component = "projects" => [Pro!ProjectsNext]_Pro!projectsVars
         /\ component = "releases" => [Rel!ReleasesNext]_Rel!releasesVars
         /\ component = "webhooks" => [Web!WebhooksNext]_Web!webhooksVars
         /\ component = "wiki" => [Wik!WikiNext]_Wik!wikiVars
         /\ component = "credentials" =>
              [Cre!CredentialsNext]_Cre!credentialsVars
<1>1. CASE UNCHANGED vars
  BY <1>1 DEF vars, Requesting, Repository, RegistryTables, TeamTables,
     WebhookTables, WikiTables, CredentialTables, Reg!registryVars,
     Tea!teamsVars, Pro!projectsVars, Rel!releasesVars, Web!webhooksVars,
     Wik!wikiVars, Cre!credentialsVars
<1>2. CASE Next
  BY <1>2 DEF Next, RegistryStep, TeamsStep, ProjectsStep, ReleasesStep,
     WebhooksStep, WikiStep, CredentialsStep, SqlStep, CgiStep
<1> QED BY <1>1, <1>2

(* ... and they leave the tables of the others alone.                      *)
LEMMA OthersUnchanged ==
  ASSUME [Next]_vars
  PROVE  /\ component \notin {"registry", "teams"} => UNCHANGED members
         /\ component # "registry" => UNCHANGED <<packages, versions>>
         /\ component # "teams" => UNCHANGED <<teams, teamMembers>>
         /\ component # "projects" => UNCHANGED projects
         /\ component # "releases" => UNCHANGED releases
         /\ component # "credentials" => UNCHANGED <<tokens, keys>>
<1>1. CASE UNCHANGED vars
  BY <1>1 DEF vars, RegistryTables, TeamTables, CredentialTables
<1>2. CASE Next
  BY <1>2 DEF Next, RegistryStep, TeamsStep, ProjectsStep, ReleasesStep,
     WebhooksStep, WikiStep, CredentialsStep, SqlStep, CgiStep,
     RegistryTables, TeamTables, CredentialTables
<1> QED BY <1>1, <1>2

(* A step that changes one slot keeps what is true of all of them.         *)
LEMMA SlotsStay ==
  ASSUME NEW Fine, req \in [Requests -> Fine], NEW p \in Requests,
         NEW record \in Fine, Becomes(p, record)
  PROVE  /\ req' \in [Requests -> Fine]
         /\ req'[p] = record
         /\ \A q \in Requests \ {p} : req'[q] = req[q]
  BY DEF Becomes
-----------------------------------------------------------------------------
(***************************************************************************)
(* The wiki: the invariant of Wiki_proofs while the wiki runs.             *)
(***************************************************************************)
(* The lemmas of Wiki_proofs, for the constants used here.                 *)
LEMMA WikiLemmas ==
  /\ Wik!WikiInit => Wik!WikiInv
  /\ Wik!WikiInv /\ [Wik!WikiNext]_Wik!wikiVars => Wik!WikiInv'
<1> USE AccessAssumption, ServingAssumption, RepositoryServingAssumption
    DEF Owners, Memberships, Roles, Wik!Owners, Wik!Memberships, Wik!Roles
<1>1. Wik!WikiInit => Wik!WikiInv
  BY Wik!InitInv
<1>2. Wik!WikiInv /\ [Wik!WikiNext]_Wik!wikiVars => Wik!WikiInv'
  BY Wik!NextInv
<1> QED BY <1>1, <1>2

(* The invariant of the wiki, of its behaviours among the others.          *)
LEMMA WikiInvariant == Spec => [](component = "wiki" => Wik!WikiInv)
<1>1. Init => (component = "wiki" => Wik!WikiInv)
  BY WikiLemmas DEF Init
<1>2. (component = "wiki" => Wik!WikiInv) /\ [Next]_vars
        => (component = "wiki" => Wik!WikiInv)'
  BY WikiLemmas, OneComponent
<1> QED BY <1>1, <1>2, PTL DEF Spec

(* A version counts the writes of its page, unless two upserts overlapped  *)
(* between read and write or one came from an earlier repository of the    *)
(* same name.                                                              *)
THEOREM VersionCountsWritesAlways == Spec => []VersionCountsWrites
<1>1. (component = "wiki" => Wik!WikiInv) => VersionCountsWrites
  BY DEF VersionCountsWrites, Wik!WikiInv
<1> QED BY <1>1, WikiInvariant, PTL

(* Overlapping upserts never make a version larger than the number of      *)
(* writes, and never take the version of a page away.                      *)
THEOREM VersionIsBoundedAlways == Spec => []VersionIsBounded
<1>1. (component = "wiki" => Wik!WikiInv) => VersionIsBounded
  BY DEF VersionIsBounded, Wik!WikiInv
<1> QED BY <1>1, WikiInvariant, PTL
-----------------------------------------------------------------------------
(***************************************************************************)
(* The registry: the invariant of Registry_proofs while the registry runs, *)
(* and its refinement; otherwise nothing is published, though the teams    *)
(* component, too, adds members to organizations.                          *)
(***************************************************************************)
(* The lemmas of Registry_proofs, for the constants used here.             *)
LEMMA RegistryLemmas ==
  /\ Reg!RegistryInit => Reg!RegistryInv
  /\ Reg!RegistryInv /\ [Reg!RegistryNext]_Reg!registryVars
       => Reg!RegistryInv'
  /\ Reg!RegistryInv /\ Reg!RegistryInv' /\ [Reg!RegistryNext]_Reg!registryVars
       => [Reg!Published!Write \/ Reg!Published!Grant]_<<versions, Reg!Publishers>>
<1> USE AccessAssumption, ServingAssumption, OrganizationServingAssumption
    DEF Owners, Memberships, Roles, Reg!Owners, Reg!Memberships, Reg!Roles
<1>1. Reg!RegistryInit => Reg!RegistryInv
  BY Reg!InitInv
<1>2. Reg!RegistryInv /\ [Reg!RegistryNext]_Reg!registryVars
        => Reg!RegistryInv'
  BY Reg!NextInv
<1>3. Reg!RegistryInv /\ Reg!RegistryInv'
        /\ [Reg!RegistryNext]_Reg!registryVars
        => [Reg!Published!Write \/ Reg!Published!Grant]_<<versions, Reg!Publishers>>
  BY Reg!StepMaps
<1> QED BY <1>1, <1>2, <1>3

(* The invariant of the registry, of its behaviours among the others.      *)
LEMMA RegistryInvariant ==
  Spec => [](component = "registry" => Reg!RegistryInv)
<1>1. Init => (component = "registry" => Reg!RegistryInv)
  BY RegistryLemmas DEF Init
<1>2. (component = "registry" => Reg!RegistryInv) /\ [Next]_vars
        => (component = "registry" => Reg!RegistryInv)'
  BY RegistryLemmas, OneComponent
<1> QED BY <1>1, <1>2, PTL DEF Spec

(* A list of all packages shows exactly what its reader may see, whoever   *)
(* joins an organization while it is filtered.                             *)
THEOREM ListingIsExactAlways == Spec => []ListingIsExact
<1>1. (component = "registry" => Reg!RegistryInv) => ListingIsExact
  BY DEF ListingIsExact, Reg!RegistryInv
<1> QED BY <1>1, RegistryInvariant, PTL

(* A published version is never changed or withdrawn, and comes from       *)
(* somebody who may write to its scope, however publishers race.           *)
THEOREM VersionsArePermanentAlways == Spec => VersionsArePermanent
<1>1. Init => Reg!Published!Init
  BY DEF Init, Reg!RegistryInit, Reg!Published!Init, Reg!Published!Empty,
         Reg!Publishers
<1>2. (component = "registry" => Reg!RegistryInv)
      /\ (component = "registry" => Reg!RegistryInv)' /\ [Next]_vars
        => [Reg!Published!Write \/ Reg!Published!Grant]_<<versions, Reg!Publishers>>
  <2> SUFFICES ASSUME component = "registry" => Reg!RegistryInv,
                      (component = "registry" => Reg!RegistryInv)',
                      [Next]_vars
               PROVE  [Reg!Published!Write \/ Reg!Published!Grant]_
                        <<versions, Reg!Publishers>>
    OBVIOUS
  <2>1. CASE component = "registry"
    BY <2>1, RegistryLemmas, OneComponent
  <2>2. CASE component # "registry"
    <3>1. UNCHANGED versions /\ (UNCHANGED members \/ members \subseteq members')
      BY <2>2, OneComponent, OthersUnchanged
         DEF Tea!TeamsNext, Tea!JoinOrganization, Tea!AddMember, Tea!Start,
             Tea!Serve, Tea!Readable, Tea!Writable, Tea!ReadableOrganization,
             Tea!WritableOrganization, Tea!InsertTeam, Tea!FindTeam,
             Tea!ListRows, Tea!FindUser, Tea!IsMemberOfOrganization,
             Tea!InsertMember, Tea!Audit, Tea!Fail, Tea!TablesUnchanged,
             Tea!teamsVars
    <3>2. CASE UNCHANGED members
      BY <3>1, <3>2 DEF Reg!Publishers, Reg!MayWriteScope, Reg!OwnScope,
                        Reg!MayWriteOrganization
    <3>3. CASE members \subseteq members'
      BY <3>1, <3>3 DEF Reg!Published!Grant, Reg!Publishers,
         Reg!MayWriteScope, Reg!OwnScope, Reg!MayWriteOrganization
    <3> QED BY <3>1, <3>2, <3>3
  <2> QED BY <2>1, <2>2
<1> QED BY <1>1, <1>2, RegistryInvariant, PTL
        DEF Spec, VersionsArePermanent, Reg!VersionsArePermanent,
            Reg!Published!Spec
-----------------------------------------------------------------------------
(***************************************************************************)
(* The releases.  Whoever comes to look for the tag, or to insert, may     *)
(* write: members and owner of the repository do not change.  There are no *)
(* releases without the repository.                                        *)
(***************************************************************************)
ReleaseRequests ==
  {q \in Rel!Request :
     q = Idle \/ /\ q.op = "create" => q.actor \in Users
                 /\ q.step = "insert" => q.op = "create"
                 /\ q.op = "create" /\ q.step \in {"find", "insert"} =>
                      MayWrite(q.actor)}

ReleasesInv ==
  /\ repo = 0 => releases = Rel!NoReleases
  /\ IF component = "releases"
       THEN req \in [Requests -> ReleaseRequests] /\ repo \in Nat /\ made \in Nat
       ELSE releases = Rel!NoReleases

(* The record of a request that is being served, one step on.              *)
LEMMA ReleaseMovesOn ==
  ASSUME NEW q \in ReleaseRequests, q.step # "idle",
         NEW step \in Rel!Steps \ {"insert"},
         q.op = "create" /\ step = "find" => MayWrite(q.actor),
         NEW n \in Nat
  PROVE  /\ [q EXCEPT !.step = step] \in ReleaseRequests
         /\ [q EXCEPT !.seen = n, !.step = step] \in ReleaseRequests
<1> DEFINE Records == Rel!Request \ {Rel!Idle}
           moved == [q EXCEPT !.step = step]
           bound == [q EXCEPT !.seen = n, !.step = step]
<1>1. q \in Records /\ (q.op = "create" => q.actor \in Users)
  BY DEF ReleaseRequests, Rel!Request, Rel!Idle, Idle
<1>2. /\ moved \in Records /\ moved.step = step
      /\ moved.op = q.op /\ moved.actor = q.actor
  BY <1>1 DEF Rel!Request, Rel!Idle, Rel!Steps
<1>3. /\ bound \in Records /\ bound.step = step
      /\ bound.op = q.op /\ bound.actor = q.actor
  BY <1>1 DEF Rel!Request, Rel!Idle, Rel!Steps
<1> HIDE DEF moved, bound
<1>4. moved \in ReleaseRequests /\ bound \in ReleaseRequests
  BY <1>1, <1>2, <1>3 DEF ReleaseRequests
<1> QED BY <1>4 DEF moved, bound

(* Who may write and has found no release comes to the INSERT.             *)
LEMMA ReleaseInserts ==
  ASSUME NEW q \in ReleaseRequests, q.step = "find", q.op = "create"
  PROVE  [q EXCEPT !.step = "insert"] \in ReleaseRequests
  BY DEF ReleaseRequests, Rel!Request, Rel!Idle, Idle, Rel!Steps

(* An idle slot carries no obligation.                                     *)
LEMMA ReleaseAnswers ==
  Rel!Idle \in ReleaseRequests /\ Idle \in ReleaseRequests
  BY DEF ReleaseRequests, Rel!Request, Rel!Idle, Idle

(* Every step of a request keeps the requests of this kind.                *)
LEMMA ReleaseRequestsStay ==
  ASSUME req \in [Requests -> ReleaseRequests], repo \in Nat, made \in Nat,
         Rel!ReleasesNext
  PROVE  req' \in [Requests -> ReleaseRequests] /\ repo' \in Nat /\ made' \in Nat
<1> DEFINE Kept == /\ req' \in [Requests -> ReleaseRequests]
                   /\ repo' \in Nat /\ made' \in Nat
<1> USE DEF Rel!At
<1>1. ASSUME NEW p \in Requests, Rel!Answer(p), UNCHANGED <<repo, made>>
      PROVE  Kept
  BY <1>1, ReleaseAnswers, SlotsStay DEF Rel!Answer, Rel!Becomes, Becomes
<1>2. ASSUME NEW p \in Requests, NEW record \in ReleaseRequests,
             Rel!Becomes(p, record), UNCHANGED <<repo, made>>
      PROVE  Kept
  BY <1>2, SlotsStay DEF Rel!Becomes, Becomes
<1>3. CASE Rel!CreateRepository \/ Rel!DeleteRepository
  BY <1>3 DEF Rel!CreateRepository, Rel!DeleteRepository, Rel!Incarnate,
              Rel!Discard
<1>4. ASSUME NEW p \in Requests, NEW op \in {"list", "get", "create"},
             NEW u \in Actors, NEW tag \in Tags, NEW notes \in Notes,
             Rel!Start(p, op, u, tag, notes)
      PROVE  Kept
  <2> DEFINE record == [step |-> "visible", op |-> op, actor |-> u, tag |-> tag,
                        notes |-> notes, seen |-> 0]
  <2>1. record \in ReleaseRequests
    BY <1>4 DEF Rel!Start, ReleaseRequests, Rel!Request, Rel!Steps, Actors,
                Rel!Actors
  <2>2. Rel!Becomes(p, record) /\ UNCHANGED <<repo, made>>
    BY <1>4 DEF Rel!Start, Rel!Arrive, Rel!RepositoryUnchanged
  <2> HIDE DEF record
  <2> QED BY <1>2, <2>1, <2>2
<1>5. ASSUME NEW p \in Requests, Rel!Visible(p)
      PROVE  Kept
  <2> DEFINE step == Rel!FirstStep(req[p].op)
             record == [req[p] EXCEPT !.seen = repo, !.step = step]
  <2>1. req[p] \in ReleaseRequests /\ req[p].step = "visible"
    BY <1>5 DEF Rel!Visible, Rel!VisibleRepository
  <2>2. /\ step \in Rel!Steps \ {"insert"}
        /\ ~(req[p].op = "create" /\ step = "find")
    BY DEF Rel!FirstStep, Rel!Steps
  <2>3. record \in ReleaseRequests
    BY <2>1, <2>2, ReleaseMovesOn
  <2>4. (Rel!Answer(p) \/ Rel!Becomes(p, record)) /\ UNCHANGED <<repo, made>>
    BY <1>5 DEF Rel!Visible, Rel!VisibleRepository, Rel!RepositoryUnchanged
  <2> HIDE DEF record
  <2> QED BY <1>1, <1>2, <2>3, <2>4
<1>6. ASSUME NEW p \in Requests, Rel!Writable(p)
      PROVE  Kept
  <2> DEFINE record == [req[p] EXCEPT !.step = "find"]
  <2>1. req[p] \in ReleaseRequests /\ req[p].step = "writable"
    BY <1>6 DEF Rel!Writable, Rel!WritableRepository
  <2>2. /\ Rel!Answer(p) \/ (Rel!Becomes(p, record) /\ MayWrite(req[p].actor))
        /\ UNCHANGED <<repo, made>>
    BY <1>6 DEF Rel!Writable, Rel!WritableRepository, Rel!RepositoryUnchanged,
                Rel!GoTo, Rel!MayWrite, Rel!CanWriteOwner, MayWrite, CanWriteOwner
  <2>3. MayWrite(req[p].actor) => record \in ReleaseRequests
    BY <2>1, ReleaseMovesOn DEF Rel!Steps
  <2> HIDE DEF record
  <2> QED BY <1>1, <1>2, <2>2, <2>3
<1>7. ASSUME NEW p \in Requests, Rel!Find(p)
      PROVE  Kept
  <2> DEFINE record == [req[p] EXCEPT !.step = "insert"]
  <2>1. req[p] \in ReleaseRequests /\ req[p].step = "find"
    BY <1>7 DEF Rel!Find
  <2>2. /\ Rel!Answer(p) \/ (Rel!Becomes(p, record) /\ req[p].op = "create")
        /\ UNCHANGED <<repo, made>>
    BY <1>7 DEF Rel!Find, Rel!RepositoryUnchanged, Rel!GoTo
  <2>3. req[p].op = "create" => record \in ReleaseRequests
    BY <2>1, ReleaseInserts
  <2> HIDE DEF record
  <2> QED BY <1>1, <1>2, <2>2, <2>3
<1>8. ASSUME NEW p \in Requests, Rel!Insert(p)
      PROVE  Kept
  <2> DEFINE record == [req[p] EXCEPT !.step = "audit"]
  <2>1. req[p] \in ReleaseRequests /\ req[p].step = "insert"
    BY <1>8 DEF Rel!Insert
  <2>2. /\ Rel!Answer(p) \/ Rel!Becomes(p, record)
        /\ UNCHANGED <<repo, made>>
    BY <1>8 DEF Rel!Insert, Rel!RepositoryUnchanged, Rel!Touch, Rel!GoTo
  <2>3. record \in ReleaseRequests
    BY <2>1, ReleaseMovesOn DEF Rel!Steps
  <2> HIDE DEF record
  <2> QED BY <1>1, <1>2, <2>2, <2>3
<1>9. ASSUME NEW p \in Requests, Rel!ListReleases(p) \/ Rel!Audit(p) \/ Rel!Fail(p)
      PROVE  Rel!Answer(p) /\ UNCHANGED <<repo, made>>
  BY <1>9 DEF Rel!ListReleases, Rel!Audit, Rel!Fail, Rel!Record, Rel!Drop,
              Rel!RepositoryUnchanged
<1> QED BY <1>1, <1>3, <1>4, <1>5, <1>6, <1>7, <1>8, <1>9
        DEF Rel!ReleasesNext, Rel!Actors, Actors

(* Every step keeps the invariant.                                         *)
LEMMA ReleasesInvariant == Spec => []ReleasesInv
<1>1. Init => ReleasesInv
  BY ReleaseAnswers
     DEF Init, Rel!ReleasesInit, Rel!ServingInit, Rel!RepositoryInit, ReleasesInv
<1>2. ReleasesInv /\ [Next]_vars => ReleasesInv'
  <2> SUFFICES ASSUME ReleasesInv, [Next]_vars PROVE ReleasesInv'
    OBVIOUS
  <2>1. CASE component # "releases"
    BY <2>1, OneComponent, OthersUnchanged DEF ReleasesInv
  <2>2. CASE component = "releases"
    <3>1. CASE UNCHANGED Rel!releasesVars
      BY <2>2, <3>1, OneComponent DEF ReleasesInv, Rel!releasesVars
    <3>2. CASE Rel!ReleasesNext
      <4>1. req' \in [Requests -> ReleaseRequests] /\ repo' \in Nat /\ made' \in Nat
        BY <2>2, <3>2, ReleaseRequestsStay DEF ReleasesInv
      <4>2. repo' = 0 => releases' = Rel!NoReleases
        BY <2>2, <3>2
           DEF ReleasesInv, Rel!ReleasesNext, Rel!CreateRepository, Rel!Incarnate,
               Rel!DeleteRepository, Rel!Start, Rel!Visible, Rel!Writable,
               Rel!ListReleases, Rel!Find, Rel!Insert, Rel!Audit, Rel!Fail,
               Rel!Touch, Rel!RepositoryUnchanged, Rel!VisibleRepository,
               Rel!WritableRepository
      <4> QED BY <2>2, <4>1, <4>2, OneComponent DEF ReleasesInv
    <3> QED BY <2>2, <3>1, <3>2, OneComponent
  <2> QED BY <2>1, <2>2
<1> QED BY <1>1, <1>2, PTL DEF Spec

(* A release is made once, by a writer, and never changes: what looked for *)
(* the tag and the UNIQUE of the INSERT together, whoever races, and       *)
(* releases disappear only with their repository.                          *)
THEOREM ReleasesArePermanentAlways == Spec => ReleasesArePermanent
<1> DEFINE Store == IF repo \in stale THEN Rel!NoReleases ELSE releases
<1>1. Init => Rel!Published!Init
  BY DEF Init, Rel!ReleasesInit, Rel!RepositoryInit, Rel!Published!Init,
         Rel!Published!Empty, Rel!Publishers, Rel!NoReleases
<1>2. ReleasesInv /\ [Next]_vars
        => [Rel!Published!Write \/ Rel!Published!Grant \/ Rel!Published!Clear
           ]_<<Store, Rel!Publishers>>
  <2> SUFFICES ASSUME ReleasesInv, [Next]_vars,
                      Store' # Store
               PROVE  Rel!Published!Write \/ Rel!Published!Clear
    BY DEF Rel!Publishers, Rel!MayWrite, Rel!CanWriteOwner
  <2>1. Rel!Publishers' = Rel!Publishers
    BY DEF Rel!Publishers, Rel!MayWrite, Rel!CanWriteOwner
  <2>2. component = "releases" /\ Rel!ReleasesNext
    BY OneComponent, OthersUnchanged DEF ReleasesInv, Rel!releasesVars
  <2>3. CASE Rel!CreateRepository \/ Rel!DeleteRepository
    BY <2>1, <2>3 DEF ReleasesInv, Rel!CreateRepository, Rel!Incarnate,
       Rel!DeleteRepository, Rel!Discard, Rel!Published!Clear,
       Rel!Published!Empty, Rel!NoReleases
  <2>4. ASSUME NEW p \in Requests, Rel!Insert(p)
        PROVE  Rel!Published!Write \/ Rel!Published!Clear
    <3>1. /\ repo' = repo /\ repo # 0 /\ Rel!Touch(p)
          /\ req[p].tag \notin DOMAIN releases /\ releases' = Rel!Added(p)
      BY <2>4 DEF Rel!Insert, Rel!RepositoryUnchanged, Rel!Touch
    <3>2. CASE repo \in stale'
      BY <2>1, <3>1, <3>2 DEF Rel!Published!Clear, Rel!Published!Empty,
                              Rel!NoReleases
    <3>3. CASE repo \notin stale'
      <4>1. repo \notin stale
        BY <3>1, <3>3 DEF Rel!Touch
      <4>2. req[p] \in ReleaseRequests /\ req[p].step = "insert"
        BY <2>2, <2>4 DEF Rel!Insert, Rel!At, ReleasesInv
      <4>3. /\ req[p].tag \in Tags /\ req[p].notes \in Notes
            /\ req[p].actor \in Users /\ MayWrite(req[p].actor)
        BY <4>2 DEF ReleaseRequests, Rel!Request, Idle, Rel!Idle
      <4>4. <<req[p].tag, req[p].actor>> \in Rel!Publishers
        BY <4>3 DEF Rel!Publishers, Rel!MayWrite, Rel!CanWriteOwner, MayWrite,
                    CanWriteOwner
      <4>5. Rel!Published!Put(req[p].tag, req[p].actor, req[p].notes)
        BY <2>1, <3>1, <3>3, <4>1, <4>4 DEF Rel!Published!Put, Rel!Added
      <4> QED BY <4>3, <4>5 DEF Rel!Published!Write
    <3> QED BY <3>1, <3>2, <3>3
  <2>5. Rel!CreateRepository \/ Rel!DeleteRepository \/ \E p \in Requests : Rel!Insert(p)
    BY <2>2 DEF Rel!ReleasesNext, Rel!Start, Rel!Visible, Rel!Writable,
       Rel!ListReleases, Rel!Find, Rel!Audit, Rel!Fail, Rel!RepositoryUnchanged,
       Rel!VisibleRepository, Rel!WritableRepository
  <2> QED BY <2>3, <2>4, <2>5
<1> QED BY <1>1, <1>2, ReleasesInvariant, PTL
        DEF Spec, ReleasesArePermanent, Rel!ReleasesArePermanent,
            Rel!Published!ClearableSpec
-----------------------------------------------------------------------------
(***************************************************************************)
(* The teams.  What a request has found out stays true while others run:   *)
(* organizations and teams gain members and lose none.                     *)
(***************************************************************************)
Writes(q) ==
  \/ q.step = "insert_team"
  \/ q.op = "add_member"
     /\ q.step \in {"find_team", "find_user", "is_member", "insert_member"}

TeamRequests ==
  {q \in Tea!Request :
     q = Idle \/ /\ Writes(q) => MayWriteOrganization(q.actor, q.org)
                 /\ q.step \in {"find_user", "is_member", "insert_member"} =>
                      q.op = "add_member" /\ Tea!Team(q) \in teams
                 /\ q.step = "insert_member" => IsMember(members, q.org, q.user)}

TeamsInv == component = "teams" => req \in [Requests -> TeamRequests]

(* A record keeps its place while the tables grow.                         *)
LEMMA TeamRequestsGrow ==
  ASSUME members \subseteq members', teams \subseteq teams'
  PROVE  TeamRequests \subseteq TeamRequests'
<1>1. \A u, o : MayWriteOrganization(u, o) => MayWriteOrganization(u, o)'
  BY DEF MayWriteOrganization
<1>2. \A u, o : IsMember(members, o, u) => IsMember(members', o, u)
  BY DEF IsMember
<1> QED BY <1>1, <1>2 DEF TeamRequests, Tea!Team, Writes

(* No step removes a member or a team.                                     *)
LEMMA TeamsGrow ==
  ASSUME Tea!TeamsNext
  PROVE  members \subseteq members' /\ teams \subseteq teams'
<1> USE DEF Tea!TablesUnchanged
<1>1. CASE Tea!JoinOrganization
  BY <1>1 DEF Tea!JoinOrganization, Tea!AddMember
<1>2. ASSUME NEW p \in Requests, Tea!Serve(p) \/ Tea!Fail(p)
      PROVE  members' = members /\ teams \subseteq teams'
  BY <1>2 DEF Tea!Serve, Tea!Fail, Tea!Readable, Tea!Writable, Tea!InsertTeam,
     Tea!FindTeam, Tea!ListRows, Tea!FindUser, Tea!IsMemberOfOrganization,
     Tea!InsertMember, Tea!Audit, Tea!ReadableOrganization,
     Tea!WritableOrganization
<1> QED BY <1>1, <1>2 DEF Tea!TeamsNext, Tea!Start

(* The records of the steps that come next.                                *)
LEMMA TeamAnswers == Idle \in TeamRequests /\ Tea!Idle = Idle
  BY DEF TeamRequests, Tea!Request, Tea!Idle, Idle

(* A request goes on with what it has just found out.                      *)
LEMMA TeamMovesOn ==
  ASSUME NEW q \in TeamRequests, q.step # "idle", NEW step \in Tea!Steps,
         \/ step \in {"readable", "writable", "list_teams", "list_members", "audit"}
         \/ step = "insert_team" /\ MayWriteOrganization(q.actor, q.org)
         \/ step = "find_team"
            /\ (q.op = "add_member" => MayWriteOrganization(q.actor, q.org))
         \/ /\ step = "find_user" /\ q.step = "find_team"
            /\ q.op = "add_member" /\ Tea!Team(q) \in teams
         \/ step = "is_member" /\ q.step = "find_user"
         \/ /\ step = "insert_member" /\ q.step = "is_member"
            /\ IsMember(members, q.org, q.user)
  PROVE  [q EXCEPT !.step = step] \in TeamRequests
<1> DEFINE record == [q EXCEPT !.step = step]
<1>1. q \in Tea!Request \ {Idle}
  BY DEF TeamRequests, Idle
<1>2. /\ record \in Tea!Request /\ record.step = step /\ record.op = q.op
      /\ record.actor = q.actor /\ record.org = q.org /\ record.slug = q.slug
      /\ record.user = q.user
  BY <1>1 DEF Tea!Request, Tea!Idle, Idle
<1> HIDE DEF record
<1>3. Writes(record) => MayWriteOrganization(q.actor, q.org)
  BY <1>1, <1>2 DEF TeamRequests, Writes
<1>4. step \in {"find_user", "is_member", "insert_member"} =>
        q.op = "add_member" /\ Tea!Team(q) \in teams
  BY <1>1 DEF TeamRequests
<1>5. step = "insert_member" => IsMember(members, q.org, q.user)
  OBVIOUS
<1>6. record \in TeamRequests
  BY <1>2, <1>3, <1>4, <1>5 DEF TeamRequests, Tea!Team
<1> QED BY <1>6 DEF record

(* Every step of a request keeps the requests of this kind.                *)
LEMMA TeamRequestsStay ==
  ASSUME req \in [Requests -> TeamRequests], Tea!TeamsNext
  PROVE  req' \in [Requests -> TeamRequests']
<1> USE DEF Tea!At
<1>1. TeamRequests \subseteq TeamRequests'
  BY TeamsGrow, TeamRequestsGrow
<1>2. ASSUME NEW p \in Requests, Tea!Answer(p)
      PROVE  req' \in [Requests -> TeamRequests]
  BY <1>2, TeamAnswers, SlotsStay DEF Tea!Answer, Tea!Becomes, Becomes
<1>3. ASSUME NEW p \in Requests, NEW step \in Tea!Steps,
             [req[p] EXCEPT !.step = step] \in TeamRequests, Tea!GoTo(p, step)
      PROVE  req' \in [Requests -> TeamRequests]
  <2> DEFINE record == [req[p] EXCEPT !.step = step]
  <2>1. Becomes(p, record)
    BY <1>3 DEF Tea!GoTo, Tea!Becomes, Becomes
  <2> HIDE DEF record
  <2> QED BY <1>3, <2>1, SlotsStay DEF record
<1>4. CASE Tea!JoinOrganization
  BY <1>1, <1>4 DEF Tea!JoinOrganization, Tea!AddMember
<1>5. ASSUME NEW p \in Requests, NEW op \in Tea!Operations, NEW u \in Users,
             NEW o \in Tea!Owners, NEW slug \in TeamSlugs, NEW user \in Usernames,
             Tea!Start(p, op, u, o, slug, user)
      PROVE  req' \in [Requests -> TeamRequests]
  <2> DEFINE record == [step |-> "readable", op |-> op, actor |-> u, org |-> o,
                        slug |-> slug, user |-> user]
  <2>1. record \in TeamRequests
    BY DEF TeamRequests, Tea!Request, Tea!Steps, Writes
  <2>2. Becomes(p, record)
    BY <1>5 DEF Tea!Start, Tea!Arrive, Tea!Becomes, Becomes
  <2> HIDE DEF record
  <2> QED BY <2>1, <2>2, SlotsStay
<1>6. ASSUME NEW p \in Requests, Tea!Readable(p)
      PROVE  req' \in [Requests -> TeamRequests]
  <2> DEFINE step == Tea!AfterReadable(req[p].op)
  <2>1. req[p] \in TeamRequests /\ req[p].step = "readable"
        /\ (Tea!GoTo(p, step) \/ Tea!Answer(p))
    BY <1>6 DEF Tea!Readable, Tea!ReadableOrganization
  <2>2. /\ \/ step \in {"list_teams", "writable"}
           \/ step = "find_team" /\ req[p].op # "add_member"
        /\ step \in Tea!Steps
    BY DEF Tea!AfterReadable, Tea!Steps
  <2> HIDE DEF step
  <2>3. [req[p] EXCEPT !.step = step] \in TeamRequests
    BY <2>1, <2>2, TeamMovesOn
  <2> QED BY <1>2, <1>3, <2>1, <2>2, <2>3
<1>7. ASSUME NEW p \in Requests, Tea!Writable(p)
      PROVE  req' \in [Requests -> TeamRequests]
  <2> DEFINE step == IF req[p].op = "create_team" THEN "insert_team"
                                                  ELSE "find_team"
  <2>1. CASE Tea!Answer(p)
    BY <1>2, <2>1
  <2>2. CASE ~Tea!Answer(p)
    <3>1. req[p] \in TeamRequests /\ req[p].step = "writable"
          /\ Tea!GoTo(p, step) /\ MayWriteOrganization(req[p].actor, req[p].org)
      BY <1>7, <2>2 DEF Tea!Writable, Tea!WritableOrganization,
                        Tea!MayWriteOrganization, MayWriteOrganization
    <3>2. step \in {"insert_team", "find_team"} /\ step \in Tea!Steps
      BY DEF Tea!Steps
    <3> HIDE DEF step
    <3>3. [req[p] EXCEPT !.step = step] \in TeamRequests
      BY <3>1, <3>2, TeamMovesOn
    <3> QED BY <1>3, <3>1, <3>2, <3>3
  <2> QED BY <2>1, <2>2
<1>8. ASSUME NEW p \in Requests, Tea!InsertTeam(p) \/ Tea!InsertMember(p)
      PROVE  req' \in [Requests -> TeamRequests]
  <2>1. req[p] \in TeamRequests /\ req[p].step # "idle"
        /\ (Tea!GoTo(p, "audit") \/ Tea!Answer(p))
    BY <1>8 DEF Tea!InsertTeam, Tea!InsertMember
  <2>2. [req[p] EXCEPT !.step = "audit"] \in TeamRequests
    BY <2>1, TeamMovesOn DEF Tea!Steps
  <2> QED BY <1>2, <1>3, <2>1, <2>2 DEF Tea!Steps
<1>9. ASSUME NEW p \in Requests, Tea!FindTeam(p)
      PROVE  req' \in [Requests -> TeamRequests]
  <2> DEFINE step == IF req[p].op = "add_member" THEN "find_user"
                                                 ELSE "list_members"
  <2>1. req[p] \in TeamRequests /\ req[p].step = "find_team"
        /\ \/ Tea!GoTo(p, step) /\ Tea!Team(req[p]) \in teams
           \/ Tea!Answer(p)
    BY <1>9 DEF Tea!FindTeam
  <2>2. \/ step = "find_user" /\ req[p].op = "add_member"
        \/ step = "list_members"
    OBVIOUS
  <2> HIDE DEF step
  <2>3. step \in Tea!Steps
    BY <2>2 DEF Tea!Steps
  <2>4. Tea!Team(req[p]) \in teams => [req[p] EXCEPT !.step = step] \in TeamRequests
    BY <2>1, <2>2, <2>3, TeamMovesOn
  <2> QED BY <1>2, <1>3, <2>1, <2>3, <2>4
<1>10. ASSUME NEW p \in Requests, Tea!FindUser(p)
       PROVE  req' \in [Requests -> TeamRequests]
  <2>1. req[p] \in TeamRequests /\ req[p].step = "find_user"
        /\ (Tea!GoTo(p, "is_member") \/ Tea!Answer(p))
    BY <1>10 DEF Tea!FindUser
  <2>2. [req[p] EXCEPT !.step = "is_member"] \in TeamRequests
    BY <2>1, TeamMovesOn DEF Tea!Steps
  <2> QED BY <1>2, <1>3, <2>1, <2>2 DEF Tea!Steps
<1>11. ASSUME NEW p \in Requests, Tea!IsMemberOfOrganization(p)
       PROVE  req' \in [Requests -> TeamRequests]
  <2>1. CASE Tea!Answer(p)
    BY <1>2, <2>1
  <2>2. CASE ~Tea!Answer(p)
    <3>1. req[p] \in TeamRequests /\ req[p].step = "is_member"
          /\ Tea!GoTo(p, "insert_member")
          /\ IsMember(members, req[p].org, req[p].user)
      BY <1>11, <2>2 DEF Tea!IsMemberOfOrganization, Tea!IsMember, Tea!Roles,
                         IsMember, Roles
    <3>2. [req[p] EXCEPT !.step = "insert_member"] \in TeamRequests
      BY <3>1, TeamMovesOn DEF Tea!Steps
    <3> QED BY <1>3, <3>1, <3>2 DEF Tea!Steps
  <2> QED BY <2>1, <2>2
<1>12. ASSUME NEW p \in Requests, Tea!ListRows(p) \/ Tea!Audit(p) \/ Tea!Fail(p)
       PROVE  Tea!Answer(p)
  BY <1>12 DEF Tea!ListRows, Tea!Audit, Tea!Fail, Tea!Record, Tea!Drop
<1>13. CASE ~Tea!JoinOrganization
  <2>1. req' \in [Requests -> TeamRequests]
    BY <1>2, <1>5, <1>6, <1>7, <1>8, <1>9, <1>10, <1>11, <1>12, <1>13
       DEF Tea!TeamsNext, Tea!Serve
  <2> QED BY <1>1, <2>1
<1> QED BY <1>4, <1>13

(* Every step keeps the invariant.                                         *)
LEMMA TeamsInvariant == Spec => []TeamsInv
<1>1. Init => TeamsInv
  BY TeamAnswers DEF Init, Tea!TeamsInit, Tea!ServingInit, TeamsInv
<1>2. TeamsInv /\ [Next]_vars => TeamsInv'
  <2> SUFFICES ASSUME TeamsInv, [Next]_vars, component' = "teams"
               PROVE  req' \in [Requests -> TeamRequests']
    BY DEF TeamsInv
  <2>1. req \in [Requests -> TeamRequests] /\ [Tea!TeamsNext]_Tea!teamsVars
    BY OneComponent DEF TeamsInv
  <2>2. CASE UNCHANGED Tea!teamsVars
    <3>1. members \subseteq members' /\ teams \subseteq teams' /\ req' = req
      BY <2>2 DEF Tea!teamsVars
    <3> QED BY <2>1, <3>1, TeamRequestsGrow
  <2> QED BY <2>1, <2>2, TeamRequestsStay
<1> QED BY <1>1, <1>2, PTL DEF Spec

(* A team and its members come from somebody who may write to the          *)
(* organization, and members of a team belong to its organization and find *)
(* the team in place: each was looked up in a call of its own, and holds   *)
(* until the INSERT.                                                       *)
THEOREM TeamsGrowByOwnersAlways == Spec => TeamsGrowByOwners
<1>1. TeamsInv /\ [Next]_vars => [Tea!GrowsByOwner]_Tea!teamsVars
  <2> SUFFICES ASSUME TeamsInv, [Next]_vars,
                      teams' # teams \/ teamMembers' # teamMembers
               PROVE  Tea!GrowsByOwner
    BY DEF Tea!GrowsByOwner
  <2>1. Tea!TeamsNext /\ req \in [Requests -> TeamRequests]
    BY OneComponent, OthersUnchanged DEF Tea!teamsVars, TeamsInv
  <2>2. PICK p \in Requests : Tea!InsertTeam(p) \/ Tea!InsertMember(p)
    BY <2>1 DEF Tea!TeamsNext, Tea!JoinOrganization, Tea!AddMember, Tea!Start,
       Tea!Serve, Tea!Fail, Tea!Readable, Tea!Writable, Tea!FindTeam,
       Tea!ListRows, Tea!FindUser, Tea!IsMemberOfOrganization, Tea!Audit,
       Tea!TablesUnchanged
  <2>3. /\ req[p] \in TeamRequests
        /\ req[p].step \in {"insert_team", "insert_member"}
        /\ req[p].step = "insert_team" => teamMembers' = teamMembers
        /\ req[p].step = "insert_member" => teams' = teams
        /\ teams' \subseteq teams \cup {Tea!Team(req[p])}
        /\ teamMembers' \subseteq teamMembers \cup {Tea!TeamMember(req[p])}
    BY <2>1, <2>2 DEF Tea!InsertTeam, Tea!InsertMember, Tea!At
  <2>4. /\ MayWriteOrganization(req[p].actor, req[p].org)
        /\ req[p].step = "insert_member" =>
             Tea!Team(req[p]) \in teams /\ IsMember(members, req[p].org, req[p].user)
    BY <2>3 DEF TeamRequests, Idle, Writes
  <2>5. req'[p] # req[p]
    <3> DEFINE record == [req[p] EXCEPT !.step = "audit"]
    <3>1. record.step = "audit"
      BY <2>3 DEF TeamRequests, Tea!Request, Tea!Idle, Idle
    <3>2. req' = [req EXCEPT ![p] = record]
      BY <2>2 DEF Tea!InsertTeam, Tea!InsertMember, Tea!GoTo, Tea!Becomes,
                  Tea!At
    <3> HIDE DEF record
    <3>3. req'[p].step = "audit"
      BY <2>1, <3>1, <3>2
    <3> QED BY <2>3, <3>3
  <2>6. ASSUME NEW row \in teamMembers' \ teamMembers
        PROVE  /\ <<row[1], row[2]>> \in teams
               /\ Tea!IsMember(members, row[1], row[3])
               /\ row[1] = req[p].org
    <3>1. row = Tea!TeamMember(req[p]) /\ req[p].step = "insert_member"
      BY <2>3, <2>6
    <3>2. row[1] = req[p].org /\ row[2] = req[p].slug /\ row[3] = req[p].user
      BY <3>1 DEF Tea!TeamMember
    <3> QED BY <2>4, <3>1, <3>2 DEF Tea!Team, Tea!IsMember, IsMember, Tea!Roles,
                                    Roles
  <2>7. ASSUME NEW o, NEW slug, <<o, slug>> \in teams' \ teams
        PROVE  o = req[p].org
    BY <2>3, <2>7 DEF Tea!Team
  <2>8. Tea!MayWriteOrganization(req[p].actor, req[p].org)
    BY <2>4 DEF Tea!MayWriteOrganization, MayWriteOrganization
  <2> QED BY <2>5, <2>6, <2>7, <2>8 DEF Tea!GrowsByOwner
<1> QED BY <1>1, TeamsInvariant, PTL DEF Spec, TeamsGrowByOwners, Tea!TeamsGrowByOwners
-----------------------------------------------------------------------------
(***************************************************************************)
(* The credentials.  Tokens are numbered from 1 and stay with their user,  *)
(* so that a request that was recognized once carries credentials of its   *)
(* principal until it is answered.                                         *)
(***************************************************************************)
CredentialRecord ==
  [step : Cre!Steps, op : Cre!Operations, scheme : {"basic", "bearer"},
   name : Users, secret : Passwords \cup Nat, actor : Actors,
   key : PublicKeys, id : Nat]

CredentialRequests ==
  {Idle} \cup
  {q \in CredentialRecord :
     /\ q.step = "password" => q.scheme = "basic"
     /\ q.step \in {"touch", "owner"} => q.secret \in Cre!Tokens
     /\ q.step \in Cre!Operations \cup {"audit"} => q.actor \in Cre!Presented(q)}

CredentialTablesInv ==
  /\ \E n \in Nat : Cre!Tokens = 1..n
  /\ \A t \in Cre!Tokens : tokens[t] \in Users
  /\ keysMade \in Nat
  /\ DOMAIN keys \subseteq 1..keysMade

CredentialsInv ==
  component = "credentials" =>
    CredentialTablesInv /\ req \in [Requests -> CredentialRequests]

(* Tokens that were issued stay what they are.                             *)
TokensStay ==
  /\ Cre!Tokens \subseteq Cre!Tokens'
  /\ \A t \in Cre!Tokens : tokens'[t] = tokens[t]

(* A record keeps its place while tokens are issued.                       *)
LEMMA CredentialRequestsGrow ==
  ASSUME TokensStay
  PROVE  CredentialRequests \subseteq CredentialRequests'
<1>1. ASSUME NEW q
      PROVE  Cre!Presented(q) \subseteq Cre!Presented(q)'
  BY DEF Cre!Presented, TokensStay
<1> QED BY <1>1 DEF CredentialRequests, TokensStay

(* The records of the steps that come next.                                *)
LEMMA CredentialMovesOn ==
  ASSUME NEW q \in CredentialRequests, q.step # "idle",
         NEW step \in Cre!Steps,
         \/ step = "token"
         \/ step = "touch" /\ q.secret \in Cre!Tokens
         \/ step = "owner" /\ q.step = "touch"
         \/ step = "audit" /\ q.step \in Cre!Operations
  PROVE  [q EXCEPT !.step = step] \in CredentialRequests
<1> DEFINE record == [q EXCEPT !.step = step]
<1>1. q \in CredentialRecord /\ q # Idle
  BY DEF CredentialRequests, Idle
<1>2. /\ record \in CredentialRecord /\ record.step = step
      /\ record.scheme = q.scheme /\ record.name = q.name
      /\ record.secret = q.secret /\ record.actor = q.actor
  BY <1>1 DEF CredentialRecord
<1> HIDE DEF record
<1>3. Cre!Presented(record) = Cre!Presented(q)
  BY <1>2 DEF Cre!Presented
<1>4. step \in {"touch", "owner"} => q.secret \in Cre!Tokens
  BY <1>1 DEF CredentialRequests
<1>5. step = "audit" => q.actor \in Cre!Presented(q)
  BY <1>1 DEF CredentialRequests
<1>6. step \notin Cre!Operations /\ step # "password"
  BY DEF Cre!Operations
<1>7. record \in CredentialRequests
  BY <1>2, <1>3, <1>4, <1>5, <1>6 DEF CredentialRequests
<1> QED BY <1>7 DEF record

(* The record of a request whose principal is known.                       *)
LEMMA CredentialRecognized ==
  ASSUME NEW q \in CredentialRequests, q.step # "idle",
         NEW u \in Cre!Presented(q)
  PROVE  [q EXCEPT !.actor = u, !.step = q.op] \in CredentialRequests
<1> DEFINE record == [q EXCEPT !.actor = u, !.step = q.op]
<1>1. q \in CredentialRecord /\ q # Idle /\ u \in Users
  BY DEF CredentialRequests, Idle, Cre!Presented
<1>2. /\ q.op \in Cre!Operations /\ q.op \in Cre!Steps
  BY <1>1 DEF CredentialRecord, Cre!Operations, Cre!Steps
<1>3. /\ record \in CredentialRecord /\ record.step = q.op
      /\ record.scheme = q.scheme /\ record.name = q.name
      /\ record.secret = q.secret /\ record.actor = u
  BY <1>1, <1>2 DEF CredentialRecord, Actors
<1> HIDE DEF record
<1>4. Cre!Presented(record) = Cre!Presented(q)
  BY <1>3 DEF Cre!Presented
<1>5. record.step \notin {"password", "touch", "owner"}
  BY <1>2, <1>3 DEF Cre!Operations
<1>6. record \in CredentialRequests
  BY <1>3, <1>4, <1>5 DEF CredentialRequests
<1> QED BY <1>6 DEF record

(* An instance of a module has a Cardinality of its own.                   *)
LEMMA CredentialsCardinality ==
  ASSUME NEW S
  PROVE  Cre!Cardinality(S) = Cardinality(S)
  BY ZenonT(10) DEF Cre!Cardinality, Cardinality

(* InsertToken, AddSshKey and DeleteSshKey: what they do to the tables.    *)
LEMMA InsertsToken ==
  ASSUME CredentialTablesInv, NEW p \in Requests, Cre!InsertToken(p),
         NEW a \in Users, a = req[p].actor
  PROVE  /\ CredentialTablesInv' /\ TokensStay
         /\ \A u : u # a => Cre!TokensOf(u)' = Cre!TokensOf(u)
         /\ \A u : Cre!KeysOf(u)' = Cre!KeysOf(u)
<1>1. PICK n \in Nat : Cre!Tokens = 1..n
  BY DEF CredentialTablesInv
<1>2. Cre!Cardinality(Cre!Tokens) = n
  BY <1>1, FS_Interval, CredentialsCardinality
<1>3. /\ tokens' = [k \in (1..n) \cup {n + 1} |->
                      IF k = n + 1 THEN a ELSE tokens[k]]
      /\ UNCHANGED <<keys, keysMade>>
  BY <1>1, <1>2 DEF Cre!InsertToken, Cre!Tokens
<1>4. (1..n) \cup {n + 1} = 1..(n + 1) /\ n + 1 \in Nat /\ n + 1 \notin 1..n
  OBVIOUS
<1>5. Cre!Tokens' = 1..(n + 1)
  BY <1>3, <1>4 DEF Cre!Tokens
<1>6. TokensStay
  BY <1>1, <1>3, <1>4, <1>5 DEF TokensStay
<1>7. CredentialTablesInv'
  BY <1>1, <1>3, <1>4, <1>5 DEF CredentialTablesInv
<1>8. tokens'[n + 1] = a
  BY <1>3
<1>9. ASSUME NEW u, u # a PROVE Cre!TokensOf(u)' = Cre!TokensOf(u)
  BY <1>1, <1>4, <1>5, <1>6, <1>8, <1>9 DEF Cre!TokensOf, TokensStay
<1> QED BY <1>3, <1>6, <1>7, <1>9 DEF Cre!KeysOf

(* What the steps on keys leave alone.                                     *)
LEMMA ChangesKeys ==
  ASSUME CredentialTablesInv, NEW p \in Requests,
         Cre!AddSshKey(p) \/ Cre!DeleteSshKey(p)
  PROVE  /\ CredentialTablesInv' /\ UNCHANGED tokens
         /\ \A u : u # req[p].actor => Cre!KeysOf(u)' = Cre!KeysOf(u)
<1> USE DEF CredentialTablesInv
<1>1. CASE Cre!AddSshKey(p)
  <2>1. CASE UNCHANGED <<tokens, keys, keysMade>>
    BY <2>1 DEF Cre!KeysOf, Cre!Tokens
  <2>2. CASE ~UNCHANGED <<tokens, keys, keysMade>>
    <3> DEFINE id == keysMade + 1
    <3>1. /\ keys' = [k \in DOMAIN keys \cup {id} |->
                        IF k = id THEN <<req[p].actor, req[p].key>> ELSE keys[k]]
          /\ keysMade' = id /\ tokens' = tokens
      BY <1>1, <2>2 DEF Cre!AddSshKey, Cre!TablesUnchanged
    <3>2. id \notin DOMAIN keys /\ id \in Nat /\ DOMAIN keys' \subseteq 1..id
      BY <3>1
    <3> HIDE DEF id
    <3>3. keys'[id][1] = req[p].actor
      BY <3>1
    <3>4. /\ DOMAIN keys' = DOMAIN keys \cup {id}
          /\ \A k \in DOMAIN keys : keys'[k] = keys[k]
      BY <3>1, <3>2
    <3> QED BY <3>1, <3>2, <3>3, <3>4 DEF Cre!KeysOf, Cre!Tokens
  <2> QED BY <2>1, <2>2
<1>2. CASE Cre!DeleteSshKey(p)
  <2>1. /\ DOMAIN keys' \subseteq DOMAIN keys
        /\ \A k \in DOMAIN keys' : keys'[k] = keys[k]
        /\ \A k \in DOMAIN keys \ DOMAIN keys' : keys[k][1] = req[p].actor
        /\ UNCHANGED <<tokens, keysMade>>
    BY <1>2 DEF Cre!DeleteSshKey
  <2> QED BY <2>1 DEF Cre!KeysOf, Cre!Tokens
<1> QED BY <1>1, <1>2

(* An idle slot carries no obligation.                                     *)
LEMMA CredentialAnswers == Idle \in CredentialRequests /\ Cre!Idle = Idle
  BY DEF CredentialRequests, Cre!Idle, Idle

(* A request that is answered, ...                                         *)
LEMMA CredentialAnswerSlot ==
  ASSUME req \in [Requests -> CredentialRequests], NEW p \in Requests,
         Cre!Answer(p)
  PROVE  req' \in [Requests -> CredentialRequests]
  BY CredentialAnswers, SlotsStay DEF Cre!Answer, Cre!Becomes, Becomes

(* ... that goes on as it is, ...                                          *)
LEMMA CredentialGoToSlot ==
  ASSUME req \in [Requests -> CredentialRequests], NEW p \in Requests,
         NEW step \in Cre!Steps, Cre!GoTo(p, step),
         [req[p] EXCEPT !.step = step] \in CredentialRequests
  PROVE  req' \in [Requests -> CredentialRequests]
<1> DEFINE record == [req[p] EXCEPT !.step = step]
<1>1. Becomes(p, record)
  BY DEF Cre!GoTo, Cre!Becomes, Becomes
<1> HIDE DEF record
<1> QED BY <1>1, SlotsStay DEF record

(* ... or whose principal has become known.                                *)
LEMMA CredentialPrincipalSlot ==
  ASSUME req \in [Requests -> CredentialRequests], NEW p \in Requests,
         ~Cre!At(p, "idle"),
         NEW u \in Cre!Presented(req[p]), Cre!Authenticated(p, u)
  PROVE  req' \in [Requests -> CredentialRequests]
<1> DEFINE record == [req[p] EXCEPT !.actor = u, !.step = req[p].op]
<1>1. Becomes(p, record) /\ record \in CredentialRequests
  BY CredentialRecognized DEF Cre!Authenticated, Cre!Becomes, Becomes, Cre!At
<1> HIDE DEF record
<1> QED BY <1>1, SlotsStay

(* Authentication: it ends with one of the users whose credentials the     *)
(* request carries.                                                        *)
LEMMA AuthenticateStep ==
  ASSUME CredentialTablesInv, req \in [Requests -> CredentialRequests],
         NEW p \in Requests, Cre!Authenticate(p)
  PROVE  /\ req' \in [Requests -> CredentialRequests]
         /\ UNCHANGED <<tokens, keys, keysMade>>
<1> USE DEF Cre!At
<1>1. UNCHANGED <<tokens, keys, keysMade>>
  BY DEF Cre!Authenticate, Cre!CheckPassword, Cre!FindToken, Cre!TouchToken,
         Cre!FindOwner, Cre!TablesUnchanged
<1>2. req[p] = Idle \/
        /\ req[p] \in CredentialRecord
        /\ req[p].step = "password" => req[p].scheme = "basic"
        /\ req[p].step \in {"touch", "owner"} => req[p].secret \in Cre!Tokens
  BY DEF CredentialRequests
<1>3. CASE Cre!CheckPassword(p)
  <2>1. req[p].step = "password" /\ req[p].scheme = "basic"
        /\ req[p].name \in Users
    BY <1>2, <1>3 DEF Cre!CheckPassword, Idle, CredentialRecord
  <2>2. CASE Cre!GoTo(p, "token")
    BY <1>1, <2>1, <2>2, CredentialMovesOn, CredentialGoToSlot DEF Cre!Steps
  <2>3. CASE ~Cre!GoTo(p, "token")
    <3>1. Password[req[p].name] = req[p].secret
          /\ Cre!Authenticated(p, req[p].name)
      BY <1>3, <2>3 DEF Cre!CheckPassword
    <3>2. req[p].name \in Cre!Presented(req[p])
      BY <2>1, <3>1 DEF Cre!Presented
    <3> QED BY <1>1, <2>1, <3>1, <3>2, CredentialPrincipalSlot
  <2> QED BY <1>1, <2>2, <2>3
<1>4. CASE Cre!FindToken(p)
  <2>1. CASE Cre!Answer(p)
    BY <1>1, <2>1, CredentialAnswerSlot
  <2>2. CASE ~Cre!Answer(p)
    BY <1>1, <1>4, <2>2, CredentialMovesOn, CredentialGoToSlot
       DEF Cre!FindToken, Cre!Steps
  <2> QED BY <2>1, <2>2
<1>5. CASE Cre!TouchToken(p)
  BY <1>1, <1>5, CredentialMovesOn, CredentialGoToSlot
     DEF Cre!TouchToken, Cre!Steps
<1>6. CASE Cre!FindOwner(p)
  <2> DEFINE u == tokens[req[p].secret]
  <2>1. CASE Cre!Answer(p)
    BY <1>1, <2>1, CredentialAnswerSlot
  <2>2. CASE ~Cre!Answer(p)
    <3>1. /\ req[p].step = "owner" /\ Cre!Authenticated(p, u)
          /\ req[p].scheme = "basic" => u = req[p].name
      BY <1>6, <2>2 DEF Cre!FindOwner
    <3>2. req[p].secret \in Cre!Tokens
      BY <1>2, <3>1 DEF Idle
    <3>3. u \in Cre!Presented(req[p])
      BY <3>1, <3>2 DEF Cre!Presented, CredentialTablesInv
    <3> HIDE DEF u
    <3> QED BY <1>1, <3>1, <3>3, CredentialPrincipalSlot
  <2> QED BY <2>1, <2>2
<1> QED BY <1>1, <1>3, <1>4, <1>5, <1>6 DEF Cre!Authenticate

(* The operations, by a principal whose credentials the request carries.   *)
LEMMA OperationStep ==
  ASSUME req \in [Requests -> CredentialRequests], NEW p \in Requests,
         Cre!InsertToken(p) \/ Cre!AddSshKey(p) \/ Cre!DeleteSshKey(p)
  PROVE  /\ req' \in [Requests -> CredentialRequests]
         /\ req[p].actor \in Cre!Presented(req[p])
         /\ req[p].actor \in Users
         /\ UNCHANGED <<tokens, keys, keysMade>> \/ req'[p] # req[p]
<1>1. /\ req[p].step \in {"create_token", "add_key", "delete_key"}
      /\ Cre!GoTo(p, "audit") \/ Cre!Answer(p)
      /\ \/ Cre!Answer(p) /\ UNCHANGED <<tokens, keys, keysMade>>
         \/ Cre!GoTo(p, "audit")
  BY DEF Cre!InsertToken, Cre!AddSshKey, Cre!DeleteSshKey, Cre!At,
         Cre!TablesUnchanged
<1>2. req[p].actor \in Cre!Presented(req[p]) /\ req[p] \in CredentialRecord
  BY <1>1 DEF CredentialRequests, Idle, Cre!Operations
<1>3. req[p].actor \in Users
  BY <1>2 DEF Cre!Presented
<1> DEFINE record == [req[p] EXCEPT !.step = "audit"]
<1>4. record \in CredentialRequests
  BY <1>1, CredentialMovesOn DEF Cre!Steps, Cre!Operations
<1>5. record.step = "audit"
  BY <1>2 DEF CredentialRecord
<1>6. CASE Cre!GoTo(p, "audit")
  <2>1. Becomes(p, record)
    BY <1>6 DEF Cre!GoTo, Cre!Becomes, Becomes
  <2> HIDE DEF record
  <2>2. req' \in [Requests -> CredentialRequests] /\ req'[p] = record
    BY <1>4, <2>1, SlotsStay
  <2> QED BY <1>1, <1>2, <1>3, <1>5, <2>2
<1>7. CASE ~Cre!GoTo(p, "audit")
  BY <1>1, <1>2, <1>3, <1>7, CredentialAnswerSlot
<1> QED BY <1>6, <1>7

(* Every step keeps the invariant, and changes what belongs to a user only *)
(* by a request with the user's credentials.                               *)
LEMMA CredentialsNextKeeps ==
  ASSUME CredentialTablesInv, req \in [Requests -> CredentialRequests],
         Cre!CredentialsNext
  PROVE  /\ CredentialTablesInv'
         /\ req' \in [Requests -> CredentialRequests']
         /\ Cre!BindsCredentials
<1>1. ASSUME UNCHANGED <<tokens, keys, keysMade>>
      PROVE  /\ CredentialTablesInv' /\ TokensStay /\ Cre!BindsCredentials
  BY <1>1 DEF CredentialTablesInv, TokensStay, Cre!BindsCredentials,
              Cre!Tokens, Cre!TokensOf, Cre!KeysOf
<1>2. ASSUME NEW p \in Requests,
             Cre!InsertToken(p) \/ Cre!AddSshKey(p) \/ Cre!DeleteSshKey(p)
      PROVE  /\ CredentialTablesInv' /\ TokensStay /\ Cre!BindsCredentials
  <2>1. /\ req[p].actor \in Cre!Presented(req[p]) /\ req[p].actor \in Users
        /\ UNCHANGED <<tokens, keys, keysMade>> \/ req'[p] # req[p]
    BY <1>2, OperationStep
  <2>2. /\ CredentialTablesInv' /\ TokensStay
        /\ \A u : u # req[p].actor => /\ Cre!TokensOf(u)' = Cre!TokensOf(u)
                                      /\ Cre!KeysOf(u)' = Cre!KeysOf(u)
    <3>1. CASE Cre!InsertToken(p)
      BY <2>1, <3>1, InsertsToken
    <3>2. CASE ~Cre!InsertToken(p)
      <4>1. /\ CredentialTablesInv' /\ UNCHANGED tokens
            /\ \A u : u # req[p].actor => Cre!KeysOf(u)' = Cre!KeysOf(u)
        BY <1>2, <3>2, ChangesKeys
      <4> QED BY <4>1 DEF TokensStay, Cre!Tokens, Cre!TokensOf
    <3> QED BY <3>1, <3>2
  <2>3. \A u : Cre!TokensOf(u) \subseteq Cre!TokensOf(u)'
    BY <2>2 DEF TokensStay, Cre!TokensOf
  <2>4. CASE req'[p] # req[p]
    BY <2>1, <2>2, <2>3, <2>4 DEF Cre!BindsCredentials
  <2>5. CASE UNCHANGED <<tokens, keys, keysMade>>
    BY <1>1, <2>5
  <2> QED BY <2>1, <2>2, <2>4, <2>5
<1>3. ASSUME NEW p \in Requests, NEW op \in Cre!Operations,
             NEW scheme \in {"basic", "bearer"}, NEW name \in Users,
             NEW secret \in Passwords \cup 0..Cre!Cardinality(Cre!Tokens),
             NEW key \in PublicKeys, NEW id \in 0..keysMade,
             Cre!Start(p, op, scheme, name, secret, key, id)
      PROVE  /\ req' \in [Requests -> CredentialRequests]
             /\ UNCHANGED <<tokens, keys, keysMade>>
  <2> DEFINE record == [step |-> IF scheme = "basic" THEN "password" ELSE "token",
                        op |-> op, scheme |-> scheme, name |-> name,
                        secret |-> secret, actor |-> Anonymous, key |-> key,
                        id |-> id]
  <2>1. secret \in Passwords \cup Nat /\ id \in Nat
    OBVIOUS
  <2>2. /\ record \in CredentialRecord
        /\ record.step = "password" => record.scheme = "basic"
        /\ record.step \in {"password", "token"}
    BY <2>1 DEF CredentialRecord, Cre!Steps, Actors
  <2>3. Becomes(p, record) /\ UNCHANGED <<tokens, keys, keysMade>>
    BY <1>3 DEF Cre!Start, Cre!Arrive, Cre!Becomes, Becomes, Cre!TablesUnchanged
  <2> HIDE DEF record
  <2>4. record \in CredentialRequests
    BY <2>2 DEF CredentialRequests, Cre!Operations
  <2> QED BY <2>3, <2>4, SlotsStay
<1>4. ASSUME NEW p \in Requests,
             Cre!ListSshKeys(p) \/ Cre!Audit(p) \/ Cre!Fail(p)
      PROVE  /\ req' \in [Requests -> CredentialRequests]
             /\ UNCHANGED <<tokens, keys, keysMade>>
  BY <1>4, CredentialAnswerSlot DEF Cre!ListSshKeys, Cre!Audit, Cre!Fail,
     Cre!Record, Cre!Drop, Cre!TablesUnchanged
<1>5. req' \in [Requests -> CredentialRequests]
      /\ CredentialTablesInv' /\ TokensStay /\ Cre!BindsCredentials
  BY <1>1, <1>2, <1>3, <1>4, AuthenticateStep, OperationStep
     DEF Cre!CredentialsNext
<1> QED BY <1>5, CredentialRequestsGrow

(* Every step keeps the invariant.                                         *)
LEMMA CredentialsInvariant == Spec => []CredentialsInv
<1>1. Init => CredentialsInv
  <2> SUFFICES ASSUME Init
               PROVE  CredentialTablesInv /\ req \in [Requests -> CredentialRequests]
    BY DEF CredentialsInv
  <2>1. Cre!Tokens = 1..0 /\ DOMAIN keys = {} /\ keysMade = 0
    BY DEF Init, Cre!CredentialsInit, Cre!NoRows, Cre!Tokens
  <2>2. CredentialTablesInv
    BY <2>1 DEF CredentialTablesInv
  <2> QED BY <2>2, CredentialAnswers
          DEF Init, Cre!CredentialsInit, Cre!ServingInit
<1>2. CredentialsInv /\ [Next]_vars => CredentialsInv'
  <2> SUFFICES ASSUME CredentialsInv, [Next]_vars, component = "credentials"
               PROVE  CredentialTablesInv'
                      /\ req' \in [Requests -> CredentialRequests']
    BY OneComponent DEF CredentialsInv
  <2>1. CASE Cre!CredentialsNext
    BY <2>1, CredentialsNextKeeps DEF CredentialsInv
  <2>2. CASE UNCHANGED Cre!credentialsVars
    <3>1. UNCHANGED <<req, tokens, keys, keysMade>>
      BY <2>2 DEF Cre!credentialsVars
    <3>2. TokensStay
      BY <3>1 DEF TokensStay, Cre!Tokens
    <3> QED BY <3>1, <3>2, CredentialRequestsGrow
            DEF CredentialsInv, CredentialTablesInv, Cre!Tokens
  <2> QED BY <2>1, <2>2, OneComponent
<1> QED BY <1>1, <1>2, PTL DEF Spec

(* Tokens and keys of a user change only by a request that carried the     *)
(* user's own credentials, however long ago they were looked up and        *)
(* whatever was issued meanwhile; tokens never go.                         *)
THEOREM CredentialsBindAlways == Spec => CredentialsBind
<1>1. CredentialsInv /\ [Next]_vars => [Cre!BindsCredentials]_Cre!credentialsVars
  <2> SUFFICES ASSUME CredentialsInv, [Next]_vars, ~UNCHANGED Cre!credentialsVars
               PROVE  Cre!BindsCredentials
    OBVIOUS
  <2>1. CASE component = "credentials"
    BY <2>1, OneComponent, CredentialsNextKeeps DEF CredentialsInv
  <2>2. CASE component # "credentials"
    BY <2>2, OthersUnchanged DEF Cre!BindsCredentials, Cre!TokensOf, Cre!KeysOf,
                                 Cre!Tokens
  <2> QED BY <2>1, <2>2
<1> QED BY <1>1, CredentialsInvariant, PTL
        DEF Spec, CredentialsBind, Cre!CredentialsBind
-----------------------------------------------------------------------------
(***************************************************************************)
(* The projects.  While no request of an earlier repository has spoiled    *)
(* them, their numbers are 1..k; what a creation has read is free of gaps  *)
(* below, so that UNIQUE leaves it nothing but the next number.            *)
(* Incarnations are not used again.                                        *)
(***************************************************************************)
HasMax(numbers) == \E m \in numbers \cup {0} : \A k \in numbers : k <= m

ProjectTables ==
  /\ repo \in Nat /\ made \in Nat /\ repo <= made
  /\ repo = 0 => projects = Pro!NoProjects
  /\ Pro!Numbers \subseteq Nat \ {0}
  /\ HasMax(Pro!Numbers)
  /\ \A n \in Pro!Numbers : projects[n] \in Pro!Project
  /\ repo \notin stale => \E k \in Nat : Pro!Numbers = 1..k

ProjectRequests ==
  {q \in Pro!Request :
     q = Idle \/
       /\ q.op # "list" => q.actor \in Users
       /\ q.seen <= made
       /\ q.step # "visible" => q.seen # 0
       /\ q.step = "writable" => q.op # "list"
       /\ q.step = "update_row" => q.state \in Pro!ProjectState
       /\ q.step \in {"next_number", "insert"} => q.op # "list"
       /\ q.step = "insert" => q.number # 0
       /\ q.step = "insert" /\ q.seen = repo /\ repo \notin stale =>
            1..(q.number - 1) \subseteq Pro!Numbers}

ProjectsInv ==
  IF component = "projects"
    THEN ProjectTables /\ req \in [Requests -> ProjectRequests]
    ELSE projects = Pro!NoProjects

(* A record keeps its place while numbers are given and repositories come  *)
(* and go.                                                                 *)
LEMMA ProjectRequestsGrow ==
  ASSUME made \in Nat, made' \in Nat, made <= made', stale \subseteq stale',
         \/ repo' = repo /\ Pro!Numbers \subseteq Pro!Numbers'
         \/ repo' = 0
         \/ repo' \in Nat /\ made < repo'
  PROVE  ProjectRequests \subseteq ProjectRequests'
<1> SUFFICES ASSUME NEW q \in ProjectRequests, q # Idle
             PROVE  q \in ProjectRequests'
  BY DEF ProjectRequests
<1>1. q.seen \in Nat /\ q.seen <= made
  BY DEF ProjectRequests, Pro!Request, Pro!Idle, Idle
<1>2. q.seen <= made'
  BY <1>1
<1>3. q.step = "insert" /\ q.seen = repo' /\ repo' \notin stale' =>
        1..(q.number - 1) \subseteq Pro!Numbers'
  BY <1>1 DEF ProjectRequests
<1> QED BY <1>2, <1>3 DEF ProjectRequests

(* SELECT MAX(number) + 1 is a free number above every used one.           *)
LEMMA NextProjectNumber ==
  ASSUME ProjectTables
  PROVE  /\ Pro!NextNumber \in Nat \ {0}
         /\ repo \notin stale => Pro!Numbers = 1..(Pro!NextNumber - 1)
<1> DEFINE IsMax(m) == \A k \in Pro!Numbers : k <= m
           max == CHOOSE m \in Pro!Numbers \cup {0} : IsMax(m)
<1>1. max \in Pro!Numbers \cup {0} /\ IsMax(max)
  BY DEF ProjectTables, HasMax
<1>2. Pro!NextNumber = 1 + max
  BY DEF Pro!NextNumber
<1> HIDE DEF max
<1>3. max \in Nat
  BY <1>1 DEF ProjectTables
<1>4. ASSUME NEW k \in Nat, Pro!Numbers = 1..k PROVE max = k
  BY <1>1, <1>3, <1>4
<1>5. Pro!NextNumber - 1 = max /\ Pro!NextNumber \in Nat \ {0}
  BY <1>2, <1>3
<1> QED BY <1>4, <1>5 DEF ProjectTables

(* ... whatever the table is like, before a step and after it.             *)
LEMMA LogOfNumbers ==
  ASSUME NEW k \in Nat
  PROVE  /\ Pro!Numbers = 1..k /\ repo \notin stale =>
              Pro!AuthorLog = [n \in 1..k |-> projects[n].author]
         /\ Pro!Numbers' = 1..k /\ repo' \notin stale' =>
              Pro!AuthorLog' = [n \in 1..k |-> projects'[n].author]
<1>1. ASSUME NEW S, S = 1..k
      PROVE  1 + (CHOOSE m \in S \cup {0} : \A j \in S : j <= m) = k + 1
  <2> DEFINE max == CHOOSE m \in S \cup {0} : \A j \in S : j <= m
  <2>1. k \in S \cup {0} /\ \A j \in S : j <= k
    BY <1>1
  <2>2. max \in S \cup {0} /\ \A j \in S : j <= max
    BY <2>1
  <2> HIDE DEF max
  <2>3. max = k
    BY <1>1, <2>2
  <2>4. 1 + max = k + 1
    BY <2>3
  <2> QED BY <2>4 DEF max
<1>2. Pro!Numbers = 1..k => Pro!NextNumber = k + 1
  BY <1>1 DEF Pro!NextNumber
<1>3. Pro!Numbers' = 1..k => Pro!NextNumber' = k + 1
  BY <1>1 DEF Pro!NextNumber
<1>4. k + 1 - 1 = k
  OBVIOUS
<1> QED BY <1>2, <1>3, <1>4 DEF Pro!AuthorLog

(* The authors of k rows are a sequence, to which one more row appends.    *)
LEMMA AuthorsAppend ==
  ASSUME NEW f, NEW g, NEW k \in Nat, NEW a \in Users,
         \A j \in 1..k : f[j].author \in Users /\ g[j].author = f[j].author,
         g[k + 1].author = a
  PROVE  [n \in 1..(k + 1) |-> g[n].author]
           = Append([n \in 1..k |-> f[n].author], a)
<1> DEFINE short == [n \in 1..k |-> f[n].author]
           long == Append(short, a)
<1>1. short \in [1..k -> Users]
  OBVIOUS
<1>2. short \in Seq(Users) /\ DOMAIN short = 1..k
  BY <1>1, SeqDef
<1>3. Len(short) \in Nat /\ 1..Len(short) = 1..k
  BY <1>2, LenProperties
<1>4. Len(short) = k
  BY <1>3
<1>5. \A j \in 1..k : short[j] = g[j].author
  OBVIOUS
<1> HIDE DEF short
<1>6. /\ long \in Seq(Users) /\ Len(long) = k + 1
      /\ \A j \in 1..k : long[j] = short[j]
      /\ long[k + 1] = a
  BY <1>2, <1>4, AppendProperties
<1>7. long \in [1..(k + 1) -> Users]
  BY <1>6, LenProperties
<1> HIDE DEF long
<1>8. \A j \in 1..(k + 1) : long[j] = g[j].author
  BY <1>5, <1>6
<1>9. long = [n \in 1..(k + 1) |-> g[n].author]
  BY <1>7, <1>8
<1> QED BY <1>9 DEF long, short

(* Without projects there is no log, stale or not.                         *)
LEMMA NoProjectsNoLog ==
  /\ projects = Pro!NoProjects => Pro!AuthorLog = << >>
  /\ projects' = Pro!NoProjects => Pro!AuthorLog' = << >>
<1>1. ASSUME NEW f PROVE [n \in 1..0 |-> f[n].author] = << >>
  <2> DEFINE log == [n \in 1..0 |-> f[n].author]
  <2>1. 1..0 = {}
    OBVIOUS
  <2>2. log \in [1..0 -> {}] /\ DOMAIN log = 1..0
    BY <2>1
  <2>3. log \in Seq({})
    BY <2>2, SeqDef
  <2> HIDE DEF log
  <2>4. Len(log) \in Nat /\ 1..0 = 1..Len(log)
    BY <2>2, <2>3, LenProperties
  <2>5. Len(log) = 0
    BY <2>4
  <2>6. log = << >>
    BY <2>3, <2>5, EmptySeq
  <2> QED BY <2>6 DEF log
<1>2. 1..0 = {} /\ 0 \in Nat
  OBVIOUS
<1>3. projects = Pro!NoProjects => Pro!Numbers = 1..0
  BY <1>2 DEF Pro!NoProjects, Pro!Numbers
<1>4. projects' = Pro!NoProjects => Pro!Numbers' = 1..0
  BY <1>2 DEF Pro!NoProjects, Pro!Numbers
<1>5. (repo \in stale => Pro!AuthorLog = << >>)
      /\ (repo' \in stale' => Pro!AuthorLog' = << >>)
  BY DEF Pro!AuthorLog
<1> QED BY <1>1, <1>2, <1>3, <1>4, <1>5, LogOfNumbers

(* An idle slot carries no obligation.                                     *)
LEMMA ProjectAnswers == Idle \in ProjectRequests /\ Pro!Idle = Idle
  BY DEF ProjectRequests, Pro!Request, Pro!Idle, Idle

(* The records of the steps that come next: that of a request which found  *)
(* its repository, ...                                                     *)
LEMMA ProjectSees ==
  ASSUME ProjectTables, repo # 0, NEW q \in ProjectRequests, q.step = "visible",
         NEW step \in {"list", "writable"}, step = "writable" => q.op # "list"
  PROVE  [q EXCEPT !.seen = repo, !.step = step] \in ProjectRequests
<1> DEFINE record == [q EXCEPT !.seen = repo, !.step = step]
<1>1. q \in Pro!Request \ {Idle} /\ (q.op # "list" => q.actor \in Users)
      /\ repo \in Nat
  BY DEF ProjectRequests, Idle, ProjectTables
<1>2. /\ record \in Pro!Request /\ record.step = step /\ record.op = q.op
      /\ record.actor = q.actor /\ record.seen = repo
  BY <1>1 DEF Pro!Request, Pro!Idle, Idle, Pro!Steps
<1> HIDE DEF record
<1>3. record \in ProjectRequests
  BY <1>1, <1>2 DEF ProjectRequests, ProjectTables
<1> QED BY <1>3 DEF record

(* ... that of one which goes to another statement, ...                    *)
LEMMA ProjectMovesOn ==
  ASSUME NEW q \in ProjectRequests, q.step \notin {"idle", "visible"},
         NEW step \in {"find", "refind", "audit", "next_number"},
         step = "next_number" => q.op # "list"
  PROVE  [q EXCEPT !.step = step] \in ProjectRequests
<1> DEFINE record == [q EXCEPT !.step = step]
<1>1. /\ q \in Pro!Request \ {Idle} /\ (q.op # "list" => q.actor \in Users)
      /\ q.seen <= made /\ q.seen # 0
  BY DEF ProjectRequests, Idle
<1>2. /\ record \in Pro!Request /\ record.step = step /\ record.op = q.op
      /\ record.actor = q.actor /\ record.seen = q.seen
  BY <1>1 DEF Pro!Request, Pro!Idle, Idle, Pro!Steps
<1> HIDE DEF record
<1>3. record \in ProjectRequests
  BY <1>1, <1>2 DEF ProjectRequests
<1> QED BY <1>3 DEF record

(* ... of one that has read the next number, ...                           *)
LEMMA ProjectNumbered ==
  ASSUME ProjectTables, NEW q \in ProjectRequests, q.step = "next_number"
  PROVE  [q EXCEPT !.number = Pro!NextNumber, !.step = "insert"]
           \in ProjectRequests
<1> DEFINE number == Pro!NextNumber
           record == [q EXCEPT !.number = number, !.step = "insert"]
<1>1. /\ q \in Pro!Request \ {Idle} /\ q.op # "list" /\ q.actor \in Users
      /\ q.seen <= made /\ q.seen # 0
  BY DEF ProjectRequests, Idle
<1>2. /\ number \in Nat /\ number # 0
      /\ repo \notin stale => 1..(number - 1) \subseteq Pro!Numbers
  BY NextProjectNumber
<1> HIDE DEF number
<1>3. /\ record \in Pro!Request /\ record.step = "insert" /\ record.op = q.op
      /\ record.actor = q.actor /\ record.seen = q.seen /\ record.number = number
  BY <1>1, <1>2 DEF Pro!Request, Pro!Idle, Idle, Pro!Steps
<1> HIDE DEF record
<1>4. record \in ProjectRequests
  BY <1>1, <1>2, <1>3 DEF ProjectRequests
<1> QED BY <1>4 DEF record, number

(* ... and of one that has read what it will write.                        *)
LEMMA ProjectFound ==
  ASSUME ProjectTables, NEW q \in ProjectRequests, q.step = "find",
         NEW state \in Pro!ProjectState
  PROVE  [q EXCEPT !.state = state, !.step = "update_row"] \in ProjectRequests
<1> DEFINE record == [q EXCEPT !.state = state, !.step = "update_row"]
<1>1. /\ q \in Pro!Request \ {Idle} /\ (q.op # "list" => q.actor \in Users)
      /\ q.seen <= made /\ q.seen # 0
  BY DEF ProjectRequests, Idle
<1>2. /\ record \in Pro!Request /\ record.step = "update_row"
      /\ record.op = q.op /\ record.actor = q.actor /\ record.seen = q.seen
      /\ record.state = state
  BY <1>1 DEF Pro!Request, Pro!Idle, Idle, Pro!Steps
<1> HIDE DEF record
<1>3. record \in ProjectRequests
  BY <1>1, <1>2 DEF ProjectRequests
<1> QED BY <1>3 DEF record

(* What a step has to keep.                                                *)
ProjectsKept ==
  /\ ProjectTables'
  /\ req' \in [Requests -> ProjectRequests']
  /\ [Pro!Log!Next]_(Pro!AuthorLog)

(* A step that leaves the projects alone.                                  *)
LEMMA ProjectQuiet ==
  ASSUME ProjectTables, UNCHANGED <<repo, made, stale, projects>>,
         req' \in [Requests -> ProjectRequests]
  PROVE  ProjectsKept
<1>1. ProjectRequests \subseteq ProjectRequests'
  BY ProjectRequestsGrow DEF ProjectTables, Pro!Numbers
<1>2. ProjectTables'
  BY DEF ProjectTables, HasMax, Pro!Numbers
<1>3. Pro!AuthorLog' = Pro!AuthorLog
  BY DEF Pro!AuthorLog, Pro!NextNumber, Pro!Numbers
<1> QED BY <1>1, <1>2, <1>3 DEF ProjectsKept

(* A slot that becomes another record, and nothing else.                   *)
LEMMA ProjectSlot ==
  ASSUME ProjectTables, UNCHANGED <<repo, made, stale, projects>>,
         req \in [Requests -> ProjectRequests], NEW p \in Requests,
         NEW record \in ProjectRequests,
         Pro!Becomes(p, record) \/ Pro!Answer(p)
  PROVE  ProjectsKept
<1>1. req' \in [Requests -> ProjectRequests]
  BY SlotsStay, ProjectAnswers DEF Pro!Answer, Pro!Becomes, Becomes
<1> QED BY <1>1, ProjectQuiet

(* INSERT: where nothing is stale it was given the number after the last.  *)
LEMMA ProjectInsert ==
  ASSUME ProjectTables, req \in [Requests -> ProjectRequests],
         NEW p \in Requests, Pro!Insert(p), repo # 0,
         req[p].number \notin Pro!Numbers
  PROVE  ProjectsKept
<1>1. /\ req[p] \in ProjectRequests /\ req[p].step = "insert"
      /\ Pro!Touch(p) /\ Pro!GoTo(p, "audit") /\ projects' = Pro!Added(p)
  BY DEF Pro!Insert, Pro!At
<1>2. PICK n : n = req[p].number
  OBVIOUS
<1>3. PICK a : a = req[p].actor
  OBVIOUS
<1>4. n \in Nat \ {0} /\ a \in Users /\ n \notin Pro!Numbers
  BY <1>1, <1>2, <1>3 DEF ProjectRequests, Pro!Request, Pro!Idle, Idle
<1>5. /\ UNCHANGED <<repo, made>> /\ stale \subseteq stale'
      /\ repo \notin stale' => req[p].seen = repo /\ repo \notin stale
  BY <1>1 DEF Pro!Touch
<1>6. /\ Pro!Numbers' = Pro!Numbers \cup {n}
      /\ projects'[n] = [author |-> a, state |-> "open"]
      /\ \A k \in Pro!Numbers : projects'[k] = projects[k]
  BY <1>1, <1>2, <1>3, <1>4 DEF Pro!Added, Pro!Numbers
<1>7. ASSUME repo \notin stale'
      PROVE  \E k \in Nat : Pro!Numbers = 1..k /\ n = k + 1
  <2>1. PICK k \in Nat : Pro!Numbers = 1..k
    BY <1>5, <1>7 DEF ProjectTables
  <2>2. 1..(n - 1) \subseteq Pro!Numbers
    BY <1>1, <1>2, <1>5, <1>7 DEF ProjectRequests, Idle
  <2>3. n \notin 1..k /\ (n - 1 \in 1..k \/ n = 1)
    BY <1>4, <2>1, <2>2
  <2>4. n = k + 1
    BY <1>4, <2>1, <2>3
  <2> QED BY <2>1, <2>4
<1>8. ProjectTables'
  <2>1. HasMax(Pro!Numbers')
    <3>1. PICK m \in Pro!Numbers \cup {0} : \A k \in Pro!Numbers : k <= m
      BY DEF ProjectTables, HasMax
    <3>2. m \in Nat /\ \A k \in Pro!Numbers : k \in Nat
      BY DEF ProjectTables
    <3>3. CASE n <= m
      BY <1>6, <3>1, <3>3 DEF HasMax
    <3>4. CASE m < n
      <4>1. \A k \in Pro!Numbers \cup {n} : k <= n
        BY <1>4, <3>1, <3>2, <3>4
      <4> QED BY <1>6, <4>1 DEF HasMax
    <3> QED BY <1>4, <3>2, <3>3, <3>4
  <2>2. [author |-> a, state |-> "open"] \in Pro!Project
    BY <1>4 DEF Pro!Project, Pro!ProjectState
  <2>3. /\ Pro!Numbers' \subseteq Nat \ {0}
        /\ \A k \in Pro!Numbers' : projects'[k] \in Pro!Project
    BY <1>4, <1>6, <2>2 DEF ProjectTables
  <2>4. repo \notin stale' => \E k \in Nat : Pro!Numbers' = 1..k
    <3> SUFFICES ASSUME repo \notin stale' PROVE \E k \in Nat : Pro!Numbers' = 1..k
      OBVIOUS
    <3>1. PICK k \in Nat : Pro!Numbers = 1..k /\ n = k + 1
      BY <1>7
    <3>2. 1..k \cup {k + 1} = 1..(k + 1) /\ k + 1 \in Nat
      OBVIOUS
    <3> QED BY <1>6, <3>1, <3>2
  <2> QED BY <1>5, <2>1, <2>3, <2>4 DEF ProjectTables
<1>9. req' \in [Requests -> ProjectRequests']
  <2>1. [req[p] EXCEPT !.step = "audit"] \in ProjectRequests
    BY <1>1, ProjectMovesOn
  <2>2. req' \in [Requests -> ProjectRequests]
    BY <1>1, <2>1, SlotsStay DEF Pro!GoTo, Pro!Becomes, Becomes
  <2>3. ProjectRequests \subseteq ProjectRequests'
    BY <1>5, <1>6, ProjectRequestsGrow DEF ProjectTables
  <2> QED BY <2>2, <2>3
<1>10. CASE repo \in stale'
  <2>1. Pro!AuthorLog' = << >>
    BY <1>5, <1>10 DEF Pro!AuthorLog
  <2> QED BY <1>8, <1>9, <2>1 DEF ProjectsKept, Pro!Log!Next, Pro!Log!Clear
<1>11. CASE repo \notin stale'
  <2>1. PICK k \in Nat : Pro!Numbers = 1..k /\ n = k + 1
    BY <1>7, <1>11
  <2>2. Pro!Numbers' = 1..(k + 1) /\ k + 1 \in Nat
    <3>1. 1..k \cup {k + 1} = 1..(k + 1)
      OBVIOUS
    <3> QED BY <1>6, <2>1, <3>1
  <2>3. Pro!AuthorLog = [j \in 1..k |-> projects[j].author]
    BY <1>5, <1>11, <2>1, LogOfNumbers
  <2>4. Pro!AuthorLog' = [j \in 1..(k + 1) |-> projects'[j].author]
    BY <1>5, <1>11, <2>2, LogOfNumbers
  <2>5. \A j \in 1..k : projects[j].author \in Users
                        /\ projects'[j].author = projects[j].author
    BY <1>6, <2>1 DEF ProjectTables, Pro!Project
  <2>6. projects'[k + 1].author = a
    BY <1>6, <2>1
  <2>7. [j \in 1..(k + 1) |-> projects'[j].author]
          = Append([j \in 1..k |-> projects[j].author], a)
    BY <1>4, <2>5, <2>6, AuthorsAppend
  <2>8. Pro!Log!Submit(a)
    BY <2>3, <2>4, <2>7 DEF Pro!Log!Submit
  <2> QED BY <1>4, <1>8, <1>9, <2>8 DEF ProjectsKept, Pro!Log!Next
<1> QED BY <1>10, <1>11

(* UPDATE: it may spoil the log of a later repository, else it leaves it.  *)
LEMMA ProjectUpdate ==
  ASSUME ProjectTables, req \in [Requests -> ProjectRequests],
         NEW p \in Requests, Pro!UpdateRow(p)
  PROVE  ProjectsKept
<1> DEFINE n == req[p].number
<1>1. req[p] \in ProjectRequests /\ req[p].step = "update_row"
      /\ Pro!GoTo(p, "refind")
  BY DEF Pro!UpdateRow, Pro!At
<1>2. [req[p] EXCEPT !.step = "refind"] \in ProjectRequests
  BY <1>1, ProjectMovesOn
<1>3. req' \in [Requests -> ProjectRequests]
  BY <1>1, <1>2, SlotsStay DEF Pro!GoTo, Pro!Becomes, Becomes
<1>4. CASE n \notin Pro!Numbers
  BY <1>3, <1>4, ProjectQuiet DEF Pro!UpdateRow, Pro!RepositoryUnchanged
<1>5. CASE n \in Pro!Numbers
  <2>1. /\ projects' = [projects EXCEPT ![n].state = req[p].state]
        /\ UNCHANGED <<repo, made>> /\ stale \subseteq stale'
    BY <1>5 DEF Pro!UpdateRow, Pro!Touch
  <2>2. req[p].state \in Pro!ProjectState
    BY <1>1 DEF ProjectRequests, Idle
  <2>3. PICK row : row = [projects[n] EXCEPT !.state = req[p].state]
    OBVIOUS
  <2>4. row \in Pro!Project /\ row.author = projects[n].author
    BY <1>5, <2>2, <2>3 DEF ProjectTables, Pro!Project
  <2>5. /\ Pro!Numbers' = Pro!Numbers
        /\ projects'[n] = row
        /\ \A k \in Pro!Numbers \ {n} : projects'[k] = projects[k]
    BY <1>5, <2>1, <2>3 DEF Pro!Numbers
  <2>6. \A k \in Pro!Numbers : projects'[k] \in Pro!Project
                               /\ projects'[k].author = projects[k].author
    BY <2>4, <2>5 DEF ProjectTables
  <2>7. repo # 0
    BY <1>5 DEF ProjectTables, Pro!NoProjects, Pro!Numbers
  <2>8. ProjectTables'
    BY <2>1, <2>5, <2>6, <2>7 DEF ProjectTables
  <2>9. ProjectRequests \subseteq ProjectRequests'
    BY <2>1, <2>5, ProjectRequestsGrow DEF ProjectTables
  <2>10. CASE repo \in stale'
    <3>1. Pro!AuthorLog' = << >>
      BY <2>1, <2>10 DEF Pro!AuthorLog
    <3> QED BY <1>3, <2>8, <2>9, <3>1 DEF ProjectsKept, Pro!Log!Next, Pro!Log!Clear
  <2>11. CASE repo \notin stale'
    <3>1. PICK k \in Nat : Pro!Numbers = 1..k
      BY <2>1, <2>11 DEF ProjectTables
    <3>2. Pro!AuthorLog = [j \in 1..k |-> projects[j].author]
      BY <2>1, <2>11, <3>1, LogOfNumbers
    <3>3. Pro!AuthorLog' = [j \in 1..k |-> projects'[j].author]
      BY <2>1, <2>5, <2>11, <3>1, LogOfNumbers
    <3>4. Pro!AuthorLog' = Pro!AuthorLog
      BY <2>6, <3>1, <3>2, <3>3
    <3> QED BY <1>3, <2>8, <2>9, <3>4 DEF ProjectsKept
  <2> QED BY <2>10, <2>11
<1> QED BY <1>4, <1>5

(* The repository comes and goes.                                          *)
LEMMA ProjectsIncarnation ==
  ASSUME ProjectTables, req \in [Requests -> ProjectRequests],
         Pro!CreateRepository \/ Pro!DeleteRepository
  PROVE  ProjectsKept
<1>1. /\ req' = req /\ stale' = stale /\ projects' = Pro!NoProjects
      /\ made' \in Nat /\ made <= made'
      /\ repo' = 0 \/ (repo' = made + 1 /\ made' = made + 1)
  BY DEF Pro!CreateRepository, Pro!Incarnate, Pro!DeleteRepository, Pro!Discard,
         ProjectTables
<1>2. Pro!Numbers' = {} /\ 1..0 = {}
  BY <1>1 DEF Pro!Numbers, Pro!NoProjects
<1>3. HasMax(Pro!Numbers')
  BY <1>2 DEF HasMax
<1>4. repo' \in Nat /\ repo' <= made' /\ made \in Nat
      /\ (repo' = 0 \/ made < repo')
  BY <1>1 DEF ProjectTables
<1>5. ProjectTables'
  BY <1>1, <1>2, <1>3, <1>4 DEF ProjectTables
<1>6. ProjectRequests \subseteq ProjectRequests'
  BY <1>1, <1>4, ProjectRequestsGrow
<1>7. Pro!AuthorLog' = << >>
  BY <1>1, NoProjectsNoLog
<1> QED BY <1>1, <1>5, <1>6, <1>7 DEF ProjectsKept, Pro!Log!Next, Pro!Log!Clear

(* Every step of a request.                                                *)
LEMMA ProjectServe ==
  ASSUME ProjectTables, req \in [Requests -> ProjectRequests],
         NEW p \in Requests,
         \/ Pro!Visible(p) \/ Pro!Writable(p) \/ Pro!ListProjects(p)
         \/ Pro!Create(p) \/ Pro!Update(p) \/ Pro!Audit(p) \/ Pro!Fail(p)
  PROVE  ProjectsKept
<1> USE DEF Pro!At, Pro!RepositoryUnchanged
<1>1. CASE Pro!ListProjects(p) \/ Pro!Audit(p) \/ Pro!Fail(p)
  BY <1>1, ProjectAnswers, ProjectSlot DEF Pro!ListProjects, Pro!Audit,
     Pro!Fail, Pro!Record, Pro!Drop
<1>2. CASE Pro!Visible(p)
  <2> DEFINE step == IF req[p].op = "list" THEN "list" ELSE "writable"
             record == [req[p] EXCEPT !.seen = repo, !.step = step]
  <2>1. /\ UNCHANGED <<repo, made, stale, projects>> /\ req[p].step = "visible"
        /\ Pro!Answer(p) \/ (repo # 0 /\ Pro!Becomes(p, record))
    BY <1>2 DEF Pro!Visible, Pro!VisibleRepository
  <2>2. step \in {"list", "writable"} /\ (step = "writable" => req[p].op # "list")
    OBVIOUS
  <2> HIDE DEF step
  <2>3. repo # 0 => record \in ProjectRequests
    BY <2>1, <2>2, ProjectSees
  <2> HIDE DEF record
  <2> QED BY <2>1, <2>3, ProjectAnswers, ProjectSlot
<1>3. CASE Pro!Writable(p)
  <2> DEFINE step == IF req[p].op = "create" THEN "next_number" ELSE "find"
             record == [req[p] EXCEPT !.step = step]
  <2>1. /\ UNCHANGED <<repo, made, stale, projects>> /\ req[p].step = "writable"
        /\ Pro!Answer(p) \/ Pro!Becomes(p, record)
    BY <1>3 DEF Pro!Writable, Pro!WritableRepository, Pro!GoTo
  <2>2. /\ step \in {"next_number", "find"}
        /\ step = "next_number" => req[p].op # "list"
    OBVIOUS
  <2> HIDE DEF step
  <2>3. record \in ProjectRequests
    BY <2>1, <2>2, ProjectMovesOn
  <2> HIDE DEF record
  <2> QED BY <2>1, <2>3, ProjectSlot
<1>4. CASE Pro!ReadNextNumber(p)
  BY <1>4, ProjectNumbered, ProjectSlot DEF Pro!ReadNextNumber
<1>5. CASE Pro!Insert(p)
  <2>1. CASE repo = 0 \/ req[p].number \in Pro!Numbers
    BY <1>5, <2>1, ProjectAnswers, ProjectSlot DEF Pro!Insert
  <2> QED BY <1>5, <2>1, ProjectInsert
<1>6. CASE Pro!Find(p)
  <2>1. UNCHANGED <<repo, made, stale, projects>> /\ req[p].step = "find"
    BY <1>6 DEF Pro!Find
  <2>2. CASE Pro!Answer(p)
    BY <2>1, <2>2, ProjectAnswers, ProjectSlot
  <2>3. CASE ~Pro!Answer(p)
    <3> DEFINE n == req[p].number
               state == IF req[p].state = "undefined" THEN projects[n].state
                                                      ELSE req[p].state
               record == [req[p] EXCEPT !.state = state, !.step = "update_row"]
    <3>1. n \in Pro!Numbers
      BY <1>6, <2>3 DEF Pro!Find
    <3>2. Pro!Becomes(p, [req[p] EXCEPT
                            !.state = IF @ = "undefined" THEN projects[n].state
                                                         ELSE @,
                            !.step = "update_row"])
      BY <1>6, <3>1 DEF Pro!Find
    <3>3. Pro!Becomes(p, record)
      BY <3>2
    <3>4. req[p].state \in Pro!ProjectState \cup {"undefined"}
      BY <2>1 DEF ProjectRequests, Pro!Request, Pro!Idle, Idle
    <3>5. state \in Pro!ProjectState
      BY <3>1, <3>4 DEF ProjectTables, Pro!Project
    <3> HIDE DEF state
    <3>6. record \in ProjectRequests
      BY <2>1, <3>5, ProjectFound
    <3> HIDE DEF record
    <3> QED BY <2>1, <3>3, <3>6, ProjectSlot
  <2> QED BY <2>2, <2>3
<1>7. CASE Pro!UpdateRow(p)
  BY <1>7, ProjectUpdate
<1>8. CASE Pro!Refind(p)
  <2>1. /\ UNCHANGED <<repo, made, stale, projects>> /\ req[p].step = "refind"
        /\ Pro!Answer(p) \/ Pro!Becomes(p, [req[p] EXCEPT !.step = "audit"])
    BY <1>8 DEF Pro!Refind, Pro!GoTo
  <2>2. [req[p] EXCEPT !.step = "audit"] \in ProjectRequests
    BY <2>1, ProjectMovesOn
  <2> QED BY <2>1, <2>2, ProjectSlot
<1> QED BY <1>1, <1>2, <1>3, <1>4, <1>5, <1>6, <1>7, <1>8
        DEF Pro!Create, Pro!Update

(* A request that arrives.                                                 *)
LEMMA ProjectStart ==
  ASSUME ProjectTables, req \in [Requests -> ProjectRequests],
         NEW p \in Requests, NEW op \in {"list", "create", "update"},
         NEW u \in Actors, NEW n \in 0..MaxNumber,
         NEW state \in Pro!ProjectState \cup {"undefined"},
         Pro!Start(p, op, u, n, state)
  PROVE  ProjectsKept
<1> DEFINE record == [step |-> "visible", op |-> op, actor |-> u, number |-> n,
                      state |-> state, seen |-> 0]
<1>1. record \in Pro!Request /\ (u = Anonymous => op = "list")
  BY DEF Pro!Request, Pro!Steps, Actors, Pro!Actors, Pro!Start
<1>2. record \in ProjectRequests
  BY <1>1 DEF ProjectRequests, ProjectTables, Actors
<1>3. Pro!Becomes(p, record) /\ UNCHANGED <<repo, made, stale, projects>>
  BY DEF Pro!Start, Pro!Arrive, Pro!RepositoryUnchanged
<1> HIDE DEF record
<1> QED BY <1>2, <1>3, ProjectSlot

(* Every step of the component keeps the invariant, ...                    *)
LEMMA ProjectsNextKeeps ==
  ASSUME ProjectTables, req \in [Requests -> ProjectRequests],
         [Pro!ProjectsNext]_Pro!projectsVars
  PROVE  ProjectsKept
<1>1. CASE UNCHANGED Pro!projectsVars
  BY <1>1, ProjectQuiet DEF Pro!projectsVars
<1>2. CASE Pro!ProjectsNext
  BY <1>2, ProjectsIncarnation, ProjectServe, ProjectStart
     DEF Pro!ProjectsNext, Actors, Pro!Actors
<1> QED BY <1>1, <1>2

(* ... and so does every step.                                             *)
LEMMA ProjectsInvariant == Spec => []ProjectsInv
<1>1. Init => ProjectsInv
  <2> SUFFICES ASSUME Init
               PROVE  /\ ProjectTables /\ req \in [Requests -> ProjectRequests]
                      /\ projects = Pro!NoProjects
    BY DEF ProjectsInv
  <2>1. /\ repo = 0 /\ made = 0 /\ projects = Pro!NoProjects
        /\ req \in [Requests -> {Idle}]
    BY ProjectAnswers
       DEF Init, Pro!ProjectsInit, Pro!RepositoryInit, Pro!ServingInit
  <2>2. Pro!Numbers = 1..0 /\ Pro!Numbers = {}
    BY <2>1 DEF Pro!Numbers, Pro!NoProjects
  <2> QED BY <2>1, <2>2, ProjectAnswers DEF ProjectTables, HasMax
<1>2. ProjectsInv /\ [Next]_vars => ProjectsInv'
  BY OneComponent, OthersUnchanged, ProjectsNextKeeps
     DEF ProjectsInv, ProjectsKept
<1> QED BY <1>1, <1>2, PTL DEF Spec

(* The projects of a repository are a numbered log: although two creations *)
(* may have read the same number, each INSERT appends one item, updates    *)
(* leave it, and it disappears only with its repository.                   *)
THEOREM ProjectsAreALogAlways == Spec => ProjectsAreALog
<1>1. Init => Pro!Log!Init
  BY NoProjectsNoLog DEF Init, Pro!ProjectsInit, Pro!Log!Init
<1>2. ProjectsInv /\ [Next]_vars => [Pro!Log!Next]_(Pro!AuthorLog)
  <2> SUFFICES ASSUME ProjectsInv, [Next]_vars
               PROVE  [Pro!Log!Next]_(Pro!AuthorLog)
    OBVIOUS
  <2>1. CASE component = "projects"
    BY <2>1, OneComponent, ProjectsNextKeeps DEF ProjectsInv, ProjectsKept
  <2>2. CASE component # "projects"
    BY <2>2, OthersUnchanged, NoProjectsNoLog DEF ProjectsInv
  <2> QED BY <2>1, <2>2
<1> QED BY <1>1, <1>2, ProjectsInvariant, PTL
        DEF Spec, ProjectsAreALog, Pro!ProjectsAreALog, Pro!Log!Spec
-----------------------------------------------------------------------------
(***************************************************************************)
(* The webhooks.  Posts add up for each webhook that is there; ids of      *)
(* webhooks to come are in no request and in no count, and a creation in   *)
(* progress is counted by a request, so that ids stay within their bound.  *)
(***************************************************************************)
LEMMA WebhooksCardinality ==
  ASSUME NEW S
  PROVE  Web!Cardinality(S) = Cardinality(S)
  BY ZenonT(10) DEF Web!Cardinality, Cardinality

(* The oldest of some webhooks.                                            *)
LEMMA FirstOfIds ==
  ASSUME NEW ids \in SUBSET Nat, ids # {}
  PROVE  Web!First(ids) \in ids
<1>1. PICK h \in ids : \A k \in ids : ~(<<k, h>> \in OpToRel(<, Nat))
  BY NatLessThanWellFounded, WFMin, Zenon
<1>2. ASSUME NEW k \in ids
      PROVE  h <= k
  <2>1. k \in Nat /\ h \in Nat
    OBVIOUS
  <2>2. ~(k < h)
    BY <1>1, <2>1, Zenon DEF OpToRel
  <2> QED BY <2>1, <2>2
<1> QED BY <1>2 DEF Web!First

(* The post of a request whose delivery is not recorded yet.               *)
Posts(q, h) == q.step = "record" /\ Web!First(q.todo) = h

(* A creation before its INSERT.                                           *)
Creates(q) == q.step \in {"visible", "writable", "insert"} /\ q.op = "create"

Creating == {p \in Requests : Creates(req[p])}

(* What one slot does to the two sets.                                     *)
LEMMA PostedSlot ==
  ASSUME NEW p \in Requests, \A q \in Requests \ {p} : req'[q] = req[q], NEW h
  PROVE  /\ Posts(req'[p], h) /\ ~Posts(req[p], h) =>
              Web!Posted(h)' = Web!Posted(h) \cup {p} /\ p \notin Web!Posted(h)
         /\ ~Posts(req'[p], h) /\ Posts(req[p], h) =>
              Web!Posted(h)' = Web!Posted(h) \ {p} /\ p \in Web!Posted(h)
         /\ (Posts(req'[p], h) <=> Posts(req[p], h)) =>
              Web!Posted(h)' = Web!Posted(h)
<1>1. \A q \in Requests :
        /\ q \in Web!Posted(h) <=> Posts(req[q], h)
        /\ q \in Web!Posted(h)' <=> Posts(req'[q], h)
  BY DEF Web!Posted, Posts, Web!At
<1>2. Web!Posted(h) \subseteq Requests /\ Web!Posted(h)' \subseteq Requests
  BY DEF Web!Posted
<1> QED BY <1>1, <1>2

LEMMA CreatingSlot ==
  ASSUME NEW p \in Requests, \A q \in Requests \ {p} : req'[q] = req[q]
  PROVE  /\ Creating' \subseteq Creating \cup {p}
         /\ ~Creates(req'[p]) => Creating' \subseteq Creating \ {p}
         /\ (Creates(req'[p]) => Creates(req[p])) => Creating' \subseteq Creating
  BY DEF Creating

(* ... and to their sizes.                                                 *)
LEMMA PostedCount ==
  ASSUME NEW p \in Requests, \A q \in Requests \ {p} : req'[q] = req[q],
         NEW h, IsFiniteSet(Web!Posted(h))
  PROVE  /\ IsFiniteSet(Web!Posted(h)')
         /\ Cardinality(Web!Posted(h)) \in Nat
         /\ Posts(req'[p], h) /\ ~Posts(req[p], h) =>
              Cardinality(Web!Posted(h)') = Cardinality(Web!Posted(h)) + 1
         /\ ~Posts(req'[p], h) /\ Posts(req[p], h) =>
              Cardinality(Web!Posted(h)') = Cardinality(Web!Posted(h)) - 1
         /\ (Posts(req'[p], h) <=> Posts(req[p], h)) =>
              Cardinality(Web!Posted(h)') = Cardinality(Web!Posted(h))
<1>1. Cardinality(Web!Posted(h)) \in Nat
  BY FS_CardinalityType
<1>2. CASE Posts(req'[p], h) /\ ~Posts(req[p], h)
  <2>1. Web!Posted(h)' = Web!Posted(h) \cup {p} /\ p \notin Web!Posted(h)
    BY <1>2, PostedSlot
  <2> QED BY <1>1, <1>2, <2>1, FS_AddElement
<1>3. CASE ~Posts(req'[p], h) /\ Posts(req[p], h)
  <2>1. Web!Posted(h)' = Web!Posted(h) \ {p} /\ p \in Web!Posted(h)
    BY <1>3, PostedSlot
  <2> QED BY <1>1, <1>3, <2>1, FS_RemoveElement
<1>4. CASE Posts(req'[p], h) <=> Posts(req[p], h)
  <2>1. Web!Posted(h)' = Web!Posted(h)
    BY <1>4, PostedSlot
  <2> QED BY <1>1, <1>4, <2>1
<1> QED BY <1>2, <1>3, <1>4

LEMMA CreatingCount ==
  ASSUME NEW p \in Requests, \A q \in Requests \ {p} : req'[q] = req[q],
         IsFiniteSet(Creating)
  PROVE  /\ IsFiniteSet(Creating')
         /\ Cardinality(Creating) \in Nat /\ Cardinality(Creating') \in Nat
         /\ Cardinality(Creating') <= Cardinality(Creating) + 1
         /\ ~Creates(req'[p]) /\ Creates(req[p]) =>
              Cardinality(Creating') <= Cardinality(Creating) - 1
         /\ (Creates(req'[p]) => Creates(req[p])) =>
              Cardinality(Creating') <= Cardinality(Creating)
<1>1. /\ IsFiniteSet(Creating \cup {p}) /\ IsFiniteSet(Creating \ {p})
      /\ Cardinality(Creating) \in Nat
      /\ Cardinality(Creating \cup {p}) <= Cardinality(Creating) + 1
      /\ p \in Creating => Cardinality(Creating \ {p}) = Cardinality(Creating) - 1
  <2>1. Cardinality(Creating) \in Nat
    BY FS_CardinalityType
  <2>2. /\ IsFiniteSet(Creating \cup {p})
        /\ Cardinality(Creating \cup {p}) =
             IF p \in Creating THEN Cardinality(Creating)
                               ELSE Cardinality(Creating) + 1
    BY FS_AddElement
  <2>3. /\ IsFiniteSet(Creating \ {p})
        /\ Cardinality(Creating \ {p}) =
             IF p \in Creating THEN Cardinality(Creating) - 1
                               ELSE Cardinality(Creating)
    BY FS_RemoveElement
  <2> QED BY <2>1, <2>2, <2>3
<1>2. /\ IsFiniteSet(Creating')
      /\ Cardinality(Creating') <= Cardinality(Creating \cup {p})
  BY <1>1, CreatingSlot, FS_Subset
<1>3. Cardinality(Creating') \in Nat /\ Cardinality(Creating \cup {p}) \in Nat
  BY <1>1, <1>2, FS_CardinalityType
<1>4. Creates(req[p]) => p \in Creating
  BY DEF Creating
<1>5. ~Creates(req'[p]) => Cardinality(Creating') <= Cardinality(Creating \ {p})
  BY <1>1, CreatingSlot, FS_Subset
<1>6. (Creates(req'[p]) => Creates(req[p]))
        => Cardinality(Creating') <= Cardinality(Creating)
  BY CreatingSlot, FS_Subset
<1> QED BY <1>1, <1>2, <1>3, <1>4, <1>5, <1>6

(***************************************************************************)
(* The inductive invariant.                                                *)
(***************************************************************************)
WebhookRequests ==
  {q \in Web!Request :
     q = Idle \/
       /\ q.todo \subseteq 1..created
       /\ q.step \in {"send", "record"} => q.todo # {}
       /\ q.step = "find_hook" => q.op = "ping"
       /\ q.step \in {"visible", "writable"} => (q.op = "ping" <=> q.todo # {})
       /\ q.step = "insert" => q.op = "create"
       /\ q.step \in {"insert", "audit"} => q.todo = {}}

AddsUp(h) ==
  /\ IsFiniteSet(Web!Posted(h))
  /\ posts[h] = Web!Recorded(h) + Cardinality(Web!Posted(h)) + unrecorded[h]

WebhookRows ==
  /\ repo \in Nat /\ made \in Nat /\ created \in Nat
  /\ started \in Nat /\ started <= MaxRequests
  /\ DOMAIN hooks \subseteq 1..created
  /\ deliveries \in [DOMAIN hooks -> [Web!Outcomes -> Nat]]
  /\ posts \in [Web!HookIds -> Nat]
  /\ unrecorded \in [Web!HookIds -> Nat]
  /\ \A h \in Web!HookIds : created < h => posts[h] = 0 /\ unrecorded[h] = 0
  /\ IsFiniteSet(Creating)
  /\ created + Cardinality(Creating) <= started
  /\ \A h \in DOMAIN hooks : AddsUp(h)

WebhooksInv ==
  component = "webhooks" =>
    WebhookRows /\ req \in [Requests -> WebhookRequests]

WebhooksKept == WebhookRows' /\ req' \in [Requests -> WebhookRequests']

(* A record keeps its place while webhooks are created.                    *)
LEMMA WebhookRequestsGrow ==
  ASSUME created \in Nat, created' \in Nat, created <= created'
  PROVE  WebhookRequests \subseteq WebhookRequests'
<1>1. 1..created \subseteq 1..created'
  OBVIOUS
<1> QED BY <1>1 DEF WebhookRequests

(* An idle slot carries no obligation.                                     *)
LEMMA WebhookAnswers ==
  /\ Idle \in WebhookRequests /\ Web!Idle = Idle
  /\ Idle.step = "idle" /\ ~Creates(Idle)
  BY DEF WebhookRequests, Web!Request, Web!Idle, Idle, Creates

(* Created webhooks stay within the bound of the ids.                      *)
LEMMA CreatedBound ==
  ASSUME WebhookRows
  PROVE  /\ created <= MaxRequests
         /\ Creating # {} => created < MaxRequests
         /\ DOMAIN hooks \subseteq Web!HookIds
<1>1. /\ Cardinality(Creating) \in Nat
      /\ Creating # {} => Cardinality(Creating) # 0
  BY FS_CardinalityType, FS_EmptySet DEF WebhookRows
<1>2. MaxRequests \in Nat /\ created \in Nat /\ started \in Nat
      /\ started <= MaxRequests /\ created + Cardinality(Creating) <= started
      /\ DOMAIN hooks \subseteq 1..created
  BY ServingAssumption DEF WebhookRows
<1>3. /\ created <= MaxRequests
      /\ Creating # {} => created < MaxRequests
  BY <1>1, <1>2
<1>4. 1..created \subseteq 1..MaxRequests
  BY <1>2, <1>3
<1> QED BY <1>2, <1>3, <1>4 DEF Web!HookIds

(* A step of a request that posts and records nothing.                     *)
LEMMA WebhookQuiet ==
  ASSUME WebhookRows, req \in [Requests -> WebhookRequests],
         NEW p \in Requests, NEW record \in WebhookRequests,
         Web!Becomes(p, record),
         req[p].step # "record", record.step # "record",
         Creates(record) => Creates(req[p]),
         UNCHANGED <<repo, made, started, hooks, created, deliveries, posts,
                     unrecorded>>
  PROVE  WebhooksKept
<1>1. /\ req' \in [Requests -> WebhookRequests] /\ req'[p] = record
      /\ \A q \in Requests \ {p} : req'[q] = req[q]
  BY SlotsStay DEF Web!Becomes, Becomes
<1>2. WebhookRequests' = WebhookRequests
  BY DEF WebhookRequests
<1>3. IsFiniteSet(Creating') /\ created + Cardinality(Creating') <= started
  <2>1. /\ IsFiniteSet(Creating')
        /\ Cardinality(Creating) \in Nat /\ Cardinality(Creating') \in Nat
        /\ Cardinality(Creating') <= Cardinality(Creating)
    BY <1>1, CreatingCount DEF WebhookRows
  <2>2. created \in Nat /\ started \in Nat /\ created + Cardinality(Creating) <= started
    BY DEF WebhookRows
  <2> QED BY <2>1, <2>2
<1>4. \A h \in DOMAIN hooks : AddsUp(h)'
  <2> SUFFICES ASSUME NEW h \in DOMAIN hooks PROVE AddsUp(h)'
    OBVIOUS
  <2>1. AddsUp(h)
    BY DEF WebhookRows
  <2>2. Web!Posted(h)' = Web!Posted(h)
    BY <1>1, PostedSlot DEF Posts
  <2> QED BY <2>1, <2>2 DEF AddsUp, Web!Recorded
<1> QED BY <1>1, <1>2, <1>3, <1>4 DEF WebhookRows, WebhooksKept

(* An answer that posts and records nothing.                               *)
LEMMA WebhookAnswered ==
  ASSUME WebhookRows, req \in [Requests -> WebhookRequests],
         NEW p \in Requests, Web!Answer(p), req[p].step # "record",
         UNCHANGED <<repo, made, started, hooks, created, deliveries, posts,
                     unrecorded>>
  PROVE  WebhooksKept
  BY WebhookAnswers, WebhookQuiet DEF Web!Answer

(***************************************************************************)
(* The steps.                                                              *)
(***************************************************************************)
LEMMA WebhooksIncarnation ==
  ASSUME WebhookRows, req \in [Requests -> WebhookRequests],
         Web!CreateRepository \/ Web!DeleteRepository
  PROVE  WebhooksKept
<1>1. /\ UNCHANGED <<req, created, started, posts, unrecorded>>
      /\ repo' \in Nat /\ made' \in Nat
      /\ \/ UNCHANGED <<hooks, deliveries>>
         \/ hooks' = Web!NoRows /\ deliveries' = Web!NoRows
  <2>1. repo \in Nat /\ made \in Nat
    BY DEF WebhookRows
  <2>2. CASE Web!CreateRepository
    BY <2>1, <2>2 DEF Web!CreateRepository, Web!Incarnate, Web!HooksUnchanged,
                      Web!HistoryUnchanged
  <2>3. CASE Web!DeleteRepository
    BY <2>1, <2>3 DEF Web!DeleteRepository, Web!Discard, Web!HistoryUnchanged
  <2> QED BY <2>2, <2>3
<1>2. /\ Creating' = Creating /\ WebhookRequests' = WebhookRequests
      /\ \A h : Web!Posted(h)' = Web!Posted(h)
  BY <1>1 DEF Creating, WebhookRequests, Web!Posted, Web!At
<1>3. CASE UNCHANGED <<hooks, deliveries>>
  <2>1. \A h \in DOMAIN hooks : AddsUp(h)'
    BY <1>1, <1>2, <1>3 DEF WebhookRows, AddsUp, Web!Recorded
  <2> QED BY <1>1, <1>2, <1>3, <2>1 DEF WebhookRows, WebhooksKept
<1>4. CASE hooks' = Web!NoRows /\ deliveries' = Web!NoRows
  <2>1. DOMAIN hooks' = {} /\ deliveries' \in [{} -> [Web!Outcomes -> Nat]]
    BY <1>4 DEF Web!NoRows
  <2> QED BY <1>1, <1>2, <2>1 DEF WebhookRows, WebhooksKept
<1> QED BY <1>1, <1>3, <1>4

(* An arrival: one more request, and possibly one more creation.           *)
LEMMA WebhookStart ==
  ASSUME WebhookRows, req \in [Requests -> WebhookRequests],
         NEW p \in Requests, NEW op \in {"list", "create", "ping", "dispatch"},
         NEW u \in Users, NEW events \in SUBSET Events, NEW h \in 0..created,
         Web!Start(p, op, u, events, h)
  PROVE  WebhooksKept
<1> DEFINE record == [step |-> IF op = "ping" THEN "find_hook" ELSE "visible",
                      op |-> op, actor |-> u, events |-> events, hook |-> h,
                      seen |-> 0, outcome |-> "failure", todo |-> {}]
<1>1. h \in Nat
  BY DEF WebhookRows
<1>2. /\ record \in Web!Request /\ record.op = op /\ record.todo = {}
      /\ record.step \in {"find_hook", "visible"}
      /\ record.step = "find_hook" <=> op = "ping"
  BY <1>1 DEF Web!Request, Web!Steps, Web!Outcomes
<1>3. /\ Web!Becomes(p, record) /\ req[p].step = "idle"
      /\ started < MaxRequests /\ started' = started + 1
      /\ UNCHANGED <<repo, made, hooks, created, deliveries, posts, unrecorded>>
  BY DEF Web!Start, Web!Arrive, Web!At, Web!RepositoryUnchanged,
         Web!HooksUnchanged, Web!HistoryUnchanged
<1> HIDE DEF record
<1>4. record \in WebhookRequests
  BY <1>2 DEF WebhookRequests
<1>5. /\ req' \in [Requests -> WebhookRequests] /\ req'[p] = record
      /\ \A q \in Requests \ {p} : req'[q] = req[q]
  BY <1>3, <1>4, SlotsStay DEF Web!Becomes, Becomes
<1>6. started \in Nat /\ started' \in Nat /\ started' <= MaxRequests
  BY <1>3, ServingAssumption DEF WebhookRows
<1>7. IsFiniteSet(Creating') /\ created + Cardinality(Creating') <= started'
  <2>1. /\ IsFiniteSet(Creating')
        /\ Cardinality(Creating) \in Nat /\ Cardinality(Creating') \in Nat
        /\ Cardinality(Creating') <= Cardinality(Creating) + 1
    BY <1>5, CreatingCount DEF WebhookRows
  <2>2. created \in Nat /\ created + Cardinality(Creating) <= started
    BY DEF WebhookRows
  <2> QED BY <1>3, <1>6, <2>1, <2>2
<1>8. \A k \in DOMAIN hooks : AddsUp(k)'
  <2> SUFFICES ASSUME NEW k \in DOMAIN hooks PROVE AddsUp(k)'
    OBVIOUS
  <2>1. AddsUp(k)
    BY DEF WebhookRows
  <2>2. Web!Posted(k)' = Web!Posted(k)
    BY <1>2, <1>3, <1>5, PostedSlot DEF Posts
  <2> QED BY <1>3, <2>1, <2>2 DEF AddsUp, Web!Recorded
<1>9. WebhookRequests' = WebhookRequests
  BY <1>3 DEF WebhookRequests
<1> QED BY <1>3, <1>5, <1>6, <1>7, <1>8, <1>9 DEF WebhookRows, WebhooksKept

(* The calls before and after the work.                                    *)
LEMMA WebhookCalls ==
  ASSUME WebhookRows, req \in [Requests -> WebhookRequests], NEW p \in Requests,
         \/ Web!FindHook(p) \/ Web!Visible(p) \/ Web!Writable(p)
         \/ Web!ListWebhooks(p) \/ Web!Select(p) \/ Web!Audit(p)
  PROVE  WebhooksKept
<1> USE DEF Web!At
<1>1. UNCHANGED <<repo, made, started, hooks, created, deliveries, posts, unrecorded>>
      /\ req[p].step # "record" /\ req[p].step # "idle"
  BY DEF Web!FindHook, Web!Visible, Web!Writable, Web!ListWebhooks, Web!Select,
         Web!Audit, Web!Record, Web!OnlyRequests, Web!RepositoryUnchanged,
         Web!Quietly, Web!HooksUnchanged, Web!HistoryUnchanged,
         Web!VisibleRepository, Web!WritableRepository
<1>2. CASE Web!Answer(p)
  BY <1>1, <1>2, WebhookAnswered
<1>3. /\ req[p] \in Web!Request \ {Idle} /\ req[p].todo \subseteq 1..created
      /\ req[p].step = "find_hook" => req[p].op = "ping"
      /\ req[p].step \in {"visible", "writable"} =>
           (req[p].op = "ping" <=> req[p].todo # {})
  BY <1>1 DEF WebhookRequests, Idle
<1>4. ASSUME NEW record, Web!Becomes(p, record), record \in Web!Request,
             record.step \notin {"idle", "record", "find_hook"},
             record.op = req[p].op, record.todo \subseteq 1..created,
             record.step = "send" => record.todo # {},
             record.step \in {"visible", "writable"} =>
               (record.op = "ping" <=> record.todo # {}),
             record.step \in {"insert", "audit"} => record.todo = {},
             record.step = "insert" => record.op = "create",
             record.step \in {"visible", "writable", "insert"}
               /\ record.op = "create" => Creates(req[p])
      PROVE  WebhooksKept
  <2>1. record \in WebhookRequests
    BY <1>4 DEF WebhookRequests
  <2> QED BY <1>1, <1>4, <2>1, WebhookQuiet DEF Creates
<1>5. CASE Web!FindHook(p) /\ ~Web!Answer(p)
  <2> DEFINE h == req[p].hook
             record == [req[p] EXCEPT !.step = "visible", !.todo = {h}]
  <2>1. h \in DOMAIN hooks /\ Web!Becomes(p, record) /\ req[p].op = "ping"
    BY <1>3, <1>5 DEF Web!FindHook
  <2>2. h \in 1..created /\ h \in Web!HookIds
    BY <2>1, CreatedBound DEF WebhookRows
  <2>3. /\ record \in Web!Request /\ record.step = "visible"
        /\ record.op = req[p].op /\ record.todo = {h}
    BY <1>3, <2>2 DEF Web!Request, Web!Idle, Idle, Web!Steps
  <2> HIDE DEF record, h
  <2> QED BY <1>4, <2>1, <2>2, <2>3
<1>6. CASE Web!Visible(p) /\ ~Web!Answer(p)
  <2> DEFINE record == [req[p] EXCEPT !.seen = repo, !.step = "writable"]
  <2>1. Web!Becomes(p, record) /\ req[p].step = "visible" /\ repo \in Nat
    BY <1>6 DEF Web!Visible, Web!VisibleRepository, WebhookRows
  <2>2. /\ record \in Web!Request /\ record.step = "writable"
        /\ record.op = req[p].op /\ record.todo = req[p].todo
    BY <1>3, <2>1 DEF Web!Request, Web!Idle, Idle, Web!Steps
  <2> HIDE DEF record
  <2> QED BY <1>3, <1>4, <2>1, <2>2 DEF Creates
<1>7. CASE Web!Writable(p) /\ ~Web!Answer(p)
  <2> DEFINE step == Web!AfterWritable(req[p].op)
             record == [req[p] EXCEPT !.step = step]
  <2>1. Web!Becomes(p, record) /\ req[p].step = "writable"
    BY <1>7 DEF Web!Writable, Web!WritableRepository, Web!GoTo
  <2>2. req[p].op \in {"list", "create", "ping", "dispatch"}
    BY <1>3 DEF Web!Request, Web!Idle, Idle
  <2>3. /\ step \in {"list", "insert", "send", "select"}
        /\ step = "insert" => req[p].op = "create"
        /\ step = "send" => req[p].op = "ping"
    BY <2>2 DEF Web!AfterWritable
  <2> HIDE DEF step
  <2>4. /\ record \in Web!Request /\ record.step = step
        /\ record.op = req[p].op /\ record.todo = req[p].todo
    BY <1>3, <2>3 DEF Web!Request, Web!Idle, Idle, Web!Steps
  <2> HIDE DEF record
  <2> QED BY <1>3, <1>4, <2>1, <2>3, <2>4 DEF Creates
<1>8. CASE Web!Select(p)
  <2> DEFINE ids == {h \in DOMAIN hooks : req[p].events \subseteq hooks[h]}
             step == IF ids = {} THEN "audit" ELSE "send"
             record == [req[p] EXCEPT !.todo = ids, !.step = step]
  <2>1. Web!Becomes(p, record)
    BY <1>8 DEF Web!Select
  <2>2. ids \subseteq 1..created /\ ids \subseteq Web!HookIds
    BY CreatedBound DEF WebhookRows
  <2>3. step \in {"audit", "send"} /\ (step = "audit" <=> ids = {})
    OBVIOUS
  <2> HIDE DEF ids, step
  <2>4. /\ record \in Web!Request /\ record.step = step
        /\ record.op = req[p].op /\ record.todo = ids
    BY <1>3, <2>2, <2>3 DEF Web!Request, Web!Idle, Idle, Web!Steps
  <2> HIDE DEF record
  <2> QED BY <1>4, <2>1, <2>2, <2>3, <2>4
<1>9. CASE Web!ListWebhooks(p) \/ Web!Audit(p)
  BY <1>2, <1>9 DEF Web!ListWebhooks, Web!Audit, Web!Record
<1> QED BY <1>2, <1>5, <1>6, <1>7, <1>8, <1>9

(* INSERT INTO webhooks: the id is new to requests and counts.             *)
LEMMA WebhookInsert ==
  ASSUME WebhookRows, req \in [Requests -> WebhookRequests], NEW p \in Requests,
         Web!InsertHook(p), repo # 0
  PROVE  WebhooksKept
<1>1. PICK h : h = created + 1
  OBVIOUS
<1>2. /\ req[p].step = "insert" /\ Web!GoTo(p, "audit")
      /\ created' = h
      /\ hooks' = [k \in DOMAIN hooks \cup {h} |->
                     IF k = h THEN req[p].events ELSE hooks[k]]
      /\ deliveries' = [k \in DOMAIN deliveries \cup {h} |->
                          IF k = h THEN Web!NoDelivery ELSE deliveries[k]]
      /\ UNCHANGED <<repo, made, started, posts, unrecorded>>
  BY <1>1 DEF Web!InsertHook, Web!At, Web!Touch, Web!Quietly, Web!HistoryUnchanged
<1>3. /\ req[p] \in Web!Request \ {Idle} /\ req[p].op = "create"
      /\ req[p].todo = {}
  BY <1>2 DEF WebhookRequests, Idle
<1>4. p \in Creating /\ Creates(req[p])
  BY <1>2, <1>3 DEF Creating, Creates
<1>5. /\ created \in Nat /\ h \in Nat /\ h \in Web!HookIds /\ created < h
      /\ h \notin 1..created /\ h \notin DOMAIN hooks /\ 1..created \subseteq 1..h
      /\ h \in 1..h
  BY <1>1, <1>4, CreatedBound, ServingAssumption DEF WebhookRows, Web!HookIds
<1>6. PICK record : record = [req[p] EXCEPT !.step = "audit"]
  OBVIOUS
<1>7. /\ record \in Web!Request /\ record.step = "audit" /\ record.op = "create"
      /\ record.todo = {}
  BY <1>3, <1>6 DEF Web!Request, Web!Idle, Idle, Web!Steps
<1>8. record \in WebhookRequests
  BY <1>7 DEF WebhookRequests
<1>9. /\ req' \in [Requests -> WebhookRequests] /\ req'[p] = record
      /\ \A q \in Requests \ {p} : req'[q] = req[q]
  BY <1>2, <1>6, <1>8, SlotsStay DEF Web!GoTo, Web!Becomes, Becomes
<1>10. req' \in [Requests -> WebhookRequests']
  BY <1>2, <1>5, <1>9, WebhookRequestsGrow
<1>11. IsFiniteSet(Creating') /\ h + Cardinality(Creating') <= started
  <2>1. /\ IsFiniteSet(Creating')
        /\ Cardinality(Creating) \in Nat /\ Cardinality(Creating') \in Nat
        /\ Cardinality(Creating') <= Cardinality(Creating) - 1
    BY <1>4, <1>7, <1>9, CreatingCount DEF WebhookRows, Creates
  <2>2. started \in Nat /\ created + Cardinality(Creating) <= started
    BY DEF WebhookRows
  <2> QED BY <1>1, <1>5, <2>1, <2>2
<1>12. /\ DOMAIN hooks' = DOMAIN hooks \cup {h}
       /\ DOMAIN hooks' \subseteq 1..h
       /\ deliveries' \in [DOMAIN hooks' -> [Web!Outcomes -> Nat]]
       /\ \A k \in DOMAIN hooks : deliveries'[k] = deliveries[k]
       /\ deliveries'[h] = Web!NoDelivery
  <2>1. Web!NoDelivery \in [Web!Outcomes -> Nat]
    BY DEF Web!NoDelivery
  <2> QED BY <1>2, <1>5, <2>1 DEF WebhookRows
<1>13. ASSUME NEW k \in DOMAIN hooks PROVE AddsUp(k)'
  <2>1. AddsUp(k)
    BY DEF WebhookRows
  <2>2. Web!Posted(k)' = Web!Posted(k)
    BY <1>2, <1>7, <1>9, PostedSlot DEF Posts
  <2> QED BY <1>2, <1>12, <2>1, <2>2 DEF AddsUp, Web!Recorded
<1>14. AddsUp(h)'
  <2>1. ASSUME NEW q \in Requests, req'[q].step = "record",
               Web!First(req'[q].todo) = h
        PROVE  FALSE
    <3>1. PICK ids : ids = req'[q].todo
      OBVIOUS
    <3>2. ids # {} /\ ids \subseteq 1..created
      BY <1>9, <2>1, <3>1 DEF WebhookRequests, Idle
    <3>3. Web!First(ids) \in ids
      BY <3>2, FirstOfIds
    <3> QED BY <1>5, <2>1, <3>1, <3>2, <3>3
  <2>2. Web!Posted(h)' = {}
    BY <2>1 DEF Web!Posted, Web!At
  <2>3. posts[h] = 0 /\ unrecorded[h] = 0
    BY <1>5 DEF WebhookRows
  <2>4. deliveries'[h]["success"] = 0 /\ deliveries'[h]["failure"] = 0
    BY <1>12 DEF Web!NoDelivery, Web!Outcomes
  <2> QED BY <1>2, <2>2, <2>3, <2>4, FS_EmptySet DEF AddsUp, Web!Recorded
<1>15. \A k \in Web!HookIds : h < k => posts[k] = 0 /\ unrecorded[k] = 0
  <2>1. \A k \in Web!HookIds : h < k => created < k
    BY <1>1, <1>5, ServingAssumption DEF Web!HookIds
  <2> QED BY <2>1 DEF WebhookRows
<1> QED BY <1>2, <1>5, <1>10, <1>11, <1>12, <1>13, <1>14, <1>15
        DEF WebhookRows, WebhooksKept

(* The webhook a request serves next.                                      *)
LEMMA ServedHook ==
  ASSUME WebhookRows, NEW q \in WebhookRequests, q.step \in {"send", "record"},
         NEW h, h = Web!First(q.todo)
  PROVE  /\ q \in Web!Request \ {Idle} /\ q.todo \subseteq 1..created
         /\ h \in q.todo /\ h \in 1..created /\ h \in Web!HookIds
<1>1. /\ q \in Web!Request \ {Idle} /\ q.todo \subseteq 1..created
      /\ q.todo # {}
  BY DEF WebhookRequests, Idle
<1>2. h \in q.todo /\ h \in 1..created
  BY <1>1, FirstOfIds
<1>3. 1..created \subseteq 1..MaxRequests
  BY CreatedBound, ServingAssumption DEF WebhookRows
<1> QED BY <1>1, <1>2, <1>3 DEF Web!HookIds

(* The post.                                                               *)
LEMMA WebhookSend ==
  ASSUME WebhookRows, req \in [Requests -> WebhookRequests], NEW p \in Requests,
         Web!Send(p)
  PROVE  WebhooksKept
<1>1. PICK h : h = Web!First(req[p].todo)
  OBVIOUS
<1>2. /\ req[p].step = "send" /\ posts' = [posts EXCEPT ![h] = @ + 1]
      /\ UNCHANGED <<repo, made, started, hooks, created, deliveries, unrecorded>>
  BY <1>1 DEF Web!Send, Web!At, Web!RepositoryUnchanged, Web!Quietly,
              Web!HooksUnchanged
<1>3. PICK result \in Web!Outcomes :
        Web!Becomes(p, [req[p] EXCEPT !.step = "record", !.outcome = result])
  BY DEF Web!Send
<1>4. /\ req[p] \in Web!Request \ {Idle} /\ req[p].todo \subseteq 1..created
      /\ h \in req[p].todo /\ h \in 1..created /\ h \in Web!HookIds
  BY <1>1, <1>2, ServedHook
<1>5. PICK record :
        record = [req[p] EXCEPT !.step = "record", !.outcome = result]
  OBVIOUS
<1>6. /\ record \in Web!Request /\ record.step = "record"
      /\ record.op = req[p].op /\ record.todo = req[p].todo
  BY <1>4, <1>5 DEF Web!Request, Web!Idle, Idle, Web!Steps
<1>7. record \in WebhookRequests
  BY <1>4, <1>6 DEF WebhookRequests
<1>8. /\ req' \in [Requests -> WebhookRequests] /\ req'[p] = record
      /\ \A q \in Requests \ {p} : req'[q] = req[q]
  BY <1>3, <1>5, <1>7, SlotsStay DEF Web!Becomes, Becomes
<1>9. WebhookRequests' = WebhookRequests
  BY <1>2 DEF WebhookRequests
<1>10. IsFiniteSet(Creating') /\ created + Cardinality(Creating') <= started
  <2>1. /\ IsFiniteSet(Creating')
        /\ Cardinality(Creating) \in Nat /\ Cardinality(Creating') \in Nat
        /\ Cardinality(Creating') <= Cardinality(Creating)
    BY <1>6, <1>8, CreatingCount DEF WebhookRows, Creates
  <2>2. created \in Nat /\ started \in Nat
        /\ created + Cardinality(Creating) <= started
    BY DEF WebhookRows
  <2> QED BY <2>1, <2>2
<1>11. /\ posts' \in [Web!HookIds -> Nat] /\ posts'[h] = posts[h] + 1
       /\ \A k \in Web!HookIds \ {h} : posts'[k] = posts[k]
  BY <1>2, <1>4 DEF WebhookRows
<1>12. ASSUME NEW k \in DOMAIN hooks PROVE AddsUp(k)'
  <2>1. AddsUp(k) /\ k \in Web!HookIds
    BY CreatedBound DEF WebhookRows
  <2>2. /\ ~Posts(req[p], k)
        /\ Posts(req'[p], k) <=> k = h
    BY <1>1, <1>2, <1>6, <1>8 DEF Posts
  <2>3. /\ IsFiniteSet(Web!Posted(k)') /\ Cardinality(Web!Posted(k)) \in Nat
        /\ Cardinality(Web!Posted(k)')
             = IF k = h THEN Cardinality(Web!Posted(k)) + 1
                        ELSE Cardinality(Web!Posted(k))
    BY <1>8, <2>1, <2>2, PostedCount DEF AddsUp
  <2>4. Web!Recorded(k)' = Web!Recorded(k) /\ unrecorded'[k] = unrecorded[k]
    BY <1>2 DEF Web!Recorded
  <2>5. Web!Recorded(k) \in Nat /\ unrecorded[k] \in Nat
    BY <2>1 DEF WebhookRows, Web!Recorded, Web!Outcomes
  <2> HIDE DEF Posts
  <2>6. posts'[k] = Web!Recorded(k) + Cardinality(Web!Posted(k)') + unrecorded[k]
    BY <1>11, <2>1, <2>3, <2>5 DEF AddsUp
  <2> QED BY <2>3, <2>4, <2>6 DEF AddsUp
<1>13. \A k \in Web!HookIds : created < k => posts'[k] = 0
  <2>1. ~(created < h)
    BY <1>4 DEF WebhookRows
  <2> QED BY <1>11, <2>1 DEF WebhookRows
<1> QED BY <1>2, <1>8, <1>9, <1>10, <1>11, <1>12, <1>13 DEF WebhookRows, WebhooksKept

(* A request that has posted comes to an end of some kind: the post leaves *)
(* the set of unrecorded ones for one of the counts.                       *)
LEMMA WebhookSettles ==
  ASSUME WebhookRows, req \in [Requests -> WebhookRequests], NEW p \in Requests,
         req[p].step = "record", NEW h, h = Web!First(req[p].todo),
         NEW record \in WebhookRequests, Web!Becomes(p, record),
         record.step \notin {"record", "visible", "writable", "insert"},
         UNCHANGED <<repo, made, started, hooks, created, posts>>,
         deliveries' \in [DOMAIN hooks -> [Web!Outcomes -> Nat]],
         unrecorded' \in [Web!HookIds -> Nat],
         \A k \in DOMAIN hooks :
           Web!Recorded(k)' + unrecorded'[k] =
             Web!Recorded(k) + unrecorded[k] + (IF k = h THEN 1 ELSE 0),
         \A k \in Web!HookIds \ {h} : unrecorded'[k] = unrecorded[k]
  PROVE  WebhooksKept
<1>1. /\ req' \in [Requests -> WebhookRequests] /\ req'[p] = record
      /\ \A q \in Requests \ {p} : req'[q] = req[q]
  BY SlotsStay DEF Web!Becomes, Becomes
<1>2. WebhookRequests' = WebhookRequests
  BY DEF WebhookRequests
<1>3. IsFiniteSet(Creating') /\ created + Cardinality(Creating') <= started
  <2>1. /\ IsFiniteSet(Creating')
        /\ Cardinality(Creating) \in Nat /\ Cardinality(Creating') \in Nat
        /\ Cardinality(Creating') <= Cardinality(Creating)
    BY <1>1, CreatingCount DEF WebhookRows, Creates
  <2>2. created \in Nat /\ started \in Nat
        /\ created + Cardinality(Creating) <= started
    BY DEF WebhookRows
  <2> QED BY <2>1, <2>2
<1>4. ASSUME NEW k \in DOMAIN hooks PROVE AddsUp(k)'
  <2>1. AddsUp(k) /\ k \in Web!HookIds
    BY CreatedBound DEF WebhookRows
  <2>2. /\ Posts(req[p], k) <=> k = h
        /\ ~Posts(req'[p], k)
    BY <1>1 DEF Posts
  <2>3. /\ IsFiniteSet(Web!Posted(k)') /\ Cardinality(Web!Posted(k)) \in Nat
        /\ Cardinality(Web!Posted(k)')
             = IF k = h THEN Cardinality(Web!Posted(k)) - 1
                        ELSE Cardinality(Web!Posted(k))
    BY <1>1, <2>1, <2>2, PostedCount DEF AddsUp
  <2>4. /\ Web!Recorded(k) \in Nat /\ unrecorded[k] \in Nat
        /\ Web!Recorded(k)' \in Nat /\ unrecorded'[k] \in Nat
    BY <2>1 DEF WebhookRows, Web!Recorded, Web!Outcomes
  <2>5. Web!Recorded(k)' + unrecorded'[k] =
          Web!Recorded(k) + unrecorded[k] + (IF k = h THEN 1 ELSE 0)
    OBVIOUS
  <2>6. posts[k] = Web!Recorded(k) + Cardinality(Web!Posted(k)) + unrecorded[k]
    BY <2>1 DEF AddsUp
  <2>7. posts[k] = Web!Recorded(k)' + Cardinality(Web!Posted(k)') + unrecorded'[k]
    <3>1. PICK before, after :
            /\ before = Cardinality(Web!Posted(k))
            /\ after = Cardinality(Web!Posted(k)')
      OBVIOUS
    <3>2. PICK rows, newRows, lost, newLost :
            /\ rows = Web!Recorded(k) /\ newRows = Web!Recorded(k)'
            /\ lost = unrecorded[k] /\ newLost = unrecorded'[k]
      OBVIOUS
    <3>3. /\ before \in Nat
          /\ after = IF k = h THEN before - 1 ELSE before
      BY <2>3, <3>1
    <3>4. /\ rows \in Nat /\ lost \in Nat /\ newRows \in Nat /\ newLost \in Nat
          /\ newRows + newLost = rows + lost + (IF k = h THEN 1 ELSE 0)
      BY <2>4, <2>5, <3>2
    <3>5. posts[k] = rows + before + lost
      BY <2>6, <3>1, <3>2
    <3>6. posts[k] = newRows + after + newLost
      BY <3>3, <3>4, <3>5
    <3> QED BY <3>1, <3>2, <3>6
  <2> QED BY <2>3, <2>7 DEF AddsUp
<1>5. \A k \in Web!HookIds : created < k => posts[k] = 0 /\ unrecorded'[k] = 0
  <2>1. h \in 1..created
    BY ServedHook
  <2>2. \A k \in Web!HookIds : created < k => k # h
    BY <2>1 DEF WebhookRows
  <2> QED BY <2>2 DEF WebhookRows
<1> QED BY <1>1, <1>2, <1>3, <1>4, <1>5 DEF WebhookRows, WebhooksKept

(* ... without a row, when the INSERT is refused or the request stops, ... *)
LEMMA WebhookStops ==
  ASSUME WebhookRows, req \in [Requests -> WebhookRequests], NEW p \in Requests,
         req[p].step = "record", Web!Stop(p),
         UNCHANGED <<repo, made, started, hooks, created, posts, deliveries>>
  PROVE  WebhooksKept
<1>1. PICK h : h = Web!First(req[p].todo)
  OBVIOUS
<1>2. h \in Web!HookIds
  BY <1>1, ServedHook
<1>3. unrecorded' = [unrecorded EXCEPT ![h] = @ + 1] /\ Web!Becomes(p, Idle)
  BY <1>1, WebhookAnswers DEF Web!Stop, Web!Answer
<1>4. /\ unrecorded' \in [Web!HookIds -> Nat]
      /\ unrecorded'[h] = unrecorded[h] + 1
      /\ \A k \in Web!HookIds \ {h} : unrecorded'[k] = unrecorded[k]
  BY <1>2, <1>3 DEF WebhookRows
<1>5. ASSUME NEW k \in DOMAIN hooks
      PROVE  Web!Recorded(k)' + unrecorded'[k] =
               Web!Recorded(k) + unrecorded[k] + (IF k = h THEN 1 ELSE 0)
  <2>1. k \in Web!HookIds
    BY CreatedBound
  <2>2. Web!Recorded(k)' = Web!Recorded(k)
    BY DEF Web!Recorded
  <2>3. Web!Recorded(k) \in Nat /\ unrecorded[k] \in Nat
    BY <2>1 DEF WebhookRows, Web!Recorded, Web!Outcomes
  <2> QED BY <1>4, <2>1, <2>2, <2>3
<1>6. deliveries' \in [DOMAIN hooks -> [Web!Outcomes -> Nat]]
  BY DEF WebhookRows
<1> QED BY <1>1, <1>3, <1>4, <1>5, <1>6, WebhookAnswers, WebhookSettles

(* ... or with one, and then the request goes on with the others.          *)
LEMMA WebhookRecords ==
  ASSUME WebhookRows, req \in [Requests -> WebhookRequests], NEW p \in Requests,
         Web!RecordDelivery(p), Web!First(req[p].todo) \in DOMAIN hooks
  PROVE  WebhooksKept
<1>1. PICK h : h = Web!First(req[p].todo)
  OBVIOUS
<1>2. PICK o : o = req[p].outcome
  OBVIOUS
<1>3. PICK step : step = Web!AfterRecord(req[p])
  OBVIOUS
<1>4. /\ req[p].step = "record" /\ h \in DOMAIN hooks
      /\ deliveries' = [deliveries EXCEPT ![h][o] = @ + 1]
      /\ Web!Becomes(p, [req[p] EXCEPT !.todo = @ \ {h}, !.step = step])
      /\ UNCHANGED <<repo, made, started, hooks, created, posts, unrecorded>>
  BY <1>1, <1>2, <1>3 DEF Web!RecordDelivery, Web!At, Web!Touch, Web!Quietly
<1>5. /\ req[p] \in Web!Request \ {Idle} /\ req[p].todo \subseteq 1..created
      /\ h \in req[p].todo
  BY <1>1, <1>4, ServedHook
<1>6. o \in Web!Outcomes
  BY <1>2, <1>5 DEF Web!Request, Web!Idle, Idle
<1>7. /\ step \in {"audit", "send"}
      /\ step = "audit" <=> req[p].todo = {h}
  BY <1>1, <1>3 DEF Web!AfterRecord
<1>8. PICK record : record = [req[p] EXCEPT !.todo = @ \ {h}, !.step = step]
  OBVIOUS
<1>9. /\ record \in Web!Request /\ record.step = step
      /\ record.op = req[p].op /\ record.todo = req[p].todo \ {h}
  BY <1>5, <1>7, <1>8 DEF Web!Request, Web!Idle, Idle, Web!Steps
<1>10. record.todo = {} <=> req[p].todo = {h}
  BY <1>5, <1>9
<1>11. record \in WebhookRequests
  BY <1>5, <1>7, <1>9, <1>10 DEF WebhookRequests
<1>12. /\ deliveries[h] \in [Web!Outcomes -> Nat]
       /\ deliveries'[h] = [deliveries[h] EXCEPT ![o] = @ + 1]
       /\ \A k \in DOMAIN hooks \ {h} : deliveries'[k] = deliveries[k]
       /\ DOMAIN deliveries' = DOMAIN hooks
       /\ deliveries' = [k \in DOMAIN hooks |-> deliveries'[k]]
  BY <1>4 DEF WebhookRows
<1>13. /\ deliveries'[h] \in [Web!Outcomes -> Nat]
       /\ deliveries'[h]["success"] + deliveries'[h]["failure"]
            = deliveries[h]["success"] + deliveries[h]["failure"] + 1
  BY <1>6, <1>12 DEF Web!Outcomes
<1>14. deliveries' \in [DOMAIN hooks -> [Web!Outcomes -> Nat]]
  BY <1>12, <1>13 DEF WebhookRows
<1>15. ASSUME NEW k \in DOMAIN hooks
       PROVE  Web!Recorded(k)' + unrecorded'[k] =
                Web!Recorded(k) + unrecorded[k] + (IF k = h THEN 1 ELSE 0)
  <2>1. k \in Web!HookIds
    BY CreatedBound
  <2>2. Web!Recorded(k) \in Nat /\ unrecorded[k] \in Nat
    BY <2>1 DEF WebhookRows, Web!Recorded, Web!Outcomes
  <2>3. Web!Recorded(k)' = Web!Recorded(k) + (IF k = h THEN 1 ELSE 0)
    <3>1. CASE k = h
      BY <1>13, <3>1 DEF Web!Recorded
    <3>2. CASE k # h
      BY <1>12, <2>2, <3>2 DEF Web!Recorded
    <3> QED BY <3>1, <3>2
  <2>4. unrecorded'[k] = unrecorded[k]
    BY <1>4
  <2> QED BY <2>2, <2>3, <2>4
<1>16. unrecorded' \in [Web!HookIds -> Nat]
  BY <1>4 DEF WebhookRows
<1>17. Web!Becomes(p, record)
  BY <1>4, <1>8
<1>18. record.step \notin {"record", "visible", "writable", "insert"}
  BY <1>7, <1>9
<1>19. \A k \in Web!HookIds \ {h} : unrecorded'[k] = unrecorded[k]
  BY <1>4
<1>20. UNCHANGED <<repo, made, started, hooks, created, posts>>
  BY <1>4
<1> QED
  BY <1>1, <1>4, <1>11, <1>14, <1>15, <1>16, <1>17, <1>18, <1>19, <1>20,
     WebhookSettles

(* Every step of the component keeps the invariant, ...                    *)
LEMMA WebhooksNextKeeps ==
  ASSUME WebhookRows, req \in [Requests -> WebhookRequests], Web!WebhooksNext
  PROVE  WebhooksKept
<1>1. ASSUME NEW p \in Requests, Web!InsertHook(p) PROVE WebhooksKept
  <2>1. CASE repo = 0
    BY <1>1, <2>1, WebhookAnswered DEF Web!InsertHook, Web!At,
       Web!RepositoryUnchanged, Web!HooksUnchanged, Web!HistoryUnchanged,
       Web!Quietly
  <2> QED BY <1>1, <2>1, WebhookInsert
<1>2. ASSUME NEW p \in Requests, Web!RecordDelivery(p) PROVE WebhooksKept
  <2>1. CASE Web!First(req[p].todo) \notin DOMAIN hooks
    BY <1>2, <2>1, WebhookStops DEF Web!RecordDelivery, Web!At,
       Web!RepositoryUnchanged, Web!Quietly
  <2> QED BY <1>2, <2>1, WebhookRecords
<1>3. ASSUME NEW p \in Requests, Web!Fail(p) PROVE WebhooksKept
  BY <1>3, WebhookStops, WebhookAnswered DEF Web!Fail, Web!Drop, Web!At,
     Web!RepositoryUnchanged, Web!HooksUnchanged, Web!Quietly
<1> QED BY <1>1, <1>2, <1>3, WebhooksIncarnation, WebhookStart, WebhookCalls,
           WebhookSend
        DEF Web!WebhooksNext, Web!Deliver

(* ... and so does every step.                                             *)
LEMMA WebhooksInvariant == Spec => []WebhooksInv
<1>1. Init => WebhooksInv
  <2> SUFFICES ASSUME Init
               PROVE  WebhookRows /\ req \in [Requests -> WebhookRequests]
    BY DEF WebhooksInv
  <2>1. /\ req = [p \in Requests |-> Idle] /\ repo = 0 /\ made = 0
        /\ started = 0 /\ created = 0
        /\ hooks = Web!NoRows /\ deliveries = Web!NoRows
        /\ posts = [h \in Web!HookIds |-> 0]
        /\ unrecorded = [h \in Web!HookIds |-> 0]
    BY WebhookAnswers
       DEF Init, Web!WebhooksInit, Web!ServingInit, Web!RepositoryInit
  <2>2. req \in [Requests -> WebhookRequests] /\ Creating = {}
    BY <2>1, WebhookAnswers DEF Creating
  <2>3. DOMAIN hooks = {} /\ deliveries \in [{} -> [Web!Outcomes -> Nat]]
    BY <2>1 DEF Web!NoRows
  <2>4. IsFiniteSet(Creating) /\ Cardinality(Creating) = 0
    BY <2>2, FS_EmptySet
  <2> QED BY <2>1, <2>2, <2>3, <2>4, ServingAssumption DEF WebhookRows
<1>2. WebhooksInv /\ [Next]_vars => WebhooksInv'
  <2> SUFFICES ASSUME WebhooksInv, [Next]_vars, component = "webhooks"
               PROVE  WebhooksKept
    BY OneComponent DEF WebhooksInv, WebhooksKept
  <2>1. CASE Web!WebhooksNext
    BY <2>1, WebhooksNextKeeps DEF WebhooksInv
  <2>2. CASE UNCHANGED Web!webhooksVars
    <3>1. /\ UNCHANGED <<req, started, repo, made, hooks, created, deliveries,
                         posts, unrecorded>>
      BY <2>2 DEF Web!webhooksVars
    <3>2. /\ Creating' = Creating /\ WebhookRequests' = WebhookRequests
          /\ \A h : Web!Posted(h)' = Web!Posted(h)
      BY <3>1 DEF Creating, WebhookRequests, Web!Posted, Web!At
    <3>3. \A h \in DOMAIN hooks : AddsUp(h)'
      BY <3>1, <3>2 DEF WebhooksInv, WebhookRows, AddsUp, Web!Recorded
    <3> QED BY <3>1, <3>2, <3>3 DEF WebhooksInv, WebhookRows, WebhooksKept
  <2> QED BY <2>1, <2>2, OneComponent
<1> QED BY <1>1, <1>2, PTL DEF Spec

(* Each post to an endpoint becomes one delivery unless its request        *)
(* stopped in between, and a request records its entry only when each      *)
(* webhook it selected was served, whatever endpoints answer and whatever  *)
(* becomes of the repository.                                              *)
THEOREM DispatchIsCompleteAlways == Spec => []DispatchIsComplete
<1>1. WebhooksInv => DispatchIsComplete
  BY WebhooksCardinality
     DEF WebhooksInv, WebhookRows, AddsUp, WebhookRequests, Idle,
         DispatchIsComplete, Web!DispatchIsComplete, Web!At
<1> QED BY <1>1, WebhooksInvariant, PTL
-----------------------------------------------------------------------------
(***************************************************************************)
(* Texts.  FlattenSeq is a recursive function: that it lays out its pieces *)
(* one after the other is shown by the least counterexample, so that what  *)
(* follows holds for texts of any length.                                  *)
(***************************************************************************)
(* A set of naturals that is not empty has a least one: induction, over    *)
(* the set of the counterexamples.                                         *)
LEMMA LeastNatural ==
  ASSUME NEW T, T \subseteq Nat, T # {}
  PROVE  \E m \in T : \A k \in T : m <= k
<1>1. PICK m \in T : \A k \in T : ~(<<k, m>> \in OpToRel(<, Nat))
  BY NatLessThanWellFounded, WFMin, Zenon
<1>2. ASSUME NEW k \in T PROVE m <= k
  <2>1. k \in Nat /\ m \in Nat
    OBVIOUS
  <2>2. ~(k < m)
    BY <1>1, <2>1, Zenon DEF OpToRel
  <2> QED BY <2>1, <2>2
<1> QED BY <1>2

(* The recursion of FlattenSeq has a solution.                             *)
Flattens(f, seqs, n) ==
  f = [i \in 1..n |-> IF i = 1 THEN seqs[i] ELSE f[i - 1] \o seqs[i]]

(* ... which induction over its first n values gives.                      *)
LEMMA FlatteningExists ==
  ASSUME NEW seqs, NEW n \in Nat
  PROVE  \E f : Flattens(f, seqs, n)
<1> DEFINE T == {m \in Nat : ~\E f : Flattens(f, seqs, m)}
<1> SUFFICES ASSUME T # {} PROVE FALSE
  OBVIOUS
<1>1. PICK m \in T : \A k \in T : m <= k
  BY LeastNatural
<1>2. m \in Nat /\ ~\E f : Flattens(f, seqs, m)
  BY <1>1
<1>3. m # 0
  <2>1. Flattens([i \in 1..0 |-> 0], seqs, 0)
    BY DEF Flattens
  <2> QED BY <1>2, <2>1
<1>4. m - 1 \in Nat /\ m - 1 \notin T
  BY <1>1, <1>2, <1>3
<1>5. PICK g : Flattens(g, seqs, m - 1)
  BY <1>4
<1> DEFINE f == [i \in 1..m |-> IF i < m THEN g[i]
                                ELSE IF i = 1 THEN seqs[i]
                                              ELSE g[i - 1] \o seqs[i]]
<1>6. ASSUME NEW i \in 1..m
      PROVE  f[i] = IF i = 1 THEN seqs[i] ELSE f[i - 1] \o seqs[i]
  <2>1. CASE i = m
    <3>1. i # 1 => i - 1 \in 1..m /\ i - 1 < m
      BY <2>1, <1>2
    <3> QED BY <2>1, <3>1
  <2>2. CASE i # m
    <3>1. i < m /\ i \in 1..(m - 1)
      BY <1>2, <2>2
    <3>2. f[i] = g[i]
      BY <3>1
    <3>3. g[i] = IF i = 1 THEN seqs[i] ELSE g[i - 1] \o seqs[i]
      BY <1>5, <3>1 DEF Flattens
    <3>4. i # 1 => i - 1 \in 1..m /\ i - 1 < m
      BY <1>2, <3>1
    <3> QED BY <3>2, <3>3, <3>4
  <2> QED BY <2>1, <2>2
<1>7. Flattens(f, seqs, m)
  <2>1. f = [i \in 1..m |-> f[i]]
    OBVIOUS
  <2> HIDE DEF f
  <2> QED BY <1>6, <2>1 DEF Flattens
<1> QED BY <1>2, <1>7

(* What the solution is: the pieces one after the other, the k-th of them  *)
(* after at[k - 1] elements of those before it.                            *)
Laid(text, pieces, at) ==
  LET n == Len(pieces) IN
  /\ at \in [0..n -> Nat] /\ at[0] = 0 /\ at[n] = Len(text)
  /\ \A k \in 1..n : at[k] = at[k - 1] + Len(pieces[k]) /\ at[k] <= at[n]
  /\ \A k \in 1..n : \A j \in 1..Len(pieces[k]) :
       text[at[k - 1] + j] = pieces[k][j]

(* The first k pieces, one after the other.                                *)
Prefixes(f, pieces, n, S) ==
  /\ \A k \in 1..n : f[k] \in Seq(S)
  /\ f[1] = pieces[1]
  /\ \A k \in 2..n : f[k] = f[k - 1] \o pieces[k]

(* They are what the recursion collects.                                   *)
LEMMA FlattenedPrefixes ==
  ASSUME NEW S, NEW pieces \in Seq(Seq(S)), NEW n, n = Len(pieces), n # 0,
         NEW f, Flattens(f, pieces, n)
  PROVE  Prefixes(f, pieces, n, S)
<1>1. n \in Nat /\ \A k \in 1..n : pieces[k] \in Seq(S)
  BY LenProperties, ElementOfSeq
<1>2. f[1] = pieces[1] /\ \A k \in 2..n : f[k] = f[k - 1] \o pieces[k]
  <2>1. 1 \in 1..n
    BY <1>1
  <2>2. \A k \in 1..n :
          f[k] = IF k = 1 THEN pieces[k] ELSE f[k - 1] \o pieces[k]
    BY DEF Flattens
  <2>3. \A k \in 2..n : k \in 1..n /\ k # 1
    BY <1>1
  <2> QED BY <2>1, <2>2, <2>3
<1> DEFINE T == {k \in 1..n : f[k] \notin Seq(S)}
<1>3. T = {}
  <2> SUFFICES ASSUME T # {} PROVE FALSE
    OBVIOUS
  <2>1. PICK m \in T : \A k \in T : m <= k
    <3>1. T \subseteq Nat
      BY <1>1
    <3> QED BY <3>1, LeastNatural
  <2>2. m # 1
    BY <1>1, <1>2, <2>1
  <2>3. m \in 2..n /\ m - 1 \in 1..n /\ m - 1 \notin T
    BY <1>1, <2>1, <2>2
  <2>4. f[m - 1] \in Seq(S) /\ pieces[m] \in Seq(S)
    BY <1>1, <2>3
  <2>5. PICK a, b : a = f[m - 1] /\ b = pieces[m]
    OBVIOUS
  <2>6. f[m] = a \o b /\ a \in Seq(S) /\ b \in Seq(S)
    BY <1>2, <2>3, <2>4, <2>5
  <2>7. f[m] \in Seq(S)
    BY <2>6, ConcatProperties
  <2> QED BY <2>1, <2>7
<1>4. \A k \in 1..n : f[k] \in Seq(S)
  BY <1>3
<1> HIDE DEF T
<1> QED BY <1>2, <1>4 DEF Prefixes

(* So its last value lays out all the pieces.                              *)
LEMMA FlattenedIsLaid ==
  ASSUME NEW S, NEW pieces \in Seq(Seq(S)), NEW n, n = Len(pieces), n # 0,
         NEW f, Flattens(f, pieces, n)
  PROVE  f[n] \in Seq(S) /\ \E at : Laid(f[n], pieces, at)
<1>1. n \in Nat /\ n \in 1..n /\ 1 \in 1..n
  BY LenProperties
<1>2. \A k \in 1..n : pieces[k] \in Seq(S) /\ Len(pieces[k]) \in Nat
  BY LenProperties, ElementOfSeq
<1>3. /\ \A k \in 1..n : f[k] \in Seq(S)
      /\ f[1] = pieces[1]
      /\ \A k \in 2..n : f[k] = f[k - 1] \o pieces[k]
  <2>1. Prefixes(f, pieces, n, S)
    BY FlattenedPrefixes
  <2> QED BY <2>1 DEF Prefixes
<1>4. \A k \in 1..n : Len(f[k]) \in Nat
  BY <1>3, LenProperties
<1> DEFINE at == [k \in 0..n |-> IF k = 0 THEN 0 ELSE Len(f[k])]
<1>5. at \in [0..n -> Nat] /\ at[0] = 0 /\ at[n] = Len(f[n])
  BY <1>1, <1>4
<1>6. ASSUME NEW k \in 1..n
      PROVE  /\ at[k] = Len(f[k]) /\ at[k] \in Nat /\ at[k - 1] \in Nat
             /\ at[k] = at[k - 1] + Len(pieces[k])
             /\ \A j \in 1..at[k - 1] : f[k][j] = f[k - 1][j]
             /\ \A j \in 1..Len(pieces[k]) : f[k][at[k - 1] + j] = pieces[k][j]
  <2>1. k \in Nat /\ k \in 0..n /\ k - 1 \in 0..n /\ k # 0
    BY <1>1
  <2>2. at[k] = Len(f[k]) /\ at[k] \in Nat /\ at[k - 1] \in Nat
    BY <1>4, <1>5, <2>1
  <2>3. CASE k = 1
    <3>1. at[k - 1] = 0
      BY <2>1, <2>3
    <3> QED BY <1>2, <1>3, <2>2, <2>3, <3>1
  <2>4. CASE k # 1
    <3>1. k \in 2..n /\ k - 1 \in 1..n /\ k - 1 # 0
      BY <1>1, <2>4
    <3>2. at[k - 1] = Len(f[k - 1])
      BY <2>1, <3>1
    <3>3. f[k - 1] \in Seq(S) /\ pieces[k] \in Seq(S) /\ Len(pieces[k]) \in Nat
      BY <1>2, <1>3, <3>1
    <3>4. f[k] = f[k - 1] \o pieces[k]
      BY <1>3, <3>1
    <3>5. PICK a, b : a = f[k - 1] /\ b = pieces[k]
      OBVIOUS
    <3>6. /\ Len(a \o b) = Len(a) + Len(b)
          /\ \A i \in 1..(Len(a) + Len(b)) :
               (a \o b)[i] = IF i <= Len(a) THEN a[i] ELSE b[i - Len(a)]
      BY <3>3, <3>5, ConcatProperties
    <3>7. Len(a) \in Nat /\ Len(b) \in Nat
      BY <2>2, <3>2, <3>3, <3>5
    <3>8. /\ \A j \in 1..Len(a) : (a \o b)[j] = a[j]
          /\ \A j \in 1..Len(b) : (a \o b)[Len(a) + j] = b[j]
      BY <3>6, <3>7
    <3> HIDE DEF at
    <3> QED BY <2>2, <3>2, <3>4, <3>5, <3>6, <3>8
  <2> QED BY <2>3, <2>4
<1> HIDE DEF at
(* A prefix stays.                                                         *)
<1> DEFINE Stays(k, m) == /\ at[k] <= at[m]
                          /\ \A j \in 1..at[k] : f[m][j] = f[k][j]
<1>7. ASSUME NEW k \in 1..n PROVE Stays(k, n)
  <2> DEFINE T == {m \in k..n : ~Stays(k, m)}
  <2> SUFFICES ASSUME T # {} PROVE FALSE
    BY <1>1
  <2>1. T \subseteq Nat
    BY <1>1
  <2>2. PICK m \in T : \A i \in T : m <= i
    BY <2>1, LeastNatural
  <2>3. m \in k..n /\ ~Stays(k, m) /\ at[k] \in Nat
    BY <1>6, <2>2
  <2>4. m # k
    BY <2>3
  <2>5. m - 1 \in k..n /\ m - 1 \notin T /\ m \in 1..n
    BY <1>1, <2>2, <2>3, <2>4
  <2>6. Stays(k, m - 1)
    BY <2>5
  <2>7. /\ at[m] \in Nat /\ at[m - 1] \in Nat
        /\ at[m] = at[m - 1] + Len(pieces[m]) /\ Len(pieces[m]) \in Nat
        /\ \A j \in 1..at[m - 1] : f[m][j] = f[m - 1][j]
    BY <1>2, <1>6, <2>5
  <2>8. at[k] <= at[m]
    BY <2>3, <2>6, <2>7
  <2>9. ASSUME NEW j \in 1..at[k] PROVE f[m][j] = f[k][j]
    <3>1. j \in 1..at[m - 1]
      BY <2>3, <2>6, <2>7
    <3> QED BY <2>6, <2>7, <3>1
  <2> QED BY <2>3, <2>8, <2>9
<1>8. ASSUME NEW k \in 1..n, NEW j \in 1..Len(pieces[k])
      PROVE  f[n][at[k - 1] + j] = pieces[k][j]
  <2>1. /\ at[k] \in Nat /\ at[k - 1] \in Nat /\ Len(pieces[k]) \in Nat
        /\ at[k] = at[k - 1] + Len(pieces[k])
        /\ f[k][at[k - 1] + j] = pieces[k][j]
    BY <1>2, <1>6
  <2>2. at[k - 1] + j \in 1..at[k]
    BY <2>1
  <2> QED BY <1>7, <2>1, <2>2
<1>9. Laid(f[n], pieces, at)
  BY <1>5, <1>6, <1>7, <1>8 DEF Laid
<1> QED BY <1>1, <1>3, <1>9

(* What FlattenSeq gives in the module of git's output: all its pieces,    *)
(* laid out in order.                                                      *)
LEMMA CgiFlattened ==
  ASSUME NEW S, NEW pieces \in Seq(Seq(S))
  PROVE  /\ Cgi!FlattenSeq(pieces) \in Seq(S)
         /\ \E at : Laid(Cgi!FlattenSeq(pieces), pieces, at)
<1>1. CASE Len(pieces) = 0
  <2>1. pieces = << >> /\ Cgi!FlattenSeq(pieces) = << >>
    BY <1>1, EmptySeq DEF Cgi!FlattenSeq
  <2>2. Laid(<< >>, << >>, [k \in 0..0 |-> 0])
    BY DEF Laid
  <2> QED BY <2>1, <2>2, EmptySeq
<1>2. CASE Len(pieces) # 0
  <2>1. PICK n : n = Len(pieces)
    OBVIOUS
  <2>2. n \in Nat
    BY <2>1, LenProperties
  <2>3. \E f : Flattens(f, pieces, n) /\ Cgi!FlattenSeq(pieces) = f[n]
    <3>1. \E f : Flattens(f, pieces, n)
      BY <2>2, FlatteningExists
    <3> QED BY <1>2, <2>1, <3>1, Zenon DEF Flattens, Cgi!FlattenSeq
  <2> QED BY <1>2, <2>1, <2>3, FlattenedIsLaid
<1> QED BY <1>1, <1>2
-----------------------------------------------------------------------------
(***************************************************************************)
(* The output of git.  What it writes lies at places that can be computed, *)
(* so that the first end of a header a search over its bytes can find is   *)
(* the one that git wrote; and when git wrote no header there is none to   *)
(* find.                                                                   *)
(***************************************************************************)
(* Pieces of one length w lie w apart.                                     *)
Even(pieces, n, w) == n = Len(pieces) /\ \A k \in 1..n : Len(pieces[k]) = w
Apart(at, n, w) == \A k \in 0..n : at[k] = k * w

(* What is laid out of them is even, too.                                  *)
LEMMA LaidEvenly ==
  ASSUME NEW text, NEW pieces, NEW at, Laid(text, pieces, at),
         NEW n \in Nat, NEW w \in {2, 3}, Even(pieces, n, w)
  PROVE  Apart(at, n, w)
<1> DEFINE T == {k \in 0..n : at[k] # k * w}
<1> SUFFICES ASSUME T # {} PROVE FALSE
  BY DEF Apart
<1>1. PICK m \in T : \A k \in T : m <= k
  <2>1. T \subseteq Nat
    OBVIOUS
  <2> QED BY <2>1, LeastNatural
<1>2. m \in 0..n /\ at[m] # m * w
  BY <1>1
<1>3. at[0] = 0 /\ \A k \in 1..n : at[k] = at[k - 1] + w
  BY DEF Laid, Even
<1>4. m # 0
  BY <1>2, <1>3
<1>5. m \in 1..n /\ m - 1 \in 0..n /\ m - 1 \notin T
  BY <1>1, <1>2, <1>4
<1>6. at[m - 1] = (m - 1) * w /\ at[m] = at[m - 1] + w
  BY <1>3, <1>5
<1>7. CASE w = 2
  BY <1>2, <1>5, <1>6, <1>7
<1>8. CASE w = 3
  BY <1>2, <1>5, <1>6, <1>8
<1> QED BY <1>7, <1>8

(* The end of a header, in bytes, for the two ends of line.                *)
LEMMA Separators ==
  /\ Cgi!Separator(Cgi!CrLf) = <<"CR", "LF", "CR", "LF">>
  /\ Cgi!Separator(Cgi!Lf) = <<"LF", "LF">>
<1>1. PICK a, b : a = <<"CR", "LF">> /\ b = <<"LF">>
  OBVIOUS
<1>2. /\ a \in Seq(Cgi!Byte) /\ Len(a) = 2 /\ a[1] = "CR" /\ a[2] = "LF"
      /\ b \in Seq(Cgi!Byte) /\ Len(b) = 1 /\ b[1] = "LF"
  BY <1>1 DEF Cgi!Byte
<1>3. PICK c, d : c = a \o a /\ d = b \o b
  OBVIOUS
<1>4. /\ c \in Seq(Cgi!Byte) /\ Len(c) = 4
      /\ c[1] = "CR" /\ c[2] = "LF" /\ c[3] = "CR" /\ c[4] = "LF"
  BY <1>2, <1>3, ConcatProperties, SMTT(30)
<1>5. d \in Seq(Cgi!Byte) /\ Len(d) = 2 /\ d[1] = "LF" /\ d[2] = "LF"
  BY <1>2, <1>3, ConcatProperties
<1>6. c = <<c[1], c[2], c[3], c[4]>> /\ d = <<d[1], d[2]>>
  BY <1>4, <1>5
<1> QED BY <1>1, <1>3, <1>4, <1>5, <1>6 DEF Cgi!Separator, Cgi!CrLf, Cgi!Lf

(* The end of a header, at one position of a text, and the bytes that      *)
(* takes.                                                                  *)
Cuts(text, i, eol) ==
  SubSeq(text, i, i + Len(Cgi!Separator(eol)) - 1) = Cgi!Separator(eol)

(* It is CR LF CR LF, ...                                                  *)
LEMMA CutsCrLf ==
  ASSUME NEW S, NEW text \in Seq(S), NEW i \in Nat \ {0}, i + 3 <= Len(text)
  PROVE  Cuts(text, i, Cgi!CrLf) <=>
           /\ text[i] = "CR" /\ text[i + 1] = "LF"
           /\ text[i + 2] = "CR" /\ text[i + 3] = "LF"
<1>1. PICK s : s = SubSeq(text, i, i + 3)
  OBVIOUS
<1>2. \A j \in i..(i + 3) : text[j] \in S
  BY LenProperties, ElementOfSeq
<1>3. s \in Seq(S) /\ Len(s) = 4 /\ \A j \in 1..4 : s[j] = text[i + j - 1]
  BY <1>1, <1>2, SubSeqProperties
<1>4. s[1] = text[i] /\ s[2] = text[i + 1] /\ s[3] = text[i + 2] /\ s[4] = text[i + 3]
  BY <1>3
<1>5. s = <<s[1], s[2], s[3], s[4]>>
  BY <1>3
<1>6. Cuts(text, i, Cgi!CrLf) <=> s = <<"CR", "LF", "CR", "LF">>
  BY <1>1, Separators DEF Cuts
<1> QED BY <1>4, <1>5, <1>6

(* ... or LF LF.                                                           *)
LEMMA CutsLf ==
  ASSUME NEW S, NEW text \in Seq(S), NEW i \in Nat \ {0}, i + 1 <= Len(text)
  PROVE  Cuts(text, i, Cgi!Lf) <=> text[i] = "LF" /\ text[i + 1] = "LF"
<1>1. PICK s : s = SubSeq(text, i, i + 1)
  OBVIOUS
<1>2. \A j \in i..(i + 1) : text[j] \in S
  BY LenProperties, ElementOfSeq
<1>3. s \in Seq(S) /\ Len(s) = 2 /\ \A j \in 1..2 : s[j] = text[i + j - 1]
  BY <1>1, <1>2, SubSeqProperties
<1>4. s[1] = text[i] /\ s[2] = text[i + 1]
  BY <1>3
<1>5. s = <<s[1], s[2]>>
  BY <1>3
<1>6. Cuts(text, i, Cgi!Lf) <=> s = <<"LF", "LF">>
  BY <1>1, Separators DEF Cuts
<1> QED BY <1>4, <1>5, <1>6

(* Positions of a table of n rows of w.                                    *)
LEMMA Rows ==
  ASSUME NEW n \in Nat, NEW w \in {2, 3}
  PROVE  /\ n * w \in Nat
         /\ \A k \in 1..n : \A j \in 1..w : (k - 1) * w + j \in 1..(n * w)
<1>1. CASE w = 2
  BY <1>1
<1>2. CASE w = 3
  BY <1>2
<1> QED BY <1>1, <1>2

(* What git writes consists of header lines and of bytes.                  *)
Symbol == Cgi!HeaderLine \cup Cgi!Byte

(* What git means to say, of any length.                                   *)
LEMMA MeantParts ==
  ASSUME NEW m \in Cgi!Meant
  PROVE  /\ m.lines \in Seq(Cgi!HeaderLine) /\ m.lines # << >>
         /\ m.eol \in {Cgi!CrLf, Cgi!Lf}
         /\ m.body \in Seq(Cgi!Byte)
<1>1. /\ m.lines \in Cgi!BoundedSeq(Cgi!HeaderLine, MaxLines) \ {<< >>}
      /\ m.eol \in {Cgi!CrLf, Cgi!Lf}
      /\ m.body \in Cgi!BoundedSeq(Cgi!Byte, MaxBody)
  BY DEF Cgi!Meant
<1>2. ASSUME NEW S, NEW max \in Nat
      PROVE  Cgi!BoundedSeq(S, max) \subseteq Seq(S)
  <2>1. ASSUME NEW s \in Cgi!BoundedSeq(S, max) PROVE s \in Seq(S)
    <3>1. PICK n \in 0..max : s \in [1..n -> S]
      BY DEF Cgi!BoundedSeq, Cgi!SeqOf
    <3>2. n \in Nat
      OBVIOUS
    <3> QED BY <3>1, <3>2, SeqDef, Zenon
  <2> QED BY <2>1
<1>3. MaxLines \in Nat /\ MaxBody \in Nat
  BY BoundsAssumption
<1> QED BY <1>1, <1>2, <1>3

(* Where the header lines, the ends of line and the body are in what it    *)
(* writes: a line and its end take w symbols.                              *)
WrittenAs(lines, eol, body) ==
  Cgi!FlattenSeq([i \in DOMAIN lines |-> <<lines[i]>> \o eol]) \o eol \o body

(* The places of the lines, of their ends and of the body.                 *)
LaysOut(text, lines, eol, body, n, e, w) ==
  /\ n = Len(lines) /\ e = Len(eol) /\ w = e + 1
  /\ text \in Seq(Symbol)
  /\ Len(text) = n * w + e + Len(body)
  /\ \A k \in 1..n : /\ text[(k - 1) * w + 1] = lines[k]
                     /\ \A j \in 1..e : text[(k - 1) * w + 1 + j] = eol[j]
  /\ \A j \in 1..e : text[n * w + j] = eol[j]
  /\ \A j \in 1..Len(body) : text[n * w + e + j] = body[j]

(* What git writes has them at these places.                               *)
LEMMA WrittenLaysOut ==
  ASSUME NEW lines \in Seq(Cgi!HeaderLine), NEW body \in Seq(Cgi!Byte),
         NEW eol \in Seq(Symbol), NEW n \in Nat, NEW e \in {1, 2}, NEW w \in {2, 3},
         Len(lines) = n, Len(eol) = e, w = e + 1
  PROVE  LaysOut(WrittenAs(lines, eol, body), lines, eol, body, n, e, w)
<1>1. /\ lines \in Seq(Cgi!HeaderLine) /\ n \in Nat
      /\ DOMAIN lines = 1..n /\ \A k \in 1..n : lines[k] \in Symbol
  BY LenProperties, ElementOfSeq DEF Symbol
<1>2. eol \in Seq(Symbol) /\ e \in {1, 2} /\ w \in {2, 3}
  OBVIOUS
<1>3. body \in Seq(Symbol) /\ Len(body) \in Nat
  BY SeqMonotonic, LenProperties DEF Symbol
<1>4. PICK pieces :
        pieces = [i \in DOMAIN lines |-> <<lines[i]>> \o eol]
  OBVIOUS
<1>5. ASSUME NEW k \in 1..n
      PROVE  /\ pieces[k] \in Seq(Symbol) /\ Len(pieces[k]) = w
             /\ pieces[k][1] = lines[k]
             /\ \A j \in 1..e : pieces[k][1 + j] = eol[j]
  <2>1. PICK a, b : a = <<lines[k]>> /\ b = eol
    OBVIOUS
  <2>2. a \in Seq(Symbol) /\ Len(a) = 1 /\ a[1] = lines[k] /\ b \in Seq(Symbol)
    BY <1>1, <1>2, <2>1
  <2>3. pieces[k] = a \o b
    BY <1>1, <1>4, <2>1
  <2>4. /\ a \o b \in Seq(Symbol) /\ Len(a \o b) = Len(a) + Len(b)
        /\ \A i \in 1..(Len(a) + Len(b)) :
             (a \o b)[i] = IF i <= Len(a) THEN a[i] ELSE b[i - Len(a)]
    BY <2>2, ConcatProperties
  <2> QED BY <1>2, <2>1, <2>2, <2>3, <2>4
<1>6. pieces \in Seq(Seq(Symbol)) /\ Len(pieces) = n
  <2>1. pieces \in [1..n -> Seq(Symbol)]
    BY <1>1, <1>4, <1>5
  <2> QED BY <1>1, <2>1
<1>7. PICK head : head = Cgi!FlattenSeq(pieces)
  OBVIOUS
<1>8. head \in Seq(Symbol) /\ \E at : Laid(head, pieces, at)
  BY <1>6, <1>7, CgiFlattened
<1>9. PICK at : Laid(head, pieces, at)
  BY <1>8
<1>10. \A k \in 0..n : at[k] = k * w
  <2>1. Even(pieces, n, w)
    BY <1>5, <1>6 DEF Even
  <2>2. n \in Nat /\ w \in {2, 3}
    BY <1>1, <1>2
  <2>3. Apart(at, n, w)
    BY <1>9, <2>1, <2>2, LaidEvenly
  <2> QED BY <2>3 DEF Apart
<1>11. PICK full : full = head \o eol
  OBVIOUS
<1>12. full \o body = WrittenAs(lines, eol, body)
  BY <1>4, <1>7, <1>11 DEF WrittenAs
<1>13. /\ n \in 0..n
       /\ Len(head) = at[n]
       /\ \A k \in 1..n : /\ k - 1 \in 0..n
                          /\ \A j \in 1..w : head[at[k - 1] + j] = pieces[k][j]
  <2>1. n \in 0..n /\ \A k \in 1..n : k - 1 \in 0..n
    BY <1>1
  <2>2. /\ Len(head) = at[n]
        /\ \A k \in 1..n : \A j \in 1..Len(pieces[k]) :
             head[at[k - 1] + j] = pieces[k][j]
    BY <1>6, <1>9 DEF Laid
  <2>3. \A k \in 1..n : Len(pieces[k]) = w
    BY <1>5
  <2> QED BY <2>1, <2>2, <2>3
<1>14. Len(head) = n * w
  BY <1>10, <1>13
<1>15. /\ n * w \in Nat
       /\ \A k \in 1..n : \A j \in 1..w : (k - 1) * w + j \in 1..(n * w)
  BY <1>1, <1>2, Rows
<1>16. ASSUME NEW k \in 1..n, NEW j \in 1..w
       PROVE  head[(k - 1) * w + j] = pieces[k][j]
  <2>1. at[k - 1] = (k - 1) * w
    BY <1>10, <1>13
  <2> QED BY <1>13, <2>1
(* The line ends and the body after the header.                            *)
<1>17. /\ full \in Seq(Symbol) /\ Len(full) = n * w + e
       /\ \A i \in 1..(n * w) : full[i] = head[i]
       /\ \A j \in 1..e : full[n * w + j] = eol[j]
  <2>1. PICK b : b = eol
    OBVIOUS
  <2>2. /\ head \o b \in Seq(Symbol) /\ Len(head \o b) = Len(head) + Len(b)
        /\ \A i \in 1..(Len(head) + Len(b)) :
             (head \o b)[i] = IF i <= Len(head) THEN head[i] ELSE b[i - Len(head)]
    BY <1>2, <1>8, <2>1, ConcatProperties
  <2> QED BY <1>2, <1>11, <1>14, <1>15, <2>1, <2>2
<1>18. /\ full \o body \in Seq(Symbol)
       /\ Len(full \o body) = n * w + e + Len(body)
       /\ \A i \in 1..(n * w + e) : (full \o body)[i] = full[i]
       /\ \A j \in 1..Len(body) :
            (full \o body)[n * w + e + j] = body[j]
  <2>1. PICK b : b = body
    OBVIOUS
  <2>2. /\ full \o b \in Seq(Symbol) /\ Len(full \o b) = Len(full) + Len(b)
        /\ \A i \in 1..(Len(full) + Len(b)) :
             (full \o b)[i] = IF i <= Len(full) THEN full[i] ELSE b[i - Len(full)]
    <3>1. full \in Seq(Symbol) /\ b \in Seq(Symbol)
      BY <1>3, <1>17, <2>1
    <3> QED BY <3>1, ConcatProperties
  <2> QED BY <1>2, <1>3, <1>15, <1>17, <2>1, <2>2
<1>19. ASSUME NEW k \in 1..n
       PROVE  /\ (full \o body)[(k - 1) * w + 1] = lines[k]
              /\ \A j \in 1..e : (full \o body)[(k - 1) * w + 1 + j] = eol[j]
  <2>1. \A j \in 1..w : (full \o body)[(k - 1) * w + j] = pieces[k][j]
    <3> SUFFICES ASSUME NEW j \in 1..w
                 PROVE  (full \o body)[(k - 1) * w + j] = pieces[k][j]
      OBVIOUS
    <3>1. PICK i : i = (k - 1) * w + j
      OBVIOUS
    <3>2. i \in 1..(n * w) /\ i \in 1..(n * w + e)
      BY <1>15, <3>1
    <3>3. (full \o body)[i] = head[i] /\ head[i] = pieces[k][j]
      BY <1>16, <1>17, <1>18, <3>1, <3>2
    <3> QED BY <3>1, <3>3
  <2>2. (k - 1) * w \in Int
    BY <1>1
  <2>3. 1 \in 1..w /\ \A j \in 1..e : /\ 1 + j \in 1..w
                                     /\ (k - 1) * w + (1 + j) = (k - 1) * w + 1 + j
    BY <1>1, <2>2
  <2>4. \A j \in 1..e : (full \o body)[(k - 1) * w + 1 + j] = pieces[k][1 + j]
    BY <2>1, <2>3
  <2>5. (full \o body)[(k - 1) * w + 1] = pieces[k][1]
    BY <2>1, <2>3
  <2> QED BY <1>5, <2>4, <2>5
<1> QED BY <1>3, <1>12, <1>15, <1>17, <1>18, <1>19 DEF LaysOut

(* git ends its lines with CR LF ...                                       *)
CrLfShape(text, m, n) ==
  /\ n \in Nat \ {0} /\ n = Len(m.lines) /\ text \in Seq(Symbol)
  /\ Len(text) = 3 * n + 2 + Len(m.body)
  /\ \A k \in 1..n : /\ text[3 * k - 2] = m.lines[k]
                     /\ text[3 * k - 1] = "CR" /\ text[3 * k] = "LF"
  /\ text[3 * n + 1] = "CR" /\ text[3 * n + 2] = "LF"
  /\ \A j \in 1..Len(m.body) : text[3 * n + 2 + j] = m.body[j]

(* ... or with LF.                                                         *)
LfShape(text, m, n) ==
  /\ n \in Nat \ {0} /\ n = Len(m.lines) /\ text \in Seq(Symbol)
  /\ Len(text) = 2 * n + 1 + Len(m.body)
  /\ \A k \in 1..n : /\ text[2 * k - 1] = m.lines[k] /\ text[2 * k] = "LF"
  /\ text[2 * n + 1] = "LF"
  /\ \A j \in 1..Len(m.body) : text[2 * n + 1 + j] = m.body[j]

(* What git writes has one of the two shapes.                              *)
LEMMA WrittenShape ==
  ASSUME NEW m \in Cgi!Meant
  PROVE  \/ m.eol = Cgi!CrLf /\ \E n : CrLfShape(Cgi!Written(m), m, n)
         \/ m.eol = Cgi!Lf /\ \E n : LfShape(Cgi!Written(m), m, n)
<1> PICK text, lines, eol, body, n :
      /\ text = Cgi!Written(m) /\ lines = m.lines /\ eol = m.eol
      /\ body = m.body /\ n = Len(lines)
  OBVIOUS
<1>1. /\ lines \in Seq(Cgi!HeaderLine) /\ lines # << >>
      /\ eol \in {Cgi!CrLf, Cgi!Lf} /\ body \in Seq(Cgi!Byte)
  BY MeantParts
<1>2. n \in Nat \ {0}
  BY <1>1, EmptySeq
<1>3. text = WrittenAs(lines, eol, body)
  BY DEF Cgi!Written, WrittenAs
<1>4. Len(body) \in Nat
  BY <1>1, LenProperties
<1>5. /\ Cgi!CrLf \in Seq(Symbol) /\ Len(Cgi!CrLf) = 2
      /\ Cgi!CrLf[1] = "CR" /\ Cgi!CrLf[2] = "LF"
  BY DEF Cgi!CrLf, Symbol, Cgi!Byte
<1>6. Cgi!Lf \in Seq(Symbol) /\ Len(Cgi!Lf) = 1 /\ Cgi!Lf[1] = "LF"
  BY DEF Cgi!Lf, Symbol, Cgi!Byte
<1>7. CASE eol = Cgi!CrLf
  <2>1. eol \in Seq(Symbol) /\ Len(eol) = 2 /\ eol[1] = "CR" /\ eol[2] = "LF"
    BY <1>5, <1>7
  <2>2. LaysOut(text, lines, eol, body, n, 2, 3)
    BY <1>1, <1>2, <1>3, <2>1, WrittenLaysOut
  <2>3. /\ text \in Seq(Symbol) /\ Len(text) = n * 3 + 2 + Len(body)
        /\ \A k \in 1..n : /\ text[(k - 1) * 3 + 1] = lines[k]
                           /\ \A j \in 1..2 : text[(k - 1) * 3 + 1 + j] = eol[j]
        /\ \A j \in 1..2 : text[n * 3 + j] = eol[j]
        /\ \A j \in 1..Len(body) : text[n * 3 + 2 + j] = body[j]
    BY <2>2 DEF LaysOut
  <2>4. ASSUME NEW k \in 1..n
        PROVE  /\ text[3 * k - 2] = lines[k]
               /\ text[3 * k - 1] = "CR" /\ text[3 * k] = "LF"
    <3>1. PICK p : p = (k - 1) * 3 + 1
      OBVIOUS
    <3>2. p = 3 * k - 2 /\ p + 1 = 3 * k - 1 /\ p + 2 = 3 * k
      BY <1>2, <3>1
    <3>3. text[p] = lines[k] /\ \A j \in 1..2 : text[p + j] = eol[j]
      BY <2>3, <3>1, Zenon
    <3>4. text[p + 1] = eol[1] /\ text[p + 2] = eol[2]
      BY <3>3
    <3>5. /\ text[3 * k - 2] = lines[k] /\ text[3 * k - 1] = eol[1]
          /\ text[3 * k] = eol[2]
      BY <3>2, <3>3, <3>4, Zenon
    <3> QED BY <2>1, <3>5
  <2>5. text[3 * n + 1] = "CR" /\ text[3 * n + 2] = "LF"
    <3>1. PICK p : p = n * 3
      OBVIOUS
    <3>2. p + 1 = 3 * n + 1 /\ p + 2 = 3 * n + 2
      BY <1>2, <3>1
    <3>3. \A j \in 1..2 : text[p + j] = eol[j]
      BY <2>3, <3>1, Zenon
    <3>4. text[p + 1] = eol[1] /\ text[p + 2] = eol[2]
      BY <3>3
    <3>5. eol[1] = "CR" /\ eol[2] = "LF"
      BY <2>1
    <3> QED BY <3>2, <3>4, <3>5, Zenon
  <2>6. \A j \in 1..Len(body) : text[3 * n + 2 + j] = body[j]
    <3>1. n * 3 = 3 * n
      BY <1>2
    <3>2. \A j \in 1..Len(body) : text[n * 3 + 2 + j] = body[j]
      BY <2>3
    <3> QED BY <3>1, <3>2, Zenon
  <2>7. CrLfShape(text, m, n)
    <3>1. n = Len(m.lines) /\ text \in Seq(Symbol)
      BY <2>3
    <3>2. Len(text) = 3 * n + 2 + Len(m.body)
      <4>1. n * 3 = 3 * n /\ Len(text) = n * 3 + 2 + Len(body)
        BY <1>2, <2>3
      <4> QED BY <4>1, Zenon
    <3>3. \A j \in 1..Len(m.body) : text[3 * n + 2 + j] = m.body[j]
      BY <2>6
    <3>4. \A k \in 1..n : text[3 * k - 2] = m.lines[k]
      BY <2>4
    <3> QED BY <1>2, <2>4, <2>5, <3>1, <3>2, <3>3, <3>4, Zenon DEF CrLfShape
  <2> QED BY <1>7, <2>7
<1>8. CASE eol = Cgi!Lf
  <2>1. eol \in Seq(Symbol) /\ Len(eol) = 1 /\ eol[1] = "LF"
    BY <1>6, <1>8
  <2>2. LaysOut(text, lines, eol, body, n, 1, 2)
    BY <1>1, <1>2, <1>3, <2>1, WrittenLaysOut
  <2>3. /\ text \in Seq(Symbol) /\ Len(text) = n * 2 + 1 + Len(body)
        /\ \A k \in 1..n : /\ text[(k - 1) * 2 + 1] = lines[k]
                           /\ \A j \in 1..1 : text[(k - 1) * 2 + 1 + j] = eol[j]
        /\ \A j \in 1..1 : text[n * 2 + j] = eol[j]
        /\ \A j \in 1..Len(body) : text[n * 2 + 1 + j] = body[j]
    BY <2>2 DEF LaysOut
  <2>4. ASSUME NEW k \in 1..n
        PROVE  text[2 * k - 1] = lines[k] /\ text[2 * k] = "LF"
    <3>1. PICK p : p = (k - 1) * 2 + 1
      OBVIOUS
    <3>2. p = 2 * k - 1 /\ p + 1 = 2 * k
      BY <1>2, <3>1
    <3>3. text[p] = lines[k] /\ \A j \in 1..1 : text[p + j] = eol[j]
      BY <2>3, <3>1, Zenon
    <3>4. text[p + 1] = eol[1]
      BY <3>3
    <3>5. text[2 * k - 1] = lines[k] /\ text[2 * k] = eol[1]
      BY <3>2, <3>3, <3>4, Zenon
    <3> QED BY <2>1, <3>5
  <2>5. text[2 * n + 1] = "LF"
    <3>1. PICK p : p = n * 2
      OBVIOUS
    <3>2. p + 1 = 2 * n + 1
      BY <1>2, <3>1
    <3>3. \A j \in 1..1 : text[p + j] = eol[j]
      BY <2>3, <3>1, Zenon
    <3>4. text[p + 1] = eol[1]
      BY <3>3
    <3> QED BY <2>1, <3>2, <3>4, Zenon
  <2>6. \A j \in 1..Len(body) : text[2 * n + 1 + j] = body[j]
    <3>1. n * 2 = 2 * n
      BY <1>2
    <3>2. \A j \in 1..Len(body) : text[n * 2 + 1 + j] = body[j]
      BY <2>3
    <3> QED BY <3>1, <3>2, Zenon
  <2>7. LfShape(text, m, n)
    <3>1. n = Len(m.lines) /\ text \in Seq(Symbol)
      BY <2>3
    <3>2. Len(text) = 2 * n + 1 + Len(m.body)
      <4>1. n * 2 = 2 * n /\ Len(text) = n * 2 + 1 + Len(body)
        BY <1>2, <2>3
      <4> QED BY <4>1, Zenon
    <3>3. \A j \in 1..Len(m.body) : text[2 * n + 1 + j] = m.body[j]
      BY <2>6
    <3>4. \A k \in 1..n : text[2 * k - 1] = m.lines[k]
      BY <2>4
    <3> QED BY <1>2, <2>4, <2>5, <3>1, <3>2, <3>3, <3>4, Zenon DEF LfShape
  <2> QED BY <1>8, <2>7
<1> QED BY <1>1, <1>7, <1>8

(* A header line is no byte of a line end.                                 *)
LEMMA LinesAreNoEnds ==
  ASSUME NEW m \in Cgi!Meant, NEW k \in 1..Len(m.lines)
  PROVE  /\ m.lines[k] \in Cgi!HeaderLine
         /\ m.lines[k] # "CR" /\ m.lines[k] # "LF"
<1>1. m.lines \in Seq(Cgi!HeaderLine)
  BY MeantParts
<1>2. m.lines[k] \in Cgi!HeaderLine
  BY <1>1, ElementOfSeq
<1> QED BY <1>2 DEF Cgi!HeaderLine, Cgi!StatusLine, Cgi!Field

(* The first CR LF CR LF of what git writes is the end of its header:      *)
(* before it, each three symbols in a row hold a header line.              *)
LEMMA HeaderEndsCrLf ==
  ASSUME NEW m \in Cgi!Meant, NEW text, NEW n, CrLfShape(text, m, n)
  PROVE  /\ 3 * n - 1 \in 1..(Len(text) - 3)
         /\ Cuts(text, 3 * n - 1, Cgi!CrLf)
         /\ \A i \in 1..(3 * n - 2) : ~Cuts(text, i, Cgi!CrLf)
<1>1. n \in Nat \ {0} /\ text \in Seq(Symbol)
  BY DEF CrLfShape
<1>0. PICK size : size = Len(m.body)
  OBVIOUS
<1>2. size \in Nat /\ Len(text) = 3 * n + 2 + size
  <2>1. m.body \in Seq(Cgi!Byte)
    BY MeantParts
  <2>2. Len(text) = 3 * n + 2 + size
    BY <1>0, Zenon DEF CrLfShape
  <2> QED BY <1>0, <2>1, <2>2, LenProperties
<1>3. /\ \A k \in 1..n : /\ text[3 * k - 2] = m.lines[k]
                         /\ text[3 * k - 1] = "CR" /\ text[3 * k] = "LF"
      /\ text[3 * n + 1] = "CR" /\ text[3 * n + 2] = "LF"
  BY DEF CrLfShape
<1>4. 3 * n - 1 \in 1..(Len(text) - 3)
  BY <1>1, <1>2
<1>5. Cuts(text, 3 * n - 1, Cgi!CrLf)
  <2>1. text[3 * n - 1] = "CR" /\ text[3 * n] = "LF"
    BY <1>1, <1>3
  <2>2. PICK i : i = 3 * n - 1
    OBVIOUS
  <2>3. /\ i \in Nat \ {0} /\ i + 3 <= Len(text)
        /\ i + 1 = 3 * n /\ i + 2 = 3 * n + 1 /\ i + 3 = 3 * n + 2
    BY <1>1, <1>2, <2>2
  <2>4. /\ text[i] = "CR" /\ text[i + 1] = "LF"
        /\ text[i + 2] = "CR" /\ text[i + 3] = "LF"
    BY <1>3, <2>1, <2>2, <2>3
  <2>5. Cuts(text, i, Cgi!CrLf)
    BY <1>1, <2>3, <2>4, CutsCrLf
  <2> QED BY <2>2, <2>5
<1>6. ASSUME NEW i \in 1..(3 * n - 2), Cuts(text, i, Cgi!CrLf) PROVE FALSE
  <2>1. i \in Nat \ {0} /\ i + 3 <= Len(text)
    BY <1>1, <1>2
  <2>2. /\ text[i] = "CR" /\ text[i + 1] = "LF"
        /\ text[i + 2] = "CR" /\ text[i + 3] = "LF"
    BY <1>1, <1>6, <2>1, CutsCrLf
  <2>3. \E k \in 1..n : 3 * k - 2 \in {i, i + 1, i + 2}
    <3>1. PICK k : k = (i + 4) \div 3
      OBVIOUS
    <3>2. k \in 1..n /\ 3 * k - 2 \in {i, i + 1, i + 2}
      BY <1>1, <3>1
    <3> QED BY <3>2
  <2>4. PICK k \in 1..n : 3 * k - 2 \in {i, i + 1, i + 2}
    BY <2>3
  <2>5. m.lines[k] \in {"CR", "LF"}
    BY <1>3, <2>2, <2>4
  <2>6. k \in 1..Len(m.lines)
    BY DEF CrLfShape
  <2> QED BY <2>5, <2>6, LinesAreNoEnds
<1> QED BY <1>4, <1>5, <1>6

(* The first LF LF is, when git ends its lines with LF, and no CR LF CR LF *)
(* comes unless the body holds one.                                        *)
LEMMA HeaderEndsLf ==
  ASSUME NEW m \in Cgi!Meant, NEW text, NEW n, LfShape(text, m, n)
  PROVE  /\ 2 * n \in 1..(Len(text) - 1)
         /\ Cuts(text, 2 * n, Cgi!Lf)
         /\ \A i \in 1..(2 * n - 1) : ~Cuts(text, i, Cgi!Lf)
<1>1. n \in Nat \ {0} /\ text \in Seq(Symbol)
  BY DEF LfShape
<1>0. PICK size : size = Len(m.body)
  OBVIOUS
<1>2. size \in Nat /\ Len(text) = 2 * n + 1 + size
  <2>1. m.body \in Seq(Cgi!Byte)
    BY MeantParts
  <2>2. Len(text) = 2 * n + 1 + size
    BY <1>0, Zenon DEF LfShape
  <2> QED BY <1>0, <2>1, <2>2, LenProperties
<1>3. /\ \A k \in 1..n : text[2 * k - 1] = m.lines[k] /\ text[2 * k] = "LF"
      /\ text[2 * n + 1] = "LF"
  BY DEF LfShape
<1>4. 2 * n \in 1..(Len(text) - 1)
  BY <1>1, <1>2
<1>5. Cuts(text, 2 * n, Cgi!Lf)
  <2>1. text[2 * n] = "LF"
    BY <1>1, <1>3
  <2>2. PICK i : i = 2 * n
    OBVIOUS
  <2>3. i \in Nat \ {0} /\ i + 1 <= Len(text) /\ i + 1 = 2 * n + 1
    BY <1>1, <1>2, <2>2
  <2>4. text[i] = "LF" /\ text[i + 1] = "LF"
    BY <1>3, <2>1, <2>2, <2>3
  <2>5. Cuts(text, i, Cgi!Lf)
    BY <1>1, <2>3, <2>4, CutsLf
  <2> QED BY <2>2, <2>5
<1>6. ASSUME NEW i \in 1..(2 * n - 1), Cuts(text, i, Cgi!Lf) PROVE FALSE
  <2>1. i \in Nat \ {0} /\ i + 1 <= Len(text)
    BY <1>1, <1>2
  <2>2. text[i] = "LF" /\ text[i + 1] = "LF"
    BY <1>1, <1>6, <2>1, CutsLf
  <2>3. \E k \in 1..n : 2 * k - 1 \in {i, i + 1}
    <3>1. PICK k : k = (i + 2) \div 2
      OBVIOUS
    <3>2. k \in 1..n /\ 2 * k - 1 \in {i, i + 1}
      BY <1>1, <3>1
    <3> QED BY <3>2
  <2>4. PICK k \in 1..n : 2 * k - 1 \in {i, i + 1}
    BY <2>3
  <2>5. m.lines[k] \in {"CR", "LF"}
    BY <1>3, <2>2, <2>4
  <2>6. k \in 1..Len(m.lines)
    BY DEF LfShape
  <2> QED BY <2>5, <2>6, LinesAreNoEnds
<1> QED BY <1>4, <1>5, <1>6

(* A CR LF CR LF in an output whose lines end with LF is one of its body.  *)
LEMMA BodyHoldsCrLf ==
  ASSUME NEW m \in Cgi!Meant, NEW text, NEW n, LfShape(text, m, n),
         NEW i \in 1..(Len(text) - 3), Cuts(text, i, Cgi!CrLf)
  PROVE  Cgi!Holds(m.body, Cgi!CrLf \o Cgi!CrLf)
<1>1. n \in Nat \ {0} /\ text \in Seq(Symbol)
  BY DEF LfShape
<1>0. PICK size : size = Len(m.body)
  OBVIOUS
<1>2. /\ m.body \in Seq(Cgi!Byte) /\ size \in Nat
      /\ Len(text) = 2 * n + 1 + size
  <2>1. m.body \in Seq(Cgi!Byte)
    BY MeantParts
  <2>2. Len(text) = 2 * n + 1 + size
    BY <1>0, Zenon DEF LfShape
  <2> QED BY <1>0, <2>1, <2>2, LenProperties
<1>3. /\ \A k \in 1..n : text[2 * k - 1] = m.lines[k] /\ text[2 * k] = "LF"
      /\ text[2 * n + 1] = "LF"
      /\ \A j \in 1..Len(m.body) : text[2 * n + 1 + j] = m.body[j]
  BY DEF LfShape
<1>4. i \in Nat \ {0} /\ i + 3 <= Len(text)
  BY <1>1, <1>2
<1>5. /\ text[i] = "CR" /\ text[i + 1] = "LF"
      /\ text[i + 2] = "CR" /\ text[i + 3] = "LF"
  BY <1>1, <1>4, CutsCrLf
<1>6. i > 2 * n + 1
  <2> SUFFICES ASSUME i <= 2 * n + 1 PROVE FALSE
    BY <1>1, <1>4
  <2>1. i = 2 * n + 1 \/ \E k \in 1..n : i = 2 * k - 1 \/ i = 2 * k
    <3>1. PICK k : k = (i + 1) \div 2
      OBVIOUS
    <3>2. i # 2 * n + 1 => k \in 1..n /\ (i = 2 * k - 1 \/ i = 2 * k)
      BY <1>1, <1>4, <3>1
    <3> QED BY <3>2
  <2>2. CASE i = 2 * n + 1
    BY <1>3, <1>5, <2>2
  <2>3. CASE \E k \in 1..n : i = 2 * k - 1 \/ i = 2 * k
    <3>1. PICK k \in 1..n : i = 2 * k - 1 \/ i = 2 * k
      BY <2>3
    <3>2. m.lines[k] = "CR" \/ text[i] = "LF"
      BY <1>3, <1>5, <3>1
    <3>3. k \in 1..Len(m.lines)
      BY DEF LfShape
    <3> QED BY <1>5, <3>2, <3>3, LinesAreNoEnds
  <2> QED BY <2>1, <2>2, <2>3
<1>7. PICK b : b = m.body
  OBVIOUS
<1>j. PICK j : j = i - (2 * n + 1)
  OBVIOUS
<1>8. /\ j \in Nat \ {0} /\ j + 3 <= Len(b) /\ i = 2 * n + 1 + j
      /\ i + 1 = 2 * n + 1 + (j + 1) /\ i + 2 = 2 * n + 1 + (j + 2)
      /\ i + 3 = 2 * n + 1 + (j + 3)
      /\ j \in 1..Len(b) /\ j + 1 \in 1..Len(b) /\ j + 2 \in 1..Len(b)
      /\ j + 3 \in 1..Len(b)
  <2>1. size = Len(b)
    BY <1>0, <1>7
  <2> QED BY <1>1, <1>2, <1>4, <1>6, <1>j, <2>1
<1>9. b[j] = "CR" /\ b[j + 1] = "LF" /\ b[j + 2] = "CR" /\ b[j + 3] = "LF"
  BY <1>3, <1>5, <1>7, <1>8, Zenon
<1>10. b \in Seq(Cgi!Byte)
  BY <1>2, <1>7
<1>11. Cuts(b, j, Cgi!CrLf)
  <2>1. j \in Nat \ {0} /\ j + 3 <= Len(b)
    BY <1>8
  <2> QED BY <1>9, <1>10, <2>1, CutsCrLf
<1>12. j \in 1..(Len(b) - 4 + 1)
  BY <1>2, <1>7, <1>8
<1>13. Len(Cgi!Separator(Cgi!CrLf)) = 4
  BY Separators
<1> QED BY <1>7, <1>11, <1>12, <1>13 DEF Cuts, Cgi!Separator, Cgi!Holds

(* An instance of a module has a Cardinality of its own.                   *)
LEMMA CgiCardinality ==
  ASSUME NEW S
  PROVE  Cgi!Cardinality(S) = Cardinality(S)
  BY ZenonT(10) DEF Cgi!Cardinality, Cardinality

(* A text that holds the lines of a header, the k-th at g[k], and between  *)
(* them nothing that is one, says what the header says.                    *)
Follows(head, lines, g, n) ==
  /\ n \in Nat /\ n = Len(lines)
  /\ g \in [1..n -> 1..Len(head)]
  /\ \A j, k \in 1..n : g[j] = g[k] => j = k
  /\ \A k \in 1..n : head[g[k]] = lines[k]
  /\ \A i \in 1..Len(head) :
       head[i] \in Cgi!HeaderLine => \E k \in 1..n : i = g[k]

(* Status and headers are those of the lines alone.                        *)
LEMMA HeadSays ==
  ASSUME NEW lines \in Seq(Cgi!HeaderLine), NEW head \in Seq(Symbol),
         NEW g, NEW n, Follows(head, lines, g, n)
  PROVE  /\ Cgi!StatusOf(head) = Cgi!StatusOf(lines)
         /\ Cgi!HeadersOf(head) = Cgi!HeadersOf(lines)
<1>1. /\ n \in Nat
      /\ g \in [1..n -> 1..Len(head)]
      /\ \A j, k \in 1..n : g[j] = g[k] => j = k
      /\ \A k \in 1..n : head[g[k]] = lines[k]
      /\ \A i \in 1..Len(head) :
           head[i] \in Cgi!HeaderLine => \E k \in 1..n : i = g[k]
  BY DEF Follows
<1>2. /\ n = Len(lines) /\ DOMAIN lines = 1..n /\ DOMAIN head = 1..Len(head)
  BY LenProperties DEF Follows
<1>3. Cgi!StatusOf(head) = Cgi!StatusOf(lines)
  <2>1. Cgi!StatusLine \in Cgi!HeaderLine
    BY DEF Cgi!HeaderLine
  <2>2. (\E i \in 1..Len(head) : head[i] = Cgi!StatusLine)
          <=> \E k \in 1..n : lines[k] = Cgi!StatusLine
    <3>1. ASSUME NEW i \in 1..Len(head), head[i] = Cgi!StatusLine
          PROVE  \E k \in 1..n : lines[k] = Cgi!StatusLine
      <4>1. PICK k \in 1..n : i = g[k]
        BY <1>1, <2>1, <3>1
      <4> QED BY <1>1, <3>1, <4>1
    <3>2. ASSUME NEW k \in 1..n, lines[k] = Cgi!StatusLine
          PROVE  \E i \in 1..Len(head) : head[i] = Cgi!StatusLine
      <4>1. g[k] \in 1..Len(head) /\ head[g[k]] = Cgi!StatusLine
        BY <1>1, <3>2
      <4> QED BY <4>1
    <3> QED BY <3>1, <3>2
  <2> QED BY <1>2, <2>2 DEF Cgi!StatusOf, Cgi!Contains
<1>4. ASSUME NEW field \in Cgi!Field
      PROVE  Cgi!Cardinality({i \in DOMAIN head : head[i] = field})
               = Cgi!Cardinality({k \in DOMAIN lines : lines[k] = field})
  <2>1. PICK A, B : /\ A = {k \in 1..n : lines[k] = field}
                    /\ B = {i \in 1..Len(head) : head[i] = field}
    OBVIOUS
  <2>2. IsFiniteSet(A)
    <3>1. IsFiniteSet(1..n) /\ A \in SUBSET (1..n)
      BY <1>1, <2>1, FS_Interval
    <3> QED BY <3>1, FS_Subset
  <2>3. field \in Cgi!HeaderLine
    BY DEF Cgi!HeaderLine
  <2>4. PICK f : f = [k \in A |-> g[k]]
    OBVIOUS
  <2>5. f \in [A -> B] /\ \A j, k \in A : f[j] = f[k] => j = k
    BY <1>1, <2>1, <2>4
  <2>6. \A i \in B : \E k \in A : f[k] = i
    BY <1>1, <2>1, <2>3, <2>4
  <2>7. f \in Bijection(A, B)
    BY <2>5, <2>6 DEF Bijection, Injection, Surjection, IsInjective
  <2>8. Cardinality(A) = Cardinality(B)
    <3>1. ExistsBijection(A, B)
      BY <2>7 DEF ExistsBijection
    <3> QED BY <2>2, <3>1, FS_Bijection
  <2> QED BY <1>2, <2>1, <2>8, CgiCardinality
<1>5. Cgi!HeadersOf(head) = Cgi!HeadersOf(lines)
  BY <1>4 DEF Cgi!HeadersOf
<1> QED BY <1>3, <1>5

(* The part before the header's end says what git wrote ...                *)
LEMMA HeadCrLf ==
  ASSUME NEW m \in Cgi!Meant, NEW text, NEW n, CrLfShape(text, m, n),
         NEW head, head = SubSeq(text, 1, 3 * n - 2)
  PROVE  /\ Cgi!StatusOf(head) = Cgi!StatusOf(m.lines)
         /\ Cgi!HeadersOf(head) = Cgi!HeadersOf(m.lines)
<1>0. PICK size, lines : size = Len(m.body) /\ lines = m.lines
  OBVIOUS
<1>1. n \in Nat \ {0} /\ text \in Seq(Symbol)
  BY DEF CrLfShape
<1>2. size \in Nat /\ Len(text) = 3 * n + 2 + size
  <2>1. m.body \in Seq(Cgi!Byte)
    BY MeantParts
  <2>2. Len(text) = 3 * n + 2 + size
    BY <1>0, Zenon DEF CrLfShape
  <2> QED BY <1>0, <2>1, <2>2, LenProperties
<1>3. \A k \in 1..n : /\ text[3 * k - 2] = lines[k]
                      /\ text[3 * k - 1] = "CR" /\ text[3 * k] = "LF"
  BY <1>0 DEF CrLfShape
<1>4. lines \in Seq(Cgi!HeaderLine) /\ n = Len(lines)
  BY <1>0, MeantParts DEF CrLfShape
<1>5. /\ head \in Seq(Symbol) /\ Len(head) = 3 * n - 2
      /\ \A i \in 1..(3 * n - 2) : head[i] = text[i]
  <2>1. \A i \in 1..(3 * n - 2) : text[i] \in Symbol
    BY <1>1, <1>2, ElementOfSeq
  <2>2. 1 \in Int /\ 3 * n - 2 \in Int /\ 1 <= 3 * n - 2
    BY <1>1
  <2>3. /\ head \in Seq(Symbol) /\ Len(head) = 3 * n - 2 - 1 + 1
        /\ \A i \in 1..(3 * n - 2 - 1 + 1) : head[i] = text[1 + i - 1]
    BY <2>1, <2>2, SubSeqProperties
  <2> QED BY <1>1, <2>3
<1>6. PICK g : g = [k \in 1..n |-> 3 * k - 2]
  OBVIOUS
<1>7. /\ g \in [1..n -> 1..(3 * n - 2)]
      /\ \A j, k \in 1..n : g[j] = g[k] => j = k
      /\ \A k \in 1..n : g[k] = 3 * k - 2
  BY <1>1, <1>6
<1>8. ASSUME NEW i \in 1..(3 * n - 2), head[i] \in Cgi!HeaderLine
      PROVE  \E k \in 1..n : i = g[k]
  <2>1. PICK k : k = (i + 2) \div 3
    OBVIOUS
  <2>2. k \in 1..n /\ i \in {3 * k - 2, 3 * k - 1, 3 * k}
    BY <1>1, <2>1
  <2>3. head[i] = text[i]
    BY <1>5
  <2>4. text[i] # "CR" /\ text[i] # "LF"
    BY <1>8, <2>3 DEF Cgi!HeaderLine, Cgi!StatusLine, Cgi!Field
  <2>5. i = 3 * k - 2
    BY <1>3, <2>2, <2>4
  <2> QED BY <1>7, <2>2, <2>5
<1>9. \A k \in 1..n : head[g[k]] = lines[k]
  BY <1>3, <1>5, <1>7
<1>10. Follows(head, lines, g, n)
  BY <1>1, <1>4, <1>5, <1>7, <1>8, <1>9 DEF Follows
<1> QED BY <1>0, <1>4, <1>5, <1>10, HeadSays

(* ... whichever way its lines end, ...                                    *)
LEMMA HeadLf ==
  ASSUME NEW m \in Cgi!Meant, NEW text, NEW n, LfShape(text, m, n),
         NEW head, head = SubSeq(text, 1, 2 * n - 1)
  PROVE  /\ Cgi!StatusOf(head) = Cgi!StatusOf(m.lines)
         /\ Cgi!HeadersOf(head) = Cgi!HeadersOf(m.lines)
<1>0. PICK size, lines : size = Len(m.body) /\ lines = m.lines
  OBVIOUS
<1>1. n \in Nat \ {0} /\ text \in Seq(Symbol)
  BY DEF LfShape
<1>2. size \in Nat /\ Len(text) = 2 * n + 1 + size
  <2>1. m.body \in Seq(Cgi!Byte)
    BY MeantParts
  <2>2. Len(text) = 2 * n + 1 + size
    BY <1>0, Zenon DEF LfShape
  <2> QED BY <1>0, <2>1, <2>2, LenProperties
<1>3. \A k \in 1..n : text[2 * k - 1] = lines[k] /\ text[2 * k] = "LF"
  BY <1>0 DEF LfShape
<1>4. lines \in Seq(Cgi!HeaderLine) /\ n = Len(lines)
  BY <1>0, MeantParts DEF LfShape
<1>5. /\ head \in Seq(Symbol) /\ Len(head) = 2 * n - 1
      /\ \A i \in 1..(2 * n - 1) : head[i] = text[i]
  <2>1. \A i \in 1..(2 * n - 1) : text[i] \in Symbol
    BY <1>1, <1>2, ElementOfSeq
  <2>2. 1 \in Int /\ 2 * n - 1 \in Int /\ 1 <= 2 * n - 1
    BY <1>1
  <2>3. /\ head \in Seq(Symbol) /\ Len(head) = 2 * n - 1 - 1 + 1
        /\ \A i \in 1..(2 * n - 1 - 1 + 1) : head[i] = text[1 + i - 1]
    BY <2>1, <2>2, SubSeqProperties
  <2> QED BY <1>1, <2>3
<1>6. PICK g : g = [k \in 1..n |-> 2 * k - 1]
  OBVIOUS
<1>7. /\ g \in [1..n -> 1..(2 * n - 1)]
      /\ \A j, k \in 1..n : g[j] = g[k] => j = k
      /\ \A k \in 1..n : g[k] = 2 * k - 1
  BY <1>1, <1>6
<1>8. ASSUME NEW i \in 1..(2 * n - 1), head[i] \in Cgi!HeaderLine
      PROVE  \E k \in 1..n : i = g[k]
  <2>1. PICK k : k = (i + 1) \div 2
    OBVIOUS
  <2>2. k \in 1..n /\ i \in {2 * k - 1, 2 * k}
    BY <1>1, <2>1
  <2>3. head[i] = text[i]
    BY <1>5
  <2>4. text[i] # "LF"
    BY <1>8, <2>3 DEF Cgi!HeaderLine, Cgi!StatusLine, Cgi!Field
  <2>5. i = 2 * k - 1
    BY <1>3, <2>2, <2>4
  <2> QED BY <1>7, <2>2, <2>5
<1>9. \A k \in 1..n : head[g[k]] = lines[k]
  BY <1>3, <1>5, <1>7
<1>10. Follows(head, lines, g, n)
  BY <1>1, <1>4, <1>5, <1>7, <1>8, <1>9 DEF Follows
<1> QED BY <1>0, <1>4, <1>5, <1>10, HeadSays

(* ... and what comes after it is the body.                                *)
LEMMA TailOf ==
  ASSUME NEW S, NEW text \in Seq(S), NEW b \in Seq(S), NEW c \in Nat,
         Len(text) = c + Len(b), \A j \in 1..Len(b) : text[c + j] = b[j]
  PROVE  SubSeq(text, c + 1, Len(text)) = b
<1>1. Len(text) \in Nat /\ Len(b) \in Nat
  BY LenProperties
<1>2. \A i \in (c + 1)..Len(text) : text[i] \in S
  BY <1>1, ElementOfSeq
<1>3. PICK s, l : s = SubSeq(text, c + 1, l) /\ l = Len(text)
  OBVIOUS
<1>4. /\ s \in Seq(S) /\ Len(s) = IF c + 1 <= l THEN l - (c + 1) + 1 ELSE 0
      /\ \A i \in 1..(l - (c + 1) + 1) : s[i] = text[c + 1 + i - 1]
  <2>1. /\ c + 1 \in Int /\ l \in Int
        /\ \A i \in (c + 1)..l : text[i] \in S
    BY <1>1, <1>2, <1>3
  <2> QED BY <1>3, <2>1, SubSeqProperties
<1>5. Len(s) = Len(b)
  <2>1. PICK n, k : n = Len(b) /\ k = Len(s)
    OBVIOUS
  <2>2. n \in Nat /\ l = c + n /\ k = IF c + 1 <= l THEN l - (c + 1) + 1 ELSE 0
    BY <1>1, <1>3, <1>4, <2>1
  <2>3. k = n
    BY <2>2
  <2> QED BY <2>1, <2>3
<1>6. \A i \in 1..Len(b) : s[i] = b[i]
  BY <1>1, <1>3, <1>4
<1> QED BY <1>3, <1>4, <1>5, <1>6, SeqEqual

(* What the search knows of the output.                                    *)
Wrote ==
  \/ meant \in Cgi!Meant /\ output = Cgi!Written(meant)
  \/ /\ meant = [Cgi!Unwritten EXCEPT !.body = output]
     /\ output \in Seq(Cgi!Byte)

(* No end of the header came before a position, or comes at all.           *)
NoneBefore(i, eol) == \A j \in 1..(i - 1) : ~Cuts(output, j, eol)
NoCrLf == \A j \in 1..(Len(output) - 3) : ~Cuts(output, j, Cgi!CrLf)
NoLf == \A j \in 1..(Len(output) - 1) : ~Cuts(output, j, Cgi!Lf)

(* The search has stopped at the first CR LF CR LF, ...                    *)
AtCrLf ==
  /\ position \in 1..(Len(output) - 3)
  /\ Cuts(output, position, Cgi!CrLf) /\ NoneBefore(position, Cgi!CrLf)

(* ... or at the first LF LF.                                              *)
AtLf ==
  /\ position \in 1..(Len(output) - 1)
  /\ Cuts(output, position, Cgi!Lf) /\ NoneBefore(position, Cgi!Lf)

(* The invariant: where the search is, and what it has passed.             *)
CgiInv ==
  /\ Cgi!CgiTypeOK
  /\ search = "idle" => position = 1
  /\ search \notin {"idle", "failed"} => Wrote
  /\ search = "crlf" => NoneBefore(position, Cgi!CrLf)
  /\ search = "lf" => NoCrLf /\ NoneBefore(position, Cgi!Lf)
  /\ search = "found" => AtCrLf \/ (NoCrLf /\ AtLf)
  /\ search = "absent" => NoCrLf /\ NoLf
  /\ Cgi!ResponseIsExact

(* What a search that stops at position i answers: the parts git wrote.    *)
Parts(text, i, eol, m) ==
  /\ Cgi!StatusOf(SubSeq(text, 1, i - 1)) = Cgi!StatusOf(m.lines)
  /\ Cgi!HeadersOf(SubSeq(text, 1, i - 1)) = Cgi!HeadersOf(m.lines)
  /\ SubSeq(text, i + Len(Cgi!Separator(eol)), Len(text)) = m.body

(* The parts that CR LF CR LF separates are those git wrote, ...           *)
LEMMA PartsCrLf ==
  ASSUME NEW m \in Cgi!Meant, NEW text, NEW n, CrLfShape(text, m, n)
  PROVE  Parts(text, 3 * n - 1, Cgi!CrLf, m)
<1>1. n \in Nat \ {0} /\ text \in Seq(Symbol)
  BY DEF CrLfShape
<1>2. 3 * n - 1 - 1 = 3 * n - 2 /\ 3 * n - 1 + 4 = 3 * n + 2 + 1
      /\ 3 * n + 2 \in Nat
  BY <1>1
<1>3. PICK b : b = m.body
  OBVIOUS
<1>4. /\ Len(text) = 3 * n + 2 + Len(b)
      /\ \A j \in 1..Len(b) : text[3 * n + 2 + j] = b[j]
  BY <1>3, Zenon DEF CrLfShape
<1>5. b \in Seq(Symbol)
  BY <1>3, MeantParts, SeqMonotonic DEF Symbol
<1>6. SubSeq(text, 3 * n + 2 + 1, Len(text)) = b
  <2>1. PICK c : c = 3 * n + 2
    OBVIOUS
  <2>2. c \in Nat /\ Len(text) = c + Len(b) /\ \A j \in 1..Len(b) : text[c + j] = b[j]
    BY <1>2, <1>4, <2>1
  <2>3. SubSeq(text, c + 1, Len(text)) = b
    BY <1>1, <1>5, <2>2, TailOf
  <2> QED BY <2>1, <2>3
<1>7. Len(Cgi!Separator(Cgi!CrLf)) = 4
  BY Separators
<1>8. PICK head : head = SubSeq(text, 1, 3 * n - 2)
  OBVIOUS
<1>9. /\ Cgi!StatusOf(head) = Cgi!StatusOf(m.lines)
      /\ Cgi!HeadersOf(head) = Cgi!HeadersOf(m.lines)
  BY <1>8, HeadCrLf
<1> QED BY <1>2, <1>3, <1>6, <1>7, <1>8, <1>9 DEF Parts

(* ... and so are the parts that LF LF separates.                          *)
LEMMA PartsLf ==
  ASSUME NEW m \in Cgi!Meant, NEW text, NEW n, LfShape(text, m, n)
  PROVE  Parts(text, 2 * n, Cgi!Lf, m)
<1>1. n \in Nat \ {0} /\ text \in Seq(Symbol)
  BY DEF LfShape
<1>2. 2 * n + 2 = 2 * n + 1 + 1 /\ 2 * n + 1 \in Nat
  BY <1>1
<1>3. PICK b : b = m.body
  OBVIOUS
<1>4. /\ Len(text) = 2 * n + 1 + Len(b)
      /\ \A j \in 1..Len(b) : text[2 * n + 1 + j] = b[j]
  BY <1>3, Zenon DEF LfShape
<1>5. b \in Seq(Symbol)
  BY <1>3, MeantParts, SeqMonotonic DEF Symbol
<1>6. SubSeq(text, 2 * n + 1 + 1, Len(text)) = b
  <2>1. PICK c : c = 2 * n + 1
    OBVIOUS
  <2>2. c \in Nat /\ Len(text) = c + Len(b) /\ \A j \in 1..Len(b) : text[c + j] = b[j]
    BY <1>2, <1>4, <2>1
  <2>3. SubSeq(text, c + 1, Len(text)) = b
    BY <1>1, <1>5, <2>2, TailOf
  <2> QED BY <2>1, <2>3
<1>7. Len(Cgi!Separator(Cgi!Lf)) = 2
  BY Separators
<1>8. PICK head : head = SubSeq(text, 1, 2 * n - 1)
  OBVIOUS
<1>9. /\ Cgi!StatusOf(head) = Cgi!StatusOf(m.lines)
      /\ Cgi!HeadersOf(head) = Cgi!HeadersOf(m.lines)
  BY <1>8, HeadLf
<1> QED BY <1>2, <1>3, <1>6, <1>7, <1>8, <1>9 DEF Parts

(* Where the search ends, unless the output misleads it.                   *)
LEMMA SearchEnds ==
  ASSUME meant \in Cgi!Meant, output = Cgi!Written(meant),
         ~Cgi!Misleading(meant), position \in Nat
  PROVE  /\ AtCrLf => Parts(output, position, Cgi!CrLf, meant)
         /\ NoCrLf /\ AtLf => Parts(output, position, Cgi!Lf, meant)
         /\ ~(NoCrLf /\ NoLf)
<1>1. CASE meant.eol = Cgi!CrLf
  <2>1. PICK n : CrLfShape(output, meant, n)
    <3>1. Cgi!CrLf # Cgi!Lf
      BY DEF Cgi!CrLf, Cgi!Lf
    <3> QED BY <1>1, <3>1, WrittenShape
  <2>2. n \in Nat \ {0}
    BY <2>1 DEF CrLfShape
  <2>3. /\ 3 * n - 1 \in 1..(Len(output) - 3)
        /\ Cuts(output, 3 * n - 1, Cgi!CrLf)
        /\ \A i \in 1..(3 * n - 2) : ~Cuts(output, i, Cgi!CrLf)
    BY <2>1, HeaderEndsCrLf
  <2>4. ~NoCrLf
    BY <2>3 DEF NoCrLf
  <2>5. ASSUME AtCrLf PROVE position = 3 * n - 1
    <3>1. ~(position \in 1..(3 * n - 2))
      BY <2>3, <2>5 DEF AtCrLf
    <3>2. ~(3 * n - 1 \in 1..(position - 1))
      BY <2>3, <2>5 DEF AtCrLf, NoneBefore
    <3>3. 1 <= position
      BY <2>5 DEF AtCrLf
    <3> QED BY <2>2, <3>1, <3>2, <3>3
  <2> QED BY <2>1, <2>4, <2>5, PartsCrLf
<1>2. CASE meant.eol = Cgi!Lf
  <2>1. PICK n : LfShape(output, meant, n)
    <3>1. Cgi!CrLf # Cgi!Lf
      BY DEF Cgi!CrLf, Cgi!Lf
    <3> QED BY <1>2, <3>1, WrittenShape
  <2>2. n \in Nat \ {0}
    BY <2>1 DEF LfShape
  <2>3. /\ 2 * n \in 1..(Len(output) - 1)
        /\ Cuts(output, 2 * n, Cgi!Lf)
        /\ \A i \in 1..(2 * n - 1) : ~Cuts(output, i, Cgi!Lf)
    BY <2>1, HeaderEndsLf
  <2>4. ~NoLf
    BY <2>3 DEF NoLf
  <2>5. ~AtCrLf
    <3>1. meant.lines # << >>
      BY MeantParts
    <3>2. ~Cgi!Holds(meant.body, Cgi!CrLf \o Cgi!CrLf)
      BY <1>2, <3>1 DEF Cgi!Misleading
    <3> QED BY <2>1, <3>2, BodyHoldsCrLf DEF AtCrLf
  <2>6. ASSUME AtLf PROVE position = 2 * n
    <3>1. ~(position \in 1..(2 * n - 1))
      BY <2>3, <2>6 DEF AtLf
    <3>2. ~(2 * n \in 1..(position - 1))
      BY <2>3, <2>6 DEF AtLf, NoneBefore
    <3>3. 1 <= position
      BY <2>6 DEF AtLf
    <3> QED BY <2>2, <3>1, <3>2, <3>3
  <2> QED BY <2>1, <2>4, <2>5, <2>6, PartsLf
<1> QED BY <1>1, <1>2, MeantParts

(* An output without header has no end of one.                             *)
LEMMA HeaderlessEnds ==
  ASSUME meant = [Cgi!Unwritten EXCEPT !.body = output],
         ~Cgi!Misleading(meant)
  PROVE  /\ ~AtCrLf /\ ~AtLf
         /\ meant.lines = << >> /\ meant.body = output
<1>1. meant.lines = << >> /\ meant.body = output
  BY DEF Cgi!Unwritten
<1>2. /\ ~Cgi!Holds(output, Cgi!Separator(Cgi!CrLf))
      /\ ~Cgi!Holds(output, Cgi!Separator(Cgi!Lf))
  BY <1>1 DEF Cgi!Misleading, Cgi!Separator
<1>3. /\ Len(Cgi!Separator(Cgi!CrLf)) = 4 /\ Len(Cgi!Separator(Cgi!Lf)) = 2
  BY Separators
<1>4. ~AtCrLf
  <2> SUFFICES ASSUME AtCrLf PROVE FALSE
    OBVIOUS
  <2>1. position \in 1..(Len(output) - 4 + 1)
    BY DEF AtCrLf
  <2> QED BY <1>2, <1>3, <2>1 DEF AtCrLf, Cuts, Cgi!Holds
<1>5. ~AtLf
  <2> SUFFICES ASSUME AtLf PROVE FALSE
    OBVIOUS
  <2>1. position \in 1..(Len(output) - 2 + 1)
    BY DEF AtLf
  <2> QED BY <1>2, <1>3, <2>1 DEF AtLf, Cuts, Cgi!Holds
<1> QED BY <1>1, <1>4, <1>5

(* What git writes is a text of the two kinds of symbols.                  *)
LEMMA WrittenIsText ==
  ASSUME NEW m \in Cgi!Meant
  PROVE  Cgi!Written(m) \in Seq(Symbol)
BY WrittenShape DEF CrLfShape, LfShape

(* Before the process is run, the invariant holds.                         *)
LEMMA CgiStarts == Cgi!CgiInit => CgiInv
<1> SUFFICES ASSUME Cgi!CgiInit PROVE CgiInv
  OBVIOUS
<1>1. << >> \in Seq(Symbol) /\ Len(<< >>) = 0
  OBVIOUS
<1>2. Cgi!NoHeaders \in [Cgi!Field -> Nat]
  BY DEF Cgi!NoHeaders
<1> QED
  BY <1>1, <1>2 DEF Cgi!CgiInit, CgiInv, Cgi!CgiTypeOK, Cgi!ResponseIsExact,
     Cgi!Nothing, Symbol

(* The process ends and its output is what it meant to write, or bytes     *)
(* without a header.                                                       *)
LEMMA CgiRuns ==
  ASSUME CgiInv, Cgi!Run
  PROVE  CgiInv'
<1>1. /\ position = 1 /\ search' = "crlf" /\ position' = 1 /\ response' = response
      /\ Cgi!CgiTypeOK
  BY DEF Cgi!Run, CgiInv
<1>2. PICK m \in Cgi!Meant :
        \/ meant' = m /\ output' = Cgi!Written(m)
        \/ meant' = [Cgi!Unwritten EXCEPT !.body = m.body] /\ output' = m.body
  BY DEF Cgi!Run
<1>3. output' \in Seq(Symbol) /\ Wrote'
  <2>1. m.body \in Seq(Cgi!Byte) /\ m.body \in Seq(Symbol)
    BY MeantParts, SeqMonotonic DEF Symbol
  <2> QED BY <1>2, <2>1, WrittenIsText DEF Wrote
<1>4. 1 \in 1..(Len(output') + 1)
  BY <1>3, LenProperties
<1>5. Cgi!CgiTypeOK'
  BY <1>1, <1>3, <1>4 DEF Cgi!CgiTypeOK, Symbol
<1>6. NoneBefore(position, Cgi!CrLf)'
  BY <1>1 DEF NoneBefore
<1> QED BY <1>1, <1>3, <1>5, <1>6 DEF CgiInv, Cgi!ResponseIsExact

(* A process that fails answers nothing that could be wrong.               *)
LEMMA CgiFails ==
  ASSUME CgiInv, Cgi!RunFails
  PROVE  CgiInv'
<1>1. Cgi!NoHeaders \in [Cgi!Field -> Nat] /\ << >> \in Seq(Symbol)
  BY DEF Cgi!NoHeaders
<1>2. response' = [status |-> 500, headers |-> Cgi!NoHeaders, body |-> << >>]
  BY DEF Cgi!RunFails, Cgi!Nothing
<1>3. /\ Cgi!CgiTypeOK /\ search' = "failed" /\ position' = position
      /\ output' = output
  BY DEF Cgi!RunFails, CgiInv
<1>4. Cgi!CgiTypeOK'
  BY <1>1, <1>2, <1>3 DEF Cgi!CgiTypeOK, Symbol
<1> QED BY <1>3, <1>4 DEF CgiInv, Cgi!ResponseIsExact

(* What a step of the search compares, and whether it may still go on, for *)
(* one end of line ...                                                     *)
LEMMA ReachCrLf ==
  /\ Cgi!At(position, Cgi!CrLf) = Cgi!Separator(Cgi!CrLf)
       <=> Cuts(output, position, Cgi!CrLf)
  /\ Cgi!InReach(position, Cgi!CrLf) <=> position <= Len(output) - 4 + 1
BY Separators DEF Cgi!At, Cuts, Cgi!InReach

(* ... and for the other end of line.                                      *)
LEMMA ReachLf ==
  /\ Cgi!At(position, Cgi!Lf) = Cgi!Separator(Cgi!Lf)
       <=> Cuts(output, position, Cgi!Lf)
  /\ Cgi!InReach(position, Cgi!Lf) <=> position <= Len(output) - 2 + 1
BY Separators DEF Cgi!At, Cuts, Cgi!InReach

(* indexOfBytes over CR LF CR LF: one byte on, or there, or on to LF LF.   *)
LEMMA CgiLooksForCrLf ==
  ASSUME CgiInv, Cgi!LookForCrLf
  PROVE  CgiInv'
<1>1. /\ search = "crlf" /\ output' = output /\ response' = response
      /\ meant' = meant
  BY DEF Cgi!LookForCrLf, Cgi!Look
<1>2. /\ Cgi!CgiTypeOK /\ Wrote /\ NoneBefore(position, Cgi!CrLf)
  BY <1>1 DEF CgiInv
<1>3. Wrote'
  BY <1>1, <1>2 DEF Wrote
<1>4. position \in 1..(Len(output) + 1) /\ Len(output) \in Nat
  BY <1>2, LenProperties DEF Cgi!CgiTypeOK
<1>5. CASE position <= Len(output) - 4 + 1 /\ Cuts(output, position, Cgi!CrLf)
  <2>1. search' = "found" /\ position' = position
    BY <1>5, ReachCrLf DEF Cgi!LookForCrLf, Cgi!Look
  <2>2. AtCrLf'
    BY <1>1, <1>2, <1>4, <1>5, <2>1 DEF AtCrLf, NoneBefore
  <2>3. Cgi!CgiTypeOK'
    BY <1>1, <1>2, <2>1 DEF Cgi!CgiTypeOK
  <2>4. (AtCrLf \/ (NoCrLf /\ AtLf))'
    BY <2>2
  <2> QED BY <1>3, <2>1, <2>3, <2>4 DEF CgiInv, Cgi!ResponseIsExact
<1>6. CASE position <= Len(output) - 4 + 1 /\ ~Cuts(output, position, Cgi!CrLf)
  <2>1. search' = search /\ position' = position + 1
    BY <1>6, ReachCrLf DEF Cgi!LookForCrLf, Cgi!Look
  <2>2. \A j \in 1..(position' - 1) : j = position \/ j \in 1..(position - 1)
    BY <1>4, <2>1
  <2>3. NoneBefore(position, Cgi!CrLf)'
    BY <1>1, <1>2, <1>6, <2>2 DEF NoneBefore
  <2>4. position' \in 1..(Len(output) + 1)
    BY <1>4, <1>6, <2>1
  <2>5. Cgi!CgiTypeOK'
    BY <1>1, <1>2, <2>1, <2>4 DEF Cgi!CgiTypeOK
  <2>6. search' = "crlf"
    BY <1>1, <2>1
  <2> QED BY <1>1, <1>3, <2>3, <2>5, <2>6 DEF CgiInv, Cgi!ResponseIsExact
<1>7. CASE ~(position <= Len(output) - 4 + 1)
  <2>1. search' = "lf" /\ position' = 1
    BY <1>7, ReachCrLf DEF Cgi!LookForCrLf, Cgi!Look
  <2>2. \A j \in 1..(Len(output) - 3) : j \in 1..(position - 1)
    BY <1>4, <1>7
  <2>3. NoCrLf'
    BY <1>1, <1>2, <2>2 DEF NoCrLf, NoneBefore
  <2>4. NoneBefore(position, Cgi!Lf)'
    BY <2>1 DEF NoneBefore
  <2>5. 1 \in 1..(Len(output) + 1)
    BY <1>4
  <2>6. Cgi!CgiTypeOK'
    BY <1>1, <1>2, <2>1, <2>5 DEF Cgi!CgiTypeOK
  <2> QED BY <1>3, <2>1, <2>3, <2>4, <2>6 DEF CgiInv, Cgi!ResponseIsExact
<1> QED BY <1>5, <1>6, <1>7

(* indexOfBytes over LF LF.                                                *)
LEMMA CgiLooksForLf ==
  ASSUME CgiInv, Cgi!LookForLf
  PROVE  CgiInv'
<1>1. /\ search = "lf" /\ output' = output /\ response' = response
      /\ meant' = meant
  BY DEF Cgi!LookForLf, Cgi!Look
<1>2. /\ Cgi!CgiTypeOK /\ Wrote /\ NoCrLf /\ NoneBefore(position, Cgi!Lf)
  BY <1>1 DEF CgiInv
<1>3. Wrote' /\ NoCrLf'
  BY <1>1, <1>2 DEF Wrote, NoCrLf
<1>4. position \in 1..(Len(output) + 1) /\ Len(output) \in Nat
  BY <1>2, LenProperties DEF Cgi!CgiTypeOK
<1>5. CASE position <= Len(output) - 2 + 1 /\ Cuts(output, position, Cgi!Lf)
  <2>1. search' = "found" /\ position' = position
    BY <1>5, ReachLf DEF Cgi!LookForLf, Cgi!Look
  <2>2. AtLf'
    BY <1>1, <1>2, <1>4, <1>5, <2>1 DEF AtLf, NoneBefore
  <2>3. Cgi!CgiTypeOK'
    BY <1>1, <1>2, <2>1 DEF Cgi!CgiTypeOK
  <2> QED BY <1>3, <2>1, <2>2, <2>3 DEF CgiInv, Cgi!ResponseIsExact
<1>6. CASE position <= Len(output) - 2 + 1 /\ ~Cuts(output, position, Cgi!Lf)
  <2>1. search' = search /\ position' = position + 1
    BY <1>6, ReachLf DEF Cgi!LookForLf, Cgi!Look
  <2>2. \A j \in 1..(position' - 1) : j = position \/ j \in 1..(position - 1)
    BY <1>4, <2>1
  <2>3. NoneBefore(position, Cgi!Lf)'
    BY <1>1, <1>2, <1>6, <2>2 DEF NoneBefore
  <2>4. position' \in 1..(Len(output) + 1)
    BY <1>4, <1>6, <2>1
  <2>5. Cgi!CgiTypeOK'
    BY <1>1, <1>2, <2>1, <2>4 DEF Cgi!CgiTypeOK
  <2>6. search' = "lf"
    BY <1>1, <2>1
  <2> QED BY <1>1, <1>3, <2>3, <2>5, <2>6 DEF CgiInv, Cgi!ResponseIsExact
<1>7. CASE ~(position <= Len(output) - 2 + 1)
  <2>1. search' = "absent" /\ position' = 1
    BY <1>7, ReachLf DEF Cgi!LookForLf, Cgi!Look
  <2>2. \A j \in 1..(Len(output) - 1) : j \in 1..(position - 1)
    BY <1>4, <1>7
  <2>3. NoLf'
    BY <1>1, <1>2, <2>2 DEF NoLf, NoneBefore
  <2>4. 1 \in 1..(Len(output) + 1)
    BY <1>4
  <2>5. Cgi!CgiTypeOK'
    BY <1>1, <1>2, <2>1, <2>4 DEF Cgi!CgiTypeOK
  <2> QED BY <1>3, <2>1, <2>3, <2>5 DEF CgiInv, Cgi!ResponseIsExact
<1> QED BY <1>5, <1>6, <1>7

(* An empty header says status 200 and nothing else.                       *)
LEMMA SaysNothing ==
  /\ Cgi!StatusOf(<< >>) = 200
  /\ Cgi!HeadersOf(<< >>) = Cgi!NoHeaders
<1>1. Cgi!StatusOf(<< >>) = 200
  BY DEF Cgi!StatusOf, Cgi!Contains
<1>2. ASSUME NEW field
      PROVE  Cgi!Cardinality({i \in DOMAIN << >> : << >>[i] = field}) = 0
  <2>1. {i \in DOMAIN << >> : << >>[i] = field} = {}
    OBVIOUS
  <2> QED BY <2>1, CgiCardinality, FS_EmptySet
<1> QED BY <1>1, <1>2 DEF Cgi!HeadersOf, Cgi!NoHeaders

(* toResponse, when it has found no end of a header: all is body.          *)
LEMMA CgiAnswersAll ==
  ASSUME CgiInv, Cgi!AnswerAll
  PROVE  CgiInv'
<1>1. /\ search = "absent" /\ search' = "answered" /\ output' = output
      /\ position' = position /\ meant' = meant
      /\ response' = [status |-> 200, headers |-> Cgi!NoHeaders, body |-> output]
  BY DEF Cgi!AnswerAll
<1>2. Cgi!CgiTypeOK /\ Wrote /\ NoCrLf /\ NoLf
  BY <1>1 DEF CgiInv
<1>3. Wrote'
  BY <1>1, <1>2 DEF Wrote
<1>4. Cgi!CgiTypeOK'
  <2>1. Cgi!NoHeaders \in [Cgi!Field -> Nat]
    BY DEF Cgi!NoHeaders
  <2> QED BY <1>1, <1>2, <2>1 DEF Cgi!CgiTypeOK
<1>5. ASSUME ~Cgi!Misleading(meant)
      PROVE  response' = [status |-> Cgi!StatusOf(meant.lines),
                          headers |-> Cgi!HeadersOf(meant.lines),
                          body |-> meant.body]
  <2>1. position \in Nat
    BY <1>2, LenProperties DEF Cgi!CgiTypeOK
  <2>2. meant = [Cgi!Unwritten EXCEPT !.body = output]
    BY <1>2, <1>5, <2>1, SearchEnds DEF Wrote
  <2>3. meant.lines = << >> /\ meant.body = output
    BY <1>5, <2>2, HeaderlessEnds
  <2> QED BY <1>1, <2>3, SaysNothing
<1>6. Cgi!ResponseIsExact'
  BY <1>1, <1>5 DEF Cgi!ResponseIsExact
<1> QED BY <1>1, <1>3, <1>4, <1>6 DEF CgiInv

(* toResponse, when it has found one: the parts before and after it.       *)
LEMMA CgiAnswersParts ==
  ASSUME CgiInv, Cgi!AnswerParts
  PROVE  CgiInv'
<1> PICK head, rest :
      /\ head = SubSeq(output, 1, position - 1)
      /\ rest = SubSeq(output, position + Len(Cgi!Separator(Cgi!Found)),
                       Len(output))
  OBVIOUS
<1>1. /\ search = "found" /\ search' = "answered" /\ output' = output
      /\ position' = position /\ meant' = meant
      /\ response' = [status |-> Cgi!StatusOf(head),
                      headers |-> Cgi!HeadersOf(head), body |-> rest]
  BY DEF Cgi!AnswerParts
<1>2. Cgi!CgiTypeOK /\ Wrote
  BY <1>1 DEF CgiInv
<1>3. Wrote'
  BY <1>1, <1>2 DEF Wrote
<1>4. /\ output \in Seq(Symbol) /\ Len(output) \in Nat
      /\ position \in Nat \ {0}
  BY <1>2, LenProperties DEF Cgi!CgiTypeOK, Symbol
<1>5. /\ AtCrLf => Cgi!Found = Cgi!CrLf
      /\ AtLf => Cgi!Found = Cgi!Lf
  <2>1. ASSUME AtCrLf PROVE output[position] = "CR"
    <3>1. Cuts(output, position, Cgi!CrLf) /\ position + 3 <= Len(output)
      BY <1>4, <2>1 DEF AtCrLf
    <3> QED BY <1>4, <3>1, CutsCrLf
  <2>2. ASSUME AtLf PROVE output[position] = "LF"
    <3>1. Cuts(output, position, Cgi!Lf) /\ position + 1 <= Len(output)
      BY <1>4, <2>2 DEF AtLf
    <3> QED BY <1>4, <3>1, CutsLf
  <2> QED BY <2>1, <2>2 DEF Cgi!Found
<1>6. AtCrLf \/ (NoCrLf /\ AtLf)
  BY <1>1 DEF CgiInv
<1>7. Cgi!CgiTypeOK'
  <2>1. Cgi!StatusOf(head) \in {200, 404}
    BY DEF Cgi!StatusOf
  <2>2. position - 1 <= Len(output)
    BY <1>2, <1>4 DEF Cgi!CgiTypeOK
  <2>3. head \in Seq(Symbol)
    <3>1. \A i \in 1..(position - 1) : output[i] \in Symbol
      BY <1>4, <2>2, ElementOfSeq
    <3>2. 1 \in Int /\ position - 1 \in Int
      BY <1>4
    <3> QED BY <3>1, <3>2, SubSeqProperties
  <2>4. rest \in Seq(Symbol)
    <3>1. PICK i : i = position + Len(Cgi!Separator(Cgi!Found))
      OBVIOUS
    <3>2. Len(Cgi!Separator(Cgi!Found)) \in {2, 4}
      BY <1>5, <1>6, Separators
    <3>3. i \in Nat \ {0}
      BY <1>4, <3>1, <3>2
    <3>4. \A j \in i..Len(output) : output[j] \in Symbol
      BY <1>4, <3>3, ElementOfSeq
    <3>5. i \in Int /\ Len(output) \in Int
      BY <1>4, <3>3
    <3> QED BY <3>1, <3>4, <3>5, SubSeqProperties
  <2>5. Cgi!HeadersOf(head) \in [Cgi!Field -> Nat]
    <3>1. ASSUME NEW field
          PROVE  Cgi!Cardinality({i \in DOMAIN head : head[i] = field}) \in Nat
      <4>1. PICK A : A = {i \in DOMAIN head : head[i] = field}
        OBVIOUS
      <4>2. A \in SUBSET (1..Len(head)) /\ Len(head) \in Nat
        BY <2>3, <4>1, LenProperties
      <4>3. IsFiniteSet(1..Len(head))
        <5>1. PICK l \in Nat : l = Len(head)
          BY <4>2
        <5>2. 1 \in Int /\ l \in Int
          OBVIOUS
        <5> QED BY <5>1, <5>2, FS_Interval
      <4>4. IsFiniteSet(A)
        BY <4>2, <4>3, FS_Subset
      <4>5. Cardinality(A) \in Nat
        BY <4>4, FS_CardinalityType
      <4> QED BY <4>1, <4>5, CgiCardinality
    <3> QED BY <3>1 DEF Cgi!HeadersOf
  <2>6. /\ response'.status = Cgi!StatusOf(head)
        /\ response'.headers = Cgi!HeadersOf(head)
        /\ response'.body = rest
    BY <1>1
  <2> QED BY <1>1, <1>2, <2>1, <2>3, <2>4, <2>5, <2>6 DEF Cgi!CgiTypeOK, Symbol
<1>8. ASSUME ~Cgi!Misleading(meant)
      PROVE  response' = [status |-> Cgi!StatusOf(meant.lines),
                          headers |-> Cgi!HeadersOf(meant.lines),
                          body |-> meant.body]
  <2>1. meant \in Cgi!Meant /\ output = Cgi!Written(meant)
    BY <1>2, <1>6, <1>8, HeaderlessEnds DEF Wrote
  <2>2. Parts(output, position, Cgi!Found, meant)
    BY <1>4, <1>5, <1>6, <1>8, <2>1, SearchEnds
  <2>3. /\ Cgi!StatusOf(head) = Cgi!StatusOf(meant.lines)
        /\ Cgi!HeadersOf(head) = Cgi!HeadersOf(meant.lines)
        /\ rest = meant.body
    BY <2>2 DEF Parts
  <2> QED BY <1>1, <2>3
<1>9. Cgi!ResponseIsExact'
  BY <1>1, <1>8 DEF Cgi!ResponseIsExact
<1> QED BY <1>1, <1>3, <1>7, <1>9 DEF CgiInv

(* Every step of the component keeps the invariant, ...                    *)
LEMMA CgiNextKeeps ==
  ASSUME CgiInv, [Cgi!CgiNext]_Cgi!cgiVars
  PROVE  CgiInv'
<1>1. CASE Cgi!CgiNext
  BY <1>1, CgiRuns, CgiFails, CgiLooksForCrLf, CgiLooksForLf, CgiAnswersAll,
     CgiAnswersParts DEF Cgi!CgiNext
<1>2. CASE UNCHANGED Cgi!cgiVars
  BY <1>2 DEF Cgi!cgiVars, CgiInv, Cgi!CgiTypeOK, Wrote, NoneBefore, NoCrLf,
     NoLf, AtCrLf, AtLf, Cgi!ResponseIsExact
<1> QED BY <1>1, <1>2

(* ... and so does every behaviour.                                        *)
LEMMA CgiInvariant == Spec => []CgiInv
<1>1. Init => CgiInv
  BY CgiStarts DEF Init
<1>2. CgiInv /\ [Next]_vars => CgiInv'
  <2> SUFFICES ASSUME CgiInv, [Next]_vars PROVE CgiInv'
    OBVIOUS
  <2>1. [Cgi!CgiNext]_Cgi!cgiVars
    BY DEF Next, RegistryStep, TeamsStep, ProjectsStep, ReleasesStep,
       WebhooksStep, WikiStep, CredentialsStep, SqlStep, CgiStep, vars,
       CgiState, Cgi!cgiVars
  <2> QED BY <2>1, CgiNextKeeps
<1> QED BY <1>1, <1>2, PTL DEF Spec

(* Status, headers and body of the answer are those git wrote, for an      *)
(* output of any length: the first separator toResponse finds is the end   *)
(* of the header unless the body, or an output without header, makes it    *)
(* look otherwise.                                                         *)
THEOREM ResponseIsExactAlways == Spec => []ResponseIsExact
<1>1. CgiInv => ResponseIsExact
  BY DEF CgiInv, ResponseIsExact
<1> QED BY <1>1, CgiInvariant, PTL
-----------------------------------------------------------------------------
(***************************************************************************)
(* The SQL script.  In each text of a script the positions where the pass  *)
(* stands are known, inside of quotes and outside, whatever quotes and     *)
(* semicolons the quoted value holds; so it can cut at the last semicolon  *)
(* only.                                                                   *)
(***************************************************************************)
(* What FlattenSeq gives in the module of the script.                      *)
LEMMA SqlFlattened ==
  ASSUME NEW S, NEW pieces \in Seq(Seq(S))
  PROVE  /\ Sql!FlattenSeq(pieces) \in Seq(S)
         /\ \E at : Laid(Sql!FlattenSeq(pieces), pieces, at)
<1>1. CASE Len(pieces) = 0
  <2>1. pieces = << >> /\ Sql!FlattenSeq(pieces) = << >>
    BY <1>1, EmptySeq DEF Sql!FlattenSeq
  <2>2. Laid(<< >>, << >>, [k \in 0..0 |-> 0])
    BY DEF Laid
  <2> QED BY <2>1, <2>2, EmptySeq
<1>2. CASE Len(pieces) # 0
  <2>1. PICK n : n = Len(pieces)
    OBVIOUS
  <2>2. n \in Nat
    BY <2>1, LenProperties
  <2>3. \E f : Flattens(f, pieces, n) /\ Sql!FlattenSeq(pieces) = f[n]
    <3>1. \E f : Flattens(f, pieces, n)
      BY <2>2, FlatteningExists
    <3> QED BY <1>2, <2>1, <3>1, Zenon DEF Flattens, Sql!FlattenSeq
  <2> QED BY <1>2, <2>1, <2>3, FlattenedIsLaid
<1> QED BY <1>1, <1>2

(* A text in which the pass over its characters, when it begins outside of *)
(* quotes, is in quotes at the positions ins and outside at outs, steps    *)
(* over no other, and ends a statement at the last only, if at all.        *)
Cuttable(text, outs, ins, ended) ==
  LET size == Len(text) IN
  /\ text \in Seq(Sql!Character) /\ ended \in BOOLEAN
  /\ outs \subseteq 1..(size + 1) /\ 1 \in outs /\ ins \subseteq 1..(size - 1)
  /\ ended => outs \subseteq 1..size
  /\ ~ended => \A i \in outs : i = size + 1 \/ text[i] # "semicolon"
  /\ \A i \in outs : i <= size =>
       /\ text[i] = "semicolon" => i = size
       /\ text[i] = "quote" => i + 1 \in ins
       /\ text[i] \notin {"semicolon", "quote"} => i + 1 \in outs
  /\ \A i \in ins :
       /\ text[i] = "quote" => IF text[i + 1] = "quote" THEN i + 2 \in ins
                                                        ELSE i + 1 \in outs
       /\ text[i] # "quote" => i + 1 \in ins

(* The fixed pieces of a statement are texts.                              *)
LEMMA CharacterSeqs ==
  /\ <<"space">> \in Seq(Sql!Character)
  /\ <<"space", "other">> \in Seq(Sql!Character)
  /\ <<"quote">> \in Seq(Sql!Character)
  /\ <<"quote", "quote">> \in Seq(Sql!Character)
  /\ "semicolon" \in Sql!Character
BY DEF Sql!Character

(* A text of blanks is one, ended or not.                                  *)
LEMMA BlankIsCuttable ==
  /\ Cuttable(<<"space">>, {1, 2}, {}, FALSE)
  /\ Cuttable(Sql!Terminated(<<"space">>), {1, 2}, {}, TRUE)
<1>1. Cuttable(<<"space">>, {1, 2}, {}, FALSE)
  <2>1. PICK s : s = <<"space">>
    OBVIOUS
  <2>2. s \in Seq(Sql!Character) /\ Len(s) = 1 /\ s[1] = "space"
    BY <2>1, CharacterSeqs
  <2>3. Cuttable(s, {1, 2}, {}, FALSE)
    BY <2>2 DEF Cuttable
  <2> QED BY <2>1, <2>3
<1>2. Cuttable(Sql!Terminated(<<"space">>), {1, 2}, {}, TRUE)
  <2>1. PICK s, t : s = <<"space">> /\ t = Append(s, "semicolon")
    OBVIOUS
  <2>2. s \in Seq(Sql!Character) /\ Len(s) = 1 /\ s[1] = "space"
    BY <2>1, CharacterSeqs
  <2>3. /\ t \in Seq(Sql!Character) /\ Len(t) = 2
        /\ t[1] = "space" /\ t[2] = "semicolon"
    BY <2>1, <2>2, CharacterSeqs, AppendProperties
  <2>4. Cuttable(t, {1, 2}, {}, TRUE)
    BY <2>3 DEF Cuttable
  <2> QED BY <2>1, <2>4 DEF Sql!Terminated
<1> QED BY <1>1, <1>2

(* A value in quotes, with each quote in it doubled: the k-th character of *)
(* the value is after at[k - 1] of those between the quotes.               *)
Quoted(text, v, at, n, size) ==
  /\ n \in Nat /\ size \in Nat
  /\ at \in [0..n -> Nat] /\ at[0] = 0 /\ at[n] = size
  /\ \A k \in 1..n :
       /\ at[k] <= size
       /\ v[k] = "quote" => /\ at[k] = at[k - 1] + 2
                            /\ text[at[k - 1] + 1] = "quote"
                            /\ text[at[k - 1] + 2] = "quote"
       /\ v[k] # "quote" => /\ at[k] = at[k - 1] + 1
                            /\ text[at[k - 1] + 1] # "quote"

(* quoteSqlText gives such a value.                                        *)
LEMMA QuotedExists ==
  ASSUME NEW v \in Seq(Sql!Character),
         NEW flat, flat = Sql!FlattenSeq([i \in DOMAIN v |->
                            IF v[i] = "quote" THEN <<"quote", "quote">>
                                              ELSE <<v[i]>>])
  PROVE  /\ flat \in Seq(Sql!Character)
         /\ \E at, n : Quoted(flat, v, at, n, Len(flat))
<1>1. PICK n, pieces :
        /\ n = Len(v)
        /\ pieces = [i \in DOMAIN v |->
                       IF v[i] = "quote" THEN <<"quote", "quote">>
                                         ELSE <<v[i]>>]
  OBVIOUS
<1>2. n \in Nat /\ DOMAIN v = 1..n /\ \A k \in 1..n : v[k] \in Sql!Character
  BY <1>1, LenProperties, ElementOfSeq
<1>3. ASSUME NEW k \in 1..n
      PROVE  /\ pieces[k] \in Seq(Sql!Character)
             /\ v[k] = "quote" => /\ Len(pieces[k]) = 2
                                  /\ pieces[k][1] = "quote"
                                  /\ pieces[k][2] = "quote"
             /\ v[k] # "quote" => /\ Len(pieces[k]) = 1
                                  /\ pieces[k][1] = v[k]
  <2>1. CASE v[k] = "quote"
    <3>1. pieces[k] = <<"quote", "quote">>
      BY <1>1, <1>2, <2>1
    <3> QED BY <2>1, <3>1, CharacterSeqs
  <2>2. CASE v[k] # "quote"
    <3>1. pieces[k] = <<v[k]>>
      BY <1>1, <1>2, <2>2
    <3>2. <<v[k]>> \in Seq(Sql!Character)
      BY <1>2
    <3> QED BY <2>2, <3>1, <3>2
  <2> QED BY <2>1, <2>2
<1>4. pieces \in Seq(Seq(Sql!Character)) /\ Len(pieces) = n
  <2>1. pieces \in [1..n -> Seq(Sql!Character)]
    BY <1>1, <1>2, <1>3
  <2> QED BY <1>2, <2>1
<1>5. flat = Sql!FlattenSeq(pieces)
  BY <1>1
<1>6. flat \in Seq(Sql!Character) /\ \E at : Laid(flat, pieces, at)
  BY <1>4, <1>5, SqlFlattened
<1>7. PICK at : Laid(flat, pieces, at)
  BY <1>6
<1>8. PICK size : size = Len(flat)
  OBVIOUS
<1>9. /\ at \in [0..n -> Nat] /\ at[0] = 0 /\ at[n] = size
      /\ \A k \in 1..n : /\ at[k] = at[k - 1] + Len(pieces[k])
                         /\ at[k] <= size
                         /\ \A j \in 1..Len(pieces[k]) :
                              flat[at[k - 1] + j] = pieces[k][j]
  BY <1>4, <1>7, <1>8 DEF Laid
<1>10. size \in Nat
  BY <1>6, <1>8, LenProperties
<1>11. ASSUME NEW k \in 1..n
       PROVE  /\ v[k] = "quote" => /\ at[k] = at[k - 1] + 2
                                   /\ flat[at[k - 1] + 1] = "quote"
                                   /\ flat[at[k - 1] + 2] = "quote"
              /\ v[k] # "quote" => /\ at[k] = at[k - 1] + 1
                                   /\ flat[at[k - 1] + 1] # "quote"
  <2>1. /\ at[k] = at[k - 1] + Len(pieces[k])
        /\ \A j \in 1..Len(pieces[k]) : flat[at[k - 1] + j] = pieces[k][j]
    BY <1>9
  <2>2. CASE v[k] = "quote"
    BY <1>3, <2>1, <2>2, SMTT(30)
  <2>3. CASE v[k] # "quote"
    BY <1>3, <2>1, <2>3, SMTT(30)
  <2> QED BY <2>2, <2>3
<1>12. Quoted(flat, v, at, n, size)
  BY <1>2, <1>9, <1>10, <1>11 DEF Quoted
<1> QED BY <1>6, <1>8, <1>12

(* A statement around a quoted value.                                      *)
StatementAround(text, flat, size, ended) ==
  /\ text \in Seq(Sql!Character)
  /\ Len(text) = IF ended THEN size + 6 ELSE size + 5
  /\ text[1] = "space" /\ text[2] = "other" /\ text[3] = "quote"
  /\ \A j \in 1..size : text[3 + j] = flat[j]
  /\ text[size + 4] = "quote" /\ text[size + 5] = "space"
  /\ ended => text[size + 6] = "semicolon"

(* ... has the quotes and the blanks at these places.                      *)
LEMMA StatementShape ==
  ASSUME NEW flat \in Seq(Sql!Character), NEW size, size = Len(flat), NEW text,
         text = <<"space", "other">> \o (<<"quote">> \o flat \o <<"quote">>)
                  \o <<"space">>
  PROVE  StatementAround(text, flat, size, FALSE)
<1>0. size \in Nat
  BY LenProperties
<1>1. PICK a, b, c : a = <<"space", "other">> /\ b = <<"quote">> /\ c = <<"space">>
  OBVIOUS
<1>2. /\ a \in Seq(Sql!Character) /\ Len(a) = 2
      /\ a[1] = "space" /\ a[2] = "other"
      /\ b \in Seq(Sql!Character) /\ Len(b) = 1 /\ b[1] = "quote"
      /\ c \in Seq(Sql!Character) /\ Len(c) = 1 /\ c[1] = "space"
  BY <1>1, CharacterSeqs
<1>3. PICK d : d = b \o flat
  OBVIOUS
<1>4. /\ d \in Seq(Sql!Character) /\ Len(d) = size + 1 /\ d[1] = "quote"
      /\ \A j \in 1..size : d[1 + j] = flat[j]
  <2>1. /\ b \o flat \in Seq(Sql!Character) /\ Len(b \o flat) = Len(b) + Len(flat)
        /\ \A i \in 1..(Len(b) + Len(flat)) :
             (b \o flat)[i] = IF i <= Len(b) THEN b[i] ELSE flat[i - Len(b)]
    BY <1>2, ConcatProperties
  <2>2. d \in Seq(Sql!Character) /\ Len(d) = size + 1
    BY <1>0, <1>2, <1>3, <2>1
  <2>3. \A i \in 1..(size + 1) : d[i] = IF i <= 1 THEN b[i] ELSE flat[i - 1]
    BY <1>0, <1>2, <1>3, <2>1
  <2>4. d[1] = "quote"
    BY <1>0, <1>2, <2>3
  <2>5. ASSUME NEW j \in 1..size PROVE d[1 + j] = flat[j]
    <3>1. 1 + j \in 1..(size + 1) /\ ~(1 + j <= 1) /\ 1 + j - 1 = j
      BY <1>0
    <3> QED BY <2>3, <3>1
  <2> QED BY <2>2, <2>4, <2>5
<1>5. PICK q : q = d \o b
  OBVIOUS
<1>6. /\ q \in Seq(Sql!Character) /\ Len(q) = size + 2 /\ q[1] = "quote"
      /\ \A j \in 1..size : q[1 + j] = flat[j]
      /\ q[size + 2] = "quote"
  <2>1. /\ d \o b \in Seq(Sql!Character) /\ Len(d \o b) = Len(d) + Len(b)
        /\ \A i \in 1..(Len(d) + Len(b)) :
             (d \o b)[i] = IF i <= Len(d) THEN d[i] ELSE b[i - Len(d)]
    BY <1>2, <1>4, ConcatProperties
  <2> QED BY <1>0, <1>2, <1>4, <1>5, <2>1, SMTT(30)
<1>7. PICK e : e = a \o q
  OBVIOUS
<1>8. /\ e \in Seq(Sql!Character) /\ Len(e) = size + 4
      /\ e[1] = "space" /\ e[2] = "other" /\ e[3] = "quote"
      /\ \A j \in 1..size : e[3 + j] = flat[j]
      /\ e[size + 4] = "quote"
  <2>1. /\ a \o q \in Seq(Sql!Character) /\ Len(a \o q) = Len(a) + Len(q)
        /\ \A i \in 1..(Len(a) + Len(q)) :
             (a \o q)[i] = IF i <= Len(a) THEN a[i] ELSE q[i - Len(a)]
    <3>1. a \in Seq(Sql!Character) /\ q \in Seq(Sql!Character)
      BY <1>2, <1>6
    <3> QED BY <3>1, ConcatProperties
  <2>2. e \in Seq(Sql!Character) /\ Len(e) = size + 4
    BY <1>0, <1>2, <1>6, <1>7, <2>1
  <2>3. e[1] = "space" /\ e[2] = "other" /\ e[3] = "quote" /\ e[size + 4] = "quote"
    BY <1>0, <1>2, <1>6, <1>7, <2>1
  <2>4. ASSUME NEW j \in 1..size PROVE e[3 + j] = flat[j]
    <3>1. e[3 + j] = q[1 + j]
      BY <1>0, <1>2, <1>6, <1>7, <2>1
    <3> QED BY <1>6, <3>1
  <2> QED BY <2>2, <2>3, <2>4
<1>9. text = e \o c
  BY <1>1, <1>3, <1>5, <1>7
<1>10. /\ e \o c \in Seq(Sql!Character) /\ Len(e \o c) = Len(e) + Len(c)
       /\ \A i \in 1..(Len(e) + Len(c)) :
            (e \o c)[i] = IF i <= Len(e) THEN e[i] ELSE c[i - Len(e)]
  <2>1. e \in Seq(Sql!Character) /\ c \in Seq(Sql!Character)
    BY <1>2, <1>8
  <2> QED BY <2>1, ConcatProperties
<1>11. /\ text \in Seq(Sql!Character) /\ Len(text) = size + 5
       /\ \A i \in 1..(size + 4) : text[i] = e[i]
       /\ text[size + 5] = "space"
  BY <1>0, <1>2, <1>8, <1>9, <1>10
<1>12. \A j \in 1..size : text[3 + j] = flat[j]
  BY <1>0, <1>8, <1>11
<1>13. text[1] = "space" /\ text[2] = "other" /\ text[3] = "quote"
       /\ text[size + 4] = "quote"
  BY <1>0, <1>8, <1>11
<1> QED BY <1>11, <1>12, <1>13 DEF StatementAround

(* In quotes after the opening one and after each character of the value.  *)
Inside(at, n) == {4 + at[k] : k \in 0..n}

(* Out of quotes before the opening one and after the closing one.         *)
Outside(size) == {1, 2, 3, size + 5, size + 6}

(* With these positions the statement is one the pass cuts at its end:     *)
(* each quote of the value is doubled, so that none of them closes it.     *)
LEMMA ValueIsCuttable ==
  ASSUME NEW v, NEW flat, NEW at, NEW n, NEW size, Quoted(flat, v, at, n, size),
         NEW text, NEW ended \in BOOLEAN,
         StatementAround(text, flat, size, ended)
  PROVE  Cuttable(text, Outside(size), Inside(at, n), ended)
<1>1. /\ n \in Nat /\ size \in Nat
      /\ at \in [0..n -> Nat] /\ at[0] = 0 /\ at[n] = size
      /\ \A k \in 1..n :
           /\ at[k] <= size
           /\ v[k] = "quote" => /\ at[k] = at[k - 1] + 2
                                /\ flat[at[k - 1] + 1] = "quote"
                                /\ flat[at[k - 1] + 2] = "quote"
           /\ v[k] # "quote" => /\ at[k] = at[k - 1] + 1
                                /\ flat[at[k - 1] + 1] # "quote"
  BY DEF Quoted
<1> /\ text \in Seq(Sql!Character)
    /\ Len(text) = IF ended THEN size + 6 ELSE size + 5
    /\ text[1] = "space" /\ text[2] = "other" /\ text[3] = "quote"
    /\ \A j \in 1..size : text[3 + j] = flat[j]
    /\ text[size + 4] = "quote" /\ text[size + 5] = "space"
    /\ ended => text[size + 6] = "semicolon"
  BY DEF StatementAround
<1>0. n \in Nat /\ size \in Nat
  BY <1>1
<1>2. \A k \in 0..n : at[k] \in Nat /\ at[k] <= size
  <2> SUFFICES ASSUME NEW k \in 0..n PROVE at[k] \in Nat /\ at[k] <= size
    OBVIOUS
  <2>1. k = 0 \/ k \in 1..n
    OBVIOUS
  <2> QED BY <1>1, <2>1
<1>3. ASSUME NEW i \in Inside(at, n)
      PROVE  /\ i \in 1..(size + 4)
             /\ text[i] = "quote" => IF text[i + 1] = "quote"
                                       THEN i + 2 \in Inside(at, n)
                                       ELSE i + 1 \in Outside(size)
             /\ text[i] # "quote" => i + 1 \in Inside(at, n)
  <2>1. PICK k \in 0..n : i = 4 + at[k]
    BY DEF Inside
  <2>2. i \in 1..(size + 4)
    <3>1. at[k] \in Nat /\ at[k] <= size
      BY <1>2
    <3>2. PICK a : a = at[k]
      OBVIOUS
    <3>3. a \in Nat /\ a <= size /\ i = 4 + a
      BY <2>1, <3>1, <3>2, Zenon
    <3> QED BY <1>0, <3>3
  <2>3. CASE k = n
    <3>1. i = size + 4 /\ i + 1 = size + 5
      BY <1>1, <2>1, <2>3
    <3>2. text[i] = "quote" /\ text[i + 1] # "quote"
      BY <3>1
    <3>3. i + 1 \in Outside(size)
      BY <3>1 DEF Outside
    <3> QED BY <2>2, <3>2, <3>3
  <2>4. CASE k # n
    <3>1. k + 1 \in 1..n /\ k + 1 \in 0..n /\ k + 1 - 1 = k
      BY <1>1, <2>4
    <3>2. at[k] \in Nat /\ at[k + 1] \in Nat /\ at[k + 1] <= size
      BY <1>2, <3>1
    <3>l. PICK l : l = k + 1 /\ l \in 1..n /\ l - 1 = k
      BY <3>1
    <3>3. /\ v[k + 1] = "quote" => /\ at[k + 1] = at[k] + 2
                                   /\ flat[at[k] + 1] = "quote"
                                   /\ flat[at[k] + 2] = "quote"
          /\ v[k + 1] # "quote" => /\ at[k + 1] = at[k] + 1
                                   /\ flat[at[k] + 1] # "quote"
      <4>1. /\ v[l] = "quote" => /\ at[l] = at[l - 1] + 2
                                 /\ flat[at[l - 1] + 1] = "quote"
                                 /\ flat[at[l - 1] + 2] = "quote"
            /\ v[l] # "quote" => /\ at[l] = at[l - 1] + 1
                                 /\ flat[at[l - 1] + 1] # "quote"
        BY <1>1, <3>l
      <4> QED BY <3>l, <4>1, Zenon
    <3>4. 4 + at[k + 1] \in Inside(at, n)
      BY <3>1 DEF Inside
    <3>5. CASE v[k + 1] = "quote"
      <4>1. /\ at[k] + 1 \in 1..size /\ at[k] + 2 \in 1..size
            /\ i = 3 + (at[k] + 1) /\ i + 1 = 3 + (at[k] + 2)
            /\ i + 2 = 4 + at[k + 1]
        <5>1. PICK a, b : a = at[k] /\ b = at[k + 1]
          OBVIOUS
        <5>2. a \in Nat /\ b \in Nat /\ b <= size /\ b = a + 2 /\ i = 4 + a
          BY <2>1, <3>2, <3>3, <3>5, <5>1
        <5>3. /\ a + 1 \in 1..size /\ a + 2 \in 1..size
              /\ i = 3 + (a + 1) /\ i + 1 = 3 + (a + 2) /\ i + 2 = 4 + b
          BY <1>0, <5>2
        <5> QED BY <5>1, <5>3
      <4>2. text[i] = "quote" /\ text[i + 1] = "quote"
        BY <3>3, <3>5, <4>1
      <4> QED BY <2>2, <3>4, <4>1, <4>2
    <3>6. CASE v[k + 1] # "quote"
      <4>1. /\ at[k] + 1 \in 1..size
            /\ i = 3 + (at[k] + 1) /\ i + 1 = 4 + at[k + 1]
        <5>1. PICK a, b : a = at[k] /\ b = at[k + 1]
          OBVIOUS
        <5>2. a \in Nat /\ b \in Nat /\ b <= size /\ b = a + 1 /\ i = 4 + a
          BY <2>1, <3>2, <3>3, <3>6, <5>1
        <5>3. a + 1 \in 1..size /\ i = 3 + (a + 1) /\ i + 1 = 4 + b
          BY <1>0, <5>2
        <5> QED BY <5>1, <5>3
      <4>2. text[i] # "quote"
        BY <3>3, <3>6, <4>1
      <4> QED BY <2>2, <3>4, <4>1, <4>2
    <3> QED BY <3>5, <3>6
  <2> QED BY <2>3, <2>4
<1>4. PICK total : total = Len(text)
  OBVIOUS
<1>5. total = IF ended THEN size + 6 ELSE size + 5
  BY <1>4
<1>6. Inside(at, n) \subseteq 1..(total - 1)
  <2>1. \A i \in 1..(size + 4) : i \in 1..(total - 1)
    BY <1>0, <1>5
  <2> QED BY <1>3, <2>1
<1>7. /\ Outside(size) \subseteq 1..(total + 1) /\ 1 \in Outside(size)
      /\ ended => Outside(size) \subseteq 1..total
  BY <1>1, <1>5 DEF Outside
<1>8. 4 \in Inside(at, n)
  <2>1. 0 \in 0..n /\ 4 + at[0] = 4
    BY <1>1
  <2> QED BY <2>1 DEF Inside
<1>9. ASSUME NEW i \in Outside(size), i <= total
      PROVE  /\ text[i] = "semicolon" => i = total
             /\ text[i] = "quote" => i + 1 \in Inside(at, n)
             /\ text[i] \notin {"semicolon", "quote"} => i + 1 \in Outside(size)
  <2>1. CASE i = 1
    <3>1. text[i] = "space" /\ i + 1 \in Outside(size)
      BY <2>1 DEF Outside
    <3> QED BY <3>1
  <2>2. CASE i = 2
    <3>1. text[i] = "other" /\ i + 1 \in Outside(size)
      BY <2>2 DEF Outside
    <3> QED BY <3>1
  <2>3. CASE i = 3
    <3>1. text[i] = "quote" /\ i + 1 \in Inside(at, n)
      BY <1>8, <2>3
    <3> QED BY <3>1
  <2>4. CASE i = size + 5
    <3>1. text[i] = "space" /\ i + 1 = size + 6
      BY <1>1, <2>4
    <3>2. i + 1 \in Outside(size)
      BY <3>1 DEF Outside
    <3> QED BY <3>1, <3>2
  <2>5. CASE i = size + 6
    <3>1. ended /\ i = total
      BY <1>1, <1>5, <1>9, <2>5
    <3>2. text[i] = "semicolon"
      BY <2>5, <3>1
    <3> QED BY <3>1, <3>2
  <2> QED BY <2>1, <2>2, <2>3, <2>4, <2>5 DEF Outside
<1>10. ~ended => \A i \in Outside(size) : i = total + 1 \/ text[i] # "semicolon"
  <2> SUFFICES ASSUME ~ended, NEW i \in Outside(size), i # total + 1
               PROVE  text[i] # "semicolon"
    OBVIOUS
  <2>1. i \in {1, 2, 3, size + 5}
    BY <1>1, <1>5 DEF Outside
  <2> QED BY <2>1
<1> QED BY <1>3, <1>4, <1>6, <1>7, <1>9, <1>10 DEF Cuttable

(* Every text an author writes is cut at its end, and nowhere else.        *)
LEMMA TextsAreCuttable ==
  ASSUME NEW text \in Sql!Texts
  PROVE  /\ text \in Seq(Sql!Character)
         /\ \E outs, ins : Cuttable(text, outs, ins, FALSE)
         /\ \E outs, ins : Cuttable(Sql!Terminated(text), outs, ins, TRUE)
<1>1. CASE text = <<"space">>
  BY <1>1, BlankIsCuttable, CharacterSeqs
<1>2. ASSUME NEW v \in Sql!Values,
             text = <<"space", "other">> \o Sql!QuoteSqlText(v) \o <<"space">>
      PROVE  /\ text \in Seq(Sql!Character)
             /\ \E outs, ins : Cuttable(text, outs, ins, FALSE)
             /\ \E outs, ins : Cuttable(Sql!Terminated(text), outs, ins, TRUE)
  <2>1. v \in Seq(Sql!Character)
    <3>1. MaxValue \in Nat
      BY BoundsAssumption
    <3>2. PICK n \in 0..MaxValue : v \in [1..n -> Sql!Character]
      BY <1>2 DEF Sql!Values, Sql!BoundedSeq, Sql!SeqOf
    <3>3. n \in Nat
      BY <3>1
    <3> QED BY <3>2, <3>3, SeqDef, Zenon
  <2>2. PICK flat :
          flat = Sql!FlattenSeq([i \in DOMAIN v |->
                   IF v[i] = "quote" THEN <<"quote", "quote">> ELSE <<v[i]>>])
    OBVIOUS
  <2>3. /\ flat \in Seq(Sql!Character)
        /\ \E at, n : Quoted(flat, v, at, n, Len(flat))
    BY <2>1, <2>2, QuotedExists
  <2>4. PICK size : size = Len(flat)
    OBVIOUS
  <2>5. PICK at, n : Quoted(flat, v, at, n, size)
    BY <2>3, <2>4
  <2>6. text = <<"space", "other">> \o (<<"quote">> \o flat \o <<"quote">>)
                 \o <<"space">>
    BY <1>2, <2>2 DEF Sql!QuoteSqlText
  <2>15. StatementAround(text, flat, size, FALSE)
    BY <2>3, <2>4, <2>6, StatementShape
  <2>7. /\ text \in Seq(Sql!Character) /\ Len(text) = size + 5
        /\ text[1] = "space" /\ text[2] = "other" /\ text[3] = "quote"
        /\ \A j \in 1..size : text[3 + j] = flat[j]
        /\ text[size + 4] = "quote" /\ text[size + 5] = "space"
    BY <2>15 DEF StatementAround
  <2>8. size \in Nat
    BY <2>3, <2>4, LenProperties
  <2>9. Cuttable(text, Outside(size), Inside(at, n), FALSE)
    BY <2>5, <2>15, ValueIsCuttable
  <2>10. PICK t : t = Append(text, "semicolon")
    OBVIOUS
  <2>11. /\ t \in Seq(Sql!Character) /\ Len(t) = size + 6
         /\ \A i \in 1..(size + 5) : t[i] = text[i]
         /\ t[size + 6] = "semicolon"
    <3>1. /\ t \in Seq(Sql!Character)
          /\ Len(t) = Len(text) + 1
          /\ \A i \in 1..Len(text) : t[i] = text[i]
          /\ t[Len(text) + 1] = "semicolon"
      BY <2>7, <2>10, CharacterSeqs, AppendProperties
    <3> QED BY <2>7, <2>8, <3>1
  <2>12. /\ t[1] = "space" /\ t[2] = "other" /\ t[3] = "quote"
         /\ t[size + 4] = "quote" /\ t[size + 5] = "space"
    BY <2>7, <2>8, <2>11
  <2>13. \A j \in 1..size : t[3 + j] = flat[j]
    BY <2>7, <2>8, <2>11
  <2>14. Cuttable(t, Outside(size), Inside(at, n), TRUE)
    <3>1. StatementAround(t, flat, size, TRUE)
      BY <2>11, <2>12, <2>13 DEF StatementAround
    <3> QED BY <2>5, <3>1, ValueIsCuttable
  <2> QED BY <2>7, <2>9, <2>10, <2>14 DEF Sql!Terminated
<1> QED BY <1>1, <1>2 DEF Sql!Texts

(* What trim leaves of a text is a text.                                   *)
LEMMA TrimmedIsText ==
  ASSUME NEW text \in Seq(Sql!Character)
  PROVE  Sql!Trim(text) \in Seq(Sql!Character)
<1>1. PICK kept : kept = {i \in DOMAIN text : text[i] # "space"}
  OBVIOUS
<1>2. PICK size \in Nat : size = Len(text) /\ DOMAIN text = 1..size
  BY LenProperties
<1>3. kept \subseteq 1..size
  BY <1>1, <1>2
<1>4. CASE kept = {}
  BY <1>1, <1>4, EmptySeq DEF Sql!Trim
<1>5. CASE kept # {}
  <2>1. Sql!Min(kept) \in kept
    <3>1. \E m \in kept : \A k \in kept : m <= k
      <4>1. kept \subseteq Nat
        BY <1>3
      <4> QED BY <1>5, <4>1, LeastNatural
    <3> QED BY <3>1 DEF Sql!Min
  <2>2. Sql!Max(kept) \in kept
    <3>1. PICK T : T = {size - k : k \in kept}
      OBVIOUS
    <3>2. T \subseteq Nat /\ T # {}
      <4>1. \A k \in kept : size - k \in Nat
        BY <1>3
      <4> QED BY <1>5, <3>1, <4>1
    <3>3. PICK m \in T : \A k \in T : m <= k
      BY <3>2, LeastNatural
    <3>4. PICK l \in kept : m = size - l
      BY <3>1, <3>3
    <3>5. ASSUME NEW k \in kept PROVE l >= k
      <4>1. size - k \in T
        BY <3>1
      <4>2. size - l <= size - k
        BY <3>3, <3>4, <4>1
      <4>3. k \in 1..size /\ l \in 1..size
        BY <1>3
      <4> QED BY <4>2, <4>3
    <3>6. \E x \in kept : \A k \in kept : x >= k
      BY <3>5
    <3> QED BY <3>6 DEF Sql!Max
  <2>3. PICK i, j : i = Sql!Min(kept) /\ j = Sql!Max(kept)
    OBVIOUS
  <2>4. i \in 1..size /\ j \in 1..size
    BY <1>3, <2>1, <2>2, <2>3
  <2>5. \A k \in i..j : text[k] \in Sql!Character
    BY <1>2, <2>4, ElementOfSeq
  <2>6. i \in Int /\ j \in Int
    BY <2>4
  <2>7. SubSeq(text, i, j) \in Seq(Sql!Character)
    BY <2>5, <2>6, SubSeqProperties
  <2> QED BY <1>1, <1>5, <2>3, <2>7 DEF Sql!Trim
<1> QED BY <1>4, <1>5

(* A list of texts with one more, unless it is empty.                      *)
LEMMA AddingIsTyped ==
  ASSUME NEW list \in Seq(Seq(Sql!Character)), NEW text \in Seq(Sql!Character)
  PROVE  Sql!Adding(list, text) \in Seq(Seq(Sql!Character))
<1>1. Sql!Trim(text) \in Seq(Sql!Character)
  BY TrimmedIsText
<1> QED BY <1>1, AppendProperties DEF Sql!Adding

(* The pass is inside of a text that begins after base characters of sql:  *)
(* where it knows to be, it is, and it has collected what came before.     *)
Within(text, base, outs, ins) ==
  /\ base \in Nat /\ base + Len(text) <= Len(sql)
  /\ \A j \in 1..Len(text) : sql[base + j] = text[j]
  /\ index \in Nat /\ inSingleQuote \in BOOLEAN
  /\ inSingleQuote => index - base \in ins
  /\ ~inSingleQuote => index - base \in outs
  /\ current = SubSeq(text, 1, index - base - 1)

(* A prefix of a text and the character after it, ...                      *)
LEMMA Prefixed ==
  ASSUME NEW text \in Seq(Sql!Character), NEW i \in 1..Len(text)
  PROVE  /\ SubSeq(text, 1, i - 1) \in Seq(Sql!Character)
         /\ Append(SubSeq(text, 1, i - 1), text[i]) = SubSeq(text, 1, i)
<1>1. PICK s, c : s = SubSeq(text, 1, i - 1) /\ c = text[i]
  OBVIOUS
<1>2. s \in Seq(Sql!Character)
  <2>1. \A j \in 1..(i - 1) : text[j] \in Sql!Character
    BY LenProperties, ElementOfSeq
  <2>2. 1 \in Int /\ i - 1 \in Int
    OBVIOUS
  <2> QED BY <1>1, <2>1, <2>2, SubSeqProperties
<1>3. c \in Sql!Character
  BY <1>1, ElementOfSeq
<1>4. Append(s, c) = s \o <<c>>
  BY <1>2, <1>3, AppendIsConcat
<1>5. SubSeq(text, 1, i) = s \o <<c>>
  <2>1. 1 \in 1..Len(text) /\ i \in 1..Len(text)
    BY LenProperties
  <2> QED BY <1>1, <2>1, SubSeqRecursiveSecond
<1> QED BY <1>1, <1>2, <1>4, <1>5

(* ... or a quote that is doubled.                                         *)
LEMMA PrefixedTwice ==
  ASSUME NEW text \in Seq(Sql!Character), NEW i \in 1..(Len(text) - 1),
         text[i] = "quote", text[i + 1] = "quote"
  PROVE  SubSeq(text, 1, i - 1) \o <<"quote", "quote">> = SubSeq(text, 1, i + 1)
<1>0. i \in 1..Len(text) /\ i + 1 \in 1..Len(text) /\ i + 1 - 1 = i
  BY LenProperties
<1>1. PICK s, t, q : /\ s = SubSeq(text, 1, i - 1) /\ t = SubSeq(text, 1, i)
                     /\ q = <<"quote">>
  OBVIOUS
<1>2. s \in Seq(Sql!Character) /\ Append(s, "quote") = t
  BY <1>0, <1>1, Prefixed
<1>3. t \in Seq(Sql!Character) /\ Append(t, "quote") = SubSeq(text, 1, i + 1)
  BY <1>0, <1>1, Prefixed
<1>4. "quote" \in Sql!Character /\ q \in Seq(Sql!Character)
  BY <1>1, CharacterSeqs DEF Sql!Character
<1>5. t = s \o q /\ SubSeq(text, 1, i + 1) = t \o q
  <2>1. /\ s \in Seq(Sql!Character) /\ t \in Seq(Sql!Character)
        /\ "quote" \in Sql!Character
    BY <1>2, <1>3, <1>4
  <2>2. Append(s, "quote") = s \o <<"quote">>
    BY <2>1, AppendIsConcat, Zenon
  <2>3. Append(t, "quote") = t \o <<"quote">>
    BY <2>1, AppendIsConcat, Zenon
  <2> QED BY <1>1, <1>2, <1>3, <2>2, <2>3, Zenon
<1>6. (s \o q) \o q = s \o (q \o q)
  <2>1. s \in Seq(Sql!Character) /\ q \in Seq(Sql!Character)
    BY <1>2, <1>4
  <2> QED BY <2>1, ConcatAssociative, SMTT(30)
<1>7. q \o q = <<"quote", "quote">>
  <2>1. PICK c : c = q \o q
    OBVIOUS
  <2>2. q \in Seq(Sql!Character) /\ Len(q) = 1 /\ q[1] = "quote"
    BY <1>1, <1>4
  <2>3. c \in Seq(Sql!Character) /\ Len(c) = 2 /\ c[1] = "quote" /\ c[2] = "quote"
    <3>1. /\ q \o q \in Seq(Sql!Character) /\ Len(q \o q) = Len(q) + Len(q)
          /\ \A j \in 1..(Len(q) + Len(q)) :
               (q \o q)[j] = IF j <= Len(q) THEN q[j] ELSE q[j - Len(q)]
      BY <2>2, ConcatProperties
    <3>2. /\ c \in Seq(Sql!Character) /\ Len(c) = 2
          /\ \A j \in 1..2 : c[j] = IF j <= 1 THEN q[j] ELSE q[j - 1]
      BY <2>1, <2>2, <3>1
    <3>3. c[1] = q[1] /\ c[2] = q[1]
      BY <3>2
    <3> QED BY <2>2, <3>2, <3>3
  <2>4. c = <<c[1], c[2]>>
    BY <2>3
  <2> QED BY <2>1, <2>3, <2>4
<1> QED BY <1>1, <1>5, <1>6, <1>7

(* One step of the pass inside of a text: further in it, or to its end.    *)
LEMMA ScansOn ==
  ASSUME sql \in Seq(Sql!Character), Sql!Scan,
         NEW text, NEW base, NEW outs, NEW ins, NEW ended,
         Cuttable(text, outs, ins, ended), Within(text, base, outs, ins),
         index - base <= Len(text)
  PROVE  \/ Within(text, base, outs, ins)' /\ statements' = statements
         \/ /\ ended /\ index' = base + Len(text) + 1 /\ current' = << >>
            /\ inSingleQuote' = FALSE
            /\ statements' = Sql!Adding(statements, text)
<1>1. /\ text \in Seq(Sql!Character) /\ ended \in BOOLEAN
      /\ outs \subseteq 1..(Len(text) + 1) /\ ins \subseteq 1..(Len(text) - 1)
      /\ ~ended => \A i \in outs : i = Len(text) + 1 \/ text[i] # "semicolon"
      /\ \A i \in outs : i <= Len(text) =>
           /\ text[i] = "semicolon" => i = Len(text)
           /\ text[i] = "quote" => i + 1 \in ins
           /\ text[i] \notin {"semicolon", "quote"} => i + 1 \in outs
      /\ \A i \in ins :
           /\ text[i] = "quote" => IF text[i + 1] = "quote" THEN i + 2 \in ins
                                                            ELSE i + 1 \in outs
           /\ text[i] # "quote" => i + 1 \in ins
  BY DEF Cuttable
<1>2. /\ base \in Nat /\ base + Len(text) <= Len(sql)
      /\ \A j \in 1..Len(text) : sql[base + j] = text[j]
      /\ index \in Nat /\ inSingleQuote \in BOOLEAN
      /\ inSingleQuote => index - base \in ins
      /\ ~inSingleQuote => index - base \in outs
      /\ current = SubSeq(text, 1, index - base - 1)
  BY DEF Within
<1>3. PICK i, size : i = index - base /\ size = Len(text)
  OBVIOUS
<1>4. /\ size \in Nat /\ i \in 1..size /\ index = base + i
      /\ inSingleQuote => i + 1 <= size
  <2>1. size \in Nat
    BY <1>1, <1>3, LenProperties
  <2>2. i \in 1..(size + 1) /\ (inSingleQuote => i \in 1..(size - 1))
    BY <1>1, <1>2, <1>3, <2>1
  <2>3. i <= size
    BY <1>3
  <2>4. index = base + i
    BY <1>2, <1>3
  <2> QED BY <2>1, <2>2, <2>3, <2>4
<1>5. sql[index] = text[i]
  BY <1>2, <1>3, <1>4
<1>6. inSingleQuote => Sql!Following(index) = text[i + 1]
  <2> SUFFICES ASSUME inSingleQuote PROVE Sql!Following(index) = text[i + 1]
    OBVIOUS
  <2>1. i + 1 \in 1..size /\ index + 1 = base + (i + 1)
    BY <1>2, <1>4
  <2>2. sql[index + 1] = text[i + 1]
    BY <1>2, <1>3, <2>1
  <2>3. index + 1 \in DOMAIN sql
    <3>1. DOMAIN sql = 1..Len(sql) /\ Len(sql) \in Nat
      BY LenProperties
    <3>2. index + 1 \in 1..Len(sql)
      BY <1>2, <1>3, <1>4, <2>1, <3>1
    <3> QED BY <3>1, <3>2
  <2> QED BY <2>2, <2>3 DEF Sql!Following
<1>7. /\ current = SubSeq(text, 1, i - 1)
      /\ Append(current, text[i]) = SubSeq(text, 1, i)
  BY <1>1, <1>2, <1>3, <1>4, Prefixed
<1>8. sql' = sql
  BY DEF Sql!Scan
(* Once the step is shown to go to a position that is known, the rest      *)
(* follows.                                                                *)
<1>9. ASSUME NEW next \in Nat, index' = base + next,
             inSingleQuote' \in BOOLEAN,
             inSingleQuote' => next \in ins, ~inSingleQuote' => next \in outs,
             current' = SubSeq(text, 1, next - 1)
      PROVE  Within(text, base, outs, ins)'
  <2>1. index' - base = next /\ index' \in Nat
    BY <1>2, <1>9
  <2> QED BY <1>2, <1>8, <1>9, <2>1 DEF Within
<1>10. i + 1 \in Nat /\ i + 2 \in Nat /\ i + 1 - 1 = i /\ i + 2 - 1 = i + 1
       /\ index + 1 = base + (i + 1) /\ index + 2 = base + (i + 2)
  BY <1>2, <1>4
<1>11. CASE Sql!ScanDoubledQuote
  <2>1. /\ inSingleQuote /\ text[i] = "quote" /\ text[i + 1] = "quote"
        /\ current' = current \o <<"quote", "quote">>
        /\ index' = index + 2 /\ inSingleQuote' = inSingleQuote
        /\ statements' = statements
    BY <1>5, <1>6, <1>11 DEF Sql!ScanDoubledQuote, Sql!IsDoubledQuote
  <2>2. i + 2 \in ins
    BY <1>1, <1>2, <1>3, <2>1
  <2>3. i \in 1..(Len(text) - 1)
    BY <1>3, <1>4, <2>1
  <2>4. current' = SubSeq(text, 1, i + 1)
    BY <1>1, <1>7, <2>1, <2>3, PrefixedTwice
  <2>5. PICK next : next = i + 2
    OBVIOUS
  <2>6. next \in Nat /\ next - 1 = i + 1 /\ index' = base + next
    <3>1. next \in Nat /\ next - 1 = i + 1 /\ index + 2 = base + next
      BY <1>2, <1>4, <2>5
    <3> QED BY <2>1, <3>1, Zenon
  <2>7. inSingleQuote' \in BOOLEAN /\ current' = SubSeq(text, 1, next - 1)
    BY <1>2, <2>1, <2>4, <2>6
  <2> QED BY <1>9, <2>1, <2>2, <2>5, <2>6, <2>7
<1>12. CASE Sql!ScanQuote
  <2>1. /\ text[i] = "quote" /\ (inSingleQuote => text[i + 1] # "quote")
        /\ current' = Append(current, "quote")
        /\ index' = index + 1 /\ inSingleQuote' = ~inSingleQuote
        /\ statements' = statements
    BY <1>5, <1>6, <1>12 DEF Sql!ScanQuote, Sql!IsDoubledQuote
  <2>2. /\ inSingleQuote => i + 1 \in outs
        /\ ~inSingleQuote => i + 1 \in ins
    BY <1>1, <1>2, <1>3, <1>4, <2>1
  <2>3. current' = SubSeq(text, 1, i)
    BY <1>7, <2>1
  <2>4. PICK next : next = i + 1
    OBVIOUS
  <2>5. /\ next \in Nat /\ index' = base + next /\ inSingleQuote' \in BOOLEAN
        /\ current' = SubSeq(text, 1, next - 1)
    <3>3. index' = index + 1
      BY <2>1
    <3>4. next \in Nat /\ next - 1 = i /\ index + 1 = base + next
      BY <1>2, <1>4, <2>4
    <3>1. next \in Nat /\ index' = base + next /\ next - 1 = i
      BY <3>3, <3>4, Zenon
    <3>2. inSingleQuote' \in BOOLEAN
      BY <1>2, <2>1
    <3> QED BY <2>3, <3>1, <3>2
  <2>6. /\ inSingleQuote' => next \in ins
        /\ ~inSingleQuote' => next \in outs
    BY <1>2, <2>1, <2>2, <2>4
  <2> QED BY <1>9, <2>1, <2>5, <2>6
<1>13. CASE Sql!ScanOther
  <2>1. /\ text[i] # "quote" /\ ~(text[i] = "semicolon" /\ ~inSingleQuote)
        /\ current' = Append(current, text[i])
        /\ index' = index + 1 /\ inSingleQuote' = inSingleQuote
        /\ statements' = statements
    BY <1>5, <1>13 DEF Sql!ScanOther
  <2>2. /\ inSingleQuote => i + 1 \in ins
        /\ ~inSingleQuote => i + 1 \in outs
    BY <1>1, <1>2, <1>3, <1>4, <2>1
  <2>3. current' = SubSeq(text, 1, i)
    BY <1>7, <2>1
  <2>4. PICK next : next = i + 1
    OBVIOUS
  <2>5. /\ next \in Nat /\ index' = base + next /\ inSingleQuote' \in BOOLEAN
        /\ current' = SubSeq(text, 1, next - 1)
    <3>3. index' = index + 1
      BY <2>1
    <3>4. next \in Nat /\ next - 1 = i /\ index + 1 = base + next
      BY <1>2, <1>4, <2>4
    <3>1. next \in Nat /\ index' = base + next /\ next - 1 = i
      BY <3>3, <3>4, Zenon
    <3>2. inSingleQuote' \in BOOLEAN
      BY <1>2, <2>1
    <3> QED BY <2>3, <3>1, <3>2
  <2>6. /\ inSingleQuote' => next \in ins
        /\ ~inSingleQuote' => next \in outs
    BY <1>2, <2>1, <2>2, <2>4
  <2> QED BY <1>9, <2>1, <2>5, <2>6
<1>14. CASE Sql!ScanSemicolon
  <2>1. /\ text[i] = "semicolon" /\ ~inSingleQuote
        /\ statements' = Sql!Adding(statements, Append(current, "semicolon"))
        /\ current' = << >> /\ index' = index + 1
        /\ inSingleQuote' = inSingleQuote
    BY <1>5, <1>14 DEF Sql!ScanSemicolon, Sql!Found, Sql!Terminated
  <2>2. i = size /\ ended
    <3>1. i \in outs /\ i # Len(text) + 1 /\ i <= Len(text)
      BY <1>2, <1>3, <1>4, <2>1
    <3> QED BY <1>1, <1>3, <2>1, <3>1
  <2>3. Append(current, "semicolon") = text
    BY <1>1, <1>3, <1>7, <2>1, <2>2, SubSeqFull
  <2> QED BY <1>2, <1>3, <1>4, <2>1, <2>2, <2>3
<1> QED BY <1>11, <1>12, <1>13, <1>14 DEF Sql!Scan

(* A script of two texts, in the middle of the pass: in the first, in the  *)
(* second with the first one collected, or at the end with both.           *)
Script(first, second, outs1, ins1, outs2, ins2, ended) ==
  /\ Cuttable(first, outs1, ins1, TRUE)
  /\ Cuttable(second, outs2, ins2, ended)
  /\ sql = first \o second
  /\ intended = Sql!Intended(first, second)
  /\ \/ Within(first, 0, outs1, ins1) /\ statements = << >>
     \/ /\ Within(second, Len(first), outs2, ins2)
        /\ statements = Sql!Adding(<< >>, first)
     \/ /\ index = Len(sql) + 1 /\ current = << >> /\ inSingleQuote = FALSE
        /\ statements = intended

(* The invariant: while it scans, the pass is somewhere in such a script.  *)
SqlInv ==
  /\ Sql!SqlTypeOK
  /\ outcome = "idle" => /\ index = 1 /\ current = << >> /\ statements = << >>
                         /\ inSingleQuote = FALSE
  /\ outcome \in {"idle", "scanning", "sending"} => executed = {}
  /\ outcome = "scanning" =>
       \E first, second, outs1, ins1, outs2, ins2, ended :
         Script(first, second, outs1, ins1, outs2, ins2, ended)
  /\ Sql!ScriptIsRunAsWritten

(* Before the call, the invariant holds.                                   *)
LEMMA SqlStarts == Sql!SqlInit => SqlInv
<1> SUFFICES ASSUME Sql!SqlInit PROVE SqlInv
  OBVIOUS
<1>1. /\ << >> \in Seq(Sql!Character) /\ << >> \in Seq(Seq(Sql!Character))
      /\ Len(<< >>) = 0
  OBVIOUS
<1>2. 1 \in 1..(Len(<< >>) + 1)
  BY <1>1
<1>3. Sql!SqlTypeOK
  BY <1>1, <1>2 DEF Sql!SqlInit, Sql!SqlTypeOK
<1> QED BY <1>3 DEF Sql!SqlInit, SqlInv, Sql!ScriptIsRunAsWritten

(* Two texts in a row, character by character.                             *)
LEMMA Joined ==
  ASSUME NEW first \in Seq(Sql!Character), NEW second \in Seq(Sql!Character),
         NEW text, text = first \o second
  PROVE  /\ text \in Seq(Sql!Character) /\ Len(text) = Len(first) + Len(second)
         /\ Len(first) \in Nat /\ Len(second) \in Nat
         /\ \A j \in 1..Len(first) : text[0 + j] = first[j]
         /\ \A j \in 1..Len(second) : text[Len(first) + j] = second[j]
<1>1. Len(first) \in Nat /\ Len(second) \in Nat
  BY LenProperties
<1>2. /\ text \in Seq(Sql!Character) /\ Len(text) = Len(first) + Len(second)
      /\ \A i \in 1..(Len(first) + Len(second)) :
           text[i] = IF i <= Len(first) THEN first[i] ELSE second[i - Len(first)]
  BY ConcatProperties
<1> QED BY <1>1, <1>2

(* LibsqlDriver.execute is called with a script of two texts.              *)
LEMMA SqlExecutes ==
  ASSUME SqlInv, Sql!Execute
  PROVE  SqlInv'
<1>1. PICK one \in Sql!Texts, two \in Sql!Texts, closed \in BOOLEAN :
        LET tail == IF closed THEN Sql!Terminated(two) ELSE two IN
        /\ sql' = Sql!Terminated(one) \o tail
        /\ intended' = Sql!Intended(Sql!Terminated(one), tail)
  BY DEF Sql!Execute
<1>2. PICK first, second :
        /\ first = Sql!Terminated(one)
        /\ second = IF closed THEN Sql!Terminated(two) ELSE two
  OBVIOUS
<1>3. sql' = first \o second /\ intended' = Sql!Intended(first, second)
  BY <1>1, <1>2
<1>4. PICK outs1, ins1 : Cuttable(first, outs1, ins1, TRUE)
  BY <1>2, TextsAreCuttable
<1>5. PICK outs2, ins2 : Cuttable(second, outs2, ins2, closed)
  BY <1>2, TextsAreCuttable
<1>6. first \in Seq(Sql!Character) /\ second \in Seq(Sql!Character) /\ 1 \in outs1
  BY <1>4, <1>5 DEF Cuttable
<1>7. /\ Sql!SqlTypeOK /\ outcome = "idle" /\ outcome' = "scanning"
      /\ index = 1 /\ index' = 1 /\ current = << >> /\ current' = << >>
      /\ statements = << >> /\ statements' = << >>
      /\ inSingleQuote = FALSE /\ inSingleQuote' = FALSE
      /\ executed = {} /\ executed' = {}
  BY DEF SqlInv, Sql!Execute
<1>8. /\ sql' \in Seq(Sql!Character) /\ Len(sql') = Len(first) + Len(second)
      /\ Len(first) \in Nat /\ Len(second) \in Nat
      /\ \A j \in 1..Len(first) : sql'[0 + j] = first[j]
  BY <1>3, <1>6, Joined
<1>9. Within(first, 0, outs1, ins1)'
  <2>1. index' - 0 = 1 /\ index' - 0 - 1 = 0 /\ index' \in Nat /\ 0 \in Nat
    BY <1>7
  <2>2. current' = SubSeq(first, 1, 0)
    BY <1>7, SubSeqEmpty
  <2>3. 0 + Len(first) <= Len(sql')
    BY <1>8
  <2> QED BY <1>6, <1>7, <1>8, <2>1, <2>2, <2>3 DEF Within
<1>10. Script(first, second, outs1, ins1, outs2, ins2, closed)'
  BY <1>3, <1>4, <1>5, <1>7, <1>9 DEF Script
<1>11. intended' \in Seq(Seq(Sql!Character))
  <2>1. << >> \in Seq(Seq(Sql!Character))
    OBVIOUS
  <2>2. Sql!Adding(<< >>, first) \in Seq(Seq(Sql!Character))
    BY <1>6, <2>1, AddingIsTyped
  <2>3. Sql!Adding(Sql!Adding(<< >>, first), second) \in Seq(Seq(Sql!Character))
    BY <1>6, <2>2, AddingIsTyped
  <2> QED BY <1>3, <2>3 DEF Sql!Intended
<1>12. Sql!SqlTypeOK'
  <2>1. 1 \in 1..(Len(sql') + 1)
    BY <1>8
  <2> QED BY <1>7, <1>8, <1>11, <2>1 DEF Sql!SqlTypeOK
<1> QED BY <1>7, <1>10, <1>12 DEF SqlInv, Sql!ScriptIsRunAsWritten

(* One of the positions of a text, and what is collected before it.        *)
CutAt(text, outs, ins, ended, i, taken) ==
  /\ Cuttable(text, outs, ins, ended)
  /\ i \in ins \/ i \in outs
  /\ taken = SubSeq(text, 1, i - 1)

(* Inside of a text, the pass is at one of its characters or at its end.   *)
LEMMA PositionIsTyped ==
  ASSUME NEW text, NEW outs, NEW ins, NEW ended, NEW i, NEW taken,
         CutAt(text, outs, ins, ended, i, taken)
  PROVE  /\ i \in 1..(Len(text) + 1) /\ Len(text) \in Nat
         /\ ended => i \in 1..Len(text)
         /\ i = Len(text) + 1 => taken = text
         /\ taken \in Seq(Sql!Character)
<1>1. /\ text \in Seq(Sql!Character) /\ outs \subseteq 1..(Len(text) + 1)
      /\ ins \subseteq 1..(Len(text) - 1) /\ ended \in BOOLEAN
      /\ ended => outs \subseteq 1..Len(text)
      /\ i \in ins \/ i \in outs
      /\ taken = SubSeq(text, 1, i - 1)
  BY DEF CutAt, Cuttable
<1>3. PICK size : size = Len(text)
  OBVIOUS
<1>4. size \in Nat
  BY <1>1, <1>3, LenProperties
<1>5. i \in 1..(size + 1) /\ (ended => i \in 1..size)
  <2>1. i \in ins \/ i \in outs
    BY <1>1
  <2>2. ASSUME i \in ins PROVE i \in 1..(size - 1)
    BY <1>1, <1>3, <2>2
  <2>3. ASSUME i \in outs PROVE i \in 1..(size + 1) /\ (ended => i \in 1..size)
    BY <1>1, <1>3, <2>3
  <2> QED BY <1>4, <2>1, <2>2, <2>3
<1>6. i = size + 1 => taken = text
  <2> SUFFICES ASSUME i = size + 1 PROVE taken = text
    OBVIOUS
  <2>1. i - 1 = size
    BY <1>4
  <2> QED BY <1>1, <1>3, <2>1, SubSeqFull
<1>7. taken \in Seq(Sql!Character)
  <2>1. 1 \in Int /\ i - 1 \in Int /\ i - 1 <= size
    BY <1>4, <1>5
  <2>2. \A j \in 1..(i - 1) : text[j] \in Sql!Character
    BY <1>1, <1>3, <1>4, <2>1, ElementOfSeq
  <2> QED BY <1>1, <1>3, <2>1, <2>2, SubSeqProperties
<1> QED BY <1>3, <1>4, <1>5, <1>6, <1>7

(* What being within a text says, position and all, of one state.          *)
LEMMA WithinIsTyped ==
  ASSUME NEW text, NEW base, NEW outs, NEW ins, NEW ended,
         Cuttable(text, outs, ins, ended), Within(text, base, outs, ins)
  PROVE  /\ index - base \in 1..(Len(text) + 1) /\ Len(text) \in Nat
         /\ index \in Nat /\ base \in Nat
         /\ ended => index - base \in 1..Len(text)
         /\ index - base = Len(text) + 1 => current = text
         /\ current \in Seq(Sql!Character)
<1>1. /\ inSingleQuote \in BOOLEAN /\ index \in Nat /\ base \in Nat
      /\ inSingleQuote => index - base \in ins
      /\ ~inSingleQuote => index - base \in outs
      /\ current = SubSeq(text, 1, index - base - 1)
  BY DEF Within
<1>2. PICK i : i = index - base
  OBVIOUS
<1>3. /\ i \in 1..(Len(text) + 1) /\ Len(text) \in Nat
      /\ ended => i \in 1..Len(text)
      /\ i = Len(text) + 1 => current = text
      /\ current \in Seq(Sql!Character)
  <2>1. CutAt(text, outs, ins, ended, i, current)
    BY <1>1, <1>2 DEF CutAt
  <2> QED BY <2>1, PositionIsTyped
<1> QED BY <1>1, <1>2, <1>3

(* The same of the state a step leads to.                                  *)
LEMMA WithinNextIsTyped ==
  ASSUME NEW text, NEW base, NEW outs, NEW ins, NEW ended,
         Cuttable(text, outs, ins, ended), Within(text, base, outs, ins)'
  PROVE  /\ index' - base \in 1..(Len(text) + 1) /\ index' \in Nat
         /\ base \in Nat /\ Len(text) \in Nat
         /\ ended => index' - base \in 1..Len(text)
         /\ current' \in Seq(Sql!Character) /\ inSingleQuote' \in BOOLEAN
<1>1. /\ inSingleQuote' \in BOOLEAN /\ index' \in Nat /\ base \in Nat
      /\ inSingleQuote' => index' - base \in ins
      /\ ~inSingleQuote' => index' - base \in outs
      /\ current' = SubSeq(text, 1, index' - base - 1)
  BY DEF Within
<1>2. PICK i, taken : i = index' - base /\ taken = current'
  OBVIOUS
<1>3. /\ i \in 1..(Len(text) + 1) /\ Len(text) \in Nat
      /\ ended => i \in 1..Len(text)
      /\ taken \in Seq(Sql!Character)
  <2>1. CutAt(text, outs, ins, ended, i, taken)
    BY <1>1, <1>2 DEF CutAt
  <2> QED BY <2>1, PositionIsTyped
<1> QED BY <1>1, <1>2, <1>3

(* splitSqlStatements, one character: the pass goes on in its text, or     *)
(* ends the first one and is at the start of the second, or ends the       *)
(* second.                                                                 *)
LEMMA SqlScans ==
  ASSUME SqlInv, Sql!Scan
  PROVE  SqlInv'
<1>1. /\ outcome = "scanning" /\ index \in DOMAIN sql
      /\ sql' = sql /\ outcome' = outcome /\ intended' = intended
      /\ executed' = executed
  BY DEF Sql!Scan
<1>2. /\ sql \in Seq(Sql!Character) /\ executed = {}
      /\ statements \in Seq(Seq(Sql!Character))
      /\ intended \in Seq(Seq(Sql!Character))
  BY <1>1 DEF SqlInv, Sql!SqlTypeOK
<1>3. PICK first, second, outs1, ins1, outs2, ins2, ended :
        Script(first, second, outs1, ins1, outs2, ins2, ended)
  BY <1>1 DEF SqlInv
<1>4. /\ Cuttable(first, outs1, ins1, TRUE) /\ Cuttable(second, outs2, ins2, ended)
      /\ sql = first \o second /\ intended = Sql!Intended(first, second)
  BY <1>3 DEF Script
<1>5. /\ first \in Seq(Sql!Character) /\ second \in Seq(Sql!Character)
      /\ 1 \in outs2
  BY <1>4 DEF Cuttable
<1>6. PICK base, size : base = Len(first) /\ size = Len(second)
  OBVIOUS
<1>7. /\ Len(sql) = base + size /\ base \in Nat /\ size \in Nat
      /\ \A j \in 1..base : sql[0 + j] = first[j]
      /\ \A j \in 1..size : sql[base + j] = second[j]
  BY <1>4, <1>5, <1>6, Joined
<1>8. index \in 1..(base + size)
  <2>1. DOMAIN sql = 1..Len(sql)
    BY <1>2, LenProperties
  <2> QED BY <1>1, <1>7, <2>1
(* A step in one of the texts, and what it takes to be well.               *)
<1>9. ASSUME Script(first, second, outs1, ins1, outs2, ins2, ended)',
             current' \in Seq(Sql!Character), inSingleQuote' \in BOOLEAN,
             index' \in 1..(base + size + 1),
             statements' \in Seq(Seq(Sql!Character))
      PROVE  SqlInv'
  <2>1. Sql!SqlTypeOK'
    BY <1>1, <1>2, <1>7, <1>9 DEF Sql!SqlTypeOK
  <2>2. Sql!ScriptIsRunAsWritten'
    BY <1>1 DEF Sql!ScriptIsRunAsWritten
  <2> QED BY <1>1, <1>2, <1>9, <2>1, <2>2 DEF SqlInv
<1>10. << >> \in Seq(Sql!Character) /\ << >> \in Seq(Seq(Sql!Character))
  OBVIOUS
<1>11. CASE Within(first, 0, outs1, ins1) /\ statements = << >>
  <2>1. index - 0 = index /\ index \in 1..base
    <3>1. Cuttable(first, outs1, ins1, TRUE) /\ Within(first, 0, outs1, ins1)
      BY <1>4, <1>11
    <3>2. index - 0 \in 1..Len(first) /\ index \in Nat
      BY <3>1, WithinIsTyped
    <3> QED BY <1>6, <1>7, <3>2
  <2>2. \/ Within(first, 0, outs1, ins1)' /\ statements' = << >>
        \/ /\ index' = base + 1 /\ current' = << >> /\ inSingleQuote' = FALSE
           /\ statements' = Sql!Adding(<< >>, first)
    <3>1. index - 0 <= Len(first)
      BY <1>6, <1>7, <2>1
    <3>2. \/ Within(first, 0, outs1, ins1)' /\ statements' = statements
          \/ /\ index' = 0 + Len(first) + 1 /\ current' = << >>
             /\ inSingleQuote' = FALSE
             /\ statements' = Sql!Adding(statements, first)
      BY <1>2, <1>4, <1>11, <3>1, ScansOn
    <3> QED BY <1>6, <1>7, <1>11, <3>2
  <2>3. CASE Within(first, 0, outs1, ins1)' /\ statements' = << >>
    <3>1. Script(first, second, outs1, ins1, outs2, ins2, ended)'
      BY <1>1, <1>4, <2>3 DEF Script
    <3>2. Cuttable(first, outs1, ins1, TRUE) /\ Within(first, 0, outs1, ins1)'
      BY <1>4, <2>3
    <3>3. /\ index' - 0 \in 1..(Len(first) + 1) /\ index' \in Nat
          /\ current' \in Seq(Sql!Character) /\ inSingleQuote' \in BOOLEAN
      BY <3>2, WithinNextIsTyped
    <3>4. index' \in 1..(base + size + 1)
      <4>1. index' - 0 \in 1..(base + 1) /\ index' \in Nat
        BY <1>6, <3>3
      <4>2. base \in Nat /\ size \in Nat
        BY <1>7
      <4>3. PICK i : i = index'
        OBVIOUS
      <4>4. i \in Nat /\ i - 0 \in 1..(base + 1)
        BY <4>1, <4>3
      <4>5. i - 0 = i
        BY <4>4
      <4>6. i \in 1..(base + 1)
        BY <4>4, <4>5
      <4>7. i \in 1..(base + size + 1)
        BY <4>2, <4>6
      <4> QED BY <4>3, <4>7
    <3> QED BY <1>9, <1>10, <2>3, <3>1, <3>3, <3>4
  <2>4. CASE /\ index' = base + 1 /\ current' = << >> /\ inSingleQuote' = FALSE
             /\ statements' = Sql!Adding(<< >>, first)
    <3>1. Within(second, base, outs2, ins2)'
      <4>1. /\ index' - base = 1 /\ index' \in Nat
            /\ index' - base - 1 = 0 /\ base + size <= Len(sql')
        BY <1>1, <1>7, <2>4
      <4>2. current' = SubSeq(second, 1, 0)
        BY <2>4, SubSeqEmpty
      <4> QED BY <1>1, <1>5, <1>6, <1>7, <2>4, <4>1, <4>2 DEF Within
    <3>2. Script(first, second, outs1, ins1, outs2, ins2, ended)'
      BY <1>1, <1>4, <1>6, <2>4, <3>1 DEF Script
    <3>3. index' \in 1..(base + size + 1)
      BY <1>7, <2>4
    <3>4. statements' \in Seq(Seq(Sql!Character))
      BY <1>5, <1>10, <2>4, AddingIsTyped
    <3> QED BY <1>9, <1>10, <2>4, <3>2, <3>3, <3>4
  <2> QED BY <2>2, <2>3, <2>4
<1>12. CASE /\ Within(second, base, outs2, ins2)
            /\ statements = Sql!Adding(<< >>, first)
  <2>1. index - base <= Len(second)
    BY <1>6, <1>7, <1>8
  <2>2. \/ Within(second, base, outs2, ins2)' /\ statements' = statements
        \/ /\ index' = base + size + 1 /\ current' = << >>
           /\ inSingleQuote' = FALSE
           /\ statements' = Sql!Adding(statements, second)
    <3>1. \/ Within(second, base, outs2, ins2)' /\ statements' = statements
          \/ /\ index' = base + Len(second) + 1 /\ current' = << >>
             /\ inSingleQuote' = FALSE
             /\ statements' = Sql!Adding(statements, second)
      BY <1>2, <1>4, <1>12, <2>1, ScansOn
    <3> QED BY <1>6, <3>1
  <2>3. CASE Within(second, base, outs2, ins2)' /\ statements' = statements
    <3>1. Script(first, second, outs1, ins1, outs2, ins2, ended)'
      BY <1>1, <1>4, <1>6, <1>12, <2>3 DEF Script
    <3>2. Cuttable(second, outs2, ins2, ended) /\ Within(second, base, outs2, ins2)'
      BY <1>4, <2>3
    <3>3. /\ index' - base \in 1..(Len(second) + 1) /\ index' \in Nat
          /\ current' \in Seq(Sql!Character) /\ inSingleQuote' \in BOOLEAN
      BY <3>2, WithinNextIsTyped
    <3>4. index' \in 1..(base + size + 1)
      BY <1>6, <1>7, <3>3
    <3> QED BY <1>2, <1>9, <2>3, <3>1, <3>3, <3>4
  <2>4. CASE /\ index' = base + size + 1 /\ current' = << >>
             /\ inSingleQuote' = FALSE
             /\ statements' = Sql!Adding(statements, second)
    <3>1. statements' = intended'
      BY <1>1, <1>4, <1>12, <2>4 DEF Sql!Intended
    <3>2. index' = Len(sql') + 1
      BY <1>1, <1>7, <2>4
    <3>3. Script(first, second, outs1, ins1, outs2, ins2, ended)'
      BY <1>1, <1>4, <2>4, <3>1, <3>2 DEF Script
    <3>4. index' \in 1..(base + size + 1)
      BY <1>7, <2>4
    <3> QED BY <1>1, <1>2, <1>9, <1>10, <2>4, <3>1, <3>3, <3>4
  <2> QED BY <2>2, <2>3, <2>4
<1>13. CASE index = Len(sql) + 1
  BY <1>7, <1>8, <1>13
<1> QED BY <1>3, <1>6, <1>11, <1>12, <1>13 DEF Script

(* The end of the loop: what is left is the last statement.                *)
LEMMA SqlEnds ==
  ASSUME SqlInv, Sql!EndScan
  PROVE  SqlInv'
<1>1. /\ outcome = "scanning" /\ index \notin DOMAIN sql
      /\ statements' = Sql!Adding(statements, current)
      /\ outcome' = IF statements' = << >> THEN "returned" ELSE "sending"
      /\ sql' = sql /\ index' = index /\ current' = current
      /\ inSingleQuote' = inSingleQuote /\ intended' = intended
      /\ executed' = executed
  BY DEF Sql!EndScan, Sql!Found
<1>2. /\ Sql!SqlTypeOK /\ executed = {}
  BY <1>1 DEF SqlInv
<1>3. PICK first, second, outs1, ins1, outs2, ins2, ended :
        Script(first, second, outs1, ins1, outs2, ins2, ended)
  BY <1>1 DEF SqlInv
<1>4. /\ Cuttable(first, outs1, ins1, TRUE) /\ Cuttable(second, outs2, ins2, ended)
      /\ sql = first \o second /\ intended = Sql!Intended(first, second)
  BY <1>3 DEF Script
<1>5. first \in Seq(Sql!Character) /\ second \in Seq(Sql!Character)
  BY <1>4 DEF Cuttable
<1>6. PICK base, size : base = Len(first) /\ size = Len(second)
  OBVIOUS
<1>7. Len(sql) = base + size /\ base \in Nat /\ size \in Nat
  BY <1>4, <1>5, <1>6, Joined
<1>8. ~(index \in 1..(base + size))
  <2>1. DOMAIN sql = 1..Len(sql)
    BY <1>2, LenProperties DEF Sql!SqlTypeOK
  <2> QED BY <1>1, <1>7, <2>1
<1>9. statements' = intended
  <2>1. CASE Within(first, 0, outs1, ins1)
    <3>1. index - 0 \in 1..Len(first) /\ index \in Nat
      BY <1>4, <2>1, WithinIsTyped
    <3> QED BY <1>6, <1>7, <1>8, <3>1
  <2>2. CASE /\ Within(second, base, outs2, ins2)
             /\ statements = Sql!Adding(<< >>, first)
    <3>1. /\ index - base \in 1..(size + 1) /\ index \in Nat
          /\ index - base = size + 1 => current = second
      BY <1>4, <1>6, <2>2, WithinIsTyped
    <3>2. current = second
      BY <1>7, <1>8, <3>1
    <3> QED BY <1>1, <1>4, <2>2, <3>2 DEF Sql!Intended
  <2>3. CASE current = << >> /\ statements = intended
    <3>1. Sql!Trim(<< >>) = << >>
      BY DEF Sql!Trim
    <3> QED BY <1>1, <2>3, <3>1 DEF Sql!Adding
  <2> QED BY <1>3, <1>6, <2>1, <2>2, <2>3 DEF Script
<1>10. Sql!SqlTypeOK'
  BY <1>1, <1>2, <1>9 DEF Sql!SqlTypeOK
<1>11. outcome' = "returned" => DOMAIN intended = {}
  BY <1>1, <1>9
<1>12. outcome' \in {"returned", "sending"}
  BY <1>1
<1>13. Sql!ScriptIsRunAsWritten'
  BY <1>1, <1>2, <1>9, <1>11 DEF Sql!ScriptIsRunAsWritten
<1>14. executed' = {}
  BY <1>1, <1>2
<1> QED BY <1>10, <1>12, <1>13, <1>14 DEF SqlInv

(* The statements are sent, all of them when the call returns.             *)
LEMMA SqlSends ==
  ASSUME SqlInv, Sql!Send
  PROVE  SqlInv'
<1>1. /\ outcome = "sending" /\ outcome' \in {"returned", "thrown"}
      /\ executed' \subseteq DOMAIN statements
      /\ outcome' = "returned" => executed' = DOMAIN statements
      /\ sql' = sql /\ index' = index /\ current' = current
      /\ inSingleQuote' = inSingleQuote /\ statements' = statements
      /\ intended' = intended
  BY DEF Sql!Send
<1>2. Sql!SqlTypeOK /\ statements = intended
  BY <1>1 DEF SqlInv, Sql!ScriptIsRunAsWritten
<1>3. Sql!SqlTypeOK'
  BY <1>1, <1>2 DEF Sql!SqlTypeOK
<1> QED BY <1>1, <1>2, <1>3 DEF SqlInv, Sql!ScriptIsRunAsWritten

(* Every step of the component keeps the invariant, ...                    *)
LEMMA SqlNextKeeps ==
  ASSUME SqlInv, [Sql!SqlNext]_Sql!sqlVars
  PROVE  SqlInv'
<1>1. CASE Sql!SqlNext
  BY <1>1, SqlExecutes, SqlScans, SqlEnds, SqlSends DEF Sql!SqlNext
<1>2. CASE UNCHANGED Sql!sqlVars
  <2>1. /\ sql' = sql /\ index' = index /\ current' = current
        /\ inSingleQuote' = inSingleQuote /\ statements' = statements
        /\ outcome' = outcome /\ intended' = intended /\ executed' = executed
    BY <1>2 DEF Sql!sqlVars
  <2>2. Sql!SqlTypeOK' /\ Sql!ScriptIsRunAsWritten'
    BY <2>1 DEF SqlInv, Sql!SqlTypeOK, Sql!ScriptIsRunAsWritten
  <2>3. outcome = "scanning" =>
          \E first, second, outs1, ins1, outs2, ins2, ended :
            Script(first, second, outs1, ins1, outs2, ins2, ended)'
    <3> SUFFICES ASSUME outcome = "scanning"
                 PROVE  \E first, second, outs1, ins1, outs2, ins2, ended :
                          Script(first, second, outs1, ins1, outs2, ins2, ended)'
      OBVIOUS
    <3>1. PICK first, second, outs1, ins1, outs2, ins2, ended :
            Script(first, second, outs1, ins1, outs2, ins2, ended)
      BY DEF SqlInv
    <3>2. Script(first, second, outs1, ins1, outs2, ins2, ended)'
      BY <2>1, <3>1 DEF Script, Within
    <3> QED BY <3>2
  <2> QED BY <2>1, <2>2, <2>3 DEF SqlInv
<1> QED BY <1>1, <1>2

(* ... and so does every behaviour.                                        *)
LEMMA SqlInvariant == Spec => []SqlInv
<1>1. Init => SqlInv
  BY SqlStarts DEF Init
<1>2. SqlInv /\ [Next]_vars => SqlInv'
  <2> SUFFICES ASSUME SqlInv, [Next]_vars PROVE SqlInv'
    OBVIOUS
  <2>1. [Sql!SqlNext]_Sql!sqlVars
    BY DEF Next, RegistryStep, TeamsStep, ProjectsStep, ReleasesStep,
       WebhooksStep, WikiStep, CredentialsStep, SqlStep, CgiStep, vars,
       SqlState, Sql!sqlVars
  <2> QED BY <2>1, SqlNextKeeps
<1> QED BY <1>1, <1>2, PTL DEF Spec

(* A text of several statements is cut where its author ended them, and    *)
(* all of them have run when LibsqlDriver.execute returns, for values of   *)
(* any length with quotes and semicolons in any place of them.             *)
THEOREM ScriptIsRunAsWrittenAlways == Spec => []ScriptIsRunAsWritten
<1>1. SqlInv => ScriptIsRunAsWritten
  BY DEF SqlInv, ScriptIsRunAsWritten
<1> QED BY <1>1, SqlInvariant, PTL
-----------------------------------------------------------------------------
(***************************************************************************)
(* Types.  The invariants above say what is true of the requests; with it, *)
(* every row a step writes is one of the table's, and every counter stays  *)
(* within its bound.                                                       *)
(***************************************************************************)
(* The rows a step of the teams adds: whoever may write to an organization *)
(* writes to one, and whoever is a member of it is a user.                 *)
LEMMA TeamsKeepTypes ==
  ASSUME Tea!TeamsTypeOK, req \in [Requests -> TeamRequests], Tea!TeamsNext
  PROVE  /\ members' \subseteq Memberships /\ teams' \subseteq Tea!TeamKeys
         /\ \A row \in teamMembers' :
              <<row[1], row[2]>> \in Tea!TeamKeys /\ row[3] \in Users
         /\ started' \in Nat
         /\ audit' \subseteq {"team.create", "team.member.add"}
<1> DEFINE Typed ==
      /\ members' \subseteq Memberships /\ teams' \subseteq Tea!TeamKeys
      /\ \A row \in teamMembers' :
           <<row[1], row[2]>> \in Tea!TeamKeys /\ row[3] \in Users
      /\ started' \in Nat
      /\ audit' \subseteq {"team.create", "team.member.add"}
<1> USE DEF Tea!TablesUnchanged, Tea!Quietly
<1>1. /\ members \subseteq Memberships /\ teams \subseteq Tea!TeamKeys
      /\ \A row \in teamMembers :
           <<row[1], row[2]>> \in Tea!TeamKeys /\ row[3] \in Users
      /\ started \in Nat
      /\ audit \subseteq {"team.create", "team.member.add"}
  BY DEF Tea!TeamsTypeOK, Tea!Memberships, Memberships, Tea!Roles, Roles
<1>2. CASE Tea!JoinOrganization
  BY <1>1, <1>2 DEF Tea!JoinOrganization, Tea!AddMember, Tea!Memberships,
                    Memberships, Tea!Roles, Roles
<1>3. ASSUME NEW p \in Requests, NEW op \in Tea!Operations, NEW u \in Users,
             NEW o \in Tea!Owners, NEW slug \in TeamSlugs, NEW user \in Usernames,
             Tea!Start(p, op, u, o, slug, user)
      PROVE  Typed
  BY <1>1, <1>3 DEF Tea!Start, Tea!Arrive
<1>4. ASSUME NEW p \in Requests, Tea!InsertTeam(p)
      PROVE  Typed
  <2>1. req[p] \in TeamRequests /\ req[p].step = "insert_team"
    BY <1>4 DEF Tea!InsertTeam, Tea!At
  <2>2. PICK q : q = req[p]
    OBVIOUS
  <2>3. q \in Tea!Request \ {Idle} /\ MayWriteOrganization(q.actor, q.org)
    BY <2>1, <2>2 DEF TeamRequests, Idle, Writes
  <2>4. q.org \in Organizations /\ q.slug \in TeamSlugs
    BY <2>3 DEF MayWriteOrganization, Tea!Request, Tea!Idle, Idle
  <2>5. Tea!Team(q) \in Tea!TeamKeys
    BY <2>4 DEF Tea!Team, Tea!TeamKeys
  <2>6. teams' \subseteq teams \cup {Tea!Team(q)}
        /\ UNCHANGED <<members, teamMembers, started, audit>>
    BY <1>4, <2>2 DEF Tea!InsertTeam
  <2> QED BY <1>1, <2>5, <2>6
<1>5. ASSUME NEW p \in Requests, Tea!InsertMember(p)
      PROVE  Typed
  <2>1. req[p] \in TeamRequests /\ req[p].step = "insert_member"
    BY <1>5 DEF Tea!InsertMember, Tea!At
  <2>2. PICK q : q = req[p]
    OBVIOUS
  <2>3. Tea!Team(q) \in teams /\ IsMember(members, q.org, q.user)
    BY <2>1, <2>2 DEF TeamRequests, Idle
  <2>4. q.user \in Users
    BY <1>1, <2>3 DEF IsMember, Memberships
  <2>5. PICK row : row = Tea!TeamMember(q)
    OBVIOUS
  <2>6. <<row[1], row[2]>> \in Tea!TeamKeys /\ row[3] \in Users
    BY <1>1, <2>3, <2>4, <2>5 DEF Tea!TeamMember, Tea!Team
  <2>7. teamMembers' \subseteq teamMembers \cup {row}
        /\ UNCHANGED <<members, teams, started, audit>>
    BY <1>5, <2>2, <2>5 DEF Tea!InsertMember
  <2> QED BY <1>1, <2>6, <2>7
<1>6. ASSUME NEW p \in Requests, Tea!Audit(p)
      PROVE  Typed
  BY <1>1, <1>6 DEF Tea!Audit, Tea!Record, Tea!Action
<1>7. ASSUME NEW p \in Requests,
             \/ Tea!Readable(p) \/ Tea!Writable(p) \/ Tea!FindTeam(p)
             \/ Tea!ListRows(p) \/ Tea!FindUser(p)
             \/ Tea!IsMemberOfOrganization(p) \/ Tea!Fail(p)
      PROVE  Typed
  <2>1. UNCHANGED <<members, teams, teamMembers, started, audit>>
    BY <1>7 DEF Tea!Readable, Tea!Writable, Tea!FindTeam, Tea!ListRows,
       Tea!FindUser, Tea!IsMemberOfOrganization, Tea!Fail, Tea!Drop,
       Tea!ReadableOrganization, Tea!WritableOrganization
  <2> QED BY <1>1, <2>1
<1> QED BY <1>2, <1>3, <1>4, <1>5, <1>6, <1>7 DEF Tea!TeamsNext, Tea!Serve

(* The teams keep their types.                                             *)
LEMMA TeamsTyped == Spec => [](component = "teams" => Tea!TeamsTypeOK)
<1> DEFINE Typed == component = "teams" => Tea!TeamsTypeOK
<1>1. Init => Typed
  <2> SUFFICES ASSUME Init PROVE Tea!TeamsTypeOK
    OBVIOUS
  <2>1. /\ members = Founders /\ teams = {} /\ teamMembers = {}
        /\ req = [p \in Requests |-> Tea!Idle] /\ started = 0 /\ audit = {}
    BY DEF Init, Tea!TeamsInit, Tea!ServingInit
  <2> QED BY <2>1, OrganizationServingAssumption
          DEF Tea!TeamsTypeOK, Tea!Request, Tea!Memberships, Memberships,
              Tea!Roles, Roles
<1>2. TeamsInv /\ TeamsInv' /\ Typed /\ [Next]_vars => Typed'
  <2> SUFFICES ASSUME TeamsInv, TeamsInv', Typed, [Next]_vars,
                      component' = "teams"
               PROVE  Tea!TeamsTypeOK'
    OBVIOUS
  <2>1. /\ component = "teams" /\ Tea!TeamsTypeOK
        /\ [Tea!TeamsNext]_Tea!teamsVars
        /\ req \in [Requests -> TeamRequests]
    BY OneComponent DEF TeamsInv
  <2>2. req' \in [Requests -> Tea!Request]
    <3>1. TeamRequests' \subseteq Tea!Request
      BY DEF TeamRequests
    <3>2. req' \in [Requests -> TeamRequests']
      BY DEF TeamsInv
    <3> QED BY <3>1, <3>2
  <2>3. CASE Tea!TeamsNext
    BY <2>1, <2>2, <2>3, TeamsKeepTypes
       DEF Tea!TeamsTypeOK, Tea!Memberships, Memberships, Tea!Roles, Roles
  <2>4. CASE UNCHANGED Tea!teamsVars
    BY <2>1, <2>4 DEF Tea!teamsVars, Tea!TeamsTypeOK
  <2> QED BY <2>1, <2>3, <2>4
<1> QED BY <1>1, <1>2, TeamsInvariant, PTL DEF Spec

(* A statement that changes a row notes an incarnation, which is a number. *)
LEMMA ReleasesKeepTypes ==
  ASSUME Rel!ReleasesTypeOK, req \in [Requests -> ReleaseRequests],
         Rel!ReleasesNext
  PROVE  /\ stale' \subseteq Nat /\ DOMAIN releases' \subseteq Tags
         /\ releases' \in [DOMAIN releases' -> Users \X Notes]
         /\ started' \in Nat /\ audit' \subseteq {"release.create"}
<1> DEFINE Typed ==
      /\ stale' \subseteq Nat /\ DOMAIN releases' \subseteq Tags
      /\ releases' \in [DOMAIN releases' -> Users \X Notes]
      /\ started' \in Nat /\ audit' \subseteq {"release.create"}
<1> USE DEF Rel!RepositoryUnchanged, Rel!Quietly
<1>1. /\ repo \in Nat /\ stale \subseteq Nat /\ DOMAIN releases \subseteq Tags
      /\ releases \in [DOMAIN releases -> Users \X Notes]
      /\ started \in Nat /\ audit \subseteq {"release.create"}
  BY DEF Rel!ReleasesTypeOK
<1>2. ASSUME UNCHANGED <<stale, releases, started, audit>> PROVE Typed
  BY <1>1, <1>2
<1>3. CASE Rel!CreateRepository \/ Rel!DeleteRepository
  <2>1. /\ UNCHANGED <<stale, started, audit>>
        /\ releases' = releases \/ releases' = Rel!NoReleases
    BY <1>3 DEF Rel!CreateRepository, Rel!DeleteRepository, Rel!Incarnate,
                Rel!Discard
  <2>2. releases' = Rel!NoReleases =>
          DOMAIN releases' = {} /\ releases' \in [{} -> Users \X Notes]
    BY DEF Rel!NoReleases
  <2> QED BY <1>1, <2>1, <2>2
<1>4. ASSUME NEW p \in Requests, NEW op \in {"list", "get", "create"},
             NEW u \in Rel!Actors, NEW tag \in Tags, NEW notes \in Notes,
             Rel!Start(p, op, u, tag, notes)
      PROVE  Typed
  BY <1>1, <1>4 DEF Rel!Start, Rel!Arrive
<1>5. ASSUME NEW p \in Requests, Rel!Insert(p)
      PROVE  Typed
  <2>1. CASE UNCHANGED <<stale, releases, started, audit>>
    BY <1>2, <2>1
  <2>2. CASE ~UNCHANGED <<stale, releases, started, audit>>
    <3>1. /\ req[p] \in ReleaseRequests /\ req[p].step = "insert"
          /\ releases' = Rel!Added(p) /\ Rel!Touch(p)
          /\ UNCHANGED <<started, audit>>
      BY <1>5, <2>2 DEF Rel!Insert, Rel!At
    <3>2. PICK q : q = req[p]
      OBVIOUS
    <3>3. /\ q \in Rel!Request \ {Idle} /\ q.actor \in Users
      BY <3>1, <3>2 DEF ReleaseRequests, Idle
    <3>4. q.tag \in Tags /\ <<q.actor, q.notes>> \in Users \X Notes
      BY <3>3 DEF Rel!Request, Rel!Idle, Idle
    <3>5. releases' = [t \in DOMAIN releases \cup {q.tag} |->
                         IF t = q.tag THEN <<q.actor, q.notes>> ELSE releases[t]]
      BY <3>1, <3>2 DEF Rel!Added
    <3>6. DOMAIN releases' = DOMAIN releases \cup {q.tag}
      BY <3>5
    <3>7. releases' \in [DOMAIN releases' -> Users \X Notes]
      BY <1>1, <3>4, <3>5, <3>6
    <3>8. stale' \subseteq stale \cup {repo}
      BY <3>1 DEF Rel!Touch
    <3> QED BY <1>1, <3>1, <3>4, <3>6, <3>7, <3>8
  <2> QED BY <2>1, <2>2
<1>6. ASSUME NEW p \in Requests, Rel!Audit(p)
      PROVE  Typed
  BY <1>1, <1>6 DEF Rel!Audit, Rel!Record
<1>7. ASSUME NEW p \in Requests,
             \/ Rel!Visible(p) \/ Rel!Writable(p) \/ Rel!ListReleases(p)
             \/ Rel!Find(p) \/ Rel!Fail(p)
      PROVE  Typed
  BY <1>2, <1>7 DEF Rel!Visible, Rel!Writable, Rel!ListReleases, Rel!Find,
     Rel!Fail, Rel!Drop, Rel!VisibleRepository, Rel!WritableRepository
<1> QED BY <1>3, <1>4, <1>5, <1>6, <1>7 DEF Rel!ReleasesNext

(* The releases keep their types.                                          *)
LEMMA ReleasesTyped == Spec => [](component = "releases" => Rel!ReleasesTypeOK)
<1> DEFINE Typed == component = "releases" => Rel!ReleasesTypeOK
<1>1. Init => Typed
  <2> SUFFICES ASSUME Init PROVE Rel!ReleasesTypeOK
    OBVIOUS
  <2>1. /\ repo = 0 /\ made = 0 /\ stale = {} /\ releases = Rel!NoReleases
        /\ req = [p \in Requests |-> Rel!Idle] /\ started = 0 /\ audit = {}
    BY DEF Init, Rel!ReleasesInit, Rel!ServingInit, Rel!RepositoryInit
  <2>2. DOMAIN releases = {} /\ releases \in [{} -> Users \X Notes]
    BY <2>1 DEF Rel!NoReleases
  <2> QED BY <2>1, <2>2 DEF Rel!ReleasesTypeOK, Rel!Request
<1>2. ReleasesInv /\ ReleasesInv' /\ Typed /\ [Next]_vars => Typed'
  <2> SUFFICES ASSUME ReleasesInv, ReleasesInv', Typed, [Next]_vars,
                      component' = "releases"
               PROVE  Rel!ReleasesTypeOK'
    OBVIOUS
  <2>1. /\ component = "releases" /\ Rel!ReleasesTypeOK
        /\ [Rel!ReleasesNext]_Rel!releasesVars
        /\ req \in [Requests -> ReleaseRequests]
    BY OneComponent DEF ReleasesInv
  <2>2. req' \in [Requests -> Rel!Request] /\ repo' \in Nat /\ made' \in Nat
    <3>1. ReleaseRequests' \subseteq Rel!Request
      BY DEF ReleaseRequests
    <3>2. req' \in [Requests -> ReleaseRequests'] /\ repo' \in Nat /\ made' \in Nat
      BY DEF ReleasesInv
    <3> QED BY <3>1, <3>2
  <2>3. CASE Rel!ReleasesNext
    BY <2>1, <2>2, <2>3, ReleasesKeepTypes DEF Rel!ReleasesTypeOK
  <2>4. CASE UNCHANGED Rel!releasesVars
    BY <2>1, <2>4 DEF Rel!releasesVars, Rel!ReleasesTypeOK
  <2> QED BY <2>1, <2>3, <2>4
<1> QED BY <1>1, <1>2, ReleasesInvariant, PTL DEF Spec

(* The table of the projects stays a function on its numbers.              *)
LEMMA ProjectsKeepTypes ==
  ASSUME Pro!ProjectsTypeOK, req \in [Requests -> ProjectRequests],
         Pro!ProjectsNext
  PROVE  /\ stale' \subseteq Nat
         /\ projects' = [n \in DOMAIN projects' |-> projects'[n]]
         /\ started' \in Nat
         /\ audit' \subseteq {"project.create", "project.update"}
<1> DEFINE Typed ==
      /\ stale' \subseteq Nat
      /\ projects' = [n \in DOMAIN projects' |-> projects'[n]]
      /\ started' \in Nat
      /\ audit' \subseteq {"project.create", "project.update"}
<1> USE DEF Pro!RepositoryUnchanged, Pro!Quietly
<1>1. /\ repo \in Nat /\ stale \subseteq Nat
      /\ projects = [n \in DOMAIN projects |-> projects[n]]
      /\ started \in Nat
      /\ audit \subseteq {"project.create", "project.update"}
  BY DEF Pro!ProjectsTypeOK, Pro!Numbers
<1>2. ASSUME UNCHANGED <<stale, projects, started, audit>> PROVE Typed
  BY <1>1, <1>2
<1>3. CASE Pro!CreateRepository \/ Pro!DeleteRepository
  <2>1. /\ UNCHANGED <<stale, started, audit>>
        /\ projects' = projects \/ projects' = Pro!NoProjects
    BY <1>3 DEF Pro!CreateRepository, Pro!DeleteRepository, Pro!Incarnate,
                Pro!Discard
  <2>2. projects' = Pro!NoProjects =>
          projects' = [n \in DOMAIN projects' |-> projects'[n]]
    BY DEF Pro!NoProjects
  <2> QED BY <1>1, <2>1, <2>2
<1>4. ASSUME NEW p \in Requests, NEW op \in {"list", "create", "update"},
             NEW u \in Pro!Actors, NEW n \in 0..MaxNumber,
             NEW state \in Pro!ProjectState \cup {"undefined"},
             Pro!Start(p, op, u, n, state)
      PROVE  Typed
  BY <1>1, <1>4 DEF Pro!Start, Pro!Arrive
<1>5. ASSUME NEW p \in Requests, Pro!Insert(p) \/ Pro!UpdateRow(p)
      PROVE  Typed
  <2>1. UNCHANGED <<started, audit>> /\ stale' \subseteq stale \cup {repo}
    BY <1>5 DEF Pro!Insert, Pro!UpdateRow, Pro!Touch
  <2>2. \/ projects' = projects
        \/ projects' = Pro!Added(p)
        \/ projects' = [projects EXCEPT ![req[p].number].state = req[p].state]
    BY <1>5 DEF Pro!Insert, Pro!UpdateRow
  <2>3. projects' = [n \in DOMAIN projects' |-> projects'[n]]
    <3>1. CASE projects' = projects
      BY <1>1, <3>1
    <3>2. CASE projects' = Pro!Added(p)
      BY <3>2 DEF Pro!Added
    <3>3. CASE projects' = [projects EXCEPT ![req[p].number].state = req[p].state]
      BY <3>3
    <3> QED BY <2>2, <3>1, <3>2, <3>3
  <2> QED BY <1>1, <2>1, <2>3
<1>6. ASSUME NEW p \in Requests, Pro!Audit(p)
      PROVE  Typed
  BY <1>1, <1>6 DEF Pro!Audit, Pro!Record, Pro!Action
<1>7. ASSUME NEW p \in Requests,
             \/ Pro!Visible(p) \/ Pro!Writable(p) \/ Pro!ListProjects(p)
             \/ Pro!ReadNextNumber(p) \/ Pro!Find(p) \/ Pro!Refind(p)
             \/ Pro!Fail(p)
      PROVE  Typed
  BY <1>2, <1>7 DEF Pro!Visible, Pro!Writable, Pro!ListProjects,
     Pro!ReadNextNumber, Pro!Find, Pro!Refind, Pro!Fail, Pro!Drop,
     Pro!VisibleRepository, Pro!WritableRepository
<1> QED BY <1>3, <1>4, <1>5, <1>6, <1>7
        DEF Pro!ProjectsNext, Pro!Create, Pro!Update

(* The projects keep their types.                                          *)
LEMMA ProjectsTyped == Spec => [](component = "projects" => Pro!ProjectsTypeOK)
<1> DEFINE Typed == component = "projects" => Pro!ProjectsTypeOK
<1>1. Init => Typed
  <2> SUFFICES ASSUME Init PROVE Pro!ProjectsTypeOK
    OBVIOUS
  <2>1. /\ repo = 0 /\ made = 0 /\ stale = {} /\ projects = Pro!NoProjects
        /\ req = [p \in Requests |-> Pro!Idle] /\ started = 0 /\ audit = {}
    BY DEF Init, Pro!ProjectsInit, Pro!ServingInit, Pro!RepositoryInit
  <2>2. DOMAIN projects = {} /\ projects \in [{} -> Pro!Project]
    BY <2>1 DEF Pro!NoProjects
  <2> QED BY <2>1, <2>2 DEF Pro!ProjectsTypeOK, Pro!Request, Pro!Numbers
<1>2. ProjectsInv /\ ProjectsInv' /\ Typed /\ [Next]_vars => Typed'
  <2> SUFFICES ASSUME ProjectsInv, ProjectsInv', Typed, [Next]_vars,
                      component' = "projects"
               PROVE  Pro!ProjectsTypeOK'
    OBVIOUS
  <2>1. /\ component = "projects" /\ Pro!ProjectsTypeOK
        /\ [Pro!ProjectsNext]_Pro!projectsVars
        /\ req \in [Requests -> ProjectRequests]
    BY OneComponent DEF ProjectsInv
  <2>2. /\ req' \in [Requests -> Pro!Request] /\ repo' \in Nat /\ made' \in Nat
        /\ DOMAIN projects' \subseteq Nat \ {0}
        /\ \A n \in DOMAIN projects' : projects'[n] \in Pro!Project
    <3>1. ProjectRequests' \subseteq Pro!Request
      BY DEF ProjectRequests
    <3>2. ProjectTables' /\ req' \in [Requests -> ProjectRequests']
      BY DEF ProjectsInv
    <3> QED BY <3>1, <3>2 DEF ProjectTables, Pro!Numbers
  <2>3. CASE Pro!ProjectsNext
    <3>1. /\ stale' \subseteq Nat
          /\ projects' = [n \in DOMAIN projects' |-> projects'[n]]
          /\ started' \in Nat
          /\ audit' \subseteq {"project.create", "project.update"}
      BY <2>1, <2>3, ProjectsKeepTypes
    <3>2. projects' \in [DOMAIN projects' -> Pro!Project]
      BY <2>2, <3>1
    <3> QED BY <2>2, <3>1, <3>2 DEF Pro!ProjectsTypeOK, Pro!Numbers
  <2>4. CASE UNCHANGED Pro!projectsVars
    BY <2>1, <2>4 DEF Pro!projectsVars, Pro!ProjectsTypeOK, Pro!Numbers
  <2> QED BY <2>1, <2>3, <2>4
<1> QED BY <1>1, <1>2, ProjectsInvariant, PTL DEF Spec

(* The webhooks subscribe to what their creation asked for.                *)
LEMMA WebhooksKeepTypes ==
  ASSUME repo \in Nat, stale \subseteq Nat,
         hooks \in [DOMAIN hooks -> SUBSET Events],
         req \in [Requests -> WebhookRequests], Web!WebhooksNext
  PROVE  /\ stale' \subseteq Nat
         /\ hooks' \in [DOMAIN hooks' -> SUBSET Events]
<1> DEFINE Typed ==
      stale' \subseteq Nat /\ hooks' \in [DOMAIN hooks' -> SUBSET Events]
<1> USE DEF Web!RepositoryUnchanged, Web!HooksUnchanged, Web!OnlyRequests
<1>1. /\ repo \in Nat /\ stale \subseteq Nat
      /\ hooks \in [DOMAIN hooks -> SUBSET Events]
  OBVIOUS
<1>2. ASSUME stale' \subseteq stale \cup {repo}, hooks' = hooks PROVE Typed
  BY <1>1, <1>2
<1>3. CASE Web!CreateRepository \/ Web!DeleteRepository
  <2>1. stale' = stale /\ (hooks' = hooks \/ hooks' = Web!NoRows)
    BY <1>3 DEF Web!CreateRepository, Web!DeleteRepository, Web!Incarnate,
                Web!Discard
  <2>2. hooks' = Web!NoRows =>
          DOMAIN hooks' = {} /\ hooks' \in [{} -> SUBSET Events]
    BY DEF Web!NoRows
  <2> QED BY <1>1, <2>1, <2>2
<1>4. ASSUME NEW p \in Requests, NEW op \in {"list", "create", "ping", "dispatch"},
             NEW u \in Users, NEW events \in SUBSET Events, NEW h \in 0..created,
             Web!Start(p, op, u, events, h)
      PROVE  Typed
  BY <1>2, <1>4 DEF Web!Start
<1>5. ASSUME NEW p \in Requests, Web!InsertHook(p)
      PROVE  Typed
  <2>1. CASE repo = 0
    BY <1>2, <1>5, <2>1 DEF Web!InsertHook
  <2>2. CASE repo # 0
    <3>1. /\ req[p] \in WebhookRequests /\ req[p].step = "insert"
          /\ Web!Touch(p)
          /\ hooks' = [k \in DOMAIN hooks \cup {created + 1} |->
                         IF k = created + 1 THEN req[p].events ELSE hooks[k]]
      BY <1>5, <2>2 DEF Web!InsertHook, Web!At
    <3>2. PICK events, h : events = req[p].events /\ h = created + 1
      OBVIOUS
    <3>3. events \in SUBSET Events
      BY <3>1, <3>2 DEF WebhookRequests, Web!Request, Web!Idle, Idle
    <3>4. hooks' = [k \in DOMAIN hooks \cup {h} |->
                      IF k = h THEN events ELSE hooks[k]]
      BY <3>1, <3>2
    <3>5. hooks' \in [DOMAIN hooks \cup {h} -> SUBSET Events]
      BY <1>1, <3>3, <3>4
    <3>6. stale' \subseteq stale \cup {repo}
      BY <3>1 DEF Web!Touch
    <3> QED BY <1>1, <3>5, <3>6
  <2> QED BY <2>1, <2>2
<1>6. ASSUME NEW p \in Requests, Web!RecordDelivery(p)
      PROVE  Typed
  BY <1>2, <1>6 DEF Web!RecordDelivery, Web!Touch
<1>7. ASSUME NEW p \in Requests,
             \/ Web!FindHook(p) \/ Web!Visible(p) \/ Web!Writable(p)
             \/ Web!ListWebhooks(p) \/ Web!Select(p) \/ Web!Send(p)
             \/ Web!Audit(p) \/ Web!Fail(p)
      PROVE  Typed
  BY <1>2, <1>7 DEF Web!FindHook, Web!Visible, Web!Writable, Web!ListWebhooks,
     Web!Select, Web!Send, Web!Audit, Web!Fail, Web!VisibleRepository,
     Web!WritableRepository
<1> QED BY <1>3, <1>4, <1>5, <1>6, <1>7 DEF Web!WebhooksNext, Web!Deliver

(* The webhooks keep their types.                                          *)
LEMMA WebhooksTyped == Spec => [](component = "webhooks" => Web!WebhooksTypeOK)
<1> DEFINE Typed == component = "webhooks" =>
                      /\ stale \subseteq Nat
                      /\ hooks \in [DOMAIN hooks -> SUBSET Events]
<1>1. Init => Typed
  <2> SUFFICES ASSUME Init
               PROVE  stale = {} /\ hooks \in [DOMAIN hooks -> SUBSET Events]
    OBVIOUS
  <2>1. stale = {} /\ hooks = Web!NoRows
    BY DEF Init, Web!WebhooksInit, Web!RepositoryInit
  <2>2. DOMAIN hooks = {} /\ hooks \in [{} -> SUBSET Events]
    BY <2>1 DEF Web!NoRows
  <2> QED BY <2>1, <2>2
<1>2. WebhooksInv /\ Typed /\ [Next]_vars => Typed'
  <2> SUFFICES ASSUME WebhooksInv, Typed, [Next]_vars, component' = "webhooks"
               PROVE  /\ stale' \subseteq Nat
                      /\ hooks' \in [DOMAIN hooks' -> SUBSET Events]
    OBVIOUS
  <2>1. /\ component = "webhooks" /\ [Web!WebhooksNext]_Web!webhooksVars
        /\ stale \subseteq Nat /\ hooks \in [DOMAIN hooks -> SUBSET Events]
    BY OneComponent
  <2>2. repo \in Nat /\ req \in [Requests -> WebhookRequests]
    BY <2>1 DEF WebhooksInv, WebhookRows
  <2>3. CASE Web!WebhooksNext
    BY <2>1, <2>2, <2>3, WebhooksKeepTypes
  <2>4. CASE UNCHANGED Web!webhooksVars
    BY <2>1, <2>4 DEF Web!webhooksVars
  <2> QED BY <2>1, <2>3, <2>4
<1>3. WebhooksInv /\ Typed => (component = "webhooks" => Web!WebhooksTypeOK)
  <2> SUFFICES ASSUME WebhooksInv, Typed, component = "webhooks"
               PROVE  Web!WebhooksTypeOK
    OBVIOUS
  <2>1. WebhookRows /\ req \in [Requests -> WebhookRequests]
    BY DEF WebhooksInv
  <2>2. req \in [Requests -> Web!Request]
    BY <2>1 DEF WebhookRequests
  <2>3. created \in 0..MaxRequests /\ DOMAIN hooks \subseteq Web!HookIds
    <3>1. created <= MaxRequests /\ DOMAIN hooks \subseteq Web!HookIds
      BY <2>1, CreatedBound
    <3> QED BY <2>1, <3>1, ServingAssumption DEF WebhookRows
  <2> QED BY <2>1, <2>2, <2>3 DEF WebhookRows, Web!WebhooksTypeOK
<1> QED BY <1>1, <1>2, <1>3, WebhooksInvariant, PTL DEF Spec

(* The credentials.                                                        *)

(* What one element more or less does to the size of a set.                *)
LEMMA OneElement ==
  ASSUME NEW S, NEW T, NEW p, IsFiniteSet(S), T \subseteq S \cup {p}
  PROVE  /\ IsFiniteSet(T)
         /\ Cardinality(S) \in Nat /\ Cardinality(T) \in Nat
         /\ Cardinality(T) <= Cardinality(S) + 1
         /\ (p \in T => p \in S) => Cardinality(T) <= Cardinality(S)
         /\ p \in S /\ p \notin T => Cardinality(T) + 1 <= Cardinality(S)
<1>1. Cardinality(S) \in Nat
  BY FS_CardinalityType
<1>2. /\ IsFiniteSet(S \cup {p})
      /\ Cardinality(S \cup {p}) =
           IF p \in S THEN Cardinality(S) ELSE Cardinality(S) + 1
  BY FS_AddElement
<1>3. /\ IsFiniteSet(S \ {p})
      /\ Cardinality(S \ {p}) =
           IF p \in S THEN Cardinality(S) - 1 ELSE Cardinality(S)
  BY FS_RemoveElement
<1>4. /\ IsFiniteSet(T) /\ Cardinality(T) <= Cardinality(S \cup {p})
  BY <1>2, FS_Subset
<1>5. Cardinality(T) \in Nat
  BY <1>4, FS_CardinalityType
<1>6. (p \in T => p \in S) => Cardinality(T) <= Cardinality(S)
  <2> SUFFICES ASSUME p \in T => p \in S PROVE Cardinality(T) <= Cardinality(S)
    OBVIOUS
  <2>1. T \subseteq S
    OBVIOUS
  <2> QED BY <2>1, FS_Subset
<1>7. p \in S /\ p \notin T => Cardinality(T) + 1 <= Cardinality(S)
  <2> SUFFICES ASSUME p \in S, p \notin T
               PROVE  Cardinality(T) + 1 <= Cardinality(S)
    OBVIOUS
  <2>1. T \subseteq S \ {p}
    OBVIOUS
  <2>2. Cardinality(T) <= Cardinality(S \ {p})
    BY <1>3, <2>1, FS_Subset
  <2> QED BY <1>1, <1>3, <1>5, <2>2
<1> QED BY <1>1, <1>2, <1>4, <1>5, <1>6, <1>7

(* A request before the statement that changes a table, if it has one.     *)
Working(q) == q.step \notin {"idle", "audit"}

(* The slots at work, whose number pays for what is made later.            *)
WorkingSlots == {p \in Requests : Working(req[p])}

(* Each token and each key was made by a request of its own.               *)
CredentialCounts ==
  /\ started \in Nat /\ started <= MaxRequests
  /\ IsFiniteSet(WorkingSlots)
  /\ \E n \in Nat : /\ Cre!Tokens = 1..n
                    /\ n + keysMade + Cardinality(WorkingSlots) <= started

(* The invariant on the rows of the credentials.                           *)
CredentialRows ==
  /\ CredentialCounts
  /\ tokens = [t \in Cre!Tokens |-> tokens[t]]
  /\ used \subseteq Cre!Tokens
  /\ \A k \in DOMAIN keys : keys[k][1] \in Users /\ keys[k][2] \in PublicKeys
  /\ \A p \in Requests : req[p] = Idle \/ req[p].secret \in Cre!Secrets

(* What a step of a request that is being served does to its slot.         *)
CredentialSlotMoves(p) ==
  /\ \A q \in Requests \ {p} : req'[q] = req[q]
  /\ Working(req'[p]) => Working(req[p])
  /\ req'[p] = Idle \/ (req[p] # Idle /\ req'[p].secret = req[p].secret)

(* What the steps do to it, to the working requests, ...                   *)
LEMMA CredentialMoves ==
  ASSUME req \in [Requests -> CredentialRequests], NEW p \in Requests
  PROVE  /\ Cre!Answer(p) => CredentialSlotMoves(p) /\ ~Working(req'[p])
         /\ \A step : Cre!GoTo(p, step) /\ Working(req[p]) =>
              CredentialSlotMoves(p) /\ req'[p].step = step
         /\ \A u : Cre!Authenticated(p, u) /\ Working(req[p]) =>
              CredentialSlotMoves(p)
<1>1. Cre!Answer(p) => CredentialSlotMoves(p) /\ ~Working(req'[p])
  BY CredentialAnswers
     DEF Cre!Answer, Cre!Becomes, CredentialSlotMoves, Working, Idle
<1>2. Working(req[p]) => req[p] # Idle /\ req[p] \in CredentialRecord
  BY DEF Working, CredentialRequests, Idle
<1>3. ASSUME NEW step, Cre!GoTo(p, step), Working(req[p])
      PROVE  CredentialSlotMoves(p) /\ req'[p].step = step
  <2>1. PICK moved : moved = [req[p] EXCEPT !.step = step]
    OBVIOUS
  <2>2. moved.step = step /\ moved.secret = req[p].secret
    BY <1>2, <1>3, <2>1 DEF CredentialRecord
  <2>3. req' = [req EXCEPT ![p] = moved]
    BY <1>3, <2>1 DEF Cre!GoTo, Cre!Becomes
  <2>4. req'[p] = moved /\ \A q \in Requests \ {p} : req'[q] = req[q]
    BY <2>3
  <2> QED BY <1>2, <1>3, <2>2, <2>4 DEF CredentialSlotMoves
<1>4. ASSUME NEW u, Cre!Authenticated(p, u), Working(req[p])
      PROVE  CredentialSlotMoves(p)
  <2>1. PICK moved : moved = [req[p] EXCEPT !.actor = u, !.step = req[p].op]
    OBVIOUS
  <2>2. moved.secret = req[p].secret
    BY <1>2, <1>4, <2>1 DEF CredentialRecord
  <2>3. req' = [req EXCEPT ![p] = moved]
    BY <1>4, <2>1 DEF Cre!Authenticated, Cre!Becomes
  <2>4. req'[p] = moved /\ \A q \in Requests \ {p} : req'[q] = req[q]
    BY <2>3
  <2> QED BY <1>2, <1>4, <2>2, <2>4 DEF CredentialSlotMoves
<1> QED BY <1>1, <1>3, <1>4

(* ... and so to the number of those at work.                              *)
LEMMA WorkingMoves ==
  ASSUME NEW p \in Requests, CredentialSlotMoves(p), IsFiniteSet(WorkingSlots)
  PROVE  /\ IsFiniteSet(WorkingSlots')
         /\ Cardinality(WorkingSlots) \in Nat
         /\ Cardinality(WorkingSlots') \in Nat
         /\ Cardinality(WorkingSlots') <= Cardinality(WorkingSlots)
         /\ Working(req[p]) /\ ~Working(req'[p]) =>
              Cardinality(WorkingSlots') + 1 <= Cardinality(WorkingSlots)
<1>1. /\ WorkingSlots' \subseteq WorkingSlots \cup {p}
      /\ p \in WorkingSlots' => p \in WorkingSlots
      /\ Working(req[p]) => p \in WorkingSlots
      /\ ~Working(req'[p]) => p \notin WorkingSlots'
  BY DEF WorkingSlots, CredentialSlotMoves
<1>2. PICK S, T : S = WorkingSlots /\ T = WorkingSlots'
  OBVIOUS
<1>3. /\ IsFiniteSet(T)
      /\ Cardinality(S) \in Nat /\ Cardinality(T) \in Nat
      /\ (p \in T => p \in S) => Cardinality(T) <= Cardinality(S)
      /\ p \in S /\ p \notin T => Cardinality(T) + 1 <= Cardinality(S)
  BY <1>1, <1>2, OneElement
<1> QED BY <1>1, <1>2, <1>3

(* The counts after a step that makes nothing, or one token, or one key.   *)
LEMMA CredentialCountsStay ==
  ASSUME CredentialCounts, keysMade \in Nat, NEW p \in Requests,
         CredentialSlotMoves(p), started' = started, NEW n \in Nat, NEW m \in Nat,
         Cre!Tokens = 1..n, Cre!Tokens' = 1..m, keysMade' \in Nat,
         \/ m = n /\ keysMade' = keysMade
         \/ /\ Working(req[p]) /\ ~Working(req'[p])
            /\ \/ m = n + 1 /\ keysMade' = keysMade
               \/ m = n /\ keysMade' = keysMade + 1
  PROVE  CredentialCounts'
<1>1. /\ started \in Nat /\ started <= MaxRequests
      /\ IsFiniteSet(WorkingSlots)
  BY DEF CredentialCounts
<1>2. PICK i \in Nat : /\ Cre!Tokens = 1..i
                       /\ i + keysMade + Cardinality(WorkingSlots) <= started
  BY DEF CredentialCounts
<1>3. i = n
  BY <1>2
<1>4. /\ IsFiniteSet(WorkingSlots')
      /\ Cardinality(WorkingSlots) \in Nat /\ Cardinality(WorkingSlots') \in Nat
      /\ Cardinality(WorkingSlots') <= Cardinality(WorkingSlots)
      /\ Working(req[p]) /\ ~Working(req'[p]) =>
           Cardinality(WorkingSlots') + 1 <= Cardinality(WorkingSlots)
  BY <1>1, WorkingMoves
<1>5. PICK before, after : /\ before = Cardinality(WorkingSlots)
                           /\ after = Cardinality(WorkingSlots')
  OBVIOUS
<1>6. /\ before \in Nat /\ after \in Nat /\ after <= before
      /\ Working(req[p]) /\ ~Working(req'[p]) => after + 1 <= before
      /\ n + keysMade + before <= started
  BY <1>2, <1>3, <1>4, <1>5
<1>7. m + keysMade' + after <= started
  <2>1. CASE m = n /\ keysMade' = keysMade
    BY <1>1, <1>6, <2>1
  <2>2. CASE ~(m = n /\ keysMade' = keysMade)
    <3>1. after + 1 <= before /\ (\/ m = n + 1 /\ keysMade' = keysMade
                                  \/ m = n /\ keysMade' = keysMade + 1)
      BY <1>6, <2>2
    <3>2. CASE m = n + 1 /\ keysMade' = keysMade
      <4>1. n + 1 + keysMade + after <= started
        BY <1>1, <1>6, <3>1
      <4> QED BY <3>2, <4>1
    <3>3. CASE m = n /\ keysMade' = keysMade + 1
      <4>1. n + (keysMade + 1) + after <= started
        BY <1>1, <1>6, <3>1
      <4> QED BY <3>3, <4>1
    <3> QED BY <3>1, <3>2, <3>3
  <2> QED BY <2>1, <2>2
<1> QED BY <1>1, <1>4, <1>5, <1>7 DEF CredentialCounts

(* Every token is within the bound of the requests.                        *)
LEMMA CredentialBounds ==
  ASSUME CredentialCounts, keysMade \in Nat
  PROVE  /\ Cre!Tokens \subseteq 1..MaxRequests
         /\ keysMade \in 0..MaxRequests
         /\ \A n \in Nat : Cre!Tokens = 1..n => n <= MaxRequests
<1>1. /\ started \in Nat /\ started <= MaxRequests
      /\ IsFiniteSet(WorkingSlots) /\ MaxRequests \in Nat
  BY ServingAssumption DEF CredentialCounts
<1>2. PICK n \in Nat : /\ Cre!Tokens = 1..n
                       /\ n + keysMade + Cardinality(WorkingSlots) <= started
  BY DEF CredentialCounts
<1>3. Cardinality(WorkingSlots) \in Nat
  BY <1>1, FS_CardinalityType
<1>4. n <= MaxRequests /\ keysMade <= MaxRequests
  BY <1>1, <1>2, <1>3
<1>5. ASSUME NEW m \in Nat, Cre!Tokens = 1..m PROVE m = n
  BY <1>2, <1>5
<1>6. 1..n \subseteq 1..MaxRequests
  BY <1>1, <1>4
<1> QED BY <1>1, <1>2, <1>4, <1>5, <1>6

(* A step on the slot that leaves the tables as they are.                  *)
LEMMA CredentialRowsStay ==
  ASSUME CredentialTablesInv, CredentialRows, NEW p \in Requests,
         CredentialSlotMoves(p), UNCHANGED <<started, tokens, used, keys, keysMade>>
  PROVE  CredentialRows'
<1>1. Cre!Tokens' = Cre!Tokens
  BY DEF Cre!Tokens
<1>2. PICK n \in Nat : Cre!Tokens = 1..n
  BY DEF CredentialTablesInv
<1>3. CredentialCounts'
  BY <1>1, <1>2, CredentialCountsStay DEF CredentialTablesInv, CredentialRows
<1>4. \A q \in Requests : req'[q] = Idle \/ req'[q].secret \in Cre!Secrets
  BY DEF CredentialSlotMoves, CredentialRows
<1> QED BY <1>1, <1>3, <1>4 DEF CredentialRows

(* The secrets of all requests, after a step on one slot.                  *)
LEMMA SecretsStay ==
  ASSUME CredentialRows, NEW p \in Requests, CredentialSlotMoves(p)
  PROVE  \A q \in Requests : req'[q] = Idle \/ req'[q].secret \in Cre!Secrets
  BY DEF CredentialSlotMoves, CredentialRows

(* createApiToken gives the next token to a user.                          *)
LEMMA TokenRows ==
  ASSUME CredentialTablesInv, CredentialRows,
         req \in [Requests -> CredentialRequests], NEW p \in Requests,
         Cre!InsertToken(p)
  PROVE  CredentialRows'
<1>1. req[p].step = "create_token" /\ Cre!GoTo(p, "audit")
  BY DEF Cre!InsertToken, Cre!At
<1>2. Working(req[p]) /\ CredentialSlotMoves(p) /\ ~Working(req'[p])
  BY <1>1, CredentialMoves DEF Working
<1>3. PICK n \in Nat : Cre!Tokens = 1..n
  BY DEF CredentialTablesInv
<1>4. Cre!Cardinality(Cre!Tokens) = n
  BY <1>3, FS_Interval, CredentialsCardinality
<1>5. PICK a : a = req[p].actor
  OBVIOUS
<1>6. /\ tokens' = [k \in (1..n) \cup {n + 1} |->
                      IF k = n + 1 THEN a ELSE tokens[k]]
      /\ UNCHANGED <<started, used, keys, keysMade>>
  BY <1>3, <1>4, <1>5 DEF Cre!InsertToken, Cre!Tokens, Cre!Quietly
<1>7. (1..n) \cup {n + 1} = 1..(n + 1) /\ n + 1 \in Nat
  OBVIOUS
<1>8. Cre!Tokens' = 1..(n + 1)
  BY <1>6, <1>7 DEF Cre!Tokens
<1>9. CredentialCounts'
  BY <1>2, <1>3, <1>6, <1>7, <1>8, CredentialCountsStay
     DEF CredentialTablesInv, CredentialRows
<1>10. tokens' = [t \in Cre!Tokens' |-> tokens'[t]]
  BY <1>6, <1>7, <1>8
<1>11. used' \subseteq Cre!Tokens'
  BY <1>3, <1>6, <1>7, <1>8 DEF CredentialRows
<1>12. \A q \in Requests : req'[q] = Idle \/ req'[q].secret \in Cre!Secrets
  BY <1>2, SecretsStay
<1> QED BY <1>6, <1>9, <1>10, <1>11, <1>12 DEF CredentialRows

(* addSshKey and deleteSshKey add a row, or remove one.                    *)
LEMMA KeyRows ==
  ASSUME CredentialTablesInv, CredentialRows,
         req \in [Requests -> CredentialRequests], NEW p \in Requests,
         Cre!AddSshKey(p) \/ Cre!DeleteSshKey(p)
  PROVE  CredentialRows'
<1>1. PICK n \in Nat : Cre!Tokens = 1..n
  BY DEF CredentialTablesInv
<1>2. keysMade \in Nat
  BY DEF CredentialTablesInv
<1>3. req[p].step \in {"add_key", "delete_key"} /\ Working(req[p])
  BY DEF Cre!AddSshKey, Cre!DeleteSshKey, Cre!At, Working
<1>4. CASE UNCHANGED <<keys, keysMade>>
  <2>1. Cre!Answer(p) \/ Cre!GoTo(p, "audit")
    BY DEF Cre!AddSshKey, Cre!DeleteSshKey
  <2>2. CredentialSlotMoves(p)
    BY <1>3, <2>1, CredentialMoves
  <2>3. UNCHANGED <<started, tokens, used>>
    BY DEF Cre!AddSshKey, Cre!DeleteSshKey, Cre!TablesUnchanged, Cre!Quietly
  <2> QED BY <1>4, <2>2, <2>3, CredentialRowsStay
<1>5. CASE ~UNCHANGED <<keys, keysMade>>
  <2>1. Cre!GoTo(p, "audit") /\ UNCHANGED <<started, tokens, used>>
    BY <1>5 DEF Cre!AddSshKey, Cre!DeleteSshKey, Cre!TablesUnchanged, Cre!Quietly
  <2>2. CredentialSlotMoves(p) /\ ~Working(req'[p])
    BY <1>3, <2>1, CredentialMoves DEF Working
  <2>3. Cre!Tokens' = Cre!Tokens
    BY <2>1 DEF Cre!Tokens
  <2>4. req[p] \in CredentialRecord /\ req[p].actor \in Users
    <3>1. req[p] \in CredentialRecord /\ req[p].actor \in Cre!Presented(req[p])
      BY <1>3 DEF CredentialRequests, Idle, Cre!Operations
    <3> QED BY <3>1 DEF Cre!Presented
  <2>5. /\ keysMade' = keysMade + 1 \/ keysMade' = keysMade
        /\ \A k \in DOMAIN keys' : keys'[k][1] \in Users
                                   /\ keys'[k][2] \in PublicKeys
    <3>1. \A k \in DOMAIN keys : keys[k][1] \in Users /\ keys[k][2] \in PublicKeys
      BY DEF CredentialRows
    <3>2. CASE Cre!AddSshKey(p)
      <4>1. PICK a, key, id : a = req[p].actor /\ key = req[p].key
                              /\ id = keysMade + 1
        OBVIOUS
      <4>2. a \in Users /\ key \in PublicKeys
        BY <2>4, <4>1 DEF CredentialRecord
      <4>3. /\ keys' = [k \in DOMAIN keys \cup {id} |->
                          IF k = id THEN <<a, key>> ELSE keys[k]]
            /\ keysMade' = id
        BY <1>5, <3>2, <4>1 DEF Cre!AddSshKey, Cre!TablesUnchanged
      <4> QED BY <3>1, <4>1, <4>2, <4>3
    <3>3. CASE Cre!DeleteSshKey(p)
      <4>1. /\ DOMAIN keys' \subseteq DOMAIN keys
            /\ \A k \in DOMAIN keys' : keys'[k] = keys[k]
            /\ keysMade' = keysMade
        BY <3>3 DEF Cre!DeleteSshKey
      <4> QED BY <3>1, <4>1
    <3> QED BY <3>2, <3>3
  <2>6. keysMade' \in Nat
    BY <1>2, <2>5
  <2>7. CredentialCounts'
    BY <1>1, <1>2, <1>3, <2>1, <2>2, <2>3, <2>5, <2>6, CredentialCountsStay
       DEF CredentialRows
  <2>8. \A q \in Requests : req'[q] = Idle \/ req'[q].secret \in Cre!Secrets
    BY <2>2, SecretsStay
  <2> QED BY <2>1, <2>3, <2>5, <2>7, <2>8 DEF CredentialRows
<1> QED BY <1>4, <1>5

(* Authentication, which may mark a token as used, and the other calls     *)
(* that leave the tables alone.                                            *)
LEMMA AuthenticationRows ==
  ASSUME CredentialTablesInv, CredentialRows,
         req \in [Requests -> CredentialRequests], NEW p \in Requests,
         Cre!Authenticate(p)
  PROVE  CredentialRows'
<1>1. /\ Working(req[p]) /\ UNCHANGED <<started, tokens, keys, keysMade>>
      /\ \/ Cre!Answer(p)
         \/ \E step : Cre!GoTo(p, step)
         \/ \E u : Cre!Authenticated(p, u)
  BY DEF Cre!Authenticate, Cre!CheckPassword, Cre!FindToken, Cre!TouchToken,
         Cre!FindOwner, Cre!TablesUnchanged, Cre!Quietly, Cre!At, Working
<1>2. CredentialSlotMoves(p)
  BY <1>1, CredentialMoves
<1>3. CASE UNCHANGED used
  BY <1>1, <1>2, <1>3, CredentialRowsStay
<1>4. CASE Cre!TouchToken(p)
  <2>1. req[p].step = "touch" /\ used' = used \cup {req[p].secret}
    BY <1>4 DEF Cre!TouchToken, Cre!At
  <2>2. req[p].secret \in Cre!Tokens
    BY <2>1 DEF CredentialRequests, Idle
  <2>3. Cre!Tokens' = Cre!Tokens
    BY <1>1 DEF Cre!Tokens
  <2>4. used' \subseteq Cre!Tokens'
    BY <2>1, <2>2, <2>3 DEF CredentialRows
  <2>5. PICK n \in Nat : Cre!Tokens = 1..n
    BY DEF CredentialTablesInv
  <2>6. CredentialCounts'
    BY <1>1, <1>2, <2>3, <2>5, CredentialCountsStay
       DEF CredentialTablesInv, CredentialRows
  <2>7. \A q \in Requests : req'[q] = Idle \/ req'[q].secret \in Cre!Secrets
    BY <1>2, SecretsStay
  <2> QED BY <1>1, <2>3, <2>4, <2>6, <2>7 DEF CredentialRows
<1> QED BY <1>3, <1>4
        DEF Cre!Authenticate, Cre!CheckPassword, Cre!FindToken, Cre!FindOwner,
            Cre!TablesUnchanged

(* An arrival: one more request at work, with a token that may be wrong.   *)
LEMMA ArrivalRows ==
  ASSUME CredentialTablesInv, CredentialRows, NEW p \in Requests,
         p \in DOMAIN req,
         NEW op \in Cre!Operations, NEW scheme, NEW name,
         NEW secret \in Passwords \cup 0..Cre!Cardinality(Cre!Tokens),
         NEW key, NEW id, Cre!Start(p, op, scheme, name, secret, key, id)
  PROVE  CredentialRows'
<1>1. /\ started < MaxRequests /\ started' = started + 1
      /\ UNCHANGED <<tokens, used, keys, keysMade>>
  BY DEF Cre!Start, Cre!Arrive, Cre!TablesUnchanged
<1>2. PICK record :
        /\ record = [step |-> IF scheme = "basic" THEN "password" ELSE "token",
                     op |-> op, scheme |-> scheme, name |-> name,
                     secret |-> secret, actor |-> Anonymous, key |-> key,
                     id |-> id]
        /\ req' = [req EXCEPT ![p] = record]
  BY DEF Cre!Start, Cre!Arrive, Cre!Becomes
<1>3. record.secret = secret
  BY <1>2
<1>4. req'[p] = record /\ \A q \in Requests \ {p} : req'[q] = req[q]
  BY <1>2
<1>5. PICK n \in Nat : Cre!Tokens = 1..n
  BY DEF CredentialTablesInv
<1>6. Cre!Cardinality(Cre!Tokens) = n
  BY <1>5, FS_Interval, CredentialsCardinality
<1>7. n <= MaxRequests /\ keysMade \in Nat
  BY <1>5, CredentialBounds DEF CredentialTablesInv, CredentialRows
<1>8. secret \in Cre!Secrets
  <2>1. \A i \in 0..n : i \in 0..MaxRequests
    BY <1>7, ServingAssumption
  <2> QED BY <1>6, <2>1 DEF Cre!Secrets
<1>9. \A q \in Requests : req'[q] = Idle \/ req'[q].secret \in Cre!Secrets
  BY <1>3, <1>4, <1>8 DEF CredentialRows
<1>10. Cre!Tokens' = Cre!Tokens
  BY <1>1 DEF Cre!Tokens
<1>11. CredentialCounts'
  <2>1. /\ started \in Nat /\ IsFiniteSet(WorkingSlots)
        /\ n + keysMade + Cardinality(WorkingSlots) <= started
    <3>1. PICK m \in Nat : /\ Cre!Tokens = 1..m
                           /\ m + keysMade + Cardinality(WorkingSlots) <= started
      BY DEF CredentialRows, CredentialCounts
    <3>2. m = n
      BY <1>5, <3>1
    <3> QED BY <3>1, <3>2 DEF CredentialRows, CredentialCounts
  <2>2. WorkingSlots' \subseteq WorkingSlots \cup {p}
    BY <1>4 DEF WorkingSlots
  <2>3. PICK S, T : S = WorkingSlots /\ T = WorkingSlots'
    OBVIOUS
  <2>4. /\ IsFiniteSet(T) /\ Cardinality(S) \in Nat /\ Cardinality(T) \in Nat
        /\ Cardinality(T) <= Cardinality(S) + 1
    BY <2>1, <2>2, <2>3, OneElement
  <2>5. PICK before, after : before = Cardinality(S) /\ after = Cardinality(T)
    OBVIOUS
  <2>6. n + keysMade + after <= started + 1
    <3>1. n + keysMade + before <= started
      BY <2>1, <2>3, <2>5
    <3>2. before \in Nat /\ after \in Nat /\ after <= before + 1
      BY <2>4, <2>5
    <3>3. started \in Nat /\ keysMade \in Nat
      BY <1>7, <2>1
    <3> QED BY <3>1, <3>2, <3>3
  <2>7. started' \in Nat /\ started' <= MaxRequests
    BY <1>1, <2>1, ServingAssumption
  <2>8. n + keysMade' + Cardinality(WorkingSlots') <= started'
    BY <1>1, <2>3, <2>5, <2>6
  <2>9. IsFiniteSet(WorkingSlots') /\ Cre!Tokens' = 1..n
    BY <1>5, <1>10, <2>3, <2>4
  <2> QED BY <2>7, <2>8, <2>9 DEF CredentialCounts
<1> QED BY <1>1, <1>9, <1>10, <1>11 DEF CredentialRows

(* Every step keeps the rows.                                              *)
LEMMA CredentialRowsKept ==
  ASSUME CredentialTablesInv, CredentialRows,
         req \in [Requests -> CredentialRequests], Cre!CredentialsNext
  PROVE  CredentialRows'
<1>1. ASSUME NEW p \in Requests,
             Cre!ListSshKeys(p) \/ Cre!Audit(p) \/ Cre!Fail(p)
      PROVE  CredentialRows'
  <2>1. Cre!Answer(p) /\ UNCHANGED <<started, tokens, used, keys, keysMade>>
    BY <1>1 DEF Cre!ListSshKeys, Cre!Audit, Cre!Fail, Cre!Record, Cre!Drop,
                Cre!TablesUnchanged, Cre!Quietly
  <2>2. CredentialSlotMoves(p)
    BY <2>1, CredentialMoves
  <2> QED BY <2>1, <2>2, CredentialRowsStay
<1>2. ASSUME NEW p \in Requests, NEW op \in Cre!Operations,
             NEW scheme \in {"basic", "bearer"}, NEW name \in Users,
             NEW secret \in Passwords \cup 0..Cre!Cardinality(Cre!Tokens),
             NEW key \in PublicKeys, NEW id \in 0..keysMade,
             Cre!Start(p, op, scheme, name, secret, key, id)
      PROVE  CredentialRows'
  <2>1. p \in DOMAIN req
    OBVIOUS
  <2> QED BY <1>2, <2>1, ArrivalRows
<1> QED BY <1>1, <1>2, AuthenticationRows, TokenRows, KeyRows
        DEF Cre!CredentialsNext

(* The credentials keep their types.                                       *)
LEMMA CredentialsTyped ==
  Spec => [](component = "credentials" => Cre!CredentialsTypeOK)
<1> DEFINE Typed == component = "credentials" => CredentialRows
<1>1. Init => Typed
  <2> SUFFICES ASSUME Init PROVE CredentialRows
    OBVIOUS
  <2>1. /\ req = [p \in Requests |-> Idle] /\ started = 0 /\ used = {}
        /\ tokens = Cre!NoRows /\ keys = Cre!NoRows /\ keysMade = 0
    BY CredentialAnswers DEF Init, Cre!CredentialsInit, Cre!ServingInit
  <2>2. /\ Cre!Tokens = 1..0 /\ DOMAIN keys = {}
        /\ tokens = [t \in Cre!Tokens |-> tokens[t]]
    BY <2>1 DEF Cre!NoRows, Cre!Tokens
  <2>3. WorkingSlots = {}
    BY <2>1 DEF WorkingSlots, Working, Idle
  <2>4. IsFiniteSet(WorkingSlots) /\ Cardinality(WorkingSlots) = 0
    BY <2>3, FS_EmptySet
  <2>5. CredentialCounts
    BY <2>1, <2>2, <2>4, ServingAssumption DEF CredentialCounts
  <2> QED BY <2>1, <2>2, <2>5 DEF CredentialRows
<1>2. CredentialsInv /\ Typed /\ [Next]_vars => Typed'
  <2> SUFFICES ASSUME CredentialsInv, Typed, [Next]_vars,
                      component' = "credentials"
               PROVE  CredentialRows'
    OBVIOUS
  <2>1. /\ component = "credentials" /\ CredentialRows /\ CredentialTablesInv
        /\ [Cre!CredentialsNext]_Cre!credentialsVars
        /\ req \in [Requests -> CredentialRequests]
    BY OneComponent DEF CredentialsInv
  <2>2. CASE Cre!CredentialsNext
    BY <2>1, <2>2, CredentialRowsKept
  <2>3. CASE UNCHANGED Cre!credentialsVars
    BY <2>1, <2>3 DEF Cre!credentialsVars, CredentialRows, CredentialCounts,
                      WorkingSlots, Cre!Tokens
  <2> QED BY <2>1, <2>2, <2>3
<1>3. CredentialsInv /\ Typed
        => (component = "credentials" => Cre!CredentialsTypeOK)
  <2> SUFFICES ASSUME CredentialsInv, Typed, component = "credentials"
               PROVE  Cre!CredentialsTypeOK
    OBVIOUS
  <2>1. /\ CredentialRows /\ CredentialTablesInv
        /\ req \in [Requests -> CredentialRequests]
    BY DEF CredentialsInv
  <2>2. /\ Cre!Tokens \subseteq 1..MaxRequests /\ keysMade \in 0..MaxRequests
    BY <2>1, CredentialBounds DEF CredentialRows, CredentialTablesInv
  <2>3. DOMAIN keys \subseteq Cre!KeyIds
    BY <2>1, <2>2, ServingAssumption DEF CredentialTablesInv, Cre!KeyIds
  <2>4. tokens \in [Cre!Tokens -> Users]
    BY <2>1 DEF CredentialRows, CredentialTablesInv
  <2>5. req \in [Requests -> Cre!Request]
    <3> SUFFICES ASSUME NEW p \in Requests PROVE req[p] \in Cre!Request
      BY <2>1
    <3>1. CASE req[p] = Idle
      BY <3>1, CredentialAnswers DEF Cre!Request
    <3>2. CASE req[p] # Idle
      <4>1. PICK q : q = req[p]
        OBVIOUS
      <4>2. q \in CredentialRecord /\ q.secret \in Cre!Secrets
        BY <2>1, <3>2, <4>1 DEF CredentialRows, CredentialRequests
      <4>3. q \in Cre!Request
        BY <4>2 DEF CredentialRecord, Cre!Request, Cre!Actors, Actors
      <4> QED BY <4>1, <4>3
    <3> QED BY <3>1, <3>2
  <2> QED BY <2>1, <2>2, <2>3, <2>4, <2>5
          DEF CredentialRows, CredentialCounts, Cre!CredentialsTypeOK
<1> QED BY <1>1, <1>2, <1>3, CredentialsInvariant, PTL DEF Spec

(* The component is chosen once, of nine.                                  *)
OneOfNine ==
  component \in {"registry", "teams", "projects", "releases", "webhooks",
                 "wiki", "credentials", "sql", "cgi"}

LEMMA OneOfNineAlways == Spec => []OneOfNine
<1>1. Init => OneOfNine
  BY DEF Init, OneOfNine
<1>2. OneOfNine /\ [Next]_vars => OneOfNine'
  BY OneComponent DEF OneOfNine
<1> QED BY <1>1, <1>2, PTL DEF Spec

(* The nine components keep their types, the one that runs and those that  *)
(* do not: tables hold rows of existing teams, users, tags and webhooks,   *)
(* requests hold what their operation reads and writes, ids and versions   *)
(* stay within the number of requests, and the positions of the two        *)
(* searches stay in their texts (phase2_service.ts, phase3_service.ts,     *)
(* libsql_driver.ts, git_http_gateway.ts).                                 *)
THEOREM TypeOKAlways == Spec => []TypeOK
<1>1. Wik!WikiInv => Wik!WikiTypeOK
  BY DEF Wik!WikiInv
<1>2. Reg!RegistryInv => Reg!RegistryTypeOK
  BY DEF Reg!RegistryInv
<1>3. SqlInv => Sql!SqlTypeOK
  BY DEF SqlInv
<1>4. CgiInv => Cgi!CgiTypeOK
  BY DEF CgiInv
<1>5. ASSUME OneOfNine,
             component = "registry" => Reg!RegistryTypeOK,
             component = "teams" => Tea!TeamsTypeOK,
             component = "projects" => Pro!ProjectsTypeOK,
             component = "releases" => Rel!ReleasesTypeOK,
             component = "webhooks" => Web!WebhooksTypeOK,
             component = "wiki" => Wik!WikiTypeOK,
             component = "credentials" => Cre!CredentialsTypeOK,
             Sql!SqlTypeOK, Cgi!CgiTypeOK
      PROVE  TypeOK
  BY <1>5, Zenon DEF OneOfNine, TypeOK
<1> QED BY <1>1, <1>2, <1>3, <1>4, <1>5, OneOfNineAlways, RegistryInvariant,
           TeamsTyped, ProjectsTyped, ReleasesTyped, WebhooksTyped,
           WikiInvariant, CredentialsTyped, SqlInvariant, CgiInvariant, PTL
=============================================================================
