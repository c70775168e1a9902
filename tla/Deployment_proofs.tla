------------------------- MODULE Deployment_proofs -------------------------
(***************************************************************************)
(* Proofs about Deployment, for every number of scripts: the current link  *)
(* points to a complete binary, a lone backup is cold.                     *)
(***************************************************************************)
EXTENDS Deployment, TLAPS

AllSteps == BackupSteps \cup DeploySteps \cup RollbackSteps

(* The records of scripts that are running.                                *)
Running ==
  [step : AllSteps, kind : {"deploy", "backup", "rollback"},
   release : Releases, was : BOOLEAN, hot : BOOLEAN, alone : BOOLEAN]

LEMMA StepNames == "idle" \notin AllSteps
  BY DEF AllSteps, BackupSteps, DeploySteps, RollbackSteps

LEMMA ScriptKinds == Script = {Idle} \cup Running
  BY DEF Script, Running, AllSteps

LEMMA RunningRecord ==
  ASSUME script \in [Scripts -> Script], NEW s \in Scripts, ~At(s, "idle")
  PROVE  script[s] \in Running
  BY ScriptKinds DEF At, Idle

(* A script has the record r but for what it has copied meanwhile.         *)
Follows(slot, r) ==
  /\ slot.step = r.step
  /\ slot.step # "idle" =>
       /\ slot.kind = r.kind /\ slot.release = r.release
       /\ slot.was = r.was /\ slot.alone = r.alone
       /\ slot.step # "copy" => slot.hot = r.hot
       /\ slot.hot = (r.hot \/ (r.step = "copy" /\ service' = "active"))

(* A step of a script changes its own slot; another one may notice that it *)
(* copies from an active service.                                          *)
LEMMA BecomesSlots ==
  ASSUME script \in [Scripts -> Script], NEW s \in Scripts,
         NEW next \in Script, Becomes(s, next)
  PROVE  /\ script' \in [Scripts -> Script]
         /\ Follows(script'[s], next)
         /\ \A t \in Scripts \ {s} : Follows(script'[t], script[t])
<1> DEFINE Noting(r) == IF r.step = "copy" /\ service' = "active"
                          THEN [r EXCEPT !.hot = TRUE] ELSE r
<1>1. ASSUME NEW r \in Script
      PROVE  Noting(r) \in Script /\ Follows(Noting(r), r)
  <2>1. CASE r = Idle
    BY <2>1 DEF Idle, Script, Follows
  <2>2. CASE r \in Running
    BY <2>2, ScriptKinds DEF Running, Follows
  <2> QED BY <2>1, <2>2, ScriptKinds
<1> HIDE DEF Noting
<1>2. script' = [t \in Scripts |-> Noting(IF t = s THEN next ELSE script[t])]
  BY DEF Becomes, Noting
<1> QED BY <1>1, <1>2

(* Moving on keeps everything but the step.                                *)
LEMMA GoToSlots ==
  ASSUME script \in [Scripts -> Script], NEW s \in Scripts, ~At(s, "idle"),
         NEW step \in AllSteps, GoTo(s, step)
  PROVE  \E next \in Running :
           /\ Becomes(s, next)
           /\ next.step = step
           /\ next.kind = script[s].kind /\ next.release = script[s].release
           /\ next.was = script[s].was /\ next.alone = script[s].alone
           /\ next.hot = script[s].hot
<1> DEFINE next == [script[s] EXCEPT !.step = step]
<1>1. script[s] \in Running
  BY RunningRecord
<1>2. /\ next \in Running /\ next.step = step
      /\ next.kind = script[s].kind /\ next.release = script[s].release
      /\ next.was = script[s].was /\ next.alone = script[s].alone
      /\ next.hot = script[s].hot
  BY <1>1 DEF Running
<1>3. Becomes(s, next)
  BY DEF GoTo
<1> HIDE DEF next
<1> QED BY <1>2, <1>3
-----------------------------------------------------------------------------
(***************************************************************************)
(* The inductive invariant about releases.  A name that one deployment     *)
(* owns has no manifest before its checksum was compared, and nobody       *)
(* writes to it afterwards; only what has a manifest, or a rollback that   *)
(* took the risk, becomes current.                                         *)
(***************************************************************************)
UploadSteps == {"mkdir", "upload", "uploading", "chmod", "checksum", "record"}

Uploading(s) == script[s].step \in UploadSteps

Placed ==
  \A s \in Scripts :
    /\ Uploading(s) /\ ~At(s, "mkdir") => script[s].release \in directories
    /\ script[s].step \in {"checksum", "record", "switch"} =>
         script[s].release \in executable

Owned ==
  \A s, t \in Scripts :
    /\ s # t
    /\ Uploading(s)
    /\ Uploading(t)
    /\ script[s].release = script[t].release
    => script[s].release \in shared

Fresh ==
  \A s \in Scripts :
    Uploading(s) /\ script[s].release \in manifests =>
      script[s].release \in shared

Compared ==
  \A s \in Scripts :
    At(s, "record") => \/ binary[script[s].release] = "complete"
                       \/ script[s].release \in shared

ManifestsAreTrue ==
  \A r \in manifests : binary[r] = "complete" \/ r \in shared

CurrentIsKnown == current \in manifests \cup gambled

ReleaseInv ==
  /\ TypeOK
  /\ Placed
  /\ Owned
  /\ Fresh
  /\ Compared
  /\ ManifestsAreTrue
  /\ CurrentIsKnown

LEMMA InitInv == Init => ReleaseInv
<1> SUFFICES ASSUME Init PROVE ReleaseInv
  OBVIOUS
<1> USE DEF Init, Idle
<1>1. 0 \in Releases /\ 1 \in Releases /\ 0 \in 0..MaxRuns
  BY DeploymentAssumption DEF Releases
<1>2. TypeOK
  BY <1>1 DEF TypeOK, Script, Service
<1>3. Placed /\ Owned /\ Fresh /\ Compared
  BY DEF Placed, Owned, Fresh, Compared, Uploading, UploadSteps, At
<1>4. ManifestsAreTrue /\ CurrentIsKnown
  BY <1>1 DEF ManifestsAreTrue, CurrentIsKnown
<1> QED BY <1>2, <1>3, <1>4 DEF ReleaseInv

(* A script that goes on without touching a release, to a step that does   *)
(* not depend on one.                                                      *)
LEMMA QuietStep ==
  ASSUME ReleaseInv, NEW s \in Scripts, NEW next \in Script,
         next.step \notin UploadSteps \cup {"switch"},
         script' \in [Scripts -> Script],
         script'[s].step = next.step,
         \A t \in Scripts \ {s} :
           /\ script'[t].step = script[t].step
           /\ script[t].step # "idle" =>
                script'[t].release = script[t].release,
         LinkUnchanged, ReleasesUnchanged, NamesUnchanged,
         runs' \in 0..MaxRuns, service' \in Service, unprotected' \in BOOLEAN
  PROVE  ReleaseInv'
<1> USE DEF ReleaseInv, LinkUnchanged, ReleasesUnchanged, NamesUnchanged
<1>1. TypeOK'
  BY DEF TypeOK
<1>2. Placed'
  BY DEF Placed, Uploading, UploadSteps, At
<1>3. Owned'
  BY DEF Owned, Uploading, UploadSteps
<1>4. Fresh'
  BY DEF Fresh, Uploading, UploadSteps
<1>5. Compared'
  BY DEF Compared, UploadSteps, At
<1>6. ManifestsAreTrue' /\ CurrentIsKnown'
  BY DEF ManifestsAreTrue, CurrentIsKnown
<1> QED BY <1>1, <1>2, <1>3, <1>4, <1>5, <1>6

(* ... by a Becomes.                                                       *)
LEMMA QuietBecomes ==
  ASSUME ReleaseInv, NEW s \in Scripts, NEW next \in Script,
         next.step \notin UploadSteps \cup {"switch"}, Becomes(s, next),
         LinkUnchanged, ReleasesUnchanged, NamesUnchanged,
         runs' \in 0..MaxRuns, service' \in Service, unprotected' \in BOOLEAN
  PROVE  ReleaseInv'
<1>1. script \in [Scripts -> Script]
  BY DEF ReleaseInv, TypeOK
<1>2. /\ script' \in [Scripts -> Script]
      /\ script'[s].step = next.step
      /\ \A t \in Scripts \ {s} :
           /\ script'[t].step = script[t].step
           /\ script[t].step # "idle" =>
                script'[t].release = script[t].release
  BY <1>1, BecomesSlots DEF Follows
<1> QED BY <1>2, QuietStep

(* A script is started.                                                    *)
LEMMA RunStep ==
  ASSUME ReleaseInv, NEW s \in Scripts,
         NEW kind \in {"deploy", "backup", "rollback"}, NEW target \in Releases,
         Run(s, kind, target)
  PROVE  ReleaseInv'
<1> DEFINE alone == \A t \in Scripts : At(t, "idle")
           first == IF kind = "rollback" THEN "find" ELSE "is_active"
           next == [step |-> first, kind |-> kind, release |-> target,
                    was |-> FALSE, hot |-> FALSE, alone |-> alone]
           Crowded(t) == IF At(t, "idle") THEN Idle
                                          ELSE [script[t] EXCEPT !.alone = FALSE]
<1>1. TypeOK /\ script \in [Scripts -> Script]
  BY DEF ReleaseInv, TypeOK
<1>2. first \in AllSteps /\ first \notin UploadSteps \cup {"switch"}
  BY DEF AllSteps, BackupSteps, RollbackSteps, UploadSteps
<1>3. alone \in BOOLEAN
  OBVIOUS
<1> HIDE DEF first, alone
<1>4. next \in Running /\ next.step = first
  BY <1>2, <1>3 DEF Running
<1>5. \A t \in Scripts :
        /\ Crowded(t) \in Script
        /\ Crowded(t).step = script[t].step
        /\ script[t].step # "idle" => Crowded(t).release = script[t].release
  <2> SUFFICES ASSUME NEW t \in Scripts
               PROVE  /\ Crowded(t) \in Script
                      /\ Crowded(t).step = script[t].step
                      /\ script[t].step # "idle" =>
                           Crowded(t).release = script[t].release
    OBVIOUS
  <2>1. CASE At(t, "idle")
    BY <2>1 DEF At, Idle, Script
  <2>2. CASE ~At(t, "idle")
    <3>1. script[t] \in Running
      BY <1>1, <2>2, RunningRecord
    <3> QED BY <2>2, <3>1, ScriptKinds DEF Running
  <2> QED BY <2>1, <2>2
<1>6. /\ script' = [t \in Scripts |-> IF t = s THEN next ELSE Crowded(t)]
      /\ LinkUnchanged /\ ReleasesUnchanged /\ NamesUnchanged
      /\ UNCHANGED <<service, unprotected>>
      /\ runs < MaxRuns /\ runs' = runs + 1
  BY DEF Run, first, alone
<1> HIDE DEF Crowded, next
<1>7. /\ script' \in [Scripts -> Script]
      /\ script'[s].step = next.step
      /\ \A t \in Scripts \ {s} :
           /\ script'[t].step = script[t].step
           /\ script[t].step # "idle" =>
                script'[t].release = script[t].release
  BY <1>4, <1>5, <1>6, ScriptKinds
<1>8. /\ runs' \in 0..MaxRuns /\ service' \in Service
      /\ unprotected' \in BOOLEAN
  BY <1>1, <1>6, DeploymentAssumption DEF TypeOK
<1>9. next \in Script
  BY <1>4, ScriptKinds
<1> QED BY <1>2, <1>4, <1>6, <1>7, <1>8, <1>9, QuietStep

(* The steps of a backup, the restart and the verification touch no        *)
(* release.                                                                *)
LEMMA ServiceStep ==
  ASSUME ReleaseInv, NEW s \in Scripts,
         \/ StopService(s) \/ SetTrap(s) \/ Copy(s) \/ StartService(s)
         \/ Restart(s)
  PROVE  ReleaseInv'
<1> DEFINE Steps == {"set_trap", "copy", "start", "manifest", "verify"}
<1>1. /\ TypeOK /\ script \in [Scripts -> Script]
      /\ runs \in 0..MaxRuns /\ service \in Service /\ unprotected \in BOOLEAN
  BY DEF ReleaseInv, TypeOK
<1>2. /\ ~At(s, "idle")
      /\ \E step \in Steps : GoTo(s, step)
      /\ LinkUnchanged /\ ReleasesUnchanged /\ NamesUnchanged
      /\ UNCHANGED <<runs, unprotected>>
  BY DEF StopService, SetTrap, Copy, StartService, Restart, OnlyScript,
         OnlyService, At
<1>3. service' \in Service
  BY <1>1 DEF StopService, SetTrap, Copy, StartService, Restart, Started,
              RestartServiceIfNeeded, Service
<1>4. PICK step \in Steps : GoTo(s, step)
  BY <1>2
<1>5. step \in AllSteps /\ step \notin UploadSteps \cup {"switch"}
  BY DEF AllSteps, BackupSteps, RollbackSteps, UploadSteps
<1>6. PICK next \in Running : Becomes(s, next) /\ next.step = step
  BY <1>1, <1>2, <1>4, <1>5, GoToSlots
<1>7. next \in Script
  BY ScriptKinds
<1> QED BY <1>1, <1>2, <1>3, <1>5, <1>6, <1>7, QuietBecomes

(* is-active, whose answer the script keeps.                               *)
LEMMA IsActiveStep ==
  ASSUME ReleaseInv, NEW s \in Scripts, IsActive(s)
  PROVE  ReleaseInv'
<1> DEFINE step == IF service = "active" THEN "stop" ELSE "set_trap"
           next == [script[s] EXCEPT !.was = service = "active", !.step = step]
<1>1. /\ TypeOK /\ script \in [Scripts -> Script]
      /\ runs \in 0..MaxRuns /\ service \in Service /\ unprotected \in BOOLEAN
  BY DEF ReleaseInv, TypeOK
<1>2. script[s] \in Running
  BY <1>1, RunningRecord DEF IsActive, At
<1>3. step \in AllSteps /\ step \notin UploadSteps \cup {"switch"}
  BY DEF AllSteps, BackupSteps, UploadSteps
<1> HIDE DEF step
<1>4. next \in Running /\ next.step = step
  BY <1>2, <1>3 DEF Running
<1>5. /\ Becomes(s, next)
      /\ LinkUnchanged /\ ReleasesUnchanged /\ NamesUnchanged
      /\ UNCHANGED <<runs, service, unprotected>>
  BY DEF IsActive, OnlyScript, OnlyService, step
<1>6. next \in Script
  BY <1>4, ScriptKinds
<1> HIDE DEF next
<1> QED BY <1>1, <1>3, <1>4, <1>5, <1>6, QuietBecomes

(* What ends a script, wherever that is, and what only ends a backup.      *)
LEMMA EndStep ==
  ASSUME ReleaseInv, NEW s \in Scripts,
         EndBackup(s) \/ Verify(s) \/ Fail(s) \/ Signal(s) \/ Kill(s)
  PROVE  ReleaseInv'
<1>1. /\ TypeOK /\ script \in [Scripts -> Script]
      /\ runs \in 0..MaxRuns /\ service \in Service /\ unprotected \in BOOLEAN
  BY DEF ReleaseInv, TypeOK
<1>2. /\ LinkUnchanged /\ ReleasesUnchanged /\ NamesUnchanged
      /\ UNCHANGED runs
      /\ ~At(s, "idle")
  BY DEF EndBackup, Verify, Fail, Signal, Kill, OnlyScript, OnlyService, At
<1>3. service' \in Service
  BY <1>1 DEF EndBackup, Verify, Fail, Signal, Kill, OnlyScript, OnlyService,
              RestartServiceIfNeeded, Started, Service
<1>4. unprotected' \in BOOLEAN
  BY <1>1 DEF EndBackup, Verify, Fail, Signal, Kill, OnlyScript, OnlyService
<1>5. script[s] \in Running
  BY <1>1, <1>2, RunningRecord
<1>6. \E next \in Script : /\ next.step \notin UploadSteps \cup {"switch"}
                          /\ Becomes(s, next)
  <2>1. /\ Idle \in Script
        /\ Idle.step \notin UploadSteps \cup {"switch"}
    BY DEF Idle, Script, UploadSteps
  <2>2. CASE Becomes(s, Idle)
    BY <2>1, <2>2
  <2>3. CASE EndBackup(s) /\ Becomes(s, [script[s] EXCEPT !.step = "name"])
    <3> DEFINE next == [script[s] EXCEPT !.step = "name"]
    <3>1. next \in Running /\ next.step = "name"
      BY <1>5 DEF Running, AllSteps, DeploySteps
    <3> HIDE DEF next
    <3> QED BY <2>3, <3>1, ScriptKinds DEF UploadSteps, next
  <2>4. CASE Signal(s)
    <3> DEFINE next == [script[s] EXCEPT !.alone = FALSE]
    <3>1. next \in Running /\ next.step = "copy" /\ Becomes(s, next)
      BY <1>5, <2>4 DEF Running, Signal, At
    <3> HIDE DEF next
    <3> QED BY <3>1, ScriptKinds DEF UploadSteps
  <2> QED BY <2>2, <2>3, <2>4 DEF EndBackup, Verify, Fail, Kill
<1> QED BY <1>1, <1>2, <1>3, <1>4, <1>6, QuietBecomes
-----------------------------------------------------------------------------
(* What the steps below see of the other scripts.                          *)
OthersSame(s) ==
  \A t \in Scripts \ {s} :
    /\ script'[t].step = script[t].step
    /\ script[t].step # "idle" => script'[t].release = script[t].release

LEMMA GoToRelease ==
  ASSUME ReleaseInv, NEW s \in Scripts, ~At(s, "idle"),
         NEW step \in AllSteps, GoTo(s, step)
  PROVE  /\ script' \in [Scripts -> Script]
         /\ script'[s].step = step
         /\ script'[s].release = script[s].release
         /\ script[s].release \in Releases
         /\ OthersSame(s)
<1>1. script \in [Scripts -> Script]
  BY DEF ReleaseInv, TypeOK
<1>2. script[s] \in Running
  BY <1>1, RunningRecord
<1>3. PICK next \in Running : /\ Becomes(s, next)
                              /\ next.step = step
                              /\ next.release = script[s].release
  BY <1>1, GoToSlots
<1>4. next \in Script /\ next.step # "idle"
  BY <1>3, ScriptKinds, StepNames
<1> QED
  BY <1>1, <1>2, <1>3, <1>4, BecomesSlots DEF Follows, OthersSame, Running

(* A script moves on with its release, which stays as it was.              *)
LEMMA MoveStep ==
  ASSUME ReleaseInv, NEW s \in Scripts, ~At(s, "idle"),
         NEW step \in AllSteps,
         script' \in [Scripts -> Script],
         script'[s].step = step,
         script'[s].release = script[s].release,
         OthersSame(s),
         LinkUnchanged, ReleasesUnchanged, NamesUnchanged,
         UNCHANGED <<runs, service, unprotected>>,
         step \in UploadSteps => Uploading(s) /\ ~At(s, "mkdir"),
         step \in {"checksum", "record", "switch"} =>
           script[s].release \in executable,
         step = "record" => binary[script[s].release] = "complete"
  PROVE  ReleaseInv'
<1> USE DEF ReleaseInv, LinkUnchanged, ReleasesUnchanged, NamesUnchanged,
            OthersSame
<1>1. TypeOK'
  BY DEF TypeOK
<1>2. Placed'
  BY DEF Placed, Uploading, UploadSteps, At
<1>3. Owned'
  BY DEF Owned, Uploading, UploadSteps
<1>4. Fresh'
  BY DEF Fresh, Uploading, UploadSteps
<1>5. Compared'
  BY DEF Compared, UploadSteps, At
<1>6. ManifestsAreTrue' /\ CurrentIsKnown'
  BY DEF ManifestsAreTrue, CurrentIsKnown
<1> QED BY <1>1, <1>2, <1>3, <1>4, <1>5, <1>6

(* The checksum is compared: only what is complete gets to the manifest.   *)
LEMMA CompareStep ==
  ASSUME ReleaseInv, NEW s \in Scripts, CompareChecksums(s)
  PROVE  ReleaseInv'
<1>1. /\ ~At(s, "idle") /\ At(s, "checksum")
      /\ LinkUnchanged /\ ReleasesUnchanged /\ NamesUnchanged
      /\ UNCHANGED <<runs, service, unprotected>>
  BY DEF CompareChecksums, At, OnlyScript, OnlyService
<1>2. TypeOK
  BY DEF ReleaseInv
<1>3. CASE Becomes(s, Idle)
  <2>1. /\ Idle \in Script
        /\ Idle.step \notin UploadSteps \cup {"switch"}
    BY DEF Idle, Script, UploadSteps
  <2> QED BY <1>1, <1>2, <1>3, <2>1, QuietBecomes DEF TypeOK
<1>4. CASE binary[script[s].release] = "complete" /\ GoTo(s, "record")
  <2>1. "record" \in AllSteps
    BY DEF AllSteps, DeploySteps
  <2>2. script[s].release \in executable
    BY <1>1 DEF ReleaseInv, Placed, At
  <2>3. Uploading(s) /\ ~At(s, "mkdir")
    BY <1>1 DEF Uploading, UploadSteps, At
  <2> QED
    BY <1>1, <1>4, <2>1, <2>2, <2>3, GoToRelease, MoveStep
<1> QED BY <1>3, <1>4 DEF CompareChecksums, GoTo

(* rollback.sh accepts a release with an executable binary.                *)
LEMMA FindTargetStep ==
  ASSUME ReleaseInv, NEW s \in Scripts, FindTarget(s)
  PROVE  ReleaseInv'
<1>1. /\ ~At(s, "idle")
      /\ LinkUnchanged /\ ReleasesUnchanged /\ NamesUnchanged
      /\ UNCHANGED <<runs, service, unprotected>>
  BY DEF FindTarget, At, OnlyScript, OnlyService
<1>2. TypeOK
  BY DEF ReleaseInv
<1>3. CASE Becomes(s, Idle)
  <2>1. /\ Idle \in Script
        /\ Idle.step \notin UploadSteps \cup {"switch"}
    BY DEF Idle, Script, UploadSteps
  <2> QED BY <1>1, <1>2, <1>3, <2>1, QuietBecomes DEF TypeOK
<1>4. CASE script[s].release \in executable /\ GoTo(s, "switch")
  <2>1. "switch" \in AllSteps /\ "switch" \notin UploadSteps
    BY DEF AllSteps, DeploySteps, UploadSteps
  <2> QED BY <1>1, <1>4, <2>1, GoToRelease, MoveStep
<1> QED BY <1>3, <1>4 DEF FindTarget, GoTo

(* A release gets its name: it has no directory and no other owner, or the *)
(* name is shared.                                                         *)
LEMMA NameReleaseStep ==
  ASSUME ReleaseInv, NEW s \in Scripts, NameRelease(s)
  PROVE  ReleaseInv'
<1>1. /\ TypeOK /\ script \in [Scripts -> Script]
      /\ clock \in Releases /\ shared \subseteq Releases
      /\ manifests \subseteq directories
  BY DEF ReleaseInv, TypeOK
<1>2. PICK r \in {clock, clock + 1} \cap Releases :
        /\ clock' = r
        /\ shared' = IF \/ r \in directories
                        \/ \E t \in Scripts \ {s} : /\ ~At(t, "idle")
                                                    /\ script[t].release = r
                       THEN shared \cup {r} ELSE shared
        /\ Becomes(s, [script[s] EXCEPT !.release = r, !.step = "mkdir"])
  BY DEF NameRelease
<1> DEFINE next == [script[s] EXCEPT !.release = r, !.step = "mkdir"]
<1>3. script[s] \in Running
  BY <1>1, RunningRecord DEF NameRelease, At
<1>4. next \in Running /\ next.step = "mkdir" /\ next.release = r
  BY <1>3 DEF Running, AllSteps, DeploySteps
<1>5. next \in Script /\ Becomes(s, next)
  BY <1>2, <1>4, ScriptKinds
<1> HIDE DEF next
<1>6. /\ script' \in [Scripts -> Script]
      /\ script'[s].step = "mkdir" /\ script'[s].release = r
      /\ OthersSame(s)
  BY <1>1, <1>4, <1>5, BecomesSlots DEF Follows, OthersSame
<1>7. /\ UNCHANGED <<service, runs, unprotected, current, gambled, binary,
                     directories, executable, manifests>>
      /\ shared \subseteq shared' /\ shared' \subseteq Releases
      /\ r \in Releases
  BY <1>1, <1>2 DEF NameRelease, LinkUnchanged, ReleasesUnchanged
<1> USE DEF ReleaseInv, OthersSame
<1>8. TypeOK'
  BY <1>2, <1>6, <1>7 DEF TypeOK
<1>9. Placed'
  BY <1>6, <1>7 DEF Placed, Uploading, UploadSteps, At
<1>10. \A t \in Scripts \ {s} :
         Uploading(t) /\ script[t].release = r => r \in shared'
  BY <1>2 DEF Uploading, UploadSteps, At
<1>11. Owned'
  BY <1>6, <1>7, <1>10 DEF Owned, Uploading, UploadSteps
<1>12. Fresh'
  <2>1. r \in manifests => r \in shared'
    BY <1>1, <1>2
  <2> QED BY <1>6, <1>7, <2>1 DEF Fresh, Uploading, UploadSteps
<1>13. Compared'
  BY <1>6, <1>7 DEF Compared, At
<1>14. ManifestsAreTrue' /\ CurrentIsKnown'
  BY <1>7 DEF ManifestsAreTrue, CurrentIsKnown
<1> QED BY <1>8, <1>9, <1>11, <1>12, <1>13, <1>14

(* mkdir and chmod.                                                        *)
LEMMA PrepareStep ==
  ASSUME ReleaseInv, NEW s \in Scripts, MakeDirectory(s) \/ MakeExecutable(s)
  PROVE  ReleaseInv'
<1> DEFINE r == script[s].release
           step == IF MakeDirectory(s) THEN "upload" ELSE "checksum"
<1>1. /\ Uploading(s) /\ ~At(s, "idle") /\ GoTo(s, step)
      /\ At(s, "mkdir") <=> step = "upload"
      /\ UNCHANGED <<current, gambled, clock, shared, binary, manifests, runs,
                     service, unprotected>>
      /\ directories' = IF step = "upload" THEN directories \cup {r}
                                           ELSE directories
      /\ executable' = IF step = "upload" THEN executable
                                          ELSE executable \cup {r}
  BY DEF MakeDirectory, MakeExecutable, Uploading, UploadSteps, At,
         LinkUnchanged, NamesUnchanged
<1>2. step \in AllSteps /\ step \in {"upload", "checksum"}
  BY DEF AllSteps, DeploySteps
<1> HIDE DEF step
<1>3. /\ script' \in [Scripts -> Script]
      /\ script'[s].step = step
      /\ script'[s].release = r
      /\ r \in Releases
      /\ OthersSame(s)
  BY <1>1, <1>2, GoToRelease
<1> HIDE DEF r
<1> USE DEF ReleaseInv, OthersSame
<1>4. step = "checksum" => r \in directories
  BY <1>1 DEF Placed, r
<1>5. TypeOK'
  BY <1>1, <1>2, <1>3, <1>4 DEF TypeOK
<1>6. Placed'
  BY <1>1, <1>2, <1>3, <1>4 DEF Placed, Uploading, UploadSteps, At
<1>7. Owned' /\ Fresh'
  BY <1>1, <1>3 DEF Owned, Fresh, Uploading, UploadSteps, r
<1>8. Compared'
  BY <1>1, <1>2, <1>3 DEF Compared, At
<1>9. ManifestsAreTrue' /\ CurrentIsKnown'
  BY <1>1 DEF ManifestsAreTrue, CurrentIsKnown
<1> QED BY <1>5, <1>6, <1>7, <1>8, <1>9

(* scp writes: the release is the script's own, or its name is shared.     *)
LEMMA UploadStep ==
  ASSUME ReleaseInv, NEW s \in Scripts, BeginUpload(s) \/ EndUpload(s)
  PROVE  ReleaseInv'
<1> DEFINE r == script[s].release
           step == IF BeginUpload(s) THEN "uploading" ELSE "chmod"
<1>1. /\ Uploading(s) /\ ~At(s, "idle") /\ ~At(s, "mkdir") /\ ~At(s, "record")
      /\ GoTo(s, step)
      /\ UNCHANGED <<current, gambled, clock, shared, directories, manifests,
                     runs, service, unprotected>>
      /\ \E bytes \in {"broken", "complete"} :
           binary' = [binary EXCEPT ![r] = bytes]
      /\ executable' \in {executable, executable \cup {r}}
  BY DEF BeginUpload, EndUpload, Uploading, UploadSteps, At, LinkUnchanged,
         NamesUnchanged
<1>2. step \in AllSteps /\ step \in {"uploading", "chmod"}
  BY DEF AllSteps, DeploySteps
<1> HIDE DEF step
<1>3. /\ script' \in [Scripts -> Script]
      /\ script'[s].step = step
      /\ script'[s].release = r
      /\ r \in Releases
      /\ OthersSame(s)
  BY <1>1, <1>2, GoToRelease
<1> USE DEF ReleaseInv
<1>4. r \in directories
  BY <1>1 DEF Placed
<1>5. /\ r \in manifests => r \in shared
      /\ \A t \in Scripts \ {s} :
           Uploading(t) /\ script[t].release = r => r \in shared
  BY <1>1 DEF Fresh, Owned
<1> HIDE DEF r
<1>6. /\ binary' \in [Releases -> {"none", "broken", "complete"}]
      /\ \A x \in Releases \ {r} : binary'[x] = binary[x]
  BY <1>1 DEF TypeOK
<1> USE DEF OthersSame
<1>7. TypeOK'
  BY <1>1, <1>3, <1>4, <1>6 DEF TypeOK
<1>8. Placed'
  BY <1>1, <1>2, <1>3, <1>4 DEF Placed, Uploading, UploadSteps, At
<1>9. Owned' /\ Fresh'
  BY <1>1, <1>3 DEF Owned, Fresh, Uploading, UploadSteps, r
<1>10. Compared'
  <2> SUFFICES ASSUME NEW t \in Scripts, At(t, "record")'
               PROVE  \/ binary'[script'[t].release] = "complete"
                      \/ script'[t].release \in shared'
    BY DEF Compared
  <2>1. t # s /\ At(t, "record") /\ script'[t].release = script[t].release
    BY <1>2, <1>3 DEF At
  <2>2. Uploading(t) /\ script[t] \in Running
    BY <2>1, RunningRecord DEF Uploading, UploadSteps, At, TypeOK
  <2>3. script[t].release \in Releases
    BY <2>2 DEF Running
  <2> QED BY <1>1, <1>5, <1>6, <2>1, <2>2, <2>3 DEF Compared
<1>11. ManifestsAreTrue' /\ CurrentIsKnown'
  BY <1>1, <1>5, <1>6 DEF ManifestsAreTrue, CurrentIsKnown, TypeOK
<1> QED BY <1>7, <1>8, <1>9, <1>10, <1>11

(* The manifest of a release whose checksum was compared.                  *)
LEMMA RecordManifestStep ==
  ASSUME ReleaseInv, NEW s \in Scripts, RecordManifest(s)
  PROVE  ReleaseInv'
<1> DEFINE r == script[s].release
<1>1. /\ At(s, "record") /\ Uploading(s) /\ ~At(s, "idle") /\ ~At(s, "mkdir")
      /\ GoTo(s, "switch")
      /\ manifests' = manifests \cup {r}
      /\ UNCHANGED <<current, gambled, clock, shared, binary, directories,
                     executable, runs, service, unprotected>>
  BY DEF RecordManifest, Uploading, UploadSteps, At, LinkUnchanged,
         NamesUnchanged
<1>2. "switch" \in AllSteps
  BY DEF AllSteps, DeploySteps
<1>3. /\ script' \in [Scripts -> Script]
      /\ script'[s].step = "switch"
      /\ script'[s].release = r
      /\ r \in Releases
      /\ OthersSame(s)
  BY <1>1, <1>2, GoToRelease
<1> USE DEF ReleaseInv
<1>4. /\ r \in directories /\ r \in executable
      /\ binary[r] = "complete" \/ r \in shared
      /\ \A t \in Scripts \ {s} :
           Uploading(t) /\ script[t].release = r => r \in shared
  BY <1>1 DEF Placed, Compared, Owned, At
<1> HIDE DEF r
<1> USE DEF OthersSame
<1>5. TypeOK'
  BY <1>1, <1>3, <1>4 DEF TypeOK
<1>6. Placed'
  BY <1>1, <1>3, <1>4 DEF Placed, Uploading, UploadSteps, At
<1>7. Owned'
  BY <1>1, <1>3 DEF Owned, Uploading, UploadSteps
<1>8. Fresh'
  BY <1>1, <1>3, <1>4 DEF Fresh, Uploading, UploadSteps
<1>9. Compared'
  BY <1>1, <1>3 DEF Compared, At
<1>10. ManifestsAreTrue' /\ CurrentIsKnown'
  BY <1>1, <1>4 DEF ManifestsAreTrue, CurrentIsKnown
<1> QED BY <1>5, <1>6, <1>7, <1>8, <1>9, <1>10

(* ln -sfn                                                                 *)
LEMMA SwitchStep ==
  ASSUME ReleaseInv, NEW s \in Scripts, Switch(s)
  PROVE  ReleaseInv'
<1> DEFINE r == script[s].release
<1>1. /\ At(s, "switch") /\ ~At(s, "idle") /\ GoTo(s, "restart")
      /\ current' = r
      /\ gambled' = IF r \in manifests THEN gambled ELSE gambled \cup {r}
      /\ UNCHANGED <<clock, shared, binary, directories, executable, manifests,
                     runs, service, unprotected>>
  BY DEF Switch, At, ReleasesUnchanged, NamesUnchanged
<1>2. "restart" \in AllSteps
  BY DEF AllSteps, DeploySteps
<1>3. /\ script' \in [Scripts -> Script]
      /\ script'[s].step = "restart"
      /\ script'[s].release = r
      /\ r \in Releases
      /\ OthersSame(s)
  BY <1>1, <1>2, GoToRelease
<1> USE DEF ReleaseInv
<1>4. r \in executable
  BY <1>1 DEF Placed, At
<1> HIDE DEF r
<1> USE DEF OthersSame
<1>5. TypeOK'
  BY <1>1, <1>3, <1>4 DEF TypeOK
<1>6. Placed'
  BY <1>1, <1>3 DEF Placed, Uploading, UploadSteps, At
<1>7. Owned' /\ Fresh'
  BY <1>1, <1>3 DEF Owned, Fresh, Uploading, UploadSteps
<1>8. Compared'
  BY <1>1, <1>3 DEF Compared, At
<1>9. ManifestsAreTrue' /\ CurrentIsKnown'
  BY <1>1 DEF ManifestsAreTrue, CurrentIsKnown
<1> QED BY <1>5, <1>6, <1>7, <1>8, <1>9
-----------------------------------------------------------------------------
(* Every step keeps the invariant.                                         *)
LEMMA NextInv == ReleaseInv /\ [Next]_vars => ReleaseInv'
<1> SUFFICES ASSUME ReleaseInv, [Next]_vars PROVE ReleaseInv'
  OBVIOUS
<1>1. CASE UNCHANGED vars
  BY <1>1 DEF vars, ReleaseInv, TypeOK, Placed, Owned, Fresh, Compared,
              ManifestsAreTrue, CurrentIsKnown, Uploading, At
<1> QED
  BY <1>1, RunStep, ServiceStep, IsActiveStep, EndStep, CompareStep,
     FindTargetStep, NameReleaseStep, PrepareStep, UploadStep,
     RecordManifestStep, SwitchStep
     DEF Next, Proceed, Backup, Deploy, SwitchOver

(* The invariant holds in every state of every execution.                  *)
THEOREM Invariant == Spec => []ReleaseInv
<1> QED BY InitInv, NextInv, PTL DEF Spec

(* Types of the deployment model; in particular the current link points to *)
(* a release that is there and executable.                                 *)
THEOREM Typing == Spec => []TypeOK
<1>1. ReleaseInv => TypeOK
  BY DEF ReleaseInv
<1> QED BY <1>1, Invariant, PTL

(* The current link points to what was built, for any number of scripts    *)
(* that fail anywhere, but for a shared name or a gamble.                  *)
THEOREM CurrentIsCompleteAlways == Spec => []CurrentIsComplete
<1>1. ReleaseInv => CurrentIsComplete
  BY DEF ReleaseInv, CurrentIsComplete, CurrentIsKnown, ManifestsAreTrue
<1> QED BY <1>1, Invariant, PTL
-----------------------------------------------------------------------------
(***************************************************************************)
(* The inductive invariant about backups: a script that is alone has no    *)
(* other beside it, and has taken the service down before it copies.       *)
(***************************************************************************)
Alone(s) == ~At(s, "idle") /\ script[s].alone

LoneInv ==
  \A s \in Scripts :
    Alone(s) =>
      /\ \A t \in Scripts \ {s} : At(t, "idle")
      /\ script[s].step \in {"set_trap", "copy"} => service # "active"
      /\ script[s].step \in BackupSteps => ~script[s].hot

LEMMA LoneInit == Init => LoneInv
  BY DEF Init, LoneInv, Alone, At, Idle

(* A running script moves on to a record with the service down before it   *)
(* copies; it alone can be alone.                                          *)
LEMMA LoneBecomes ==
  ASSUME TypeOK, LoneInv, NEW s \in Scripts, ~At(s, "idle"),
         NEW next \in Script, Becomes(s, next),
         next.step # "idle" /\ next.alone =>
           /\ script[s].alone
           /\ next.step \in {"set_trap", "copy"} => service' # "active"
           /\ next.step \in BackupSteps => ~next.hot
  PROVE  LoneInv'
<1>1. /\ script \in [Scripts -> Script]
      /\ Follows(script'[s], next)
      /\ \A t \in Scripts \ {s} : Follows(script'[t], script[t])
  BY BecomesSlots DEF TypeOK
<1>2. ASSUME NEW t \in Scripts \ {s}
      PROVE  ~Alone(t)'
  <2>1. ~Alone(t)
    BY DEF LoneInv
  <2> QED BY <1>1, <2>1 DEF Alone, At, Follows
<1>3. ASSUME Alone(s)'
      PROVE  /\ \A t \in Scripts \ {s} : At(t, "idle")'
             /\ script'[s].step \in {"set_trap", "copy"} => service' # "active"
             /\ script'[s].step \in BackupSteps => ~script'[s].hot
  <2>1. next.step # "idle" /\ next.alone
    BY <1>1, <1>3 DEF Alone, At, Follows
  <2>2. \A t \in Scripts \ {s} : At(t, "idle")
    BY <2>1 DEF LoneInv, Alone
  <2>3. script'[s].step = next.step
    BY <1>1 DEF Follows
  <2>4. script'[s].step \in BackupSteps => ~script'[s].hot
    BY <1>1, <2>1, <2>3 DEF Follows
  <2> QED BY <1>1, <2>1, <2>2, <2>3, <2>4 DEF At, Follows
<1> QED BY <1>2, <1>3 DEF LoneInv

(* Moving on within a backup or out of it.                                 *)
LEMMA LoneGoTo ==
  ASSUME TypeOK, LoneInv, NEW s \in Scripts, ~At(s, "idle"),
         NEW step \in AllSteps, GoTo(s, step),
         script[s].alone /\ step \in {"set_trap", "copy"} => service' # "active",
         step \in BackupSteps => script[s].step \in BackupSteps
  PROVE  LoneInv'
<1>1. PICK next \in Running :
        /\ Becomes(s, next) /\ next.step = step
        /\ next.alone = script[s].alone /\ next.hot = script[s].hot
  BY GoToSlots DEF TypeOK
<1>2. script[s].alone => (script[s].step \in BackupSteps => ~script[s].hot)
  BY DEF LoneInv, Alone
<1>3. next \in Script
  BY ScriptKinds
<1> QED BY <1>1, <1>2, <1>3, LoneBecomes

(* A script is started: it is alone where no other runs, and whoever runs  *)
(* is not alone any more.                                                  *)
LEMMA LoneRun ==
  ASSUME TypeOK, LoneInv, NEW s \in Scripts,
         NEW kind \in {"deploy", "backup", "rollback"}, NEW target \in Releases,
         Run(s, kind, target)
  PROVE  LoneInv'
<1> DEFINE alone == \A t \in Scripts : At(t, "idle")
           first == IF kind = "rollback" THEN "find" ELSE "is_active"
           next == [step |-> first, kind |-> kind, release |-> target,
                    was |-> FALSE, hot |-> FALSE, alone |-> alone]
           Crowded(t) == IF At(t, "idle") THEN Idle
                                          ELSE [script[t] EXCEPT !.alone = FALSE]
<1>1. script' = [t \in Scripts |-> IF t = s THEN next ELSE Crowded(t)]
  BY DEF Run
<1>2. /\ next.step = first /\ ~next.hot /\ next.alone = alone
      /\ first \notin {"set_trap", "copy", "idle"}
  OBVIOUS
<1>3. ASSUME NEW t \in Scripts \ {s}
      PROVE  ~Alone(t)' /\ (At(t, "idle") => At(t, "idle")')
  <2>1. script'[t] = Crowded(t)
    BY <1>1
  <2>2. CASE At(t, "idle")
    BY <2>1, <2>2 DEF Alone, At, Idle
  <2>3. CASE ~At(t, "idle")
    <3>1. script[t] \in Running
      BY <2>3, RunningRecord DEF TypeOK
    <3>2. ~Crowded(t).alone
      BY <2>3, <3>1 DEF Running
    <3> QED BY <2>1, <2>3, <3>2 DEF Alone
  <2> QED BY <2>2, <2>3
<1>4. script'[s] = next
  BY <1>1
<1> HIDE DEF next, first
<1>5. Alone(s)' => /\ \A t \in Scripts \ {s} : At(t, "idle")'
                   /\ script'[s].step \notin {"set_trap", "copy"}
                   /\ ~script'[s].hot
  BY <1>2, <1>3, <1>4 DEF Alone
<1> QED BY <1>3, <1>5 DEF LoneInv

(* The steps of a backup.                                                  *)
LEMMA LoneBackup ==
  ASSUME TypeOK, LoneInv, NEW s \in Scripts, Backup(s)
  PROVE  LoneInv'
<1>1. ~At(s, "idle")
  BY DEF Backup, IsActive, StopService, SetTrap, Copy, StartService, EndBackup,
         At
<1>2. script[s] \in Running
  BY <1>1, RunningRecord DEF TypeOK
<1>3. BackupSteps \subseteq AllSteps
  BY DEF AllSteps
<1>4. script[s].alone =>
        /\ script[s].step \in {"set_trap", "copy"} => service # "active"
        /\ script[s].step \in BackupSteps => ~script[s].hot
  BY <1>1 DEF LoneInv, Alone
<1>5. CASE IsActive(s)
  <2> DEFINE step == IF service = "active" THEN "stop" ELSE "set_trap"
             next == [script[s] EXCEPT !.was = service = "active", !.step = step]
  <2>1. step \in BackupSteps /\ (step = "set_trap" => service # "active")
        /\ step # "copy"
    BY DEF BackupSteps
  <2>2. Becomes(s, next) /\ UNCHANGED service /\ script[s].step \in BackupSteps
    BY <1>5 DEF IsActive, At, BackupSteps
  <2> HIDE DEF step
  <2>3. /\ next \in Running /\ next.step = step
        /\ next.alone = script[s].alone /\ next.hot = script[s].hot
    BY <1>2, <1>3, <2>1 DEF Running
  <2> HIDE DEF next
  <2>4. next \in Script
    BY <2>3, ScriptKinds
  <2> QED BY <1>1, <1>4, <2>1, <2>2, <2>3, <2>4, LoneBecomes
<1>6. CASE StopService(s)
  <2>1. GoTo(s, "set_trap") /\ service' # "active" /\ script[s].step \in BackupSteps
    BY <1>6 DEF StopService, At, BackupSteps
  <2> QED BY <1>1, <1>3, <2>1, LoneGoTo DEF BackupSteps
<1>7. CASE SetTrap(s)
  <2>1. /\ GoTo(s, "copy") /\ UNCHANGED service
        /\ script[s].step = "set_trap" /\ script[s].step \in BackupSteps
    BY <1>7 DEF SetTrap, At, BackupSteps
  <2> QED BY <1>1, <1>3, <1>4, <2>1, LoneGoTo DEF BackupSteps
<1>8. CASE Copy(s) \/ StartService(s)
  <2>1. /\ GoTo(s, "start") \/ GoTo(s, "manifest")
        /\ script[s].step \in BackupSteps
    BY <1>8 DEF Copy, StartService, At, BackupSteps
  <2>2. "start" \in AllSteps /\ "manifest" \in AllSteps
    BY <1>3 DEF BackupSteps
  <2> QED BY <1>1, <2>1, <2>2, LoneGoTo
<1>9. CASE EndBackup(s)
  <2> DEFINE next == [script[s] EXCEPT !.step = "name"]
  <2>1. /\ next \in Running /\ next.step = "name"
        /\ next.alone = script[s].alone
    BY <1>2 DEF Running, AllSteps, DeploySteps
  <2>2. "name" \notin BackupSteps
    BY DEF BackupSteps
  <2>3. Idle \in Script /\ Idle.step = "idle"
    BY DEF Script, Idle
  <2>4. Becomes(s, Idle) \/ Becomes(s, next)
    BY <1>9 DEF EndBackup
  <2> HIDE DEF next
  <2>5. next \in Script /\ next.step \notin {"set_trap", "copy"}
    BY <2>1, ScriptKinds
  <2>6. CASE Becomes(s, Idle)
    BY <1>1, <2>3, <2>6, LoneBecomes
  <2>7. CASE Becomes(s, next)
    BY <1>1, <2>1, <2>2, <2>5, <2>7, LoneBecomes
  <2> QED BY <2>4, <2>6, <2>7
<1> QED BY <1>5, <1>6, <1>7, <1>8, <1>9 DEF Backup

(* The steps after the backup, and those that end a script.                *)
LEMMA LoneOther ==
  ASSUME TypeOK, LoneInv, NEW s \in Scripts,
         Deploy(s) \/ SwitchOver(s) \/ Fail(s) \/ Signal(s) \/ Kill(s)
  PROVE  LoneInv'
<1>1. ~At(s, "idle")
  BY DEF Deploy, NameRelease, MakeDirectory, BeginUpload, EndUpload,
         MakeExecutable, CompareChecksums, RecordManifest, SwitchOver,
         FindTarget, Switch, Restart, Verify, Fail, Signal, Kill, At
<1>2. script[s] \in Running
  BY <1>1, RunningRecord DEF TypeOK
<1>3. ASSUME NEW step \in {"mkdir", "upload", "uploading", "chmod", "checksum",
                          "record", "switch", "restart", "verify"}
      PROVE  step \in AllSteps /\ step \notin BackupSteps
  BY DEF AllSteps, DeploySteps, BackupSteps
<1>4. ASSUME NEW step \in {"mkdir", "upload", "uploading", "chmod", "checksum",
                          "record", "switch", "restart", "verify"},
             GoTo(s, step)
      PROVE  LoneInv'
  <2>1. step \notin {"set_trap", "copy"}
    OBVIOUS
  <2> QED BY <1>1, <1>3, <1>4, <2>1, LoneGoTo
<1>5. CASE Becomes(s, Idle)
  <2>1. Idle \in Script /\ Idle.step = "idle"
    BY DEF Script, Idle
  <2> QED BY <1>1, <1>5, <2>1, LoneBecomes
<1>6. CASE NameRelease(s)
  <2>1. PICK r \in Releases :
          Becomes(s, [script[s] EXCEPT !.release = r, !.step = "mkdir"])
    BY <1>6 DEF NameRelease
  <2> DEFINE next == [script[s] EXCEPT !.release = r, !.step = "mkdir"]
  <2>2. /\ next \in Running /\ next.step = "mkdir"
        /\ next.alone = script[s].alone
    BY <1>2, <1>3 DEF Running
  <2>3. Becomes(s, next)
    BY <2>1
  <2> HIDE DEF next
  <2>4. next \in Script
    BY <2>2, ScriptKinds
  <2> QED BY <1>1, <1>3, <2>2, <2>3, <2>4, LoneBecomes
<1>7. CASE Signal(s)
  <2> DEFINE next == [script[s] EXCEPT !.alone = FALSE]
  <2>1. next \in Running /\ ~next.alone /\ Becomes(s, next)
    BY <1>2, <1>7 DEF Running, Signal
  <2> HIDE DEF next
  <2>2. next \in Script
    BY <2>1, ScriptKinds
  <2> QED BY <1>1, <2>1, <2>2, LoneBecomes
<1>8. CASE \/ MakeDirectory(s) \/ BeginUpload(s) \/ EndUpload(s)
           \/ MakeExecutable(s) \/ RecordManifest(s) \/ Switch(s) \/ Restart(s)
  BY <1>4, <1>8 DEF MakeDirectory, BeginUpload, EndUpload, MakeExecutable,
                    RecordManifest, Switch, Restart
<1>9. CASE CompareChecksums(s) \/ FindTarget(s)
  BY <1>4, <1>5, <1>9 DEF CompareChecksums, FindTarget, GoTo
<1> QED
  BY <1>5, <1>6, <1>7, <1>8, <1>9
     DEF Deploy, SwitchOver, Verify, Fail, Kill

LEMMA LoneNext == TypeOK /\ LoneInv /\ [Next]_vars => LoneInv'
<1> SUFFICES ASSUME TypeOK, LoneInv, [Next]_vars PROVE LoneInv'
  OBVIOUS
<1>1. CASE UNCHANGED vars
  BY <1>1 DEF vars, LoneInv, Alone, At
<1> QED
  BY <1>1, LoneRun, LoneBackup, LoneOther DEF Next, Proceed

(* A backup that no other script and no signal disturbed copied nothing    *)
(* while the service was active.                                           *)
THEOREM LoneBackupIsColdAlways == Spec => []LoneBackupIsCold
<1>1. LoneInv => LoneBackupIsCold
  BY DEF LoneInv, Alone, At, LoneBackupIsCold, BackupSteps
<1> QED BY <1>1, LoneInit, LoneNext, Typing, PTL DEF Spec
=============================================================================
