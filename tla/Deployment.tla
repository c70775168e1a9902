----------------------------- MODULE Deployment -----------------------------
(***************************************************************************)
(* The deployment scripts: deploy.sh with the backup it takes first,       *)
(* backup.sh on its own (a timer may run it), and rollback.sh, run by      *)
(* operators on one server, with no lock between them.  A script stops     *)
(* where a command fails (set -eu), is killed, or gets a signal it traps.  *)
(* A release is a directory named after the second it was made in, with    *)
(* its binary; what a backup copies, the health check and the log of       *)
(* deployments are left out.                                               *)
(***************************************************************************)
EXTENDS Naturals

CONSTANTS
  Scripts,   \* slots for scripts running at the same time
  MaxRuns    \* bound: scripts that are ever started

ASSUME DeploymentAssumption == MaxRuns \in Nat

VARIABLES
  script,      \* the script in each slot
  runs,        \* how many were started
  clock,       \* the last second that named a release
  service,     \* what systemd says of the service
  current,     \* the release the current link points to
  binary,      \* the binary of each release: none, broken or complete
  directories, \* releases that have a directory
  executable,  \* releases whose binary has the executable bit
  manifests,   \* releases that have a manifest
  shared,      \* history: names given to two releases
  gambled,     \* history: releases a rollback chose that have no manifest
  unprotected  \* history: a script ended while only it would start the service

vars == <<script, runs, clock, service, current, binary, directories,
          executable, manifests, shared, gambled, unprotected>>

Releases == 0..(MaxRuns + 1)
Service == {"active", "stopped", "failed"}

BackupSteps == {"is_active", "stop", "set_trap", "copy", "start", "manifest"}
DeploySteps == {"name", "mkdir", "upload", "uploading", "chmod", "checksum",
                "record", "switch", "restart", "verify"}
RollbackSteps == {"find", "switch", "restart", "verify"}

Idle == [step |-> "idle"]

(* was: service_was_active; hot (history): the service was active while    *)
(* files were copied; alone (history): no other script and no signal.      *)
Script ==
  {Idle} \cup
  [step : BackupSteps \cup DeploySteps \cup RollbackSteps,
   kind : {"deploy", "backup", "rollback"}, release : Releases,
   was : BOOLEAN, hot : BOOLEAN, alone : BOOLEAN]

At(s, step) == script[s].step = step

(* Whoever copies while the service is active, or becomes active, copies   *)
(* what is being written.                                                  *)
Becomes(s, next) ==
  script' = [t \in Scripts |->
               LET r == IF t = s THEN next ELSE script[t] IN
               IF r.step = "copy" /\ service' = "active"
                 THEN [r EXCEPT !.hot = TRUE] ELSE r]

GoTo(s, step) == Becomes(s, [script[s] EXCEPT !.step = step])

LinkUnchanged == UNCHANGED <<current, gambled>>
ReleasesUnchanged == UNCHANGED <<binary, directories, executable, manifests>>
NamesUnchanged == UNCHANGED <<clock, shared>>
OnlyService ==
  LinkUnchanged /\ ReleasesUnchanged /\ NamesUnchanged
    /\ UNCHANGED <<runs, unprotected>>
OnlyScript == OnlyService /\ UNCHANGED service

(* systemctl start and restart: a broken binary does not come up, and a    *)
(* complete one may fail.                                                  *)
Started ==
  /\ service' \in {"active", "failed"}
  /\ binary[current] # "complete" => service' = "failed"
-----------------------------------------------------------------------------
Init ==
  /\ script = [s \in Scripts |-> Idle]
  /\ runs = 0
  /\ clock = 1
  /\ service \in {"active", "failed"}
  /\ current = 0
  /\ binary = [r \in Releases |-> IF r = 0 THEN "complete" ELSE "none"]
  /\ directories = {0}
  /\ executable = {0}
  /\ manifests = {0}
  /\ shared = {}
  /\ gambled = {}
  /\ unprotected = FALSE

(* deploy.sh begins here when verify-server.sh, which only looks, is       *)
(* content.                                                                *)
Run(s, kind, target) ==
  /\ At(s, "idle")
  /\ runs < MaxRuns
  /\ kind # "rollback" => target = 0
  /\ runs' = runs + 1
  /\ LET alone == \A t \in Scripts : At(t, "idle") IN
     script' = [t \in Scripts |->
       IF t = s
         THEN [step |-> IF kind = "rollback" THEN "find" ELSE "is_active",
               kind |-> kind, release |-> target,
               was |-> FALSE, hot |-> FALSE, alone |-> alone]
         ELSE IF At(t, "idle") THEN Idle
                               ELSE [script[t] EXCEPT !.alone = FALSE]]
  /\ LinkUnchanged /\ ReleasesUnchanged /\ NamesUnchanged
  /\ UNCHANGED <<service, unprotected>>
-----------------------------------------------------------------------------
(* backup.sh                                                               *)
IsActive(s) ==
  /\ At(s, "is_active")
  /\ UNCHANGED service
  /\ Becomes(s, [script[s] EXCEPT
                   !.was = service = "active",
                   !.step = IF service = "active" THEN "stop" ELSE "set_trap"])
  /\ OnlyScript

(* Mutant: a service that is up is left up.                                *)
StopServiceSkipped(s) ==
  /\ At(s, "stop")
  /\ UNCHANGED service
  /\ GoTo(s, "set_trap")
  /\ OnlyService

StopService(s) ==
  /\ At(s, "stop")
  /\ service' = "stopped"
  /\ GoTo(s, "set_trap")
  /\ OnlyService

SetTrap(s) ==
  /\ At(s, "set_trap")
  /\ UNCHANGED service
  /\ GoTo(s, "copy")
  /\ OnlyScript

(* The copies, and then trap - EXIT HUP INT TERM                           *)
Copy(s) ==
  /\ At(s, "copy")
  /\ UNCHANGED service
  /\ GoTo(s, "start")
  /\ OnlyScript

(* restart_service_if_needed                                               *)
RestartServiceIfNeeded(s) ==
  IF script[s].was /\ service # "active" THEN Started ELSE UNCHANGED service

StartService(s) ==
  /\ At(s, "start")
  /\ RestartServiceIfNeeded(s)
  /\ GoTo(s, "manifest")
  /\ OnlyService

(* The manifest of the backup, and its directory printed for deploy.sh     *)
EndBackup(s) ==
  /\ At(s, "manifest")
  /\ UNCHANGED service
  /\ Becomes(s, IF script[s].kind = "backup"
                  THEN Idle ELSE [script[s] EXCEPT !.step = "name"])
  /\ OnlyScript
-----------------------------------------------------------------------------
(* deploy.sh: the release is named after the time, to the second; two      *)
(* scripts may ask in the same one.  Each script names at most one         *)
(* release, so Releases never runs out.                                    *)
NameRelease(s) ==
  /\ At(s, "name")
  /\ UNCHANGED service
  /\ \E r \in {clock, clock + 1} \cap Releases :
        /\ clock' = r
        /\ shared' = IF \/ r \in directories
                        \/ \E t \in Scripts \ {s} : /\ ~At(t, "idle")
                                                    /\ script[t].release = r
                       THEN shared \cup {r} ELSE shared
        /\ Becomes(s, [script[s] EXCEPT !.release = r, !.step = "mkdir"])
  /\ LinkUnchanged /\ ReleasesUnchanged /\ UNCHANGED <<runs, unprotected>>

MakeDirectory(s) ==
  /\ At(s, "mkdir")
  /\ UNCHANGED service
  /\ directories' = directories \cup {script[s].release}
  /\ GoTo(s, "upload")
  /\ LinkUnchanged /\ NamesUnchanged
  /\ UNCHANGED <<binary, executable, manifests, runs, unprotected>>

(* scp writes over what is there; a new file gets the mode of the local    *)
(* artifact, which may be executable ...                                   *)
BeginUpload(s) ==
  LET r == script[s].release IN
  /\ At(s, "upload")
  /\ UNCHANGED service
  /\ binary' = [binary EXCEPT ![r] = "broken"]
  /\ executable' \in {executable, executable \cup {r}}
  /\ GoTo(s, "uploading")
  /\ LinkUnchanged /\ NamesUnchanged
  /\ UNCHANGED <<directories, manifests, runs, unprotected>>

(* ... and may end with other bytes than it began with.                    *)
EndUpload(s) ==
  /\ At(s, "uploading")
  /\ UNCHANGED service
  /\ \E bytes \in {"broken", "complete"} :
        binary' = [binary EXCEPT ![script[s].release] = bytes]
  /\ GoTo(s, "chmod")
  /\ LinkUnchanged /\ NamesUnchanged
  /\ UNCHANGED <<directories, executable, manifests, runs, unprotected>>

MakeExecutable(s) ==
  /\ At(s, "chmod")
  /\ UNCHANGED service
  /\ executable' = executable \cup {script[s].release}
  /\ GoTo(s, "checksum")
  /\ LinkUnchanged /\ NamesUnchanged
  /\ UNCHANGED <<binary, directories, manifests, runs, unprotected>>

(* Mutant: the checksums are not compared.                                 *)
CompareChecksumsSkipped(s) ==
  /\ At(s, "checksum")
  /\ UNCHANGED service
  /\ GoTo(s, "record")
  /\ OnlyScript

CompareChecksums(s) ==
  /\ At(s, "checksum")
  /\ UNCHANGED service
  /\ Becomes(s, IF binary[script[s].release] = "complete"
                  THEN [script[s] EXCEPT !.step = "record"]
                  ELSE Idle)
  /\ OnlyScript

RecordManifest(s) ==
  /\ At(s, "record")
  /\ UNCHANGED service
  /\ manifests' = manifests \cup {script[s].release}
  /\ GoTo(s, "switch")
  /\ LinkUnchanged /\ NamesUnchanged
  /\ UNCHANGED <<binary, directories, executable, runs, unprotected>>
-----------------------------------------------------------------------------
(* Mutant: a directory will do.                                            *)
FindDirectory(s) ==
  LET r == script[s].release IN
  /\ At(s, "find")
  /\ UNCHANGED service
  /\ Becomes(s, IF r \in directories THEN [script[s] EXCEPT !.step = "switch"]
                                    ELSE Idle)
  /\ OnlyScript

(* rollback.sh: a directory with an executable binary will do.             *)
FindTarget(s) ==
  LET r == script[s].release IN
  /\ At(s, "find")
  /\ UNCHANGED service
  /\ Becomes(s, IF r \in directories /\ r \in executable
                  THEN [script[s] EXCEPT !.step = "switch"]
                  ELSE Idle)
  /\ OnlyScript

(* deploy.sh and rollback.sh: ln -sfn ...                                  *)
Switch(s) ==
  LET r == script[s].release IN
  /\ At(s, "switch")
  /\ UNCHANGED service
  /\ current' = r
  /\ gambled' = IF r \in manifests THEN gambled ELSE gambled \cup {r}
  /\ GoTo(s, "restart")
  /\ ReleasesUnchanged /\ NamesUnchanged /\ UNCHANGED <<runs, unprotected>>

(* ... systemctl restart ...                                               *)
Restart(s) ==
  /\ At(s, "restart")
  /\ Started
  /\ GoTo(s, "verify")
  /\ OnlyService

(* ... and verify-release.sh, which looks at whatever is current and whose *)
(* verdict undoes nothing.                                                 *)
Verify(s) ==
  /\ At(s, "verify")
  /\ UNCHANGED service
  /\ Becomes(s, Idle)
  /\ OnlyScript
-----------------------------------------------------------------------------
(* What ends a script or disturbs it.                                      *)
Protects(s) == script[s].was /\ script[s].step \in {"set_trap", "copy", "start"}

(* Mutant: no trap.                                                        *)
FailUntrapped(s) ==
  /\ ~At(s, "idle")
  /\ UNCHANGED service
  /\ Becomes(s, Idle)
  /\ OnlyScript

(* A command fails: the copies are under the EXIT trap; a stop may fail    *)
(* after the service went down, before the trap is set.                    *)
Fail(s) ==
  /\ ~At(s, "idle")
  /\ IF At(s, "copy") THEN RestartServiceIfNeeded(s)
     ELSE IF At(s, "stop") THEN service' \in {service, "stopped"}
     ELSE UNCHANGED service
  /\ unprotected' = \/ unprotected
                    \/ Protects(s) /\ ~At(s, "copy")
                    \/ At(s, "stop") /\ service' # service
  /\ Becomes(s, Idle)
  /\ LinkUnchanged /\ ReleasesUnchanged /\ NamesUnchanged /\ UNCHANGED runs

(* HUP, INT or TERM during the copies: the handler starts the service, and *)
(* the shell goes on with the next copy.                                   *)
Signal(s) ==
  /\ At(s, "copy")
  /\ RestartServiceIfNeeded(s)
  /\ Becomes(s, [script[s] EXCEPT !.alone = FALSE])
  /\ OnlyService

(* A signal no trap is set for, at any other step or KILL.                 *)
Kill(s) ==
  /\ ~At(s, "idle")
  /\ UNCHANGED service
  /\ unprotected' = (unprotected \/ Protects(s))
  /\ Becomes(s, Idle)
  /\ LinkUnchanged /\ ReleasesUnchanged /\ NamesUnchanged /\ UNCHANGED runs

Backup(s) == \/ IsActive(s) \/ StopService(s) \/ SetTrap(s) \/ Copy(s)
             \/ StartService(s) \/ EndBackup(s)

Deploy(s) == \/ NameRelease(s) \/ MakeDirectory(s) \/ BeginUpload(s)
             \/ EndUpload(s) \/ MakeExecutable(s) \/ CompareChecksums(s)
             \/ RecordManifest(s)

SwitchOver(s) == FindTarget(s) \/ Switch(s) \/ Restart(s) \/ Verify(s)

Proceed(s) == Backup(s) \/ Deploy(s) \/ SwitchOver(s)

Next ==
  \E s \in Scripts :
    \/ \E kind \in {"deploy", "backup", "rollback"}, target \in Releases :
          Run(s, kind, target)
    \/ Proceed(s)
    \/ Fail(s)
    \/ Signal(s)
    \/ Kill(s)

(* A script that can go on goes on.                                        *)
Fairness == \A s \in Scripts : WF_vars(Proceed(s))

Spec == Init /\ [][Next]_vars /\ Fairness
-----------------------------------------------------------------------------
TypeOK ==
  /\ script \in [Scripts -> Script]
  /\ runs \in 0..MaxRuns
  /\ clock \in Releases
  /\ service \in Service
  /\ current \in directories \cap executable
  /\ binary \in [Releases -> {"none", "broken", "complete"}]
  /\ directories \subseteq Releases
  /\ executable \subseteq directories
  /\ manifests \subseteq directories
  /\ shared \subseteq Releases
  /\ gambled \subseteq Releases
  /\ unprotected \in BOOLEAN

(* The current link never points to a binary that is not what was built,   *)
(* wherever a script stops and however deployments and rollbacks           *)
(* interleave, unless two deployments got the same name in one second or   *)
(* a rollback chose a release without manifest.                            *)
CurrentIsComplete ==
  current \notin shared \cup gambled => binary[current] = "complete"

(* A backup that ran alone copied nothing while the service was active.    *)
LoneBackupIsCold ==
  \A s \in Scripts :
    script[s].step \in {"start", "manifest"} /\ script[s].alone => ~script[s].hot

(* A service that a backup stopped comes up again, or its start fails,     *)
(* wherever the backup fails or is interrupted, unless it ended where no   *)
(* trap was set.                                                           *)
ServiceComesBack == service = "stopped" ~> service # "stopped" \/ unprotected

(* The policy's words: the backup of the database is a cold backup.        *)
BackupIsCold ==
  \A s \in Scripts : script[s].step = "manifest" => ~script[s].hot
=============================================================================
