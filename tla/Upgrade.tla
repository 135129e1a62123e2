------------------------------- MODULE Upgrade -------------------------------
(* The upgrade verb of internal/lifecycle: RunUpgrade stages a build beside *)
(* the live binary, parks the daemon by stopping its unit, copies the live  *)
(* binary into backups/bin, renames the staged file over it, restarts the   *)
(* unit and waits for the health surface to answer.  A failed restart or a  *)
(* missed deadline renames the backup back, if it can.  --rollback is the same recipe  *)
(* with the newest backup as its source.  The process running the recipe    *)
(* may be killed at any point, in the middle of a copy too.                 *)
EXTENDS Naturals, Sequences, SequencesExt

CONSTANTS
  Builds,        \* what a binary file may hold
  Bad,           \* the builds that never reach READY
  Requests,      \* the builds an operator passes as --to
  RestartUnits,  \* the values of UpgradeOptions.RestartUnit in use
  RollbackDepth, \* lifecycle.rollback_depth
  MaxRuns, MaxFaults

VARIABLES
  live,    \* the bytes at the live path: a build, or "torn"
  staged,  \* the bytes at <bin>.new, "none" when there is no such file
  backups, \* backups/bin, oldest modification first: [name, build]
  unit,    \* what the unit runs: a build, "stopped" or "failed"
  tool,    \* the recipe in progress
  runs, faults

vars == <<live, staged, backups, unit, tool, runs, faults>>

Torn == "torn"
Idle == [pc |-> "idle", to |-> "none", from |-> "none", old |-> "none",
         restart |-> FALSE, result |-> "none"]
Works(b) == b \in Builds \ Bad

TypeOK ==
  /\ live \in Builds \cup {Torn} /\ staged \in Builds \cup {Torn, "none"}
  /\ backups \in Seq([name : Builds, build : Builds \cup {Torn}])
  /\ unit \in Builds \cup {"stopped", "failed"}
  /\ tool.result \in {"none", "ok", "aborted", "rolledback", "broken", "unrecorded", "killed"}

Init ==
  /\ \E b \in Builds \ Bad : live = b /\ unit = b
  /\ staged = "none" /\ backups = <<>> /\ tool = Idle /\ runs = 0 /\ faults = 0

Fault == faults < MaxFaults /\ faults' = faults + 1
Ends(result) == tool' = [tool EXCEPT !.pc = "idle", !.result = result]
Goes(pc) == tool' = [tool EXCEPT !.pc = pc]
-----------------------------------------------------------------------------
(* The newest backup by modification time, whatever it holds.              *)
LatestBackup == Last(backups).build

(* RunUpgrade resolves its source; the live path must still run, since the *)
(* binary it replaces is by default its own.  FromVersion is what the caller states, *)
(* or by default the version of the process running the recipe, which on   *)
(* the documented flow is the new release.                                 *)
RunUpgrade(to) ==
  /\ tool.pc = "idle" /\ runs < MaxRuns /\ live # Torn
  /\ \E r \in RestartUnits, from \in {live, to} :
       /\ from \in Builds
       /\ tool' = [pc |-> "stage", to |-> to, from |-> from, old |-> live,
                   restart |-> r, result |-> "none"]
  /\ runs' = runs + 1
  /\ UNCHANGED <<live, staged, backups, unit, faults>>

Rollback == backups # <<>> /\ RunUpgrade(LatestBackup)

(* The copy to <bin>.new and the checks on it: no digest is passed, and the *)
(* self-check resolves the configuration and renders the units without     *)
(* looking at the staged file.                                             *)
Stage ==
  /\ tool.pc = "stage"
  /\ \/ /\ staged' = tool.to /\ Goes("park") /\ UNCHANGED faults
     \/ /\ Fault /\ staged' \in {Torn, "none"} /\ Ends("aborted")
  /\ UNCHANGED <<live, backups, unit, runs>>

(* Park stops the unit and waits for it to be inactive; the park record    *)
(* follows.  Either may fail, and the daemon may be down by then.          *)
Park ==
  /\ tool.pc = "park"
  /\ \/ /\ unit' = IF tool.restart THEN "stopped" ELSE unit
        /\ Goes("backup") /\ UNCHANGED <<staged, faults>>
     \/ /\ Fault /\ staged' = "none" /\ Ends("aborted")
        /\ unit' \in IF tool.restart THEN {unit, "stopped"} ELSE {unit}
  /\ UNCHANGED <<live, backups, runs>>

(* copyFile truncates a file of the same name and writes it anew, which    *)
(* also makes it the newest.  The directory, the copy and the mode may     *)
(* each fail and end the run; what pruneBackups cannot remove stays.       *)
Named(n) == SelectSeq(backups, LAMBDA b : b.name = n)
WithBackup(build) ==
  Append(SelectSeq(backups, LAMBDA b : b.name # tool.from), [name |-> tool.from, build |-> build])
PruneBackups(bs) ==
  IF Len(bs) <= RollbackDepth THEN bs ELSE SubSeq(bs, Len(bs) - RollbackDepth + 1, Len(bs))

WriteBackup ==
  /\ tool.pc = "backup"
  /\ \/ /\ backups' = PruneBackups(WithBackup(live)) /\ Goes("rename")
        /\ UNCHANGED <<staged, faults>>
     \/ /\ Fault /\ backups' = WithBackup(live) /\ Goes("rename") /\ UNCHANGED staged
     \/ /\ Fault /\ backups' \in {backups, WithBackup(Torn), WithBackup(live)}
        /\ staged' = "none" /\ Ends("aborted")
  /\ UNCHANGED <<live, unit, runs>>

(* The rename over the live path: the running process keeps its inode.     *)
Rename ==
  /\ tool.pc = "rename"
  /\ \/ live' = staged /\ Goes("restart") /\ UNCHANGED faults
     \/ Fault /\ UNCHANGED live /\ Ends("aborted")
  /\ staged' = "none"
  /\ UNCHANGED <<backups, unit, runs>>

(* The backup named by this run is renamed over the live path, or, across  *)
(* filesystems, copied there and kept.                                     *)
Restored ==
  /\ Named(tool.from) # <<>> /\ live' = Named(tool.from)[1].build
  /\ backups' \in {backups, SelectSeq(backups, LAMBDA b : b.name # tool.from)}

(* restoreBackup fails where the backup cannot be read, where no copy of   *)
(* it can be put in place, and where it is in place and the read-back      *)
(* fails.  The caller reports a run that could not be rolled back.         *)
RestoreBackup ==
  \/ Restored /\ Ends("rolledback") /\ UNCHANGED faults
  \/ Named(tool.from) = <<>> /\ Ends("broken") /\ UNCHANGED <<live, backups, faults>>
  \/ Fault /\ Ends("broken") /\ (Restored \/ UNCHANGED <<live, backups>>)

(* systemctl restart: a build that cannot start fails it, one that starts   *)
(* and never serves does not; nor does it always start one that works.     *)
(* The failing branch does not restart again.                              *)
Restart ==
  /\ tool.pc = "restart"
  /\ \/ /\ ~tool.restart /\ Goes("ready") /\ UNCHANGED <<live, backups, unit, faults>>
     \/ /\ tool.restart /\ live # Torn /\ unit' = live /\ Goes("ready")
        /\ UNCHANGED <<live, backups, faults>>
     \/ /\ tool.restart /\ unit' = "failed" /\ RestoreBackup
  /\ UNCHANGED <<staged, runs>>

(* waitReady is content with a 200 from whichever process answers.         *)
Ready == Works(unit)

(* A run that was not answered in time, whatever the unit does, is rolled  *)
(* back and the unit restarted, and the outcome of that restart dropped.   *)
(* One that was answered still fails when its resume record does, with the *)
(* new build in place.                                                     *)
WaitForReady ==
  /\ tool.pc = "ready"
  /\ \/ /\ Ready /\ Ends("ok") /\ UNCHANGED <<live, backups, unit, faults>>
     \/ /\ Ready /\ Fault /\ Ends("unrecorded") /\ UNCHANGED <<live, backups, unit>>
     \/ /\ RestoreBackup
        /\ unit' \in IF tool.restart /\ tool'.result = "rolledback" THEN {live', "failed"} ELSE {unit}
  /\ UNCHANGED <<staged, runs>>

(* The process running the recipe is killed; a copy it was making is left  *)
(* as far as it came, and a restore may have been made.                    *)
Kill ==
  /\ tool.pc # "idle" /\ Fault /\ Ends("killed")
  /\ staged' \in IF tool.pc = "stage" THEN {staged, Torn} ELSE {staged}
  /\ \/ /\ backups' \in IF tool.pc = "backup" THEN {backups, WithBackup(Torn)} ELSE {backups}
        /\ UNCHANGED live
     \/ tool.pc = "ready" /\ Restored
  /\ UNCHANGED <<unit, runs>>

(* systemd starts a failed unit again, and every unit at boot.             *)
Systemd ==
  /\ unit = "failed" \/ (unit = "stopped" /\ tool.pc = "idle")
  /\ unit' = IF live = Torn THEN "failed" ELSE live
  /\ UNCHANGED <<live, staged, backups, tool, runs, faults>>

Next ==
  \/ \E b \in Requests : RunUpgrade(b)
  \/ Rollback \/ Stage \/ Park \/ WriteBackup \/ Rename \/ Restart \/ WaitForReady
  \/ Kill \/ Systemd
-----------------------------------------------------------------------------
Kept(b) == live = b \/ \E i \in DOMAIN backups : backups[i].build = b

(* A run that reports failure leaves the build it found, unless it reports *)
(* that the rollback failed or the resume record did: then that build is   *)
(* still in backups/bin, for the backup the run took was taken before the  *)
(* rename and survived its own pruning; and after a resume record that     *)
(* failed the live build is the new one (upgrade.go, restoreBackup,        *)
(* pruneBackups, recordStep).                                              *)
FailureKeepsOld ==
  tool.pc = "idle" =>
    /\ tool.result \in {"aborted", "rolledback"} => live = tool.old
    /\ tool.result \in {"broken", "unrecorded"} => Kept(tool.old)
    /\ tool.result = "unrecorded" => live = tool.to

(* A run killed at any point leaves the old build at the live path or in   *)
(* backups/bin, whatever the version its backup was named for.             *)
KilledIsRecoverable == tool.result = "killed" => Kept(tool.old)

(* A run that restarts the unit and reports success leaves the unit on the *)
(* build it was asked to install.                                          *)
OkServes ==
  tool.pc = "idle" /\ tool.result = "ok" /\ tool.restart => unit = tool.to /\ live = tool.to

(* "The resume step is recorded only once a process reporting THIS         *)
(* to_version has answered READY" (upgrade.go:157): success means the unit *)
(* runs the new build, with the options `trouble upgrade` passes too.      *)
ReadyIsThisVersion == tool.pc = "idle" /\ tool.result = "ok" => unit = tool.to

(* "A staged binary that cannot pass its own self-check never replaces a   *)
(* working one" (SPEC-12 3.6 step 1).                                      *)
LiveIsWhole == live # Torn
=============================================================================
