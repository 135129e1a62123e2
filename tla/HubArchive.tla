----------------------------- MODULE HubArchive -----------------------------
(***************************************************************************)
(* The archival tier of the light hub (internal/hub archive.go, markers.go *)
(* and Runtime.ArchiveOnce): closed ledger files are planned by the hash   *)
(* of their bytes, exported under a key made of their name, read back,     *)
(* marked in an append-only file, and a verified marker licenses retention *)
(* to drop the local file.  Meanwhile the ledger's writer appends and      *)
(* rotates; the archiver knows only the live file of its boot.             *)
(*                                                                         *)
(* A file's bytes are its version; files are numbered in name order.  The  *)
(* queue file repeats the markers and decides nothing.                     *)
(***************************************************************************)
EXTENDS Naturals, FiniteSets, Sequences, SequencesExt

CONSTANTS
  MaxFiles,     \* bound: ledger files
  MaxVersion,   \* bound: versions of a file
  Keep,         \* server.duckbrain.keep_local_generations
  BatchFiles,   \* server.duckbrain.archive_batch_files
  VerifyAfter,  \* server.duckbrain.verify_after_write
  Faults,       \* which faults may happen
  MaxFaults

VARIABLES
  files,     \* files[f]: the version on disk, 0 for none
  live,      \* the file the writer appends to
  liveFile,  \* the archiver's LiveFile
  marks,     \* markers.jsonl: [file, ver, state], or a torn line
  obj,       \* obj[f]: the version under the file's key, 0 for none or damaged
  pass,      \* the pass under way
  faults

vars == <<files, live, liveFile, marks, obj, pass, faults>>

Names == 1 .. MaxFiles
Torn == [file |-> 0, ver |-> 0, state |-> "torn"]
Glued == [Torn EXCEPT !.state = "glued"]
NoPass == [pc |-> "idle", todo |-> <<>>, failed |-> FALSE, drops |-> {}]
Plan == Head(pass.todo)

Fault(f) == f \in Faults /\ faults < MaxFaults /\ faults' = faults + 1

(* ------------------------------ markers --------------------------------- *)

(* Append after a line a crash tore: the two make one unreadable line.     *)
Appended(ms, mk) ==
  IF ms # <<>> /\ Last(ms) = Torn THEN ReplaceAt(ms, Len(ms), Glued) ELSE Append(ms, mk)

Marked(mk) == \E n \in DOMAIN marks : marks[n] = mk

(* AppendTransition: a pair already recorded is not recorded again.        *)
Transition(mk) == marks' = IF Marked(mk) THEN marks ELSE Appended(marks, mk)

Of(f) == SelectSeq(marks, LAMBDA m : m.file = f)

(* ------------------------------- a pass --------------------------------- *)

(* ScanGenerations: every file but the one known as live.                  *)
Scanned == {f \in Names : files[f] > 0 /\ f # liveFile}

(* The state of the last marker of these bytes.                            *)
StateOf(f, v) ==
  LET ms == SelectSeq(marks, LAMBDA m : m.file = f /\ m.ver = v)
  IN  IF ms = <<>> THEN "none" ELSE Last(ms).state

(* PlanArchive: the scanned files whose bytes have no marker beyond        *)
(* `failed`, in name order.                                                *)
Planned ==
  LET todo == {f \in Scanned : StateOf(f, files[f]) \notin {"exported", "verified", "dropped"}}
      seq == SelectSeq([n \in Names |-> n], LAMBDA f : f \in todo)
  IN  [n \in DOMAIN seq |-> [file |-> seq[n], ver |-> files[seq[n]]]]

PlanArchive ==
  /\ pass.pc = "idle"
  /\ pass' = [NoPass EXCEPT !.pc = "file",
       !.todo = IF Len(Planned) > BatchFiles THEN SubSeq(Planned, 1, BatchFiles) ELSE Planned]
  /\ UNCHANGED <<files, live, liveFile, marks, obj, faults>>

Go(pc) == pass' = [pass EXCEPT !.pc = pc]
NextFile(failed) == pass' = [pass EXCEPT !.pc = "file", !.todo = Tail(@), !.failed = @ \/ failed]

(* The file must still be what was planned; else 011.                      *)
Check ==
  /\ pass.pc = "file" /\ pass.todo # <<>>
  /\ IF files[Plan.file] = Plan.ver THEN Go("put") ELSE NextFile(TRUE)
  /\ UNCHANGED <<files, live, liveFile, marks, obj, faults>>

Put ==
  /\ pass.pc = "put"
  /\ obj' = [obj EXCEPT ![Plan.file] = Plan.ver]
  /\ Go(IF VerifyAfter THEN "get" ELSE "mark")
  /\ UNCHANGED <<files, live, liveFile, marks, faults>>

Mk(state) == [file |-> Plan.file, ver |-> Plan.ver, state |-> state]

(* 010: the object may have been written all the same, or damaged.         *)
PutFails ==
  /\ pass.pc = "put" /\ Fault("put")
  /\ obj' \in {obj, [obj EXCEPT ![Plan.file] = Plan.ver], [obj EXCEPT ![Plan.file] = 0]}
  /\ marks' = Appended(marks, Mk("failed"))
  /\ NextFile(TRUE)
  /\ UNCHANGED <<files, live, liveFile>>

(* The tier keeps something else than it was given.                        *)
Damage ==
  /\ pass.pc = "get" /\ Fault("damage")
  /\ obj' = [obj EXCEPT ![Plan.file] = 0]
  /\ UNCHANGED <<files, live, liveFile, marks, pass>>

(* The read-back: bytes that differ, 012, leave an `exported` marker.      *)
Get ==
  /\ pass.pc = "get"
  /\ IF obj[Plan.file] = Plan.ver
     THEN Go("mark") /\ UNCHANGED marks
     ELSE marks' = Appended(marks, Mk("exported")) /\ NextFile(TRUE)
  /\ UNCHANGED <<files, live, liveFile, obj, faults>>

GetFails ==
  /\ pass.pc = "get" /\ Fault("get")
  /\ marks' = Appended(marks, Mk("exported"))
  /\ NextFile(TRUE)
  /\ UNCHANGED <<files, live, liveFile, obj>>

Mark ==
  /\ pass.pc = "mark"
  /\ Transition(Mk(IF VerifyAfter THEN "verified" ELSE "exported"))
  /\ NextFile(FALSE)
  /\ UNCHANGED <<files, live, liveFile, obj, faults>>

(* droppable: not among the newest, and the last marker of its name is     *)
(* `verified`.                                                             *)
Droppable ==
  {f \in Scanned : /\ Cardinality({g \in Scanned : g > f}) >= Keep
                   /\ Of(f) # <<>> /\ Last(Of(f)).state = "verified"}

(* The end of a pass; after one without failures the sweep.                *)
Sweep ==
  /\ pass.pc = "file" /\ pass.todo = <<>>
  /\ pass' = [NoPass EXCEPT !.drops = IF pass.failed THEN {} ELSE Droppable]
  /\ UNCHANGED <<files, live, liveFile, marks, obj, faults>>

(* ------------------------- the ledger, a crash -------------------------- *)

AppendLive ==
  /\ files[live] < MaxVersion
  /\ files' = [files EXCEPT ![live] = @ + 1]
  /\ UNCHANGED <<live, liveFile, marks, obj, pass, faults>>

Rotate ==
  /\ live < MaxFiles
  /\ live' = live + 1 /\ files' = [files EXCEPT ![live + 1] = 1]
  /\ UNCHANGED <<liveFile, marks, obj, pass, faults>>

(* Compaction replaces a closed file by one of another name, seen here as  *)
(* its end.                                                                *)
Vanish(f) ==
  /\ f < live /\ files[f] > 0 /\ Fault("compact")
  /\ files' = [files EXCEPT ![f] = 0]
  /\ UNCHANGED <<live, liveFile, marks, obj, pass>>

(* A crash, perhaps while a marker is being written; GateWithPaths reads   *)
(* the live file at the boot that follows.                                 *)
Restart ==
  /\ Fault("crash")
  /\ marks' \in {marks} \cup (IF pass.pc = "mark" THEN {Append(marks, Torn)} ELSE {})
  /\ pass' = NoPass /\ liveFile' = live
  /\ UNCHANGED <<files, live, obj>>

Init ==
  /\ files = [f \in Names |-> IF f = 1 THEN 1 ELSE 0]
  /\ live = 1 /\ liveFile = 1
  /\ marks = <<>> /\ obj = [f \in Names |-> 0]
  /\ pass = NoPass /\ faults = 0

ArchiveOnce == PlanArchive \/ Check \/ Put \/ Get \/ Mark \/ Sweep
World == AppendLive \/ Rotate \/ \E f \in Names : Vanish(f)
Next == ArchiveOnce \/ PutFails \/ Damage \/ GetFails \/ World \/ Restart

Spec == Init /\ [][Next]_vars

-----------------------------------------------------------------------------
(* A file whose bytes are marked `verified` has these bytes in the         *)
(* archive: the marker speaks of what was read back, although the file may *)
(* grow during the export and a line of the marker file may be torn        *)
(* (Archive, MarkerStore).                                                 *)
VerifiedHolds == \A f \in Names : files[f] > 0 /\ StateOf(f, files[f]) = "verified" => obj[f] = files[f]

(* What SPEC-13 says of retention: a file leaves the host only when the    *)
(* archive has it.                                                         *)
DropSafe == \A f \in pass.drops : files[f] > 0 => obj[f] = files[f]

(* Every closed file is exported in the end, whatever failed: `exported`   *)
(* or better is the last word on its bytes (PlanArchive).  The file that   *)
(* was live at boot is not looked at again before the next one.            *)
Exported == \A f \in Scanned \ {live} : StateOf(f, files[f]) \in {"exported", "verified"}
=============================================================================
