----------------------------- MODULE FlowBoard -----------------------------
(***************************************************************************)
(* Filing on a project's board (internal/flow): one row per signature in   *)
(* tasks.jsonl with its task_created event in events.jsonl, found again    *)
(* through an index that is rebuilt when the tasks file has moved; the     *)
(* registration proof; another tool that writes to the same board; appends *)
(* that fail before, within or after the line they write; restarts.        *)
(*                                                                         *)
(* Each signature's filings come one at a time (its incident has one       *)
(* runner); those of two signatures interleave.  The stamp of the tasks    *)
(* file is its length.  No validate command is configured.                 *)
(***************************************************************************)
EXTENDS Naturals, Sequences, FiniteSets, SequencesExt

CONSTANTS
  Sigs,                            \* signatures filed on the board
  MaxFiles, MaxForeign, MaxFaults, MaxCrashes   \* bounds

VARIABLES
  tasks,    \* tasks.jsonl: [sig, ok, open], ok: it parses, open: no newline; the id is the line
  events,   \* events.jsonl: [id, task, kind, ok, open]
  heap,     \* the index objects ever built: [stamp, rows, strict, maxEvent]
  cur,      \* the one in f.boards, 0 for none
  file,     \* file[s]: the File call of s: [ph, ix, row]
  proof,    \* the registration: [held, stamped, fresh]
  hist,     \* history: [wrote, cut, glued, failed, overlap, unproven]
  files, foreign, faults, crashes

vars == <<tasks, events, heap, cur, file, proof, hist, files, foreign, faults, crashes>>

Idle == [ph |-> "idle", ix |-> 0, row |-> 0]

Init ==
  /\ tasks = <<>> /\ events = <<>> /\ heap = <<>> /\ cur = 0 /\ file = [s \in Sigs |-> Idle]
  /\ proof = [held |-> TRUE, stamped |-> TRUE, fresh |-> TRUE]
  /\ hist = [wrote |-> {}, cut |-> {}, glued |-> {}, failed |-> {}, overlap |-> FALSE, unproven |-> FALSE]
  /\ files = 0 /\ foreign = 0 /\ faults = 0 /\ crashes = 0

(* ------------------------------- the index ------------------------------ *)

MaxEvent == Max({0} \cup {events[n].id : n \in {m \in DOMAIN events : events[m].ok}})

(* reload and reloadEvents: what the two files say now.                    *)
Reload ==
  [stamp |-> Len(tasks), maxEvent |-> MaxEvent,
   rows |-> {n \in DOMAIN tasks : tasks[n].ok /\ tasks[n].sig # "other"},
   strict |-> \A n \in DOMAIN tasks : tasks[n].ok]

(* indexFor: the cached object, or a fresh one when the file has moved.    *)
IndexFor == IF cur # 0 /\ heap[cur].stamp = Len(tasks) THEN heap ELSE Append(heap, Reload)

Using(s) == file[s].ph \in {"row", "event", "comment"}
Indexed(s) ==
  /\ heap' = IndexFor /\ cur' = IF IndexFor = heap THEN cur ELSE Len(IndexFor)
  /\ hist' = [hist EXCEPT !.overlap = @ \/ (IndexFor # heap /\ \E t \in Sigs \ {s} : Using(t))]

(* The row of s an index object knows, the last line first.                *)
RowOf(ix, s) == {n \in ix.rows : tasks[n].sig = s}

(* ------------------------------- the filing ----------------------------- *)

(* sigRow asks the boards indexed so far, none after a start.              *)
SigRow(s) ==
  /\ file[s].ph = "idle" /\ files < MaxFiles /\ files' = files + 1
  /\ IF cur = 0
     THEN file' = [file EXCEPT ![s].ph = "gate"] /\ UNCHANGED <<heap, cur, hist>>
     ELSE /\ Indexed(s)
          /\ LET g == IF IndexFor = heap THEN cur ELSE Len(IndexFor)
                 known == RowOf(IndexFor[g], s)
             IN file' = [file EXCEPT ![s] =
                          IF known = {} THEN [Idle EXCEPT !.ph = "gate"]
                                        ELSE [ph |-> "comment", ix |-> g, row |-> Max(known)]]
  /\ UNCHANGED <<tasks, events, proof, foreign, faults, crashes>>

(* registrationHolds, then the index the rest of the call works on.        *)
Gate(s) ==
  /\ file[s].ph = "gate"
  /\ IF proof.held /\ proof.stamped
     THEN /\ heap' = IndexFor /\ cur' = IF IndexFor = heap THEN cur ELSE Len(IndexFor)
          /\ hist' = [hist EXCEPT !.overlap = @ \/ (IndexFor # heap /\ \E t \in Sigs \ {s} : Using(t)),
                                  !.unproven = @ \/ ~proof.fresh]
          /\ file' = [file EXCEPT ![s] =
                        IF heap'[cur'].strict THEN [ph |-> "row", ix |-> cur', row |-> 0] ELSE Idle]
     ELSE file' = [file EXCEPT ![s] = Idle] /\ UNCHANGED <<heap, cur, hist>>
  /\ UNCHANGED <<tasks, events, proof, files, foreign, faults, crashes>>

(* A line joins an unterminated one before it, and neither parses.         *)
Torn(f) == f # <<>> /\ Last(f).open
Line(f, l) == l @@ [ok |-> ~Torn(f), open |-> FALSE]
Lands(f, l) == Append(IF Torn(f) THEN [f EXCEPT ![Len(f)].ok = FALSE] ELSE f, l)

(* What an appendLine that fails leaves: nothing, a line cut short, all of *)
(* it but the newline, or the whole line, which was not synced.            *)
FailedLands(f, l) ==
  {f} \cup {Lands(f, [Line(f, l) EXCEPT !.ok = @ /\ e.ok, !.open = e.open]) :
             e \in {[ok |-> FALSE, open |-> TRUE], [ok |-> TRUE, open |-> TRUE], [ok |-> TRUE, open |-> FALSE]}}

(* writeRow's first append.  A failed one ends the call; the index object  *)
(* is not told of it.                                                      *)
AppendRow(s) ==
  LET n == Len(tasks) + 1 g == file[s].ix row == [sig |-> s] IN
  /\ file[s].ph = "row"
  /\ \/ /\ tasks' = Lands(tasks, Line(tasks, row))
        /\ heap' = [heap EXCEPT ![g].rows = @ \cup {n}]
        /\ hist' = [hist EXCEPT !.glued = IF Torn(tasks) THEN @ \cup {n} ELSE @]
        /\ file' = [file EXCEPT ![s].ph = "event", ![s].row = n] /\ UNCHANGED faults
     \/ /\ faults < MaxFaults /\ faults' = faults + 1 /\ file' = [file EXCEPT ![s] = Idle]
        /\ tasks' \in FailedLands(tasks, row)
        /\ hist' = [hist EXCEPT !.cut = @ \cup (DOMAIN tasks' \ DOMAIN tasks)] /\ UNCHANGED heap
  /\ UNCHANGED <<events, cur, proof, files, foreign, crashes>>

(* A mutant: any task_created event will do.                               *)
HasEvent_AnyTask(row) == \E n \in DOMAIN events : events[n].kind = "created"

Created(row) == {n \in DOMAIN events : events[n].ok /\ events[n].task = row /\ events[n].kind = "created"}

(* hasEvent reads the file.                                                *)
HasEvent(row) == Created(row) # {}

NextId(g) == heap[g].maxEvent + 1

(* writeEvent numbers from the index object the call holds; the number is  *)
(* given back when the append fails, whatever the append left.             *)
WriteEvent(s, kind, ok) ==
  LET g == file[s].ix ev == [id |-> NextId(g), task |-> file[s].row, kind |-> kind] IN
  IF ok THEN heap' = [heap EXCEPT ![g].maxEvent = NextId(g)] /\ events' = Lands(events, Line(events, ev))
        ELSE UNCHANGED heap /\ events' \in FailedLands(events, ev)

(* The task_created event of the row just written.                         *)
AppendEvent(s) ==
  LET row == file[s].row IN
  /\ file[s].ph = "event" /\ file' = [file EXCEPT ![s] = Idle]
  /\ \/ /\ IF HasEvent(row) THEN UNCHANGED <<heap, events>> ELSE WriteEvent(s, "created", TRUE)
        /\ hist' = [hist EXCEPT !.wrote = @ \cup {row}, !.glued = IF Torn(events) THEN @ \cup {row} ELSE @]
        /\ UNCHANGED faults
     \/ /\ faults < MaxFaults /\ faults' = faults + 1 /\ ~HasEvent(row) /\ WriteEvent(s, "created", FALSE)
        /\ hist' = [hist EXCEPT !.cut = @ \cup {row}, !.failed = @ \cup (DOMAIN events' \ DOMAIN events)]
  /\ UNCHANGED <<tasks, cur, proof, files, foreign, crashes>>

(* A recurrence is a comment on the row, every time.                       *)
Comment(s) ==
  /\ file[s].ph = "comment" /\ file' = [file EXCEPT ![s] = Idle]
  /\ \/ WriteEvent(s, "comment", TRUE) /\ UNCHANGED <<hist, faults>>
     \/ /\ faults < MaxFaults /\ faults' = faults + 1 /\ WriteEvent(s, "comment", FALSE)
        /\ hist' = [hist EXCEPT !.failed = @ \cup (DOMAIN events' \ DOMAIN events)]
  /\ UNCHANGED <<tasks, cur, proof, files, foreign, crashes>>

(* One step of a File call past sigRow.                                    *)
File(s) == Gate(s) \/ AppendRow(s) \/ AppendEvent(s) \/ Comment(s)

(* ------------------------- registration and restart --------------------- *)

(* Probe: the scheduler's answer is taken; without one the last value      *)
(* stays, and the time of the probe is set either way.                     *)
Probe ==
  /\ \/ \E held \in BOOLEAN : proof' = [held |-> held, stamped |-> TRUE, fresh |-> TRUE]
     \/ proof' = [proof EXCEPT !.stamped = TRUE]
  /\ proof' # proof
  /\ UNCHANGED <<tasks, events, heap, cur, file, hist, files, foreign, faults, crashes>>

(* registration_stale_max passes for the last answer, or for the last      *)
(* probe too.                                                              *)
Stale ==
  /\ proof.fresh \/ proof.stamped
  /\ \E st \in {FALSE, proof.stamped} : proof' = [proof EXCEPT !.fresh = FALSE, !.stamped = st]
  /\ proof' # proof
  /\ UNCHANGED <<tasks, events, heap, cur, file, hist, files, foreign, faults, crashes>>

(* Reconcile re-appends the missing events of the boards indexed so far.   *)
Reconcile(boards) == {n \in UNION {heap[g].rows : g \in boards} : ~HasEvent(n)}

(* Start after a crash: f.boards is empty when Reconcile looks at it.      *)
Restart ==
  /\ crashes < MaxCrashes /\ crashes' = crashes + 1 /\ Reconcile({}) = {}
  /\ heap' = <<>> /\ cur' = 0 /\ file' = [s \in Sigs |-> Idle]
  /\ hist' = [hist EXCEPT !.cut = @ \cup {file[s].row : s \in {t \in Sigs : file[t].ph = "event"}}]
  /\ UNCHANGED <<tasks, events, proof, files, foreign, faults>>

(* Another tool files a task of its own, with its event.                   *)
Other ==
  /\ foreign < MaxForeign /\ foreign' = foreign + 1
  /\ tasks' = Lands(tasks, Line(tasks, [sig |-> "other"]))
  /\ events' = Lands(events, Line(events, [id |-> MaxEvent + 1, task |-> Len(tasks) + 1, kind |-> "created"]))
  /\ hist' = [hist EXCEPT !.overlap = @ \/ \E s \in Sigs : Using(s)]
  /\ UNCHANGED <<heap, cur, file, proof, files, faults, crashes>>

(* ------------------------------ properties ------------------------------ *)

TypeOK ==
  /\ cur \in 0..Len(heap) /\ \A s \in Sigs : file[s].ix \in 0..Len(heap) /\ file[s].row \in 0..Len(tasks)
  /\ \A n \in DOMAIN events : events[n].task \in DOMAIN tasks

Rows(s) == {n \in DOMAIN tasks : tasks[n].sig = s /\ tasks[n].ok}

(* One row per signature (SPEC-08 §3.4), but for the one more that each    *)
(* start may cost, its first filing asking an index that is not built yet. *)
OneRowPerSig == \A s \in Sigs : Cardinality(Rows(s)) <= 1 + crashes

(* A filing reported as written can be read back, unless its row or its    *)
(* event was appended behind a line a failed append left unterminated.     *)
WroteReadable == \A n \in hist.wrote : n \in hist.glued \/ (tasks[n].ok /\ Created(n) # {})

(* Every row that can be read has one task_created event, at most one      *)
(* always, and none only if an append of the two failed, a crash came      *)
(* between them or the event went behind an unterminated line: nothing     *)
(* adds it later.                                                          *)
OneCreatedEvent ==
  \A n \in UNION {Rows(s) : s \in Sigs} :
    /\ Cardinality(Created(n)) <= 1
    /\ n \in hist.cut \cup hist.glued \/ (\E s \in Sigs : file[s].row = n) \/ Created(n) # {}

(* Two events that can be read have one id only if a filing worked on an   *)
(* index that another filing or another tool had made stale, or one of     *)
(* them is the whole line of an append that failed to sync.                *)
EventIdsUnique ==
  hist.overlap \/ \A m, n \in DOMAIN events :
    (events[m].ok /\ events[n].ok /\ events[m].id = events[n].id) => (m = n \/ {m, n} \cap hist.failed # {})

(* What SPEC-08 §3.5 asks: no filing past the gate on a proof older than   *)
(* registration_stale_max.                                                 *)
FiledOnFreshProof == ~hist.unproven
=============================================================================
