----------------------------- MODULE SensorFold -----------------------------
(* What handleEvent does with an evaluated observation (internal/sensors):  *)
(* the count-preserving fold of repeated samples and the records written,  *)
(* beside the dropout episodes livenessCheck opens and closes.  Every      *)
(* sensor's goroutine takes folds out of the table under the fold's lock   *)
(* and writes them after it has let go of it, its own folds and any other  *)
(* sensor's whose window is over.                                          *)
EXTENDS Naturals, SequencesExt

CONSTANTS
  Procs,    \* the sensors; each observes one signature, its own
  MaxFolds, \* foldMaxOpen
  Window,   \* sensors.sample_fold_window
  StaleAfter, \* staleAfter, one for every sensor
  MaxTime, MaxEvents, MaxFaults

VARIABLES
  now,
  open,    \* signature -> its open fold: [first, count]; count 0 is no fold
  proc,    \* each sensor's observation in progress: [pc, fire, out]
  wrote,   \* signature -> observations its records in the ledger stand for
  seen,    \* signature -> observations made
  lost,    \* signature -> observations that went with a refused record
  sensor,  \* sensor -> [ok, degraded, alive]: lastOK, the flag, its source
  gaps,    \* sensor -> its episode: [open, opened, filed, lost]
  stopped, spent

vars == <<now, open, proc, wrote, seen, lost, sensor, gaps, stopped, spent>>

NoFold == [first |-> 0, count |-> 0]
Rest == [pc |-> "idle", fire |-> FALSE, out |-> <<>>]
Init ==
  /\ now = 0 /\ open = [p \in Procs |-> NoFold] /\ proc = [p \in Procs |-> Rest]
  /\ wrote = [p \in Procs |-> 0] /\ seen = [p \in Procs |-> 0] /\ lost = [p \in Procs |-> 0]
  /\ sensor = [p \in Procs |-> [ok |-> 0, degraded |-> FALSE, alive |-> TRUE]]
  /\ gaps = [p \in Procs |-> [open |-> FALSE, opened |-> 0, filed |-> 0, lost |-> 0]]
  /\ stopped = FALSE /\ spent = [events |-> 0, faults |-> 0]

Tick == now < MaxTime /\ now' = now + 1
        /\ UNCHANGED <<open, proc, wrote, seen, lost, sensor, gaps, stopped, spent>>

Open == {p \in Procs : open[p].count > 0}
Elapsed(p) == now >= open[p].first + Window
-----------------------------------------------------------------------------
(* Folds taken out of the table, in the order of their first observation,  *)
(* each to be written as one record with its count.                        *)
Closed(S) ==
  LET draft(q) == [sig |-> q, first |-> open[q].first, count |-> open[q].count]
  IN  SetToSortSeq({draft(q) : q \in S}, LAMBDA x, y : x.first < y.first)
Taken(S) == [p \in Procs |-> IF p \in S THEN NoFold ELSE open[p]]

(* closeElapsed: every fold whose window is over, whosever it is.          *)
CloseElapsed == {q \in Open : Elapsed(q)}

(* handleEvent once the rules have decided the payload.                    *)
HandleEvent(p) ==
  /\ proc[p].pc = "idle" /\ ~stopped /\ sensor[p].alive /\ spent.events < MaxEvents
  /\ open' = Taken(CloseElapsed)
  /\ \E fire \in BOOLEAN :
       proc' = [proc EXCEPT ![p] = [pc |-> "closed", fire |-> fire, out |-> Closed(CloseElapsed)]]
  /\ seen' = [seen EXCEPT ![p] = @ + 1]
  /\ sensor' = [sensor EXCEPT ![p].ok = now]
  /\ spent' = [spent EXCEPT !.events = @ + 1]
  /\ UNCHANGED <<now, wrote, lost, gaps, stopped>>

(* close, and the emit of a record that is not folded: one record, or one  *)
(* drop on the sensor's counter.                                           *)
Emit(p) ==
  /\ proc[p].out # <<>>
  /\ LET r == Head(proc[p].out) IN
     \/ wrote' = [wrote EXCEPT ![r.sig] = @ + r.count] /\ UNCHANGED <<lost, spent>>
     \/ /\ spent.faults < MaxFaults /\ spent' = [spent EXCEPT !.faults = @ + 1]
        /\ lost' = [lost EXCEPT ![r.sig] = @ + r.count] /\ UNCHANGED wrote
  /\ proc' = [proc EXCEPT ![p].out = Tail(@)]
  /\ UNCHANGED <<now, open, seen, sensor, gaps, stopped>>

Full(S) == Cardinality(S) >= MaxFolds
OldestLocked(S) == CHOOSE q \in S : \A x \in S : open[q].first <= open[x].first
Replaced(p) ==
  LET own == {q \in Open \cap {p} : Elapsed(q)}
      rest == Open \ own
  IN  own \cup (IF Full(rest) THEN {OldestLocked(rest)} ELSE {})
Observe(p) ==
  /\ proc[p].pc = "closed" /\ proc[p].out = <<>> /\ ~proc[p].fire
  /\ \/ /\ p \in Open /\ ~Elapsed(p)
        /\ open' = [open EXCEPT ![p].count = @ + 1]
        /\ proc' = [proc EXCEPT ![p] = Rest]
     \/ /\ p \notin Open \/ Elapsed(p)
        /\ open' = [Taken(Replaced(p)) EXCEPT ![p] = [first |-> now, count |-> 1]]
        /\ proc' = [proc EXCEPT ![p] = [Rest EXCEPT !.pc = "emit", !.out = Closed(Replaced(p))]]
  /\ UNCHANGED <<now, wrote, seen, lost, sensor, gaps, stopped, spent>>

(* A mutant: a fire writes the signature's fold and leaves it in the table. *)
CloseSig_Keeps(p) == open
CloseSig(p) == Taken({p})
Fires(p) ==
  /\ proc[p].pc = "closed" /\ proc[p].out = <<>> /\ proc[p].fire
  /\ open' = CloseSig(p)
  /\ proc' = [proc EXCEPT ![p] =
       [Rest EXCEPT !.pc = "emit",
                    !.out = Append(Closed(Open \cap {p}), [sig |-> p, first |-> now, count |-> 1])]]
  /\ UNCHANGED <<now, wrote, seen, lost, sensor, gaps, stopped, spent>>

Done(p) ==
  /\ proc[p].pc = "emit" /\ proc[p].out = <<>> /\ proc' = [proc EXCEPT ![p] = Rest]
  /\ UNCHANGED <<now, open, wrote, seen, lost, sensor, gaps, stopped, spent>>
-----------------------------------------------------------------------------
(* A sensor's source goes silent, and speaks again (sensorOK).             *)
Source(p) ==
  /\ \/ /\ sensor[p].alive /\ spent.faults < MaxFaults /\ spent' = [spent EXCEPT !.faults = @ + 1]
        /\ sensor' = [sensor EXCEPT ![p].alive = FALSE]
     \/ /\ ~sensor[p].alive /\ UNCHANGED spent
        /\ sensor' = [sensor EXCEPT ![p].alive = TRUE, ![p].ok = now]
  /\ UNCHANGED <<now, open, proc, wrote, seen, lost, gaps, stopped>>

(* emitGap: the record, or a refusal that leaves none.                     *)
EmitGap(g) ==
  \/ gaps' = [gaps EXCEPT ![g].open = FALSE, ![g].filed = @ + 1] /\ UNCHANGED spent
  \/ /\ spent.faults < MaxFaults /\ spent' = [spent EXCEPT !.faults = @ + 1]
     /\ gaps' = [gaps EXCEPT ![g].open = FALSE, ![g].lost = @ + 1]

OpenGap(p) ==
  /\ ~gaps[p].open
  /\ gaps' = [gaps EXCEPT ![p].open = TRUE, ![p].opened = @ + 1]
  /\ sensor' = [sensor EXCEPT ![p].degraded = TRUE]
  /\ UNCHANGED spent
CloseGap(p) ==
  /\ gaps[p].open
  /\ EmitGap(p)
  /\ sensor' = [sensor EXCEPT ![p].degraded = FALSE]

(* livenessCheck, for one sensor: a stale one opens an episode, a fresh    *)
(* one that is marked degraded closes it.                                  *)
Stale(p) == now > sensor[p].ok + StaleAfter
LivenessCheck(p) ==
  /\ ~stopped
  /\ \/ Stale(p) /\ OpenGap(p)
     \/ ~Stale(p) /\ sensor[p].degraded /\ CloseGap(p)
  /\ UNCHANGED <<now, open, proc, wrote, seen, lost, stopped>>

(* A good Reload clears every sensor's degradation, open episode or not.   *)
ClearReasons ==
  /\ ~stopped /\ \E p \in Procs : sensor[p].degraded
  /\ sensor' = [p \in Procs |-> [sensor[p] EXCEPT !.degraded = FALSE]]
  /\ UNCHANGED <<now, open, proc, wrote, seen, lost, gaps, stopped, spent>>

Flush == [p \in Procs |-> wrote[p] + open[p].count]
FileOpen == [p \in Procs |-> IF gaps[p].open THEN [gaps[p] EXCEPT !.open = FALSE, !.filed = @ + 1]
                             ELSE gaps[p]]
Stop ==
  /\ ~stopped
  /\ \/ \A p \in Procs : proc[p].pc = "idle"
     \/ \E p \in Procs : proc[p].out # <<>>
  /\ stopped' = TRUE /\ wrote' = Flush /\ open' = Taken(Open)
  /\ gaps' = FileOpen
  /\ UNCHANGED <<now, proc, seen, lost, sensor, spent>>

Next ==
  \/ Tick \/ ClearReasons \/ Stop
  \/ \E p \in Procs :
       \/ HandleEvent(p) \/ Emit(p) \/ Observe(p) \/ Fires(p) \/ Done(p)
       \/ Source(p) \/ LivenessCheck(p)
-----------------------------------------------------------------------------
(* Observations a sensor holds that are on their way to a record.          *)
InHand(p) ==
  LET of(q) == FoldSeq(LAMBDA r, n : IF r.sig = p THEN n + r.count ELSE n, 0, proc[q].out)
  IN  FoldSet(LAMBDA q, n : n + of(q), 0, Procs)
      + (IF proc[p].pc = "closed" THEN 1 ELSE 0)

(* fold.go: the count is the drop-proof.  Whoever closes a fold, and       *)
(* whenever, every observation is in exactly one of: a record's count, an  *)
(* open fold, a goroutine's hand, a refused record.                        *)
CountsAddUp == \A p \in Procs : seen[p] = wrote[p] + lost[p] + open[p].count + InHand(p)

(* foldMaxOpen bounds the table, however many signatures are observed.     *)
FoldBound == Cardinality(Open) <= MaxFolds

(* One gap record per episode: opened once, and filed, refused or open.    *)
EpisodesAccounted ==
  \A p \in Procs : gaps[p].opened = gaps[p].filed + gaps[p].lost + (IF gaps[p].open THEN 1 ELSE 0)
=============================================================================
