--------------------------- MODULE SentinelIngest ---------------------------
(***************************************************************************)
(* Admission of one project's events by the sentinel (internal/sentinel):  *)
(* the duplicate window, the fold of id-less retries, the quota and the    *)
(* three loss policies, the loss spool and its replay, the group's counter *)
(* and the records it is rebuilt from.  Several requests, the flusher and  *)
(* the replay interleave; a ledger append may fail, or land after the      *)
(* request was told it had not; a crash loses what is in memory.           *)
(*                                                                         *)
(* All events here have one signature.  The disk budget is left out: the   *)
(* sampler sees only the spool's bytes, whose own budget is an eighth of   *)
(* it.  An event without an id of its own is "anon".                       *)
(***************************************************************************)
EXTENDS Naturals, Sequences, FiniteSets, SequencesExt

CONSTANTS
  Reqs,                            \* requests in flight (the semaphore)
  Envelopes, Stores,               \* the items of an envelope; the ids the other routes carry
  Policies,                        \* loss policies the project may have
  Rels,                            \* whether an event may bring a group record of its own
  Quota, SpoolMax,                 \* events of a window, entries of the spool
  MaxTries, MaxFaults, MaxCrashes  \* bounds

VARIABLES
  policy,   \* the project's loss_policy
  log,      \* the ledger's records of the sentinel
  grp,      \* the group in memory: [known, count, upper, dirty]
  dups,     \* ids in the duplicate window
  fold,     \* the fold window of id-less events is open
  used,     \* the quota used in this window
  spool,    \* the spool file: [id, ok], ok FALSE for an entry that cannot be read
  torn,     \* the file's length is not what the spool takes it to be
  req,      \* req[p]: the request p, its items and the admission of the k-th
  late,     \* appends given up on that may still land
  flush,    \* flushGroups' snapshot, NoGroup between flushes
  hist,     \* history: sets of ids, and whether an event preceded its group
  tries, faults, crashes

vars == <<policy, log, grp, dups, fold, used, spool, torn, req, late, flush, hist, tries, faults, crashes>>

Replayer == "replay"
Procs == Reqs \cup {Replayer}

NoGroup == [known |-> FALSE, count |-> 0, upper |-> 0, dirty |-> FALSE]
Idle == [ph |-> "idle", items |-> <<"anon">>, k |-> 1, bad |-> {}, rel |-> FALSE, disp |-> "none", seq |-> 0,
         draft |-> NoGroup]
Id(p) == req[p].items[req[p].k]
NoHistory == [acked |-> {}, refused |-> {}, spooled |-> {}, spent |-> {}, evicted |-> {}, orphan |-> FALSE]

Init ==
  /\ policy \in Policies /\ log = <<>> /\ grp = NoGroup /\ dups = {} /\ fold = FALSE /\ used = 0
  /\ spool = <<>> /\ torn = FALSE /\ req = [p \in Procs |-> Idle] /\ late = {} /\ flush = NoGroup /\ hist = NoHistory
  /\ tries = 0 /\ faults = 0 /\ crashes = 0

Fault == faults < MaxFaults /\ faults' = faults + 1

EventRec(id, disp) == [kind |-> "event", id |-> id, disp |-> disp, count |-> 0, upper |-> 0]
GroupRec(g) == [kind |-> "group", id |-> "", disp |-> "", count |-> g.count, upper |-> g.upper]
GapRec == [kind |-> "gap", id |-> "", disp |-> "", count |-> 0, upper |-> 0]
Events == {n \in DOMAIN log : log[n].kind = "event"}
Groups == {n \in DOMAIN log : log[n].kind = "group"}
Kept == {n \in Events : log[n].disp \in {"admitted", "sampled"}}

(* ------------------------------- requests ------------------------------- *)

Take(p, items) ==
  /\ req[p].ph = "idle" /\ tries < MaxTries /\ tries' = tries + 1
  /\ \E rel \in Rels : req' = [req EXCEPT ![p] = [Idle EXCEPT !.ph = "admit", !.items = items, !.rel = rel]]
  /\ UNCHANGED <<policy, log, grp, dups, fold, used, spool, torn, late, flush, hist, faults, crashes>>

(* The routes, past authentication and parsing.  rel: the release of the   *)
(* first event is new to the group, or it is the group's hundredth.        *)
HandleEnvelope(p) == \E items \in Envelopes : Take(p, items)
HandleStore(p) == \E id \in Stores : Take(p, <<id>>)
HandleGeneric(p) == Take(p, <<"anon">>)

(* The items refused so far: the first of them is the answer.              *)
Refused(p, ok) == req[p].bad \cup (IF ok THEN {} ELSE {Id(p)})

(* The k-th item is done with: the next one, or the answer.                *)
LastItem(p) == req[p].k = Len(req[p].items)
ItemEnds(p, ok) ==
  req' = [req EXCEPT ![p] =
            IF LastItem(p) THEN Idle
            ELSE [Idle EXCEPT !.ph = "admit", !.items = req[p].items, !.k = req[p].k + 1, !.bad = Refused(p, ok)]]
Goes(p, ph) == req' = [req EXCEPT ![p].ph = ph]

(* What the answer adds to the history.  A refused id stays claimed, and a *)
(* refused replay is dropped.                                              *)
Answer(h, p, ok) ==
  [h EXCEPT !.acked = IF p \in Reqs /\ LastItem(p) /\ Refused(p, ok) = {} THEN @ \cup Range(req[p].items) ELSE @,
            !.refused = IF LastItem(p) THEN @ \cup Refused(p, ok) ELSE @,
            !.spent = IF ok \/ p \in Reqs THEN @ ELSE @ \cup {Id(p)}]
Done(p, ok) == ItemEnds(p, ok) /\ hist' = Answer(hist, p, ok)

(* ------------------------------- admission ------------------------------ *)

(* dupeSeen and the fold's claim: both take the id before anything is      *)
(* known to be recorded.                                                   *)
DupeSeen(id) == id # "anon" /\ id \in dups
GenericFoldApplies(p) == Id(p) = "anon" /\ p \in Reqs

(* A field the scrubber refuses ends the admission, nothing is recorded.   *)
ScrubEvent(p) == Fault /\ Done(p, FALSE)

(* admitEvent up to the quota: duplicate, scrub, fold.                     *)
Admit(p) ==
  LET id == Id(p) IN
  /\ req[p].ph = "admit"
  /\ IF DupeSeen(id)
     THEN /\ hist' = [Answer(hist, p, TRUE) EXCEPT !.spent = IF p \in Reqs THEN @ ELSE @ \cup {id}]
          /\ ItemEnds(p, TRUE) /\ UNCHANGED <<dups, fold, faults>>
     ELSE /\ dups' = IF id = "anon" THEN dups ELSE dups \cup {id}
          /\ \/ /\ fold' = (fold \/ GenericFoldApplies(p))
                /\ Goes(p, IF fold /\ GenericFoldApplies(p) THEN "fold" ELSE "quota")
                /\ UNCHANGED <<hist, faults>>
             \/ ScrubEvent(p) /\ UNCHANGED fold
  /\ UNCHANGED <<policy, log, grp, used, spool, torn, late, flush, tries, crashes>>

(* foldGenericGroup: a retry is counted as suppressed on an update record. *)
FoldGenericGroup(p) ==
  /\ req[p].ph = "fold" /\ Done(p, TRUE)
  /\ \/ /\ grp.known /\ log' = Append(log, GroupRec(grp)) /\ UNCHANGED faults
        /\ grp' = [grp EXCEPT !.upper = Len(log) + 1, !.dirty = FALSE]
     \/ grp.known /\ Fault /\ grp' = [grp EXCEPT !.dirty = TRUE] /\ UNCHANGED log
     \/ ~grp.known /\ UNCHANGED <<log, grp, faults>>
  /\ UNCHANGED <<policy, dups, fold, used, spool, torn, late, flush, tries, crashes>>

(* --------------------------- quota and losses --------------------------- *)

(* spoolEvent answers 0 whenever the entry was written.                    *)
Dropped == 0

Rewritten == Len(spool) = SpoolMax
Evicted == IF Rewritten THEN {Head(spool).id} ELSE {}

(* Spool.Append, dropping the oldest for it.  Rewriting the file mends its *)
(* length before the entry is written.                                     *)
SpoolAppend(id) ==
  /\ spool' = Append(IF Rewritten THEN Tail(spool) ELSE spool, [id |-> id, ok |-> Rewritten \/ ~torn])
  /\ torn' = (torn /\ ~Rewritten)

(* observe: the event is counted before its record is written.             *)
Observe == grp' = [grp EXCEPT !.known = TRUE, !.count = @ + 1]

KeepAs(p, disp) ==
  /\ Observe /\ req' = [req EXCEPT ![p].ph = "draft", ![p].disp = disp, ![p].rel = @ \/ ~grp.known]
  /\ UNCHANGED <<log, spool, torn, hist, faults>>
LoseAs(p, disp) == req' = [req EXCEPT ![p].ph = "lost", ![p].disp = disp]

(* applyLoss for an event the quota has no room for.                       *)
ApplyLoss(p) ==
  \/ policy = "sample" /\ KeepAs(p, "sampled")
  \/ policy = "sample" /\ LoseAs(p, "sampled out") /\ UNCHANGED <<log, grp, spool, torn, hist, faults>>
  \/ policy = "drop" /\ LoseAs(p, "dropped") /\ UNCHANGED <<log, grp, spool, torn, hist, faults>>
  \/ /\ policy = "spool" /\ SpoolAppend(Id(p)) /\ LoseAs(p, "spooled") /\ UNCHANGED <<grp, faults>>
     /\ log' = IF Dropped > 0 THEN Append(log, GapRec) ELSE log
     /\ hist' = [hist EXCEPT !.spooled = @ \cup {Id(p)}, !.evicted = @ \cup Evicted,
                             !.spent = @ \cup Evicted \cup (IF torn /\ ~Rewritten THEN {Id(p)} ELSE {})]
  \/ /\ policy = "spool" /\ Fault /\ LoseAs(p, "spool full") /\ UNCHANGED <<log, grp, spool, torn>>
     /\ hist' = [hist EXCEPT !.spent = IF p = Replayer THEN @ \cup {Id(p)} ELSE @]

Allow == used < Quota
QuotaAdmit(p) ==
  /\ req[p].ph = "quota"
  /\ IF Allow THEN used' = used + 1 /\ KeepAs(p, "admitted") ELSE ApplyLoss(p) /\ UNCHANGED used
  /\ UNCHANGED <<policy, dups, fold, late, flush, tries, crashes>>

(* A lost event still has its record; only a dropped one is a refusal.     *)
RecordLoss(p) ==
  /\ req[p].ph = "lost"
  /\ \/ log' = Append(log, EventRec(Id(p), req[p].disp)) /\ Done(p, req[p].disp # "dropped") /\ UNCHANGED faults
     \/ Fault /\ Done(p, FALSE) /\ UNCHANGED log
  /\ UNCHANGED <<policy, grp, dups, fold, used, spool, torn, late, flush, tries, crashes>>

(* ------------------------- the batch of an event ------------------------ *)

(* LastSeq() + 1, taken for the number the event will have.                *)
Watermark == Len(log) + 1

(* groupAdmissionDraft.                                                    *)
Draft(p) ==
  /\ req[p].ph = "draft"
  /\ grp' = IF req[p].rel THEN [grp EXCEPT !.upper = Watermark, !.dirty = FALSE] ELSE grp
  /\ req' = [req EXCEPT ![p].ph = "append", ![p].draft = grp']
  /\ UNCHANGED <<policy, log, dups, fold, used, spool, torn, late, flush, hist, tries, faults, crashes>>

(* draftsForBatch: the event, and the group's record if it has one.        *)
Batch(p) == <<EventRec(Id(p), req[p].disp)>> \o (IF req[p].rel THEN <<GroupRec(req[p].draft)>> ELSE <<>>)
Orphan(batch) == [hist EXCEPT !.orphan = @ \/ (Len(batch) = 1 /\ Groups = {})]

(* appendRecordBatch: it lands, it fails, or ledger_wait passes first.     *)
AppendBatch(p) ==
  /\ req[p].ph = "append"
  /\ \/ /\ log' = log \o Batch(p) /\ hist' = Orphan(Batch(p)) /\ UNCHANGED <<late, faults>>
        /\ req' = [req EXCEPT ![p].ph = "after", ![p].seq = Len(log) + 1]
     \/ Fault /\ Done(p, FALSE) /\ late' \in {late, late \cup {Batch(p)}} /\ UNCHANGED log
  /\ UNCHANGED <<policy, grp, dups, fold, used, spool, torn, flush, tries, crashes>>

(* An abandoned append lands after its request was refused, or fails.      *)
LandsLate ==
  /\ \E batch \in late :
       /\ late' = late \ {batch}
       /\ (log' = log \o batch /\ hist' = Orphan(batch)) \/ UNCHANGED <<log, hist>>
  /\ UNCHANGED <<policy, grp, dups, fold, used, spool, torn, req, flush, tries, faults, crashes>>

(* The counters after the batch, and the answer.                           *)
AfterBatch(p) ==
  /\ req[p].ph = "after" /\ Done(p, TRUE)
  /\ grp' = IF req[p].rel THEN [grp EXCEPT !.upper = req[p].seq, !.dirty = FALSE]
            ELSE [grp EXCEPT !.dirty = @ \/ req[p].disp = "sampled"]
  /\ UNCHANGED <<policy, log, dups, fold, used, spool, torn, late, flush, tries, faults, crashes>>

(* ------------------------------ the loops ------------------------------- *)

(* flushGroups: the snapshot, then its record and the watermark in memory. *)
FlushGroups ==
  /\ \/ ~flush.known /\ grp.dirty /\ flush' = grp /\ UNCHANGED <<log, grp, faults>>
     \/ /\ flush.known /\ flush' = NoGroup /\ log' = Append(log, GroupRec(flush)) /\ UNCHANGED faults
        /\ grp' = [grp EXCEPT !.upper = Len(log) + 1, !.dirty = FALSE]
     \/ flush.known /\ Fault /\ flush' = NoGroup /\ UNCHANGED <<log, grp>>
  /\ UNCHANGED <<policy, dups, fold, used, spool, torn, req, late, hist, tries, crashes>>

(* replaySpool looks at the oldest entry: an unreadable one ends the pass. *)
Peek ==
  /\ req[Replayer].ph = "idle" /\ spool # <<>> /\ Head(spool).ok /\ used < Quota
  /\ req' = [req EXCEPT ![Replayer] = [Idle EXCEPT !.ph = "drain", !.items = <<Head(spool).id>>]]
  /\ UNCHANGED <<policy, log, grp, dups, fold, used, spool, torn, late, flush, hist, tries, faults, crashes>>

Drained == Tail(spool)

(* It takes out the oldest, which need not be the entry it looked at, and  *)
(* admits the one it looked at.                                            *)
Drain ==
  LET e == Head(spool) IN
  /\ req[Replayer].ph = "drain" /\ spool' = Drained /\ torn' = FALSE
  /\ Goes(Replayer, IF e.ok THEN "admit" ELSE "idle")
  /\ hist' = [hist EXCEPT !.spent = IF e.id = Id(Replayer) THEN @ ELSE @ \cup {e.id}]
  /\ UNCHANGED <<policy, log, grp, dups, fold, used, late, flush, tries, faults, crashes>>

Advance == 0

(* Time: the quota's minute, the duplicates' ten minutes, the fold's two.  *)
Turn ==
  /\ used > 0 /\ used' = Advance
  /\ UNCHANGED <<policy, log, grp, dups, fold, spool, torn, req, late, flush, hist, tries, faults, crashes>>
Forget ==
  /\ \/ dups # {} /\ dups' = {} /\ UNCHANGED fold
     \/ fold /\ fold' = FALSE /\ UNCHANGED dups
  /\ UNCHANGED <<policy, log, grp, used, spool, torn, req, late, flush, hist, tries, faults, crashes>>

(* ------------------------------- restart -------------------------------- *)

Replayed(upper) == Cardinality({n \in Events : n > upper})

(* rebuild: the last group record, and one more for each event above it.   *)
Rebuilt ==
  IF Groups = {} THEN NoGroup
  ELSE LET g == log[Max(Groups)] IN
       [known |-> TRUE, upper |-> g.upper, dirty |-> FALSE,
        count |-> g.count + Replayed(g.upper)]

InFlight == UNION {Range(req[p].items) : p \in {q \in Procs : req[q].ph # "idle"}}

Scan == SelectSeq(spool, LAMBDA e : e.ok)

(* A crash and a start: the spool is scanned up to what cannot be read,    *)
(* and a write it was in leaves a torn tail.                               *)
Restart ==
  /\ crashes < MaxCrashes /\ crashes' = crashes + 1
  /\ grp' = Rebuilt /\ dups' = {} /\ fold' = FALSE /\ used' = 0 /\ flush' = NoGroup
  /\ req' = [p \in Procs |-> Idle] /\ late' = {}
  /\ spool' = Scan
  /\ torn' \in {torn, TRUE} /\ (torn' # torn => \E p \in Procs : req[p].ph = "quota" /\ policy = "spool")
  /\ hist' = [hist EXCEPT !.refused = @ \cup InFlight, !.spent = @ \cup {Id(Replayer)}]
  /\ UNCHANGED <<policy, log, tries, faults>>

(* ------------------------------ properties ------------------------------ *)

TypeOK ==
  /\ grp.upper \in 0..(Len(log) + 2) /\ grp.count \in Nat /\ used \in 0..Quota
  /\ Len(spool) <= SpoolMax /\ \A p \in Procs : req[p].k \in DOMAIN req[p].items

Recorded(id) == \E n \in Events : log[n].id = id
Busy(id) == \E p \in Procs : req[p].ph # "idle" /\ id \in Range(req[p].items)

(* An event answered with 200 is on record, unless an earlier attempt with *)
(* the same id was refused, or cut by a crash, after the id was claimed    *)
(* (dupeSeen and the fold run first), or is still at work.                 *)
AckedIsRecorded == \A id \in hist.acked : Recorded(id) \/ id \in hist.refused \/ Busy(id)

(* What was spooled is in the spool, being replayed, or admitted; what a   *)
(* drop-oldest, a torn file, a refused replay, a crash during one, an id   *)
(* still in the window or an entry taken out for another cost is known.    *)
SpooledIsKept ==
  \A id \in hist.spooled :
    \/ id \in hist.spent \/ \E n \in DOMAIN spool : spool[n] = [id |-> id, ok |-> TRUE]
    \/ req[Replayer].ph # "idle" /\ Id(Replayer) = id
    \/ \E n \in Kept : log[n].id = id

(* A group rebuilt from the ledger never counts fewer events than the      *)
(* ledger keeps for it, once no event's record came before the group's     *)
(* first: the watermark is a guess, and an event it wrongly covers is      *)
(* matched by one it wrongly leaves out.                                   *)
NeverUndercounts == hist.orphan \/ Rebuilt.count >= Cardinality(Kept)

(* What loss.go says of a drop-oldest: it is noted in the ledger.          *)
EvictionsNoted == hist.evicted # {} => \E n \in DOMAIN log : log[n].kind = "gap"

(* The spool runs empty, unless a torn tail has put an unreadable entry at *)
(* its head.                                                               *)
SpoolEmpties == spool = <<>> \/ ~Head(spool).ok
=============================================================================
