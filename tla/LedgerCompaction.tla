-------------------------- MODULE LedgerCompaction --------------------------
(***************************************************************************)
(* Compaction of one day of the ledger (internal/ledger compact.go), its   *)
(* expiry, recovery's choice among the generations a crash left behind,    *)
(* and the walk that verifies the result.                                  *)
(*                                                                         *)
(* A line has a seq, so a file is a set of lines.  A directory operation   *)
(* is durable once the directory is synced: a crash undoes any of those    *)
(* still pending.                                                          *)
(***************************************************************************)
EXTENDS Naturals, FiniteSets, FiniteSetsExt

CONSTANTS
  Groups,
  MaxSeq,      \* bound: lines of the day
  SnapCounts,  \* the counters of the live group records the day may hold
  MaxGen,      \* bound: generations
  MaxFaults    \* bound: crashes and failing calls

VARIABLES
  disk,     \* the day's files: [gen, part] and their lines
  pending,  \* directory operations not yet synced: [op, file]
  idx,      \* the index's entry of the day: its files and generation
  comp,     \* the compaction under way
  cut,      \* lines up to this seq are past their retention
  day,      \* history: the day as the writer left it
  expired,  \* history: the day was dropped by retention
  faults

vars == <<disk, pending, idx, comp, cut, day, expired, faults>>

Kinds == {"event", "spine"} \cup (IF SnapCounts = {} THEN {} ELSE {"snap"})
Line(s, k, g, n) == [seq |-> s, kind |-> k, grp |-> g, n |-> n, folded |-> {}]
Idle == [pc |-> "idle", out |-> {}, left |-> {}]
NoDay == [gen |-> 0, files |-> {}]

Lines(files) == UNION {f.lines : f \in files}
Seqs(lines) == {l.seq : l \in lines}
TopGen(files) == Max({f.gen : f \in files})

(* authoritativeFiles: the highest generation of the day.                  *)
Authoritative(files) == {f \in files : f.gen = TopGen(files)}

(* ------------------------- what compaction writes ----------------------- *)

(* An event past its age is folded; so is every earlier aggregate, and     *)
(* isCompactionAggregate takes a live group record for one.                *)
Folds(l) == (l.kind = "event" /\ l.seq <= cut) \/ l.kind \in {"agg", "snap"}

(* The one line left of a group's folded lines, where the last one was.    *)
Aggregate(ls) ==
  [seq |-> Max(Seqs(ls)), kind |-> "agg", grp |-> (CHOOSE l \in ls : TRUE).grp,
   n |-> MapThenSumSet(LAMBDA l : l.n, ls), folded |-> Seqs(ls) \cup UNION {l.folded : l \in ls}]

Folded(lines) == {l \in lines : Folds(l)}
Compacted(lines) ==
  {l \in lines : ~Folds(l)} \cup
  {Aggregate({l \in Folded(lines) : l.grp = g}) : g \in {l.grp : l \in Folded(lines)}}

(* --------------------------- verification ------------------------------- *)

(* aggSeqSpans: the seqs the aggregates say they stand for.                *)
Consumed(lines) == UNION {l.folded : l \in {x \in lines : x.kind = "agg"}}

(* The seqs no line and no aggregate accounts for.                         *)
Holes(lines) ==
  LET all == Seqs(lines) \cup Consumed(lines)
  IN  IF lines = {} THEN {} ELSE (1 .. Max(all)) \ all

(* A group whose aggregates declare another count than the seqs they name. *)
Mismatched(lines) ==
  {g \in Groups :
     LET aggs == {l \in lines : l.kind = "agg" /\ l.grp = g}
         declared == MapThenSumSet(LAMBDA l : l.n, aggs)
         counted == Cardinality(Consumed(aggs))
     IN  declared # 0 /\ counted # 0 /\ declared # counted}

VerifyOK(lines) == Holes(lines) = {} /\ Mismatched(lines) = {}

(* ------------------------------- steps ---------------------------------- *)

Fault == faults < MaxFaults /\ faults' = faults + 1
Abort == comp' = Idle

Age(c) ==
  /\ c > cut /\ cut' = c
  /\ UNCHANGED <<disk, pending, idx, comp, day, expired, faults>>

(* compact up to its start record: refused without files, or when there is *)
(* nothing to fold (009).                                                  *)
Start ==
  /\ comp.pc = "idle" /\ idx.files # {} /\ idx.gen < MaxGen
  /\ Folded(Lines(idx.files)) # {}
  /\ comp' = [pc |-> "tmp", out |-> Compacted(Lines(idx.files)), left |-> idx.files]
  /\ UNCHANGED <<disk, pending, idx, cut, day, expired, faults>>

(* The start record, the tmp file or its fsync fails: nothing has changed. *)
StartFails ==
  /\ comp.pc = "tmp" /\ Fault /\ Abort
  /\ UNCHANGED <<disk, pending, idx, cut, day, expired>>

NewFile == [gen |-> idx.gen + 1, part |-> 1, lines |-> comp.out]

(* Mutant: the old parts may go before the new name is durable.            *)
Rename_Unsynced ==
  /\ comp.pc = "tmp"
  /\ disk' = {f \in disk : f.gen # NewFile.gen} \cup {NewFile}
  /\ pending' = pending \cup {[op |-> "add", file |-> NewFile]}
  /\ comp' = [comp EXCEPT !.pc = "unlink"]
  /\ UNCHANGED <<idx, cut, day, expired, faults>>

(* The fsynced file gets its name, replacing one an earlier pass left.     *)
Rename ==
  /\ comp.pc = "tmp"
  /\ disk' = {f \in disk : f.gen # NewFile.gen} \cup {NewFile}
  /\ pending' = pending \cup {[op |-> "add", file |-> NewFile]}
  /\ comp' = [comp EXCEPT !.pc = "sync"]
  /\ UNCHANGED <<idx, cut, day, expired, faults>>

SyncDir ==
  /\ comp.pc = "sync"
  /\ pending' = {}
  /\ comp' = [comp EXCEPT !.pc = "unlink"]
  /\ UNCHANGED <<disk, idx, cut, day, expired, faults>>

(* The directory cannot be synced: both generations stay, the index keeps  *)
(* the old one.                                                            *)
SyncDirFails ==
  /\ comp.pc = "sync" /\ Fault /\ Abort
  /\ UNCHANGED <<disk, pending, idx, cut, day, expired>>

(* One of the old parts and its sidecar; a failing unlink is passed over.  *)
Unlink(f) ==
  /\ comp.pc = "unlink" /\ f \in comp.left
  /\ comp' = [comp EXCEPT !.left = @ \ {f}]
  /\ \/ disk' = disk \ {f} /\ pending' = pending \cup {[op |-> "del", file |-> f]} /\ UNCHANGED faults
     \/ Fault /\ UNCHANGED <<disk, pending>>
  /\ UNCHANGED <<idx, cut, day, expired>>

(* The last sync, whose failure is ignored, and the index's new entry.     *)
Replace ==
  /\ comp.pc = "unlink" /\ comp.left = {}
  /\ pending' \in {pending, {}}
  /\ idx' = [gen |-> NewFile.gen, files |-> {NewFile}]
  /\ comp' = Idle
  /\ UNCHANGED <<disk, cut, day, expired, faults>>

(* ExpireDays: only a compacted day is unlinked.                           *)
Expire ==
  /\ comp.pc = "idle" /\ idx.gen > 0 /\ idx.files # {} /\ cut > MaxSeq
  /\ disk' = disk \ idx.files
  /\ pending' = pending \cup {[op |-> "del", file |-> f] : f \in idx.files}
  /\ idx' = NoDay /\ expired' = TRUE
  /\ UNCHANGED <<comp, cut, day, faults>>

(* A crash keeps any of the pending operations and undoes the others.      *)
Crash ==
  /\ comp.pc # "down" /\ Fault
  /\ comp' = [Idle EXCEPT !.pc = "down"]
  /\ \E lost \in SUBSET pending :
       disk' = (disk \ {p.file : p \in {q \in lost : q.op = "add"}})
                 \cup {p.file : p \in {q \in lost : q.op = "del"}}
  /\ pending' = {} /\ idx' = NoDay
  /\ UNCHANGED <<cut, day, expired>>

(* recover: the stale generations are unlinked, or fail to be, and the     *)
(* index is built from the rest.                                           *)
Recover ==
  /\ comp.pc = "down" /\ comp' = Idle
  /\ IF disk = {} THEN idx' = NoDay /\ UNCHANGED <<disk, pending, faults>>
     ELSE LET keep == Authoritative(disk)
              stale == disk \ keep
          IN  /\ idx' = [gen |-> TopGen(disk), files |-> keep]
              /\ \/ /\ disk' = keep /\ UNCHANGED faults
                    /\ pending' = {[op |-> "del", file |-> f] : f \in stale}
                 \/ stale # {} /\ Fault /\ UNCHANGED <<disk, pending>>
  /\ UNCHANGED <<cut, day, expired>>

Init ==
  /\ \E k \in [1 .. MaxSeq -> Kinds], g \in [1 .. MaxSeq -> Groups], split \in 1 .. MaxSeq,
        n \in SnapCounts \cup {1} :
       day = {Line(s, k[s], g[s], CASE k[s] = "event" -> 1 [] k[s] = "snap" -> n [] OTHER -> 0) : s \in 1 .. MaxSeq}
       /\ disk = {f \in {[gen |-> 0, part |-> 1, lines |-> {l \in day : l.seq <= split}],
                         [gen |-> 0, part |-> 2, lines |-> {l \in day : l.seq > split}]} : f.lines # {}}
  /\ idx = [gen |-> 0, files |-> disk]
  /\ pending = {} /\ comp = Idle /\ cut = 0 /\ expired = FALSE /\ faults = 0

Next ==
  \/ \E c \in 1 .. MaxSeq + 1 : Age(c)
  \/ Start \/ StartFails \/ Rename \/ SyncDir \/ SyncDirFails
  \/ \E f \in comp.left : Unlink(f)
  \/ Replace \/ Expire \/ Crash \/ Recover

Spec == Init /\ [][Next]_vars

-----------------------------------------------------------------------------
Now == Lines(Authoritative(disk))

(* Until retention drops the day, the generation that recovery would       *)
(* choose has each of its audit records, verbatim: no crash, failing call  *)
(* or repeated pass of compaction loses one (compact, recover).            *)
SpineKept == ~expired => disk # {} /\ {l \in day : l.kind = "spine"} = {l \in Now : l.kind = "spine"}

(* It has the day's events too, kept or counted: per group the lines and   *)
(* the aggregates' counters add up to what the writer wrote (the check of  *)
(* eventsBefore against eventsAfter in compact).                           *)
CountsKept ==
  ~expired => \A g \in Groups :
    MapThenSumSet(LAMBDA l : l.n, {l \in Now : l.grp = g /\ l.kind \in {"event", "agg"}})
      = Cardinality({l \in day : l.kind = "event" /\ l.grp = g})

(* The day verifies at every moment: the aggregates of however many passes *)
(* account for every seq and declare what they fold (Verify).              *)
Verifies == ~expired => VerifyOK(Now)
=============================================================================
