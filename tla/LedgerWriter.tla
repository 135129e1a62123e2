----------------------------- MODULE LedgerWriter -----------------------------
(***************************************************************************)
(* The single-writer group commit of internal/ledger: producers enqueue    *)
(* records on a bounded channel, one goroutine drains it into batches,     *)
(* allocates sequence numbers, writes a batch with one write and one       *)
(* fdatasync, and only then acknowledges it.  The module also covers what  *)
(* surrounds the commit: the backpressure refusal and its fold, holes left *)
(* by failed batches, rotation between batches, the HEAD hint, shutdown,   *)
(* crashes (process or power) and the recovery scan with its torn-line     *)
(* heal.                                                                   *)
(*                                                                         *)
(* The day files are one sequence of items, "part" items marking where one *)
(* file ends and the next begins.  A line is "line" (complete, parses),    *)
(* "bare" (parses, its newline never landed), "frag" (truncated JSON, no   *)
(* newline), "torn" (truncated JSON, terminated), "corrupt" (terminated,   *)
(* never parses) or "blank" (a torn line the boot heal overwrote).         *)
(***************************************************************************)
EXTENDS Integers, Sequences, FiniteSets, SequencesExt

CONSTANTS
  Calls,        \* append calls producers may make, each made once
  Batches,      \* the calls that go through AppendBatch
  GroupSize,    \* number of records of each call; 1 for Append
  Rotators,     \* callers of Rotate
  NoCall,       \* id of a record the ledger writes itself
  QueueCap,     \* Rotation.QueueCapRecords
  MaxBatch,     \* Rotation.MaxBatchRecords
  IOFaults,     \* which operations may fail: "scan" is a file recovery cannot
                \* read, "skip" a record it reads and does not count
  Tears,        \* shapes in which a cut line may survive: "frag", "bare"
  DiskOver,     \* values "disk use exceeds the budget" may take
  MaxFaults, MaxCrashes, MaxParts   \* bounds on the environment

ASSUME LedgerAssumption ==
  /\ Batches \subseteq Calls
  /\ NoCall \notin Calls
  /\ GroupSize \in [Calls -> Nat \ {0}]
  /\ \A c \in Calls \ Batches : GroupSize[c] = 1
  /\ QueueCap \in Nat \ {0} /\ MaxBatch \in Nat \ {0}
  /\ IOFaults \subseteq {"write", "short", "fsync", "open", "head", "scan", "skip", "heal"}
  /\ Tears \subseteq {"frag", "bare"}
  /\ DiskOver \subseteq BOOLEAN
  /\ MaxFaults \in Nat /\ MaxCrashes \in Nat /\ MaxParts \in Nat

VARIABLES
  proc,       \* "down", "boot", "up", "closing", "stopped" or "panic"
  call,       \* where each append call is
  off,        \* records of each call acknowledged as durable so far
  rot,        \* where each Rotate call is
  rotateReq,  \* Rotate requests waiting for the writer
  notes,      \* ledger-authored boot records still to append
  queue,      \* w.ch: chunks of calls waiting for the writer
  chClosed,   \* close(w.ch) has happened
  batch,      \* records of the batch being built or flushed
  batchN,     \* queue entries in that batch
  pc,         \* the writer goroutine's position
  then,       \* what the writer does after the flush it is in
  pendingSeq, lastSeq, holes, cur, degraded,   \* writer fields of the same names
  dropN, backpressure, estLost,                \* the refusal fold's counters
  file, synced, head,                          \* the disk: items, durable prefix, HEAD
  idx,        \* degraded: buildStats.Degraded; ever: history, of some boot
  faults, crashes                              \* what the environment has spent

callVars == <<call, off>>
rotVars  == <<rot, rotateReq>>
seqVars  == <<pendingSeq, lastSeq>>
dropVars == <<dropN, backpressure, estLost>>
disk     == <<file, synced, head>>
env      == <<idx, faults, crashes>>
vars == <<proc, callVars, rotVars, notes, queue, chClosed, batch, batchN, pc, then,
          seqVars, holes, cur, degraded, dropVars, disk, env>>

-----------------------------------------------------------------------------
(* Records, lines and the bytes on disk *)

Rec(t, id, a, b) == [t |-> t, id |-> id, a |-> a, b |-> b]
NoteRec == Rec("note", NoCall, 0, 0)
HoleRec(h) == Rec("hole", NoCall, h.from, h.to)
FoldRec(n) == Rec("fold", NoCall, n, 0)

Line(k, n, r) == [k |-> k, seq |-> n, rec |-> r]
PartMark == Line("part", 0, NoteRec)
Mangled(k) == Line(k, 0, NoteRec)

Readable(f, i) == f[i].k \in {"line", "bare"}
LastOf(f) == f[Len(f)]
OpenTail(f) == Len(f) > 0 /\ LastOf(f).k \in {"bare", "frag"}
Parts(f) == 1 + Cardinality({i \in DOMAIN f : f[i].k = "part"})
PartTail(f, i) == i = Len(f) \/ f[i + 1].k = "part"

\* The outcomes of writing the items b after f.  O_APPEND puts the first byte
\* right behind an unterminated tail, so that tail and the first line become
\* one line: two JSON values never parse; a truncated value followed by
\* another one is torn-shaped or not, depending on where it was cut.
Glued(a, b) == IF b.k # "line" THEN {Mangled("frag")}
               ELSE IF a.k = "bare" THEN {Mangled("corrupt")}
               ELSE {Mangled("corrupt"), Mangled("torn")}
Appended(f, b) ==
  IF Len(b) = 0 THEN {f}
  ELSE IF OpenTail(f)
       THEN {SubSeq(f, 1, Len(f) - 1) \o <<g>> \o Tail(b) : g \in Glued(LastOf(f), Head(b))}
       ELSE {f \o b}

\* What is left of the items b when their bytes are cut after n whole items:
\* nothing of item n + 1, or a torn piece of it.
CutAt(b, n) ==
  {SubSeq(b, 1, n)} \cup
  {SubSeq(b, 1, n) \o <<IF t = "bare" THEN [b[n + 1] EXCEPT !.k = "bare"] ELSE Mangled("frag")>> :
     t \in {x \in Tears : n < Len(b) /\ b[n + 1].k = "line"}}

\* The group commit's buffer: one line per record, numbered from `from`.
Encode(b, from) == [i \in 1..Len(b) |-> Line("line", from + i - 1, b[i])]

SeqMax(f) == Max({0} \cup {f[i].seq : i \in {j \in DOMAIN f : Readable(f, j)}})
-----------------------------------------------------------------------------
(* What the recovery scan reads off the disk *)

\* The file an item lies in: the number of files that end before it.
PartOf(f, i) == Cardinality({j \in 1..i : f[j].k = "part"})

\* What the scan takes in.  A file that cannot be opened or read on is seen up
\* to there, and neither healed nor searched for gaps.  A record of a newer
\* schema, and an event in a bounded build, is read and left out of LastSeq.
Whole == [missed |-> {}, blind |-> {}]
Unread(f, s) == [missed |-> {i \in s..Len(f) : PartOf(f, i) = PartOf(f, s)}, blind |-> {PartOf(f, s)}]
Newer(f, s) == [missed |-> s..Len(f), blind |-> {}]
SkipEvents(f) == [missed |-> {i \in DOMAIN f : f[i].rec.t = "call"}, blind |-> {}]
Scans(f) ==
  {Whole} \cup
  (IF "scan" \in IOFaults THEN {Unread(f, s) : s \in DOMAIN f} ELSE {}) \cup
  (IF "skip" \in IOFaults /\ SeqMax(f) > 0
   THEN {Newer(f, s) : s \in {i \in DOMAIN f : Readable(f, i)}} \cup {SkipEvents(f)} ELSE {})

\* The LastSeq of the scanned files.
SeenMax(f, scan) == Max({0} \cup {f[i].seq : i \in {j \in DOMAIN f : Readable(f, j) /\ j \notin scan.missed}})

\* scanFile's prevSeq: that of the readable line before item i in its file.
Before(f, i) == {j \in 1..(i - 1) : Readable(f, j) /\ \A k \in j..i : f[k].k # "part"}
PrevSeq(f, i) == IF Before(f, i) = {} THEN 0 ELSE f[Max(Before(f, i))].seq
\* The discontinuities inside each file; none is looked for between files.
Gaps(f, blind) ==
  {[from |-> PrevSeq(f, i) + 1, to |-> f[i].seq - 1] :
     i \in {j \in DOMAIN f : /\ Readable(f, j) /\ PartOf(f, j) \notin blind
                             /\ PrevSeq(f, j) # 0 /\ f[j].seq > PrevSeq(f, j) + 1}}

\* Mutant: the restart trusts the HEAD hint.
RecoveredSeq_HeadOnly(scan) == head

\* HEAD only ever raises the recovered seq; what it raises it by is a hole, if
\* the index is whole.
RecoveredSeq(scan) == Max({head, SeenMax(file, scan)})
RecoveredHoles(scan) == SetToSeq(Gaps(file, scan.blind) \cup
  {[from |-> SeenMax(file, scan) + 1, to |-> h] : h \in {h \in {head} : h > SeenMax(file, scan) /\ scan = Whole}})

\* The torn lines of a file, and whether one of them is its tail: no readable
\* line comes behind it.
TornAt(f) == {i \in DOMAIN f : f[i].k \in {"frag", "torn"}}
TornParts(f) == {PartOf(f, i) : i \in TornAt(f)}
TornIn(f, p) == {i \in TornAt(f) : PartOf(f, i) = p}
TailTorn(f, p) ==
  \E i \in TornIn(f, p) : \A j \in (i + 1)..Len(f) : PartOf(f, j) = p => ~Readable(f, j)

\* What healInteriorTorn blanks and the files healTorn ends with a newline.  A
\* tail that parses is not torn for the scan and stays without its newline.
ToBlank(f, blind) ==
  {i \in TornAt(f) : /\ f[i].k = "torn" /\ PartOf(f, i) \notin blind
                     /\ Cardinality(TornIn(f, PartOf(f, i))) > (IF TailTorn(f, PartOf(f, i)) THEN 1 ELSE 0)}
ToClose(f, blind) == {p \in TornParts(f) \ blind : TailTorn(f, p)}

\* Mutant: only interior lines are healed.
Heal_InteriorOnly(f, h) == [i \in DOMAIN f |-> IF i \in h.blank THEN Mangled("blank") ELSE f[i]]

Heal(f, h) == [i \in DOMAIN f |->
  IF f[i].k = "frag" /\ PartOf(f, i) \in h.close THEN Mangled("torn")
  ELSE IF i \in h.blank THEN Mangled("blank") ELSE f[i]]

\* The healing done in full, or failing on the way: some lines stay torn, some
\* tails open, and a file whose tail failed gets no recover_torn record.
Heals(f, blind) ==
  {[blank |-> ToBlank(f, blind), close |-> ToClose(f, blind), silent |-> {}, failed |-> FALSE]} \cup
  (IF "heal" \in IOFaults /\ TornParts(f) \ blind # {}
   THEN {[blank |-> b, close |-> c, silent |-> x, failed |-> TRUE] :
           b \in SUBSET ToBlank(f, blind), c \in SUBSET ToClose(f, blind), x \in SUBSET ToClose(f, blind)}
   ELSE {})

\* What recover leaves on disk and in the index, given its scan and its heal.
Recover(scan, h) ==
  /\ ToClose(file, scan.blind) \ h.close \subseteq h.silent
  /\ file' = Heal(file, h)
  /\ synced' = IF ~h.failed /\ PartOf(file, Len(file)) \in TornParts(file) \ scan.blind
               THEN Len(file) ELSE synced
  /\ idx' = LET d == scan # Whole \/ h.failed IN [degraded |-> d, ever |-> idx.ever \/ d]
  /\ pendingSeq' = RecoveredSeq(scan) /\ lastSeq' = RecoveredSeq(scan)
  /\ holes' = RecoveredHoles(scan)
  /\ notes' = Cardinality(TornParts(file) \ (scan.blind \cup h.silent))
                + (IF scan.blind # {} THEN 1 ELSE 0)
                + (IF head > SeenMax(file, scan) THEN 1 ELSE 0) + 1

\* acquireLock, recover, newWriter, start: everything before the boot records.
Open ==
  /\ proc = "down"
  /\ proc' = "boot"
  /\ \E scan \in Scans(file) : \E h \in Heals(file, scan.blind), c \in BOOLEAN :
       /\ Recover(scan, h)
       /\ cur' = c /\ (~c => "open" \in IOFaults)
       /\ faults' = faults + (IF scan # Whole THEN 1 ELSE 0) + (IF h.failed THEN 1 ELSE 0) + (IF c THEN 0 ELSE 1)
  /\ faults' = faults \/ faults' <= MaxFaults
  /\ pc' = "select"
  /\ UNCHANGED <<callVars, rotVars, queue, chClosed, batch, batchN, then, degraded,
                 dropVars, head, crashes>>

-----------------------------------------------------------------------------
(* Producers: enqueue, enqueueBatch, stop *)

BootEntry == [c |-> NoCall, lo |-> 1, hi |-> 1]
Chunk(c) == [c |-> c, lo |-> off[c] + 1, hi |-> Min({off[c] + MaxBatch, GroupSize[c]})]
EntryRecs(e) == IF e.c = NoCall THEN <<Rec("boot", NoCall, 0, 0)>>
                ELSE [i \in 1..(e.hi - e.lo + 1) |-> Rec("call", e.c, e.lo + i - 1, 0)]
Carries(t) == \E i \in DOMAIN batch : batch[i].t = t
InFlight == {c \in Calls : call[c] \in {"send", "blocked", "wait"}}

\* selfAppend of the next boot record, once the previous one is acknowledged.
BootNote ==
  /\ proc = "boot" /\ notes > 0 /\ queue = <<>> /\ ~Carries("boot")
  /\ queue' = <<BootEntry>>
  /\ UNCHANGED <<proc, callVars, rotVars, notes, chClosed, batch, batchN, pc, then,
                 seqVars, holes, cur, degraded, dropVars, disk, env>>

producerFrame == <<proc, rotVars, notes, chClosed, batch, batchN, pc, then,
                   seqVars, holes, cur, degraded, disk, env>>

\* The closing check under enqMu; Append also joins enqWG here, AppendBatch
\* does not.  A group larger than the batch cap comes back for its next chunk.
Enter(c) ==
  /\ call[c] = "idle" /\ proc \in {"up", "closing", "stopped"} /\ notes = 0
  /\ call' = [call EXCEPT ![c] = IF proc = "up" THEN "send" ELSE "closed"]
  /\ UNCHANGED <<off, queue, dropVars, producerFrame>>

\* A send on the closed channel panics the process.
SendPanics(c) ==
  /\ call[c] \in {"send", "blocked"} /\ chClosed /\ proc \in {"closing", "stopped"}
  /\ proc' = "panic"
  /\ UNCHANGED <<callVars, rotVars, notes, queue, chClosed, batch, batchN, pc, then,
                 seqVars, holes, cur, degraded, dropVars, disk, env>>

Send(c) ==
  /\ call[c] \in {"send", "blocked"} /\ ~chClosed /\ proc \in {"up", "closing"}
  /\ Len(queue) < QueueCap
  /\ queue' = Append(queue, Chunk(c))
  /\ call' = [call EXCEPT ![c] = "wait"]
  /\ UNCHANGED <<off, dropVars, producerFrame>>

Block(c) ==
  /\ call[c] = "send" /\ ~chClosed /\ proc \in {"up", "closing"} /\ Len(queue) = QueueCap
  /\ call' = [call EXCEPT ![c] = "blocked"]
  /\ UNCHANGED <<off, queue, dropVars, producerFrame>>

\* max_enqueue_wait expired: the refusal is tallied, never written from here.
Refuse(c) ==
  /\ call[c] = "blocked" /\ proc \in {"up", "closing"}
  /\ call' = [call EXCEPT ![c] = "refused"]
  /\ backpressure' = backpressure + 1 /\ dropN' = dropN + 1
  /\ UNCHANGED <<off, queue, estLost, producerFrame>>

\* The caller's context ends; what it already queued may still land.
Cancel(c) ==
  /\ call[c] \in {"blocked", "wait"} /\ proc \in {"up", "closing"}
  /\ call' = [call EXCEPT ![c] = "cancelled"]
  /\ UNCHANGED <<off, queue, dropVars, producerFrame>>

Close ==
  /\ proc = "up"
  /\ proc' = "closing"
  /\ UNCHANGED <<callVars, rotVars, notes, queue, chClosed, batch, batchN, pc, then,
                 seqVars, holes, cur, degraded, dropVars, disk, env>>

\* Mutant: stop does not wait for the enqueue wait group.
CloseChannel_NoWait ==
  /\ proc = "closing" /\ ~chClosed
  /\ chClosed' = TRUE
  /\ UNCHANGED <<proc, callVars, rotVars, notes, queue, batch, batchN, pc, then,
                 seqVars, holes, cur, degraded, dropVars, disk, env>>

\* enqWG.Wait, then close(w.ch): only Append calls are waited for.
CloseChannel ==
  /\ proc = "closing" /\ ~chClosed /\ InFlight \ Batches = {}
  /\ chClosed' = TRUE
  /\ UNCHANGED <<proc, callVars, rotVars, notes, queue, batch, batchN, pc, then,
                 seqVars, holes, cur, degraded, dropVars, disk, env>>

\* The writer is done: Close writes HEAD, a failed Open does not.
CloseDone ==
  /\ proc = "closing" /\ pc = "done"
  /\ proc' = "stopped"
  /\ \/ head' = (IF notes = 0 THEN lastSeq ELSE head) /\ UNCHANGED faults
     \/ /\ "head" \in IOFaults /\ faults < MaxFaults
        /\ UNCHANGED head /\ faults' = faults + 1
  /\ UNCHANGED <<callVars, rotVars, notes, queue, chClosed, batch, batchN, pc, then,
                 seqVars, holes, cur, degraded, dropVars, file, synced, idx, crashes>>

\* requestRotate: the request is buffered even if the writer has already gone.
Rotate(r) ==
  /\ rot[r] = "idle" /\ proc \in {"up", "closing", "stopped"}
  /\ \/ rot' = [rot EXCEPT ![r] = "sent"] /\ rotateReq' = Append(rotateReq, r)
     \/ pc = "done" /\ rot' = [rot EXCEPT ![r] = "refused"] /\ UNCHANGED rotateReq
  /\ UNCHANGED <<proc, callVars, notes, queue, chClosed, batch, batchN, pc, then,
                 seqVars, holes, cur, degraded, dropVars, disk, env>>
-----------------------------------------------------------------------------
(* The writer goroutine *)

Alive == proc \in {"boot", "up", "closing"}
Fault(kind) == kind \in IOFaults /\ faults < MaxFaults /\ faults' = faults + 1

\* Mutant: the mark of a part whose creation failed counts as synced.
RollFile_CountsFailed(roll) ==
  \/ roll = "none" /\ cur /\ UNCHANGED <<file, synced, cur, faults>>
  \/ /\ roll = "rolled" /\ cur /\ synced' = Len(file) + 1
     /\ UNCHANGED <<file, cur, faults>>

\* beforeBatch at the file level: reopen a lost file, or roll to a new part
\* (day change or size), which may fail and fall back to the old file, or fail
\* to reopen that one too.
RollFile(roll) ==
  \/ roll = "none" /\ cur /\ UNCHANGED <<file, synced, cur, faults>>
  \/ /\ roll = "rolled" /\ cur /\ Parts(file) < MaxParts
     /\ file' = Append(file, PartMark) /\ synced' = Len(file) + 1
     /\ UNCHANGED <<cur, faults>>
  \/ /\ roll \in {"failed", "lost"} /\ cur /\ Fault("open")
     /\ synced' = Len(file) /\ cur' = (roll = "failed")
     /\ UNCHANGED file
  \/ roll = "reopened" /\ ~cur /\ cur' = TRUE /\ UNCHANGED <<file, synced, faults>>
  \/ roll = "unavailable" /\ ~cur /\ Fault("open") /\ UNCHANGED <<file, synced, cur>>
Rolls == {"none", "rolled", "failed", "lost", "reopened", "unavailable"}

\* The housekeeping records of a batch boundary, in the order beforeBatch
\* appends them: disk budget, rotation, holes, the refusal fold.
House(over, roll) ==
  (IF over /\ ~degraded THEN <<NoteRec>> ELSE <<>>) \o
  (IF roll \in {"rolled", "failed", "lost"} THEN <<NoteRec>> ELSE <<>>) \o
  [i \in 1..Len(holes) |-> HoleRec(holes[i])] \o
  (IF dropN > 0 THEN <<FoldRec(dropN)>> ELSE <<>>)

\* Mutant: the refusal tally survives its fold.
BeforeBatch_KeepsTally(over, roll) ==
  /\ RollFile(roll)
  /\ degraded' = over
  /\ holes' = <<>> /\ UNCHANGED dropN

\* The boundary itself; `over` equals `degraded` when the 5 s throttle skips
\* the budget check.
BeforeBatch(over, roll) ==
  /\ RollFile(roll)
  /\ degraded' = over
  /\ holes' = <<>> /\ dropN' = 0

\* Receive one queue entry; the boundary work runs only for an empty batch.
Recv ==
  /\ Alive /\ pc = "select" /\ queue # <<>>
  /\ queue' = Tail(queue)
  /\ \/ /\ batch = <<>>
        /\ \E over \in DiskOver \cup {degraded}, roll \in Rolls :
             /\ BeforeBatch(over, roll)
             /\ batch' = House(over, roll) \o EntryRecs(Head(queue))
             /\ batchN' = Len(House(over, roll)) + 1
     \/ /\ batch # <<>>
        /\ batch' = batch \o EntryRecs(Head(queue))
        /\ batchN' = batchN + 1
        /\ UNCHANGED <<file, synced, cur, faults, degraded, holes, dropN>>
  /\ pc' = (IF batchN' >= MaxBatch THEN "flush" ELSE "select")
  /\ then' = "select"
  /\ UNCHANGED <<proc, callVars, rotVars, notes, chClosed, seqVars, backpressure, estLost,
                 head, idx, crashes>>

\* flush() and go on with t: an empty batch is not flushed.
FlushThen(t) == IF batch = <<>> THEN pc' = t /\ UNCHANGED then
                ELSE pc' = "flush" /\ then' = t
loopFrame == <<proc, callVars, notes, queue, chClosed, seqVars, backpressure, estLost,
               head, idx, crashes>>
keepBoundary == <<file, synced, cur, faults, degraded, holes, dropN>>

Timer ==
  /\ Alive /\ pc = "select" /\ batch # <<>>
  /\ FlushThen("select")
  /\ UNCHANGED <<batch, batchN, rotVars, keepBoundary, loopFrame>>

\* Mutant: shutdown skips the boundary work.
Drained_NoHouse ==
  /\ Alive /\ pc = "select" /\ chClosed /\ queue = <<>>
  /\ FlushThen("exit")
  /\ UNCHANGED <<batch, batchN, rotVars, keepBoundary, loopFrame>>

\* The closed channel is drained: flush what is left, then the boundary work
\* as a batch of its own, then close the file.
Drained ==
  /\ Alive /\ pc = "select" /\ chClosed /\ queue = <<>>
  /\ FlushThen("house")
  /\ UNCHANGED <<batch, batchN, rotVars, keepBoundary, loopFrame>>

RotateReceived ==
  /\ Alive /\ pc = "select" /\ rotateReq # <<>>
  /\ FlushThen("rotHouse")
  /\ UNCHANGED <<batch, batchN, rotVars, keepBoundary, loopFrame>>

\* beforeBatch and its records alone, on shutdown or for a Rotate request.
HouseBatch ==
  /\ Alive /\ pc \in {"house", "rotHouse"}
  /\ \E over \in DiskOver \cup {degraded}, roll \in Rolls :
       /\ BeforeBatch(over, roll)
       /\ batch' = House(over, roll)
       /\ batchN' = Len(House(over, roll))
       /\ LET t == IF pc = "house" THEN "exit" ELSE "reply"
          IN IF House(over, roll) = <<>> THEN pc' = t /\ UNCHANGED then
             ELSE pc' = "flush" /\ then' = t
  /\ UNCHANGED <<rotVars, loopFrame>>

RotateReply ==
  /\ Alive /\ pc = "reply"
  /\ rot' = [rot EXCEPT ![Head(rotateReq)] = "done"]
  /\ rotateReq' = Tail(rotateReq)
  /\ pc' = "select"
  /\ UNCHANGED <<then, batch, batchN, keepBoundary, loopFrame>>

\* closeCurrent syncs and closes the file, then the goroutine ends.
WriterExit ==
  /\ Alive /\ pc = "exit"
  /\ pc' = "done" /\ cur' = FALSE
  /\ synced' = IF cur THEN Len(file) ELSE synced
  /\ UNCHANGED <<then, batch, batchN, rotVars, file, faults, degraded, holes, dropN, loopFrame>>

Waiters == {c \in Calls : call[c] = "wait" /\ \E i \in DOMAIN batch : batch[i].id = c}
Reach(c) == Max({batch[i].a : i \in {j \in DOMAIN batch : batch[j].id = c}})

\* Mutant: a failed batch is dropped without answering its callers.
Nack_Silent ==
  /\ batch' = <<>> /\ batchN' = 0 /\ pc' = then
  /\ UNCHANGED <<proc, chClosed, callVars, rotVars, notes, queue, then, lastSeq, cur,
                 degraded, dropVars, head, idx, crashes>>

\* The batch is over and every waiting caller gets an error.  A boot record
\* that fails makes Open stop the writer and give up.
Nack ==
  /\ call' = [c \in Calls |-> IF c \in Waiters THEN "err" ELSE call[c]]
  /\ batch' = <<>> /\ batchN' = 0 /\ pc' = then
  /\ IF Carries("boot") THEN proc' = "closing" /\ chClosed' = TRUE
     ELSE UNCHANGED <<proc, chClosed>>
  /\ UNCHANGED <<off, rotVars, notes, queue, then, lastSeq, cur, degraded, dropVars,
                 head, idx, crashes>>

\* failBatch: the seq range the batch was given becomes a hole.
FailBatch(from, to) ==
  /\ holes' = Append(holes, [from |-> from, to |-> to])
  /\ Nack

\* flushBatch up to and including its write.
Unavailable ==
  /\ Alive /\ pc = "flush" /\ ~cur
  /\ Nack
  /\ UNCHANGED <<pendingSeq, holes, file, synced, faults>>

Write ==
  /\ Alive /\ pc = "flush" /\ cur
  /\ file' \in Appended(file, Encode(batch, pendingSeq + 1))
  /\ pendingSeq' = pendingSeq + Len(batch)
  /\ pc' = "fsync"
  /\ UNCHANGED <<proc, callVars, rotVars, notes, queue, chClosed, batch, batchN, then,
                 lastSeq, holes, cur, degraded, dropVars, synced, head, env>>

\* The write fails, with none or with a part of its bytes in the file.
WriteFails ==
  /\ Alive /\ pc = "flush" /\ cur
  /\ \/ Fault("write") /\ UNCHANGED file
     \/ /\ Fault("short")
        /\ \E n \in 0..(Len(batch) - 1) :
           \E landed \in CutAt(Encode(batch, pendingSeq + 1), n) :
             file' \in Appended(file, landed)
  /\ pendingSeq' = pendingSeq + Len(batch)
  /\ FailBatch(pendingSeq + 1, pendingSeq + Len(batch))
  /\ UNCHANGED synced

\* Mutant: the batch is acknowledged without its fdatasync.
Fsync_Skipped ==
  /\ Alive /\ pc = "fsync"
  /\ pc' = "ack"
  /\ UNCHANGED <<proc, callVars, rotVars, notes, queue, chClosed, batch, batchN, then,
                 seqVars, holes, cur, degraded, dropVars, disk, env>>

Fsync ==
  /\ Alive /\ pc = "fsync"
  /\ synced' = Len(file)
  /\ pc' = "ack"
  /\ UNCHANGED <<proc, callVars, rotVars, notes, queue, chClosed, batch, batchN, then,
                 seqVars, holes, cur, degraded, dropVars, file, head, env>>

FsyncFails ==
  /\ Alive /\ pc = "fsync"
  /\ Fault("fsync")
  /\ FailBatch(pendingSeq - Len(batch) + 1, pendingSeq)
  /\ UNCHANGED <<pendingSeq, file, synced>>

FoldSum == LET folds == {i \in DOMAIN batch : batch[i].t = "fold"}
           IN IF folds = {} THEN 0 ELSE batch[CHOOSE i \in folds : TRUE].a

\* The rest of flushBatch: publish lastSeq, credit the fold, refresh HEAD
\* (throttled while there is a backlog) and acknowledge.
Ack ==
  /\ Alive /\ pc = "ack"
  /\ lastSeq' = pendingSeq
  /\ estLost' = estLost + FoldSum
  /\ \/ head' = pendingSeq /\ UNCHANGED faults
     \/ queue # <<>> /\ UNCHANGED <<head, faults>>
     \/ Fault("head") /\ UNCHANGED head
  /\ off' = [c \in Calls |-> IF c \in Waiters THEN Reach(c) ELSE off[c]]
  /\ call' = [c \in Calls |-> IF c \notin Waiters THEN call[c]
                              ELSE IF Reach(c) = GroupSize[c] THEN "ok" ELSE "idle"]
  /\ notes' = IF Carries("boot") THEN notes - 1 ELSE notes
  /\ proc' = IF Carries("boot") /\ notes = 1 THEN "up" ELSE proc
  /\ batch' = <<>> /\ batchN' = 0 /\ pc' = then
  /\ UNCHANGED <<rotVars, queue, chClosed, then, pendingSeq, holes, cur, degraded,
                 dropN, backpressure, file, synced, idx, crashes>>

-----------------------------------------------------------------------------
(* Crashes *)

\* The process is gone with everything it held in memory.
Vanish ==
  /\ proc # "down" /\ crashes < MaxCrashes
  /\ crashes' = crashes + 1
  /\ proc' = "down" /\ pc' = "down" /\ then' = "select"
  /\ call' = [c \in Calls |-> IF c \in InFlight \/ (call[c] = "idle" /\ off[c] > 0)
                              THEN "crashed" ELSE call[c]]
  /\ rot' = [r \in Rotators |-> IF rot[r] = "sent" THEN "crashed" ELSE rot[r]]
  /\ rotateReq' = <<>> /\ queue' = <<>> /\ chClosed' = FALSE
  /\ batch' = <<>> /\ batchN' = 0 /\ notes' = 0
  /\ pendingSeq' = 0 /\ lastSeq' = 0 /\ holes' = <<>> /\ cur' = FALSE /\ degraded' = FALSE
  /\ dropN' = 0 /\ backpressure' = 0 /\ estLost' = 0
  /\ idx' = [idx EXCEPT !.degraded = FALSE]
  /\ UNCHANGED <<off, head, faults>>

\* A process death keeps the page cache, hence every byte written so far.
Kill == Vanish /\ UNCHANGED <<file, synced>>

\* A power loss keeps what was synced and cuts the rest anywhere.
PowerLoss ==
  /\ Vanish
  /\ \E n \in synced..Len(file) : file' \in CutAt(file, n)
  /\ synced' = Len(file')

-----------------------------------------------------------------------------
Init ==
  /\ proc = "down" /\ pc = "down" /\ then = "select"
  /\ call = [c \in Calls |-> "idle"] /\ off = [c \in Calls |-> 0]
  /\ rot = [r \in Rotators |-> "idle"] /\ rotateReq = <<>>
  /\ notes = 0 /\ queue = <<>> /\ chClosed = FALSE
  /\ batch = <<>> /\ batchN = 0
  /\ pendingSeq = 0 /\ lastSeq = 0 /\ holes = <<>> /\ cur = FALSE /\ degraded = FALSE
  /\ dropN = 0 /\ backpressure = 0 /\ estLost = 0
  /\ file = <<>> /\ synced = 0 /\ head = 0
  /\ idx = [degraded |-> FALSE, ever |-> FALSE]
  /\ faults = 0 /\ crashes = 0

Producer(c) == Enter(c) \/ Send(c) \/ Block(c) \/ Refuse(c) \/ Cancel(c) \/ SendPanics(c)
Flush == Unavailable \/ Write \/ WriteFails \/ Fsync \/ FsyncFails \/ Ack
Writer == \/ Recv \/ Timer \/ Drained \/ RotateReceived \/ HouseBatch \/ RotateReply
          \/ WriterExit \/ Flush
Lifecycle == Open \/ BootNote \/ Close \/ CloseChannel \/ CloseDone

Next ==
  \/ \E c \in Calls : Producer(c)
  \/ \E r \in Rotators : Rotate(r)
  \/ Writer \/ Lifecycle \/ Kill \/ PowerLoss

Spec == Init /\ [][Next]_vars

\* The goroutines the Go scheduler keeps running: the writer, each producer
\* that has passed its closing check, and whoever opened or is closing the
\* ledger.  Nobody has to call Close, cancel a context or crash.
Fairness ==
  /\ WF_vars(Writer)
  /\ WF_vars(Open \/ BootNote) /\ WF_vars(CloseChannel \/ CloseDone)
  /\ \A c \in Calls : WF_vars(Send(c) \/ Block(c) \/ Refuse(c)) /\ WF_vars(off[c] > 0 /\ Enter(c))

FairSpec == Spec /\ Fairness
-----------------------------------------------------------------------------
(* Properties *)

RecType == [t : {"call", "hole", "fold", "note", "boot"}, id : Calls \cup {NoCall},
            a : Nat, b : Nat]
LineType == [k : {"line", "bare", "frag", "torn", "corrupt", "blank", "part"},
             seq : Nat, rec : RecType]
HoleType == [from : Nat, to : Nat]

\* Every variable of the writer, its queue and its disk has its type, and the
\* synced prefix is a prefix of the file.
TypeOK ==
  /\ proc \in {"down", "boot", "up", "closing", "stopped", "panic"}
  /\ call \in [Calls -> {"idle", "send", "blocked", "wait", "ok", "err", "refused",
                         "cancelled", "closed", "crashed"}]
  /\ off \in [Calls -> Nat]
  /\ rot \in [Rotators -> {"idle", "sent", "done", "refused", "crashed"}]
  /\ rotateReq \in Seq(Rotators)
  /\ notes \in Nat /\ chClosed \in BOOLEAN
  /\ queue \in Seq([c : Calls \cup {NoCall}, lo : Nat, hi : Nat])
  /\ batch \in Seq(RecType) /\ batchN \in Nat
  /\ pc \in {"down", "select", "flush", "fsync", "ack", "house", "exit", "rotHouse",
             "reply", "done"}
  /\ then \in {"select", "house", "exit", "rotHouse", "reply"}
  /\ pendingSeq \in Nat /\ lastSeq \in Nat
  /\ holes \in Seq(HoleType) /\ cur \in BOOLEAN /\ degraded \in BOOLEAN
  /\ dropN \in Nat /\ backpressure \in Nat /\ estLost \in Nat
  /\ file \in Seq(LineType) /\ synced \in 0..Len(file) /\ head \in Nat
  /\ idx \in [degraded : BOOLEAN, ever : BOOLEAN]
  /\ faults \in Nat /\ crashes \in Nat

Ascends(f) ==
  \A i, j \in DOMAIN f :
    (i < j /\ Readable(f, i) /\ Readable(f, j)) => f[i].seq < f[j].seq

Landed(c, i) == {j \in DOMAIN file : Readable(file, j) /\ file[j].rec = Rec("call", c, i, 0)}

\* A record is durable the moment Append returns: each record a caller was
\* told about is on disk below the synced mark and a later scan can read it,
\* through failed batches, rotation, crashes and recoveries.
AckedReadable ==
  \A c \in Calls : \A i \in 1..off[c] : \E j \in Landed(c, i) : j <= synced

\* Sequence numbers never repeat and never go back along the files, although
\* failed batches burn them and a restart recovers the counter from a stale
\* HEAD hint and a scan of damaged files, as long as no boot had to open with
\* a degraded index: then numbers the scan left out may be given out again.
SeqsAscend == ~idx.ever => Ascends(file)

\* A crash left a record whole but for its newline.
BareTail == \E i \in DOMAIN file : file[i].k = "bare"

\* A recovery ends the file with a newline, where a torn tail shows as one:
\* the next record starts on a line of its own, so recovering costs one line
\* and no more; or the index says it is degraded.  (healTorn, markDegraded; a
\* tail that parses is not seen to be torn.)
TailClosed ==
  BareTail \/ idx.degraded \/ ((proc = "boot" /\ pendingSeq = lastSeq /\ batch = <<>>) => ~OpenTail(file))

\* The refusal fold is exact while no write fails: every call refused since
\* boot is in the tally, in the fold record of the batch under way, or
\* credited as recorded.  (A failed batch takes the fold it carries with it.)
RefusalsAccounted == faults = 0 => backpressure = dropN + FoldSum + estLost

\* A clean Close swallows nothing: what was queued is written, the refusal
\* fold that was still open is written, and no caller is left waiting.
CleanClose ==
  (proc = "stopped" /\ notes = 0) => queue = <<>> /\ batch = <<>> /\ dropN = 0 /\ InFlight = {}

\* An Append call never meets the closed channel: stop waits for the enqueue
\* wait group that each of them has joined (enqueue, stop).
AppendsNeverPanic == [][\A c \in Calls \ Batches : ~SendPanics(c)]_vars

\* Close never pulls the channel away under a sender.
NoPanic == proc # "panic"

\* Where the calls end up: a caller that passed its closing check comes back,
\* with an answer, a refusal, or because the process died.  (Each call is made
\* once, so that it comes back is that in the end none is under way.)
AllReturned == InFlight = {} \/ proc = "panic"

\* Where Close ends up: it has returned.
CloseOver == proc # "closing"

-----------------------------------------------------------------------------
(* Refinement *)

Visible(f) == LET r == SelectSeq(f, LAMBDA x : x.k \in {"line", "bare"})
              IN [i \in 1..Len(r) |-> [seq |-> r[i].seq, rec |-> r[i].rec]]

\* The readable lines of the day files are the promised log, the synced ones
\* its durable prefix, and the acknowledged records what producers were told.
Promise == INSTANCE DurableLog WITH
  log <- Visible(file),
  durable <- Len(Visible(SubSeq(file, 1, synced))),
  told <- UNION {{Rec("call", c, i, 0) : i \in 1..off[c]} : c \in Calls}

\* The writer, its failures and its recovery implement the durable log.
ImplementsDurableLog == Promise!Spec
=============================================================================
