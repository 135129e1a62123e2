------------------------- MODULE LedgerCommitProofs -------------------------
(***************************************************************************)
(* How the writer is shut down: Close never takes the channel away under   *)
(* an Append call, a clean Close leaves nothing behind, and the refusal    *)
(* fold is exact.  Then what an acknowledgement means: a record whose      *)
(* caller was told it is durable stays a whole line below the synced mark, *)
(* and recovery closes the tail it finds.                                  *)
(***************************************************************************)
EXTENDS LedgerWriterProofs

-----------------------------------------------------------------------------
(* The phases of the process and of the writer *)

\* A flush the writer is in and after which it goes to one of the places t.
Flushing(t) == pc \in {"flush", "fsync", "ack"} /\ then \in t

\* Boot records travel only while the ledger is being opened.
BootPhase == BootQueued # {} \/ Carries("boot") => proc = "boot"

\* No producer is under way before Open has returned.
Quiet == proc = "down" \/ notes > 0 => InFlight = {}

\* The channel is closed on the way out, behind the last Append call.
ClosedPhase == chClosed => proc \in {"closing", "stopped", "panic"} /\ InFlight \subseteq Batches

\* The writer leaves its loop when the closed channel is drained.
Leaving == pc \in {"house", "exit", "done"} \/ Flushing({"house", "exit"}) => chClosed /\ queue = <<>>

\* Outside its loop and its flush the writer holds no batch.
Emptied == pc \notin {"select", "flush", "fsync", "ack"} => batch = <<>>

\* The last boundary work took the refusals with it.
Folded == Batches = {} /\ (pc \in {"exit", "done"} \/ Flushing({"exit"})) => dropN = 0

\* Close returns after the writer has.
StoppedDone == proc = "stopped" => pc = "done"

PInv == BootPhase /\ Quiet /\ ClosedPhase /\ Leaving /\ Emptied /\ Folded /\ StoppedDone

-----------------------------------------------------------------------------
\* At first there is no process.
LEMMA InitPInv == Init => PInv
BY DEF Init, PInv, BootPhase, Quiet, ClosedPhase, Leaving, Emptied, Folded, StoppedDone,
       Flushing, BootQueued, Carries, InFlight

\* A producer is under way only between Open's return and the closing check.
LEMMA ProducerPhase ==
  ASSUME IInv, PInv, NEW c \in Calls, Producer(c)
  PROVE  PInv'
<1> USE DEF PInv, BootPhase, Quiet, ClosedPhase, Leaving, Emptied, Folded, StoppedDone, Flushing,
            Carries, producerFrame, callVars, rotVars, seqVars, dropVars, disk, env
<1>t. call \in [Calls -> {"idle", "send", "blocked", "wait", "ok", "err", "refused",
                         "cancelled", "closed", "crashed"}]
  BY DEF IInv, TypeOK
<1>1. CASE Enter(c)
  BY <1>t, <1>1 DEF Enter, InFlight, BootQueued
<1>2. CASE Send(c)
  <2>1. BootQueued' = BootQueued
    BY <1>2, ChunkType DEF Send, IInv, TypeOK, BootQueued
  <2>2. InFlight' = InFlight
    BY <1>t, <1>2 DEF Send, InFlight
  <2> QED
    BY <1>2, <2>1, <2>2 DEF Send
<1>3. CASE Block(c) \/ Refuse(c) \/ Cancel(c)
  <2>1. InFlight' \subseteq InFlight
    BY <1>t, <1>3 DEF Block, Refuse, Cancel, InFlight
  <2>2. Refuse(c) => c \in InFlight
    BY DEF Refuse, InFlight
  <2> QED
    BY <1>3, <2>1, <2>2 DEF Block, Refuse, Cancel, BootQueued
<1>4. CASE SendPanics(c)
  BY <1>4 DEF SendPanics, InFlight, BootQueued, Producer
<1> QED
  BY <1>1, <1>2, <1>3, <1>4 DEF Producer

\* Steps that touch neither the queue nor the batch nor any call.
LEMMA LifePhase ==
  ASSUME IInv, PInv, \/ Close \/ CloseChannel \/ CloseDone \/ Open \/ BootNote
                     \/ \E r \in Rotators : Rotate(r)
  PROVE  PInv'
<1> USE DEF PInv, BootPhase, Quiet, ClosedPhase, Leaving, Emptied, Folded, StoppedDone, Flushing,
            Carries, callVars, rotVars, seqVars, dropVars, disk, env
<1>1. CASE Close
  BY <1>1 DEF Close, InFlight, BootQueued, IInv, BootOnce
<1>2. CASE CloseChannel
  BY <1>2 DEF CloseChannel, InFlight, BootQueued
<1>3. CASE CloseDone
  BY <1>3 DEF CloseDone, InFlight, BootQueued
<1>4. CASE Open
  BY <1>4 DEF Open, InFlight, BootQueued
<1>5. CASE BootNote
  BY <1>5 DEF BootNote, InFlight, BootQueued
<1>6. CASE \E r \in Rotators : Rotate(r)
  BY <1>6 DEF Rotate, InFlight, BootQueued
<1> QED
  BY <1>1, <1>2, <1>3, <1>4, <1>5, <1>6

-----------------------------------------------------------------------------
(* The writer *)

\* Only the head of the queue can bring a boot record into the batch.
LEMMA RecvSource ==
  ASSUME IInv, Recv
  PROVE  /\ BootQueued' # {} => BootQueued # {}
         /\ Carries("boot")' => Carries("boot") \/ BootQueued # {}
<1> DEFINE e == EntryRecs(Head(queue))
<1>0. queue # <<>> /\ queue' = Tail(queue)
  BY DEF Recv
<1>1. /\ e \in Seq(RecType)
      /\ \A i \in DOMAIN e : e[i].t = "boot" => queue[1].c = NoCall
  BY <1>0, ReceivedProps, EntryRecsType DEF EntryType
<1>2. queue[1].c = NoCall => 1 \in BootQueued
  BY <1>0, ReceivedProps DEF BootQueued
<1>3. \A i \in BootQueued' : i + 1 \in BootQueued
  BY <1>0, ReceivedProps DEF BootQueued
<1>4. PICK q \in Seq(RecType) :
        /\ batch' = q \o e
        /\ \A i \in DOMAIN q : q[i].t = "boot" => Carries("boot")
  <2>1. CASE batch = <<>>
    <3>1. PICK over \in DiskOver \cup {degraded}, roll \in Rolls :
               batch' = House(over, roll) \o e
      BY <2>1 DEF Recv
    <3>2. /\ House(over, roll) \in Seq(RecType)
          /\ \A i \in DOMAIN House(over, roll) : House(over, roll)[i].t # "boot"
      BY HouseType DEF IInv
    <3> QED
      BY <3>1, <3>2
  <2>2. CASE batch # <<>>
    BY <2>2 DEF Recv, Carries, IInv, TypeOK
  <2> QED
    BY <2>1, <2>2
<1> HIDE DEF e
<1>5. \A i \in DOMAIN (q \o e) : (q \o e)[i].t = "boot" => Carries("boot") \/ queue[1].c = NoCall
  <2> SUFFICES ASSUME NEW i \in DOMAIN (q \o e), (q \o e)[i].t = "boot"
               PROVE  Carries("boot") \/ queue[1].c = NoCall
    OBVIOUS
  <2>1. /\ Len(q) \in Nat /\ i \in Nat
        /\ i <= Len(q) => i \in DOMAIN q /\ (q \o e)[i] = q[i]
        /\ i > Len(q) => (i - Len(q)) \in DOMAIN e /\ (q \o e)[i] = e[i - Len(q)]
    BY <1>1, ConcatIndex
  <2>2. i <= Len(q) \/ i > Len(q)
    BY <2>1
  <2> QED
    BY <1>1, <1>4, <2>1, <2>2
<1> QED
  BY <1>0, <1>2, <1>3, <1>4, <1>5 DEF Carries

\* The writer's loop is left when the closed channel is drained, and not before.
LEMMA LoopPhase ==
  ASSUME IInv, PInv,
         Recv \/ Timer \/ Drained \/ RotateReceived \/ HouseBatch \/ RotateReply \/ WriterExit
  PROVE  PInv'
<1> USE DEF PInv, BootPhase, Quiet, ClosedPhase, Leaving, Emptied, Folded, StoppedDone, Flushing,
            loopFrame, keepBoundary, callVars, rotVars, seqVars
<1>1. CASE Recv
  <2>1. Alive /\ pc = "select" /\ pc' \in {"select", "flush"} /\ then' = "select"
        /\ UNCHANGED <<proc, call, notes, chClosed>>
    BY <1>1 DEF Recv
  <2>2. BootPhase'
    BY <1>1, <2>1, RecvSource
  <2> QED
    BY <2>1, <2>2 DEF Alive, InFlight
<1>2. CASE Timer \/ Drained \/ RotateReceived
  <2>1. /\ UNCHANGED <<batch, proc, call, notes, queue, chClosed, dropN>> /\ pc = "select"
        /\ pc' \in {"house", "rotHouse", "flush"}
        /\ pc' = "flush" => then' \in {"select", "house", "rotHouse"}
        /\ pc' # "flush" => batch = <<>>
        /\ pc' = "house" \/ (pc' = "flush" /\ then' = "house") => chClosed /\ queue = <<>>
        /\ Alive
    BY <1>2 DEF Timer, Drained, RotateReceived, FlushThen
  <2> QED
    BY <2>1 DEF Carries, BootQueued, InFlight, Alive
<1>3. CASE HouseBatch
  <2>1. /\ UNCHANGED <<proc, call, notes, queue, chClosed>> /\ pc \in {"house", "rotHouse"}
        /\ dropN' = 0 /\ pc' \in {"flush", "exit", "reply"} /\ Alive
        /\ pc' # "flush" => batch' = <<>>
        /\ pc' = "flush" => then' \in {"exit", "reply"}
        /\ pc' = "exit" \/ (pc' = "flush" /\ then' = "exit") => pc = "house"
    BY <1>3 DEF HouseBatch, BeforeBatch
  <2>2. ~Carries("boot")'
    BY <1>3, HouseType DEF HouseBatch, Carries, IInv
  <2> QED
    BY <2>1, <2>2 DEF BootQueued, InFlight, Alive
<1>4. CASE RotateReply \/ WriterExit
  BY <1>4 DEF RotateReply, WriterExit, Carries, BootQueued, InFlight, Alive
<1> QED
  BY <1>1, <1>2, <1>3, <1>4

\* A flush goes on with what was to follow it, or a failed boot record ends Open.
LEMMA FlushPhase ==
  ASSUME IInv, PInv, Flush
  PROVE  PInv'
<1> USE DEF PInv, BootPhase, Quiet, ClosedPhase, Leaving, Emptied, Folded, StoppedDone, Flushing,
            callVars, rotVars, seqVars, dropVars, disk, env
<1>t. /\ then \in {"select", "house", "exit", "rotHouse", "reply"}
      /\ call \in [Calls -> {"idle", "send", "blocked", "wait", "ok", "err", "refused",
                             "cancelled", "closed", "crashed"}]
      /\ notes \in Nat
  BY DEF IInv, TypeOK
<1>1. CASE Unavailable \/ WriteFails \/ FsyncFails
  <2>1. Nack /\ pc \in {"flush", "fsync"} /\ Alive
    BY <1>1 DEF Unavailable, WriteFails, FsyncFails, FailBatch
  <2>2. InFlight' \subseteq InFlight
    BY <1>t, <2>1 DEF Nack, InFlight
  <2>3. batch' = <<>> /\ ~Carries("boot")'
    BY <2>1 DEF Nack, Carries
  <2>4. Carries("boot") => InFlight = {}
    BY DEF IInv, BootOnce
  <2>5. Carries("boot") => BootQueued' = {}
    BY <2>1 DEF IInv, BootOnce, Nack, BootQueued
  <2>6. BootPhase'
    BY <2>1, <2>3, <2>5 DEF Nack, BootQueued
  <2>7. proc' = proc \/ (proc' = "closing" /\ Carries("boot"))
    BY <2>1 DEF Nack
  <2>8. (chClosed' = chClosed /\ proc' = proc) \/ (chClosed' /\ Carries("boot") /\ proc' = "closing")
    BY <2>1 DEF Nack
  <2>9. /\ pc' = then /\ then' = then /\ queue' = queue /\ dropN' = dropN /\ notes' = notes
    BY <2>1 DEF Nack
  <2>10. Quiet' /\ ClosedPhase'
    BY <2>1, <2>2, <2>4, <2>8, <2>9 DEF Alive
  <2>11. Leaving' /\ Emptied' /\ Folded' /\ StoppedDone'
    BY <1>t, <2>1, <2>3, <2>8, <2>9 DEF Alive
  <2> QED
    BY <2>6, <2>10, <2>11
<1>2. CASE Write \/ Fsync
  BY <1>2 DEF Write, Fsync, Carries, BootQueued, InFlight, Alive
<1>3. CASE Ack
  <2>1. InFlight' \subseteq InFlight
    BY <1>t, <1>3 DEF Ack, InFlight, Waiters
  <2>2. /\ pc = "ack" /\ pc' = then /\ then' = then /\ batch' = <<>> /\ ~Carries("boot")'
        /\ UNCHANGED <<queue, chClosed, dropN>> /\ Alive
        /\ notes' = notes \/ (Carries("boot") /\ notes' = notes - 1)
        /\ proc' = proc \/ (proc' = "up" /\ Carries("boot"))
    BY <1>3 DEF Ack, Carries
  <2>3. Carries("boot") => notes > 0 /\ BootQueued' = {} /\ ~chClosed /\ proc = "boot"
    BY <2>2 DEF IInv, BootOnce, BootQueued
  <2>4. notes' > 0 => notes > 0
    BY <1>t, <2>2, <2>3
  <2> QED
    BY <1>t, <2>1, <2>2, <2>3, <2>4 DEF Alive, BootQueued
<1> QED
  BY <1>1, <1>2, <1>3 DEF Flush

\* Nothing is left of a process that crashed.
LEMMA CrashPhase ==
  ASSUME IInv, PInv, Kill \/ PowerLoss
  PROVE  PInv'
<1>1. Vanish
  BY DEF Kill, PowerLoss
<1>2. InFlight' = {}
  BY <1>1 DEF Vanish, InFlight
<1> QED
  BY <1>1, <1>2 DEF Vanish, PInv, BootPhase, Quiet, ClosedPhase, Leaving, Emptied, Folded,
                    StoppedDone, Flushing, BootQueued, Carries

\* Every step keeps the phases.
LEMMA StepPInv == IInv /\ PInv /\ [Next]_vars => PInv'
<1> SUFFICES ASSUME IInv, PInv, [Next]_vars PROVE PInv'
  OBVIOUS
<1>1. CASE UNCHANGED vars
  BY <1>1 DEF vars, callVars, rotVars, seqVars, dropVars, disk, env, PInv, BootPhase, Quiet,
              ClosedPhase, Leaving, Emptied, Folded, StoppedDone, Flushing, BootQueued, Carries, InFlight
<1> QED
  BY <1>1, ProducerPhase, LifePhase, LoopPhase, FlushPhase, CrashPhase
     DEF Next, Writer, Lifecycle

\* The phases hold throughout.
LEMMA Phases == Spec => [](IInv /\ PInv)
BY Invariance, InitPInv, StepPInv, PTL DEF Spec

-----------------------------------------------------------------------------
(* The theorems on Close *)

\* Whatever else runs, it is only AppendBatch, which joins no wait group, that
\* Close can overtake.
THEOREM OnlyBatchesPanic == Spec => AppendsNeverPanic
<1>1. IInv /\ PInv /\ [Next]_vars => [\A c \in Calls \ Batches : ~SendPanics(c)]_vars
  BY DEF PInv, ClosedPhase, SendPanics, InFlight
<1> QED
  BY <1>1, Phases, PTL DEF Spec, AppendsNeverPanic

\* With callers of Append only, Close never pulls the channel away under a
\* sender (stop's enqWG.Wait before close(w.ch)).
THEOREM CloseIsSafe == Batches = {} => (Spec => []NoPanic)
<1> SUFFICES ASSUME Batches = {} PROVE Spec => []NoPanic
  OBVIOUS
<1>1. Init => NoPanic
  BY DEF Init, NoPanic
<1>2. IInv /\ PInv /\ NoPanic /\ [Next]_vars => NoPanic'
  <2> SUFFICES ASSUME IInv, PInv, NoPanic, [Next]_vars, proc' = "panic" PROVE FALSE
    BY DEF NoPanic
  <2>1. \E c \in Calls : SendPanics(c)
    BY DEF NoPanic, Next, Producer, Enter, Send, Block, Refuse, Cancel, Rotate, Writer, Flush,
           Recv, Timer, Drained, RotateReceived, HouseBatch, RotateReply, WriterExit, Unavailable,
           Write, WriteFails, Fsync, FsyncFails, FailBatch, Nack, Ack, Lifecycle, Open, BootNote, Close,
           CloseChannel, CloseDone, Kill, PowerLoss, Vanish, producerFrame, loopFrame, vars
  <2> QED
    BY <2>1 DEF PInv, ClosedPhase, SendPanics, InFlight
<1> QED
  BY <1>1, <1>2, Phases, PTL DEF Spec

\* With callers of Append only, a Close that has returned has swallowed
\* nothing: queue and batch are empty, the refusals were folded, nobody waits.
THEOREM CloseIsClean == Batches = {} => (Spec => []CleanClose)
<1> SUFFICES ASSUME Batches = {} PROVE Spec => []CleanClose
  OBVIOUS
<1>1. IInv /\ PInv => CleanClose
  BY DEF PInv, StoppedDone, Leaving, Emptied, Folded, ClosedPhase, CleanClose
<1> QED
  BY <1>1, Phases, PTL

-----------------------------------------------------------------------------
(* The refusal fold *)

Folds(b) == {i \in DOMAIN b : b[i].t = "fold"}

\* A batch carries one fold record at most: FoldSum is what it says.
FoldOnce == \A i, j \in Folds(batch) : i = j

\* The writer loses its file only by a failure.
FileLost == ~cur /\ pc # "done" /\ proc # "down" => faults > 0

RInv == FoldOnce /\ FileLost /\ RefusalsAccounted

\* What the fold records of b add up to, if there is one at most.
SumsTo(b, n) == /\ \A i, j \in Folds(b) : i = j
                /\ \A i \in Folds(b) : b[i].a = n
                /\ Folds(b) = {} => n = 0

\* What the fold record of b says.
SumOf(b) == IF Folds(b) = {} THEN 0 ELSE b[CHOOSE i \in Folds(b) : TRUE].a

\* FoldSum is what the batch's fold record says.
LEMMA FoldSumIs == FoldSum = SumOf(batch) /\ FoldSum' = SumOf(batch')
BY DEF FoldSum, SumOf, Folds

\* With one fold record at most, the sum is what that record says.
LEMMA SumOfIs ==
  ASSUME NEW b
  PROVE  /\ (\A i, j \in Folds(b) : i = j) => SumsTo(b, SumOf(b))
         /\ \A n : SumsTo(b, n) => SumOf(b) = n /\ \A i, j \in Folds(b) : i = j
<1>1. CASE Folds(b) = {}
  BY <1>1 DEF SumsTo, SumOf
<1>2. CASE Folds(b) # {}
  <2>1. (CHOOSE i \in Folds(b) : TRUE) \in Folds(b)
    BY <1>2
  <2> QED
    BY <1>2, <2>1 DEF SumsTo, SumOf
<1> QED
  BY <1>1, <1>2

\* Records that are no folds do not change the sum, on either side.
LEMMA SumConcat ==
  ASSUME NEW s \in Seq(RecType), NEW t \in Seq(RecType), NEW n,
         \/ SumsTo(s, n) /\ Folds(t) = {}
         \/ SumsTo(t, n) /\ Folds(s) = {}
  PROVE  SumsTo(s \o t, n)
<1> DEFINE u == s \o t
<1>1. /\ Len(s) \in Nat /\ Len(t) \in Nat
      /\ DOMAIN s = 1..Len(s) /\ DOMAIN t = 1..Len(t) /\ DOMAIN u = 1..(Len(s) + Len(t))
      /\ \A i \in DOMAIN u :
              /\ i \in Nat /\ i >= 1
              /\ i <= Len(s) => i \in DOMAIN s /\ u[i] = s[i]
              /\ i > Len(s) => (i - Len(s)) \in DOMAIN t /\ u[i] = t[i - Len(s)]
  BY ConcatIndex
<1> HIDE DEF u
<1>2. CASE SumsTo(s, n) /\ Folds(t) = {}
  <2>1. \A i \in Folds(u) : i \in Folds(s) /\ u[i] = s[i]
    BY <1>1, <1>2 DEF Folds
  <2>2. \A i \in Folds(s) : i \in Folds(u)
    <3> SUFFICES ASSUME NEW i \in Folds(s) PROVE i \in Folds(u)
      OBVIOUS
    <3>1. i \in 1..Len(s) /\ s[i].t = "fold"
      BY <1>1 DEF Folds
    <3>2. i \in DOMAIN u /\ i <= Len(s)
      BY <1>1, <3>1
    <3> QED
      BY <1>1, <3>1, <3>2 DEF Folds
  <2> QED
    BY <1>2, <2>1, <2>2 DEF SumsTo, u
<1>3. CASE SumsTo(t, n) /\ Folds(s) = {}
  <2>1. \A i \in Folds(u) : i \in Nat /\ i - Len(s) \in Folds(t) /\ u[i] = t[i - Len(s)]
    BY <1>1, <1>3 DEF Folds
  <2>2. \A i \in Folds(t) : i + Len(s) \in Folds(u)
    <3> SUFFICES ASSUME NEW i \in Folds(t) PROVE i + Len(s) \in Folds(u)
      OBVIOUS
    <3>1. i \in 1..Len(t) /\ t[i].t = "fold"
      BY <1>1 DEF Folds
    <3>2. i + Len(s) \in DOMAIN u /\ i + Len(s) > Len(s) /\ (i + Len(s)) - Len(s) = i
      BY <1>1, <3>1
    <3> QED
      BY <1>1, <3>1, <3>2 DEF Folds
  <2>3. \A i, j \in Folds(u) : i = j
    <3> SUFFICES ASSUME NEW i \in Folds(u), NEW j \in Folds(u) PROVE i = j
      OBVIOUS
    <3>1. i - Len(s) = j - Len(s)
      BY <1>3, <2>1 DEF SumsTo
    <3> QED
      BY <1>1, <2>1, <3>1
  <2> QED
    BY <1>3, <2>1, <2>2, <2>3 DEF SumsTo, u
<1> QED
  BY <1>2, <1>3

\* The boundary records carry exactly the refusals tallied so far.
LEMMA HouseSum ==
  ASSUME TypeOK, NEW over, NEW roll
  PROVE  House(over, roll) \in Seq(RecType) /\ SumsTo(House(over, roll), dropN)
<1> DEFINE h == [i \in 1..Len(holes) |-> HoleRec(holes[i])]
           a == IF over /\ ~degraded THEN <<NoteRec>> ELSE <<>>
           b == IF roll \in {"rolled", "failed", "lost"} THEN <<NoteRec>> ELSE <<>>
           d == IF dropN > 0 THEN <<FoldRec(dropN)>> ELSE <<>>
<1>1. NoteRec \in RecType /\ NoteRec.t # "fold"
  BY DEF NoteRec, Rec, RecType
<1>2. dropN \in Nat
  BY DEF TypeOK
<1>3. FoldRec(dropN) \in RecType /\ FoldRec(dropN).t = "fold" /\ FoldRec(dropN).a = dropN
  BY <1>2 DEF FoldRec, Rec, RecType
<1>4. Len(holes) \in Nat /\ \A i \in 1..Len(holes) : holes[i] \in HoleType
  BY LenProperties, ElementOfSeq DEF TypeOK
<1>5. \A x \in HoleType : HoleRec(x) \in RecType /\ HoleRec(x).t # "fold"
  BY DEF HoleRec, Rec, RecType, HoleType
<1>6. h \in Seq(RecType) /\ Folds(h) = {}
  <2>1. h \in [1..Len(holes) -> RecType] /\ \A i \in 1..Len(holes) : h[i].t # "fold"
    BY <1>4, <1>5
  <2> QED
    BY <1>4, <2>1, IsASeq DEF Folds
<1>7. a \in Seq(RecType) /\ b \in Seq(RecType) /\ Folds(a) = {} /\ Folds(b) = {}
  BY <1>1 DEF Folds
<1>8. d \in Seq(RecType) /\ SumsTo(d, dropN)
  BY <1>2, <1>3 DEF SumsTo, Folds
<1>9. House(over, roll) = a \o b \o h \o d
  BY DEF House
<1> HIDE DEF a, b, h, d
<1>10. a \o b \in Seq(RecType) /\ Folds(a \o b) = {}
  BY <1>7, ConcatIndex DEF Folds
<1>11. (a \o b) \o h \in Seq(RecType) /\ Folds((a \o b) \o h) = {}
  BY <1>6, <1>10, ConcatIndex DEF Folds
<1>12. SumsTo(((a \o b) \o h) \o d, dropN)
  BY <1>8, <1>11, SumConcat
<1> QED
  BY <1>8, <1>9, <1>11, <1>12

\* The records of a queue entry are no folds.
LEMMA EntryNoFold ==
  ASSUME IInv, queue # <<>>
  PROVE  EntryRecs(Head(queue)) \in Seq(RecType) /\ Folds(EntryRecs(Head(queue))) = {}
<1>1. EntryRecs(Head(queue)) \in Seq(RecType) /\ Head(queue) \in EntryType
  BY ReceivedProps, EntryRecsType DEF EntryType
<1>2. \A i \in DOMAIN EntryRecs(Head(queue)) : EntryRecs(Head(queue))[i].t # "fold"
  BY <1>1 DEF EntryRecs, Rec, EntryType
<1> QED
  BY <1>1, <1>2 DEF Folds

\* A step that leaves the batch and the tallies alone.
LEMMA TallyKept ==
  ASSUME IInv, RInv, UNCHANGED <<batch, dropN, backpressure, estLost>>,
         faults' = faults \/ faults' = faults + 1 \/ (faults' \in Nat /\ faults' > faults)
  PROVE  FoldOnce' /\ RefusalsAccounted'
<1>1. FoldSum' = FoldSum /\ faults \in Nat
  BY DEF FoldSum, IInv, TypeOK
<1> QED
  BY <1>1 DEF RInv, FoldOnce, Folds, RefusalsAccounted

\* No refusal was tallied yet.
LEMMA InitRInv == Init => RInv
BY DEF Init, RInv, FoldOnce, Folds, FileLost, RefusalsAccounted, FoldSum

\* A refusal is tallied as it is counted.
LEMMA ProducerTally ==
  ASSUME IInv, RInv, NEW c \in Calls, Producer(c)
  PROVE  RInv'
<1> USE DEF producerFrame, callVars, rotVars, seqVars, dropVars, disk, env
<1>1. CASE Refuse(c)
  <2>1. FoldSum' = FoldSum /\ FoldSum \in Nat /\ dropN \in Nat /\ backpressure \in Nat /\ estLost \in Nat
    BY <1>1, AckTypes DEF Refuse, FoldSum, IInv, TypeOK
  <2> QED
    BY <1>1, <2>1 DEF Refuse, RInv, FoldOnce, Folds, FileLost, RefusalsAccounted
<1>2. CASE Enter(c) \/ Send(c) \/ Block(c) \/ Cancel(c) \/ SendPanics(c)
  <2>1. UNCHANGED <<batch, dropN, backpressure, estLost, faults, cur, pc>> /\ proc' # "down" /\ proc # "down"
    BY <1>2 DEF Enter, Send, Block, Cancel, SendPanics
  <2> QED
    BY <2>1, TallyKept DEF RInv, FileLost
<1> QED
  BY <1>1, <1>2 DEF Producer

\* Opening and closing touch no tally.
LEMMA LifeTally ==
  ASSUME IInv, RInv, \/ Close \/ CloseChannel \/ CloseDone \/ Open \/ BootNote
                     \/ \E r \in Rotators : Rotate(r)
  PROVE  RInv'
<1> USE DEF callVars, rotVars, seqVars, dropVars, disk, env
<1>0. faults \in Nat
  BY DEF IInv, TypeOK
<1>o. ASSUME Open PROVE faults' \in Nat /\ faults' >= faults /\ (cur' \/ faults' > faults)
  <2>1. PICK x \in {0, 1}, y \in {0, 1}, c \in BOOLEAN : cur' = c /\ faults' = faults + x + y + (IF c THEN 0 ELSE 1)
    <3>1. PICK scan \in Scans(file) : \E h \in Heals(file, scan.blind), c \in BOOLEAN :
       /\ cur' = c
       /\ faults' = faults + (IF scan # Whole THEN 1 ELSE 0) + (IF h.failed THEN 1 ELSE 0) + (IF c THEN 0 ELSE 1)
      BY <1>o DEF Open
    <3>2. PICK h \in Heals(file, scan.blind), c \in BOOLEAN :
       /\ cur' = c
       /\ faults' = faults + (IF scan # Whole THEN 1 ELSE 0) + (IF h.failed THEN 1 ELSE 0) + (IF c THEN 0 ELSE 1)
      BY <3>1
    <3>3. (IF scan # Whole THEN 1 ELSE 0) \in {0, 1} /\ (IF h.failed THEN 1 ELSE 0) \in {0, 1}
      OBVIOUS
    <3> QED
      BY <3>2, <3>3
  <2> QED
    BY <1>0, <2>1
<1>1. UNCHANGED <<batch, dropN, backpressure, estLost>> /\ faults' \in Nat /\ faults' >= faults
  BY <1>0, <1>o DEF Close, CloseChannel, CloseDone, Open, BootNote, Rotate
<1>2. FileLost'
  BY <1>0, <1>1, <1>o DEF Close, CloseChannel, CloseDone, BootNote, Rotate, FileLost, RInv
<1>3. faults' = faults \/ (faults' \in Nat /\ faults' > faults)
  BY <1>0, <1>1
<1> QED
  BY <1>1, <1>2, <1>3, TallyKept DEF RInv

\* A lost file was lost to a failure, at a boundary too.
LEMMA RollTally ==
  ASSUME IInv, RInv, NEW roll, RollFile(roll), Alive, pc # "done"
  PROVE  /\ faults' = faults \/ faults' = faults + 1
         /\ ~cur' => faults' > 0
<1>1. faults \in Nat /\ (~cur => faults > 0)
  BY DEF IInv, TypeOK, RInv, FileLost, Alive
<1> QED
  BY <1>1 DEF RollFile, Fault

\* A batch boundary moves the tally into a fold record.
LEMMA LoopTally ==
  ASSUME IInv, PInv, RInv,
         Recv \/ Timer \/ Drained \/ RotateReceived \/ HouseBatch \/ RotateReply \/ WriterExit
  PROVE  RInv'
<1> USE DEF loopFrame, keepBoundary, callVars, rotVars, seqVars
<1>t. /\ TypeOK /\ FoldSum \in Nat /\ dropN \in Nat /\ backpressure \in Nat /\ estLost \in Nat
      /\ faults \in Nat /\ batch \in Seq(RecType)
  BY AckTypes DEF IInv, TypeOK
<1>e. batch = <<>> => FoldSum = 0
  BY DEF FoldSum
<1>1. CASE Recv /\ batch # <<>>
  <2>1. batch' = batch \o EntryRecs(Head(queue)) /\ queue # <<>>
        /\ UNCHANGED <<dropN, backpressure, estLost, faults, cur, proc>> /\ pc = "select" /\ pc' # "done"
    BY <1>1 DEF Recv
  <2>2. SumsTo(batch, SumOf(batch))
    BY SumOfIs DEF RInv, FoldOnce
  <2>3. SumsTo(batch', SumOf(batch))
    BY <1>t, <2>1, <2>2, EntryNoFold, SumConcat
  <2>4. FoldOnce' /\ SumOf(batch') = SumOf(batch)
    BY <2>3, SumOfIs DEF FoldOnce
  <2> QED
    BY <2>1, <2>4, FoldSumIs DEF RInv, FileLost, RefusalsAccounted
<1>2. CASE Recv /\ batch = <<>>
  <2>1. PICK over \in DiskOver \cup {degraded}, roll \in Rolls :
             /\ BeforeBatch(over, roll)
             /\ batch' = House(over, roll) \o EntryRecs(Head(queue))
    BY <1>2 DEF Recv
  <2>2. /\ queue # <<>> /\ UNCHANGED <<backpressure, estLost, proc>> /\ Alive
        /\ pc = "select" /\ pc' # "done"
    BY <1>2 DEF Recv
  <2>3. SumsTo(batch', dropN)
    BY <1>t, <2>1, <2>2, HouseSum, EntryNoFold, SumConcat
  <2>4. FoldOnce' /\ SumOf(batch') = dropN
    BY <2>3, SumOfIs DEF FoldOnce
  <2>5. /\ faults' = faults \/ faults' = faults + 1
        /\ ~cur' => faults' > 0
    BY <2>1, <2>2, RollTally DEF BeforeBatch
  <2>6. dropN' = 0
    BY <2>1 DEF BeforeBatch
  <2>7. RefusalsAccounted'
    BY <1>t, <1>e, <1>2, <2>2, <2>4, <2>5, <2>6, FoldSumIs DEF RInv, RefusalsAccounted
  <2> QED
    BY <2>4, <2>5, <2>7 DEF RInv, FileLost
<1>3. CASE HouseBatch
  <2>0. batch = <<>>
    BY <1>3 DEF HouseBatch, PInv, Emptied
  <2>1. PICK over \in DiskOver \cup {degraded}, roll \in Rolls :
             BeforeBatch(over, roll) /\ batch' = House(over, roll)
    BY <1>3 DEF HouseBatch
  <2>2. /\ UNCHANGED <<backpressure, estLost, proc>> /\ Alive
        /\ pc \in {"house", "rotHouse"} /\ pc' # "done"
    BY <1>3 DEF HouseBatch
  <2>3. SumsTo(batch', dropN)
    BY <1>t, <2>1, HouseSum
  <2>4. FoldOnce' /\ SumOf(batch') = dropN
    BY <2>3, SumOfIs DEF FoldOnce
  <2>5. /\ faults' = faults \/ faults' = faults + 1
        /\ ~cur' => faults' > 0
    BY <2>1, <2>2, RollTally DEF BeforeBatch
  <2>6. dropN' = 0
    BY <2>1 DEF BeforeBatch
  <2>7. RefusalsAccounted'
    BY <1>t, <1>e, <2>0, <2>2, <2>4, <2>5, <2>6, FoldSumIs DEF RInv, RefusalsAccounted
  <2> QED
    BY <2>4, <2>5, <2>7 DEF RInv, FileLost
<1>4. CASE Timer \/ Drained \/ RotateReceived \/ RotateReply \/ WriterExit
  <2>1. /\ UNCHANGED <<batch, dropN, backpressure, estLost, faults, proc>>
        /\ (cur' = cur /\ pc # "done") \/ pc' = "done"
    BY <1>4 DEF Timer, Drained, RotateReceived, RotateReply, WriterExit
  <2> QED
    BY <2>1, TallyKept DEF RInv, FileLost
<1> QED
  BY <1>1, <1>2, <1>3, <1>4

\* An acknowledged batch credits its fold record.
LEMMA FlushTally ==
  ASSUME IInv, RInv, Flush
  PROVE  RInv'
<1> USE DEF callVars, rotVars, seqVars, dropVars, disk, env
<1>t. /\ FoldSum \in Nat /\ dropN \in Nat /\ backpressure \in Nat /\ estLost \in Nat /\ faults \in Nat
      /\ then # "done"
  BY AckTypes DEF IInv, TypeOK
<1>e. batch' = <<>> => FoldSum' = 0 /\ FoldOnce'
  BY DEF FoldSum, FoldOnce, Folds
<1>1. CASE Unavailable \/ WriteFails \/ FsyncFails
  <2>1. /\ batch' = <<>> /\ pc' = then /\ cur' = cur /\ Alive /\ pc \in {"flush", "fsync"}
        /\ faults' = faults + 1 \/ (faults' = faults /\ ~cur)
    BY <1>1 DEF Unavailable, WriteFails, FsyncFails, FailBatch, Nack, Fault
  <2>2. faults' > 0
    BY <1>t, <2>1 DEF RInv, FileLost, Alive
  <2> QED
    BY <1>e, <2>1, <2>2 DEF RInv, FileLost, RefusalsAccounted
<1>2. CASE Write \/ Fsync
  <2>1. UNCHANGED <<batch, dropN, backpressure, estLost, faults, proc, cur>> /\ pc # "done"
    BY <1>2 DEF Write, Fsync
  <2> QED
    BY <2>1, TallyKept DEF RInv, FileLost
<1>3. CASE Ack
  <2>1. /\ batch' = <<>> /\ pc' = then /\ UNCHANGED <<cur, dropN, backpressure>> /\ Alive /\ pc = "ack"
        /\ estLost' = estLost + FoldSum /\ (faults' = faults \/ faults' = faults + 1)
    BY <1>3 DEF Ack, Fault
  <2>2. RefusalsAccounted'
    BY <1>t, <1>e, <2>1 DEF RInv, RefusalsAccounted
  <2>3. FileLost'
    BY <1>t, <2>1 DEF RInv, FileLost, Alive
  <2> QED
    BY <1>e, <2>1, <2>2, <2>3 DEF RInv
<1> QED
  BY <1>1, <1>2, <1>3 DEF Flush

\* Every step keeps the tally exact until a write fails.
LEMMA StepRInv == IInv /\ PInv /\ RInv /\ [Next]_vars => RInv'
<1> SUFFICES ASSUME IInv, PInv, RInv, [Next]_vars PROVE RInv'
  OBVIOUS
<1>1. CASE UNCHANGED vars
  BY <1>1, TallyKept DEF vars, callVars, rotVars, seqVars, dropVars, disk, env, RInv, FileLost
<1>2. CASE Kill \/ PowerLoss
  BY <1>2 DEF Kill, PowerLoss, Vanish, RInv, FoldOnce, Folds, FileLost, RefusalsAccounted, FoldSum
<1> QED
  BY <1>1, <1>2, ProducerTally, LifeTally, LoopTally, FlushTally
     DEF Next, Writer, Lifecycle

\* While no write has failed, every refusal since boot is in the tally, in the
\* fold record under way or credited, whenever producers are refused around a
\* boundary, a flush or the shutdown (enqueue, beforeBatch, flushBatch).
THEOREM RefusalsAlwaysAccounted == Spec => []RefusalsAccounted
<1>1. RInv => RefusalsAccounted
  BY DEF RInv
<1> QED
  BY <1>1, Phases, InitRInv, StepRInv, PTL DEF Spec

-----------------------------------------------------------------------------
(* What a write does to the lines that are there, and where its own go *)

\* The items of a concatenation, from either side.
LEMMA ConcatAt ==
  ASSUME NEW S, NEW s \in Seq(S), NEW t \in Seq(S)
  PROVE  /\ s \o t \in Seq(S) /\ Len(s) \in Nat /\ Len(t) \in Nat /\ Len(s \o t) = Len(s) + Len(t)
         /\ \A i \in 1..Len(s) : (s \o t)[i] = s[i]
         /\ \A i \in 1..Len(t) : (s \o t)[Len(s) + i] = t[i]
<1> DEFINE u == s \o t
<1>1. /\ u \in Seq(S) /\ Len(s) \in Nat /\ Len(t) \in Nat /\ Len(u) = Len(s) + Len(t)
      /\ DOMAIN u = 1..(Len(s) + Len(t))
      /\ \A i \in DOMAIN u : /\ i <= Len(s) => u[i] = s[i]
                             /\ i > Len(s) => u[i] = t[i - Len(s)]
  BY ConcatIndex
<1> HIDE DEF u
<1>2. \A i \in 1..Len(s) : u[i] = s[i]
  BY <1>1
<1>3. ASSUME NEW i \in 1..Len(t) PROVE u[Len(s) + i] = t[i]
  <2> DEFINE k == Len(s) + i
  <2>1. k \in DOMAIN u /\ k > Len(s) /\ k - Len(s) = i
    BY <1>1
  <2> HIDE DEF k
  <2>2. u[k] = t[i]
    BY <1>1, <2>1
  <2> QED
    BY <2>2 DEF k
<1> QED
  BY <1>1, <1>2, <1>3 DEF u

\* Item by item: nothing changes but an open tail, which takes the first item.
LEMMA AppendedIs ==
  ASSUME NEW f \in Seq(LineType), NEW b \in Seq(LineType), NEW g \in Appended(f, b)
  PROVE  /\ g \in Seq(LineType) /\ Len(f) \in Nat /\ Len(b) \in Nat
         /\ Len(b) = 0 => g = f
         /\ Len(b) > 0 /\ ~OpenTail(f) =>
              /\ Len(g) = Len(f) + Len(b)
              /\ \A i \in 1..Len(f) : g[i] = f[i]
              /\ \A i \in 1..Len(b) : g[Len(f) + i] = b[i]
         /\ Len(b) > 0 /\ OpenTail(f) =>
              /\ Len(f) > 0 /\ Len(g) = Len(f) + Len(b) - 1
              /\ \A i \in 1..(Len(f) - 1) : g[i] = f[i]
              /\ g[Len(f)] \in Glued(LastOf(f), b[1])
              /\ \A i \in 2..Len(b) : g[Len(f) - 1 + i] = b[i]
<1>0. /\ Len(f) \in Nat /\ DOMAIN f = 1..Len(f) /\ Len(b) \in Nat /\ DOMAIN b = 1..Len(b)
      /\ g \in Seq(LineType)
  BY FileItem, AppendedShape
<1>1. CASE Len(b) = 0
  BY <1>0, <1>1 DEF Appended
<1>2. CASE Len(b) > 0 /\ ~OpenTail(f)
  <2>1. g = f \o b
    BY <1>0, <1>2 DEF Appended
  <2>2. /\ Len(f \o b) = Len(f) + Len(b)
        /\ \A i \in 1..Len(f) : (f \o b)[i] = f[i]
        /\ \A i \in 1..Len(b) : (f \o b)[Len(f) + i] = b[i]
    BY ConcatAt
  <2>3. /\ Len(g) = Len(f) + Len(b)
        /\ \A i \in 1..Len(f) : g[i] = f[i]
        /\ \A i \in 1..Len(b) : g[Len(f) + i] = b[i]
    BY ONLY <2>1, <2>2, Zenon
  <2> QED
    BY <1>0, <1>2, <2>3
<1>3. CASE Len(b) > 0 /\ OpenTail(f)
  <2> DEFINE h == SubSeq(f, 1, Len(f) - 1)
             t == Tail(b)
  <2>1. Len(f) > 0
    BY <1>3 DEF OpenTail
  <2>2. PICK x \in Glued(LastOf(f), Head(b)) : g = (h \o <<x>>) \o t
    <3>1. Len(b) # 0
      BY <1>0, <1>3
    <3> QED
      BY <1>3, <3>1 DEF Appended
  <2>3. x \in LineType
    BY <2>2, LineTypes DEF Glued
  <2>4. /\ h \in Seq(LineType) /\ Len(h) = Len(f) - 1
        /\ \A i \in 1..(Len(f) - 1) : h[i] = f[i]
    <3>1. \A i \in 1..(Len(f) - 1) : f[i] \in LineType
      BY <1>0, FileItem
    <3> QED
      BY <1>0, <2>1, <3>1, SubSeqProperties
  <2>5. /\ t \in Seq(LineType) /\ Len(t) = Len(b) - 1 /\ Head(b) = b[1]
        /\ \A i \in 1..(Len(b) - 1) : t[i] = b[i + 1]
    BY <1>0, <1>3, HeadTailProperties
  <2> HIDE DEF h, t
  <2> DEFINE q == h \o <<x>>
  <2>6. /\ q \in Seq(LineType) /\ Len(q) = Len(f)
        /\ \A i \in 1..(Len(f) - 1) : q[i] = f[i]
        /\ q[Len(f)] = x
    <3>1. <<x>> \in Seq(LineType) /\ Len(<<x>>) = 1 /\ <<x>>[1] = x
      BY <2>3
    <3>2. /\ q \in Seq(LineType) /\ Len(q) = Len(h) + 1
          /\ \A i \in 1..Len(h) : q[i] = h[i]
          /\ \A i \in 1..1 : q[Len(h) + i] = <<x>>[i]
      BY <2>4, <3>1, ConcatAt
    <3>3. Len(h) + 1 = Len(f) /\ q[Len(h) + 1] = x
      BY <1>0, <2>1, <2>4, <3>1, <3>2
    <3> HIDE DEF q
    <3> QED
      BY <2>4, <3>2, <3>3
  <2> HIDE DEF q
  <2>7. g = q \o t
    BY <2>2 DEF q
  <2>8. /\ Len(g) = Len(f) + Len(t)
        /\ \A i \in 1..Len(f) : g[i] = q[i]
        /\ \A i \in 1..Len(t) : g[Len(f) + i] = t[i]
    <3>1. /\ Len(q \o t) = Len(q) + Len(t)
          /\ \A i \in 1..Len(q) : (q \o t)[i] = q[i]
          /\ \A i \in 1..Len(t) : (q \o t)[Len(q) + i] = t[i]
      <4>1. q \in Seq(LineType) /\ t \in Seq(LineType)
        BY <2>5, <2>6
      <4> QED
        BY ONLY <4>1, ConcatAt
    <3>2. Len(q) = Len(f)
      BY <2>6
    <3> QED
      BY ONLY <2>7, <3>1, <3>2, Zenon
  <2>9. ASSUME NEW i \in 2..Len(b) PROVE g[Len(f) - 1 + i] = b[i]
    <3> DEFINE u == i - 1
    <3>1. u \in 1..Len(t) /\ u \in 1..(Len(b) - 1) /\ Len(f) - 1 + i = Len(f) + u /\ u + 1 = i
      BY <1>0, <2>5
    <3> HIDE DEF u
    <3> QED
      BY <2>5, <2>8, <3>1
  <2>10. Len(f) \in 1..Len(f) /\ \A i \in 1..(Len(f) - 1) : i \in 1..Len(f)
    BY <1>0, <2>1
  <2> QED
    <3>1. Len(g) = Len(f) + Len(b) - 1
      BY <1>0, <2>5, <2>8
    <3>2. g[Len(f)] \in Glued(LastOf(f), b[1])
      BY <2>2, <2>5, <2>6, <2>8, <2>10
    <3>3. \A i \in 1..(Len(f) - 1) : g[i] = f[i]
      BY <2>6, <2>8, <2>10, Zenon
    <3> HIDE DEF h, t, q
    <3>4. \A i \in 2..Len(b) : g[Len(f) - 1 + i] = b[i]
      BY <2>9
    <3> QED
      BY ONLY <1>0, <1>3, <2>1, <3>1, <3>2, <3>3, <3>4
<1> QED
  BY <1>0, <1>1, <1>2, <1>3

\* A write leaves every whole line where it is.
LEMMA AppendedKeeps ==
  ASSUME NEW f \in Seq(LineType), NEW b \in Seq(LineType), NEW g \in Appended(f, b)
  PROVE  Len(f) <= Len(g) /\ \A i \in 1..Len(f) : f[i].k = "line" => g[i] = f[i]
<1>0. Len(f) \in Nat /\ Len(b) \in Nat /\ Len(g) \in Nat
  BY AppendedIs, LenProperties
<1>1. CASE Len(b) = 0
  <2>1. g = f
    BY <1>1, AppendedIs
  <2> QED
    BY <1>0, <2>1
<1>2. CASE Len(b) > 0 /\ ~OpenTail(f)
  BY <1>0, <1>2, AppendedIs
<1>3. CASE Len(b) > 0 /\ OpenTail(f)
  <2>1. f[Len(f)].k # "line"
    BY <1>3 DEF OpenTail, LastOf
  <2> QED
    BY <1>0, <1>3, <2>1, AppendedIs
<1> QED
  BY <1>0, <1>1, <1>2, <1>3

\* Every item that does not meet an open tail lands as it is.
LEMMA AppendedLands ==
  ASSUME NEW f \in Seq(LineType), NEW b \in Seq(LineType), NEW g \in Appended(f, b),
         NEW i \in 1..Len(b), i > 1 \/ ~OpenTail(f)
  PROVE  \E j \in 1..Len(g) : g[j] = b[i]
<1>0. Len(f) \in Nat /\ Len(b) \in Nat /\ Len(g) \in Nat /\ Len(b) > 0
  BY AppendedIs, LenProperties
<1>1. CASE ~OpenTail(f)
  <2>1. Len(f) + i \in 1..Len(g) /\ g[Len(f) + i] = b[i]
    BY <1>0, <1>1, AppendedIs
  <2> QED
    BY <2>1
<1>2. CASE OpenTail(f)
  <2>0. i \in 2..Len(b)
    BY <1>0, <1>2
  <2>1. Len(f) > 0 /\ Len(g) = Len(f) + Len(b) - 1 /\ g[Len(f) - 1 + i] = b[i]
    BY <1>0, <1>2, <2>0, AppendedIs
  <2>2. Len(f) - 1 + i \in 1..Len(g)
    BY <1>0, <2>0, <2>1
  <2> QED
    BY <2>1, <2>2
<1> QED
  BY <1>1, <1>2

\* Whole lines written behind an open tail close it.
LEMMA AppendedCloses ==
  ASSUME NEW f \in Seq(LineType), NEW b \in Seq(LineType), NEW g \in Appended(f, b),
         Len(b) > 0, \A i \in 1..Len(b) : b[i].k = "line"
  PROVE  ~OpenTail(g)
<1>0. Len(f) \in Nat /\ Len(b) \in Nat /\ Len(g) \in Nat
  BY AppendedIs, LenProperties
<1>1. CASE ~OpenTail(f)
  <2>0. /\ Len(g) = Len(f) + Len(b) /\ Len(b) \in 1..Len(b)
        /\ \A i \in 1..Len(b) : g[Len(f) + i] = b[i]
    BY <1>0, <1>1, AppendedIs
  <2>1. g[Len(g)] = b[Len(b)]
    BY <2>0
  <2> QED
    BY <1>0, <2>1 DEF OpenTail, LastOf
<1>2. CASE OpenTail(f) /\ Len(b) > 1
  <2>1. Len(g) = Len(f) - 1 + Len(b) /\ Len(b) \in 2..Len(b)
    BY <1>0, <1>2, AppendedIs
  <2>2. g[Len(g)] = b[Len(b)]
    BY <1>0, <1>2, <2>1, AppendedIs
  <2> QED
    BY <1>0, <2>2 DEF OpenTail, LastOf
<1>3. CASE OpenTail(f) /\ Len(b) = 1
  <2>1. Len(g) = Len(f) /\ g[Len(f)] \in Glued(LastOf(f), b[1])
    BY <1>0, <1>3, AppendedIs
  <2>2. g[Len(g)].k \in {"corrupt", "torn"}
    BY <1>0, <1>3, <2>1 DEF Glued, Mangled, Line
  <2> QED
    BY <2>2 DEF OpenTail, LastOf
<1>4. CASE OpenTail(f)
  <2> DEFINE n == Len(b)
  <2>0. n \in Nat /\ n > 0
    BY <1>0
  <2> HIDE DEF n
  <2>1. n > 1 \/ n = 1
    BY ONLY <2>0
  <2> QED
    BY <1>2, <1>3, <1>4, <2>1 DEF n
<1> QED
  BY <1>1, <1>4

\* A cut keeps what is before it.
LEMMA CutKeeps ==
  ASSUME NEW b \in Seq(LineType), NEW n \in 0..Len(b), NEW p \in CutAt(b, n)
  PROVE  n <= Len(p) /\ \A i \in 1..n : p[i] = b[i]
<1> USE FileItem
<1> DEFINE s == SubSeq(b, 1, n)
<1>1. s \in Seq(LineType) /\ Len(s) = n /\ \A i \in 1..n : s[i] = b[i]
  BY SubSeqProperties
<1>2. CASE p = s
  BY <1>1, <1>2
<1>3. CASE p # s
  <2>1. PICK x : p = s \o <<x>>
    BY <1>3, Zenon DEF CutAt
  <2> HIDE DEF s
  <2> QED
    BY <1>1, <2>1
<1> QED
  BY <1>2, <1>3

\* Healing keeps whole lines; done in full over files that were read, it leaves
\* no open tail but one that parses.
LEMMA HealKeeps ==
  ASSUME NEW f \in Seq(LineType), NEW h
  PROVE  /\ Len(Heal(f, h)) = Len(f)
         /\ \A i \in 1..Len(f) : f[i].k = "line" => Heal(f, h)[i] = f[i] \/ i \in h.blank
         /\ h.close = ToClose(f, {}) /\ OpenTail(Heal(f, h)) => LastOf(Heal(f, h)).k = "bare"
<1>1. Len(Heal(f, h)) = Len(f) /\ Len(f) \in Nat /\ DOMAIN f = 1..Len(f)
  BY HealProps, FileItem
<1>2. \A i \in 1..Len(f) : f[i].k = "line" => Heal(f, h)[i] = f[i] \/ i \in h.blank
  BY <1>1 DEF Heal
<1>3. ASSUME h.close = ToClose(f, {}), OpenTail(Heal(f, h)), LastOf(Heal(f, h)).k # "bare" PROVE FALSE
  <2> DEFINE n == Len(f)
  <2>1. n \in 1..Len(f) /\ Heal(f, h)[n].k = "frag"
    BY <1>1, <1>3 DEF OpenTail, LastOf
  <2>2. f[n].k = "frag" /\ PartOf(f, n) \notin h.close
    BY <1>1, <2>1 DEF Heal, Mangled, Line
  <2>3. n \in TornAt(f)
    BY <1>1, <2>1, <2>2 DEF TornAt
  <2>4. n \in TornIn(f, PartOf(f, n)) /\ PartOf(f, n) \in TornParts(f)
    BY <2>3 DEF TornIn, TornParts
  <2>5. (n + 1)..Len(f) = {}
    BY <1>1
  <2>6. TailTorn(f, PartOf(f, n))
    BY <2>4, <2>5 DEF TailTorn
  <2> QED
    BY <1>3, <2>2, <2>4, <2>6 DEF ToClose
<1> QED
  BY <1>1, <1>2, <1>3

\* What Open does to the files: no whole line is touched, and a tail that stays
\* open parses, unless the index is degraded.
LEMMA OpenHeals ==
  ASSUME TypeOK, Open
  PROVE  /\ Len(file') = Len(file) /\ (synced' = Len(file) \/ synced' = synced)
         /\ \A i \in 1..Len(file) : file[i].k = "line" => file'[i] = file[i]
         /\ OpenTail(file') => idx'.degraded \/ LastOf(file').k = "bare"
<1>0. file \in Seq(LineType) /\ Len(file) \in Nat
  BY LenProperties DEF TypeOK
<1>1. PICK scan \in Scans(file) : \E h \in Heals(file, scan.blind) : Recover(scan, h)
  BY DEF Open
<1>2. PICK h \in Heals(file, scan.blind) : Recover(scan, h)
  BY <1>1
<1>3. /\ file' = Heal(file, h) /\ (synced' = Len(file) \/ synced' = synced)
      /\ idx'.degraded = (scan # Whole \/ h.failed)
  BY <1>2 DEF Recover
<1>4. h.blank \subseteq ToBlank(file, scan.blind) /\ (h.failed \/ h.close = ToClose(file, scan.blind))
  BY <1>2 DEF Heals
<1>5. \A i \in 1..Len(file) : file[i].k = "line" => i \notin h.blank
  BY <1>4 DEF ToBlank
<1>6. scan = Whole => scan.blind = {}
  BY DEF Whole
<1> QED
  BY <1>0, <1>3, <1>4, <1>5, <1>6, HealKeeps

-----------------------------------------------------------------------------
(* What the writer's steps do to the batch and to the file *)

\* Boundary records are the ledger's own, and holes make some.
LEMMA HouseOwn ==
  ASSUME TypeOK, NEW over, NEW roll
  PROVE  /\ \A i \in DOMAIN House(over, roll) :
              House(over, roll)[i].t \notin {"call", "boot"} /\ House(over, roll)[i].id = NoCall
         /\ holes # <<>> => House(over, roll) # <<>>
<1> DEFINE R == {x \in RecType : x.t \notin {"call", "boot"} /\ x.id = NoCall}
           h == [i \in 1..Len(holes) |-> HoleRec(holes[i])]
           a == IF over /\ ~degraded THEN <<NoteRec>> ELSE <<>>
           b == IF roll \in {"rolled", "failed", "lost"} THEN <<NoteRec>> ELSE <<>>
           d == IF dropN > 0 THEN <<FoldRec(dropN)>> ELSE <<>>
<1>1. NoteRec \in R
  BY DEF NoteRec, Rec, RecType
<1>2. dropN \in Nat
  BY DEF TypeOK
<1>3. FoldRec(dropN) \in R
  BY <1>2 DEF FoldRec, Rec, RecType
<1>4. /\ Len(holes) \in Nat /\ \A i \in 1..Len(holes) : holes[i] \in HoleType
      /\ holes # <<>> => Len(holes) > 0
  BY LenProperties, ElementOfSeq, EmptySeq DEF TypeOK
<1>5. \A x \in HoleType : HoleRec(x) \in R
  BY DEF HoleRec, Rec, RecType, HoleType
<1> HIDE DEF R
<1>6. h \in Seq(R) /\ Len(h) = Len(holes)
  <2>1. h \in [1..Len(holes) -> R]
    BY <1>4, <1>5
  <2> QED
    BY <1>4, <2>1, IsASeq, LenProperties
<1>7. a \in Seq(R) /\ b \in Seq(R) /\ d \in Seq(R)
  BY <1>1, <1>3
<1>8. House(over, roll) = a \o b \o h \o d
  BY DEF House
<1> HIDE DEF a, b, h, d
<1>9. House(over, roll) \in Seq(R) /\ Len(House(over, roll)) >= Len(h)
  <2>1. a \o b \in Seq(R) /\ Len(a \o b) \in Nat
    BY <1>7, ConcatAt
  <2>2. a \o b \o h \in Seq(R) /\ Len(a \o b \o h) = Len(a \o b) + Len(h)
    BY ONLY <1>6, <2>1, ConcatAt
  <2>3. /\ (a \o b \o h) \o d \in Seq(R)
        /\ Len((a \o b \o h) \o d) = Len(a \o b \o h) + Len(d) /\ Len(d) \in Nat
    BY ONLY <1>7, <2>2, ConcatAt
  <2>4. Len(h) \in Nat
    BY <1>4, <1>6
  <2> QED
    BY <1>8, <2>1, <2>2, <2>3, <2>4
<1>10. \A x \in R : x.t \notin {"call", "boot"} /\ x.id = NoCall
  BY DEF R
<1>11. holes # <<>> => House(over, roll) # <<>>
  BY <1>4, <1>6, <1>9
<1> QED
  BY <1>9, <1>10, <1>11, ElementOfSeq, LenProperties

\* What one queue entry brings into the batch.
LEMMA EntryIs ==
  ASSUME NEW e \in EntryType
  PROVE  /\ EntryRecs(e) \in Seq(RecType)
         /\ e.c = NoCall => EntryRecs(e) = <<Rec("boot", NoCall, 0, 0)>>
         /\ e.c # NoCall => \A i \in 1..Len(EntryRecs(e)) :
                              EntryRecs(e)[i] = Rec("call", e.c, e.lo + i - 1, 0)
<1>1. EntryRecs(e) \in Seq(RecType) /\ DOMAIN EntryRecs(e) = 1..Len(EntryRecs(e))
  BY EntryRecsType, LenProperties DEF EntryType
<1>2. e.c # NoCall => \A i \in DOMAIN EntryRecs(e) :
                        EntryRecs(e)[i] = Rec("call", e.c, e.lo + i - 1, 0)
  BY DEF EntryRecs
<1>3. e.c = NoCall => EntryRecs(e) = <<Rec("boot", NoCall, 0, 0)>>
  BY DEF EntryRecs
<1> QED
  BY <1>1, <1>2, <1>3

\* A batch boundary keeps every line, and can only close the tail.
LEMMA RollKeeps ==
  ASSUME IInv, NEW roll, RollFile(roll)
  PROVE  /\ file' \in Seq(LineType) /\ Len(file) <= Len(file') /\ synced <= synced'
         /\ \A j \in 1..Len(file) : file'[j] = file[j]
         /\ OpenTail(file') => file' = file
         /\ \/ faults' = faults /\ (cur => cur')
            \/ "open" \in IOFaults /\ faults < MaxFaults /\ faults' = faults + 1
<1>0. /\ file \in Seq(LineType) /\ synced \in 0..Len(file) /\ Len(file) \in Nat
      /\ DOMAIN file = 1..Len(file)
  BY FileItem DEF IInv, TypeOK
<1>1. \/ /\ file' = file /\ (synced' = synced \/ synced' = Len(file))
         /\ \/ faults' = faults /\ (cur => cur')
            \/ "open" \in IOFaults /\ faults < MaxFaults /\ faults' = faults + 1
      \/ file' = Append(file, PartMark) /\ synced' = Len(file) + 1 /\ UNCHANGED <<cur, faults>>
  BY Zenon DEF RollFile, Fault
<1>2. CASE file' = file /\ (synced' = synced \/ synced' = Len(file))
  <2>1. synced <= synced'
    BY <1>0, <1>2
  <2>2. Len(file) <= Len(file') /\ \A j \in 1..Len(file) : file'[j] = file[j]
    BY <1>0, <1>2
  <2>3. file' = Append(file, PartMark) => FALSE
    <3>1. Len(Append(file, PartMark)) = Len(file) + 1
      BY <1>0, LineTypes, AppendProperties
    <3> QED
      BY <1>0, <1>2, <3>1
  <2> QED
    BY <1>0, <1>1, <1>2, <2>1, <2>2, <2>3
<1>3. CASE file' = Append(file, PartMark) /\ synced' = Len(file) + 1 /\ UNCHANGED <<cur, faults>>
  <2>1. /\ file' \in Seq(LineType) /\ Len(file') = Len(file) + 1 /\ file'[Len(file) + 1] = PartMark
        /\ \A j \in 1..Len(file) : file'[j] = file[j]
    BY <1>0, <1>3, LineTypes, AppendProperties
  <2>2. ~OpenTail(file')
    BY <2>1 DEF OpenTail, LastOf, PartMark, Line
  <2>3. Len(file) <= Len(file') /\ synced <= synced'
    BY <1>0, <1>3, <2>1
  <2> QED
    BY <1>3, <2>1, <2>2, <2>3, Zenon
<1> QED
  BY <1>1, <1>2, <1>3

\* The batch after a receive: the one there was, or the boundary records,
\* followed by the records of the entry.
LEMMA RecvSplit ==
  ASSUME IInv, Recv
  PROVE  /\ queue # <<>> /\ queue' = Tail(queue) /\ queue[1] \in EntryType
         /\ Alive /\ pc = "select" /\ pc' \in {"select", "flush"} /\ then' = "select"
         /\ UNCHANGED <<proc, call, off, rotateReq, notes, chClosed, pendingSeq, lastSeq>>
         /\ \E q \in Seq(RecType) :
              /\ batch' = q \o EntryRecs(queue[1])
              /\ \/ q = batch /\ batch # <<>> /\ UNCHANGED <<file, synced, cur, faults>>
                 \/ /\ batch = <<>>
                    /\ \A i \in DOMAIN q : q[i].t \notin {"call", "boot"} /\ q[i].id = NoCall
                    /\ holes # <<>> => q # <<>>
                    /\ \E roll \in Rolls : RollFile(roll)
<1>1. /\ queue # <<>> /\ queue' = Tail(queue) /\ Head(queue) = queue[1] /\ queue[1] \in EntryType
  BY ReceivedProps DEF Recv
<1>2. TypeOK /\ batch \in Seq(RecType)
  BY DEF IInv, TypeOK
<1>3. CASE batch = <<>>
  <2>1. PICK over \in DiskOver \cup {degraded}, roll \in Rolls :
             /\ BeforeBatch(over, roll)
             /\ batch' = House(over, roll) \o EntryRecs(Head(queue))
    BY <1>3 DEF Recv
  <2>2. House(over, roll) \in Seq(RecType)
    BY <1>2, HouseType
  <2>3. RollFile(roll)
    BY <2>1 DEF BeforeBatch
  <2>4. /\ \A i \in DOMAIN House(over, roll) :
             House(over, roll)[i].t \notin {"call", "boot"} /\ House(over, roll)[i].id = NoCall
        /\ holes # <<>> => House(over, roll) # <<>>
    BY <1>2, HouseOwn
  <2> QED
    BY <1>1, <1>3, <2>1, <2>2, <2>3, <2>4 DEF Recv, callVars, rotVars, seqVars
<1>4. CASE batch # <<>>
  BY <1>1, <1>2, <1>4 DEF Recv, callVars, rotVars, seqVars
<1> QED
  BY <1>3, <1>4

-----------------------------------------------------------------------------
(* Opening the ledger *)

\* A process that is not there holds nothing.
DownIdle == proc = "down" => /\ rotateReq = <<>> /\ queue = <<>> /\ batch = <<>> /\ ~chClosed
                             /\ then = "select" /\ notes = 0

\* While the boot records are written nothing else is, and the tail recovery
\* left is closed by the first of them.
BootAlone == proc = "boot" =>
  /\ rotateReq = <<>> /\ ~chClosed /\ then = "select"
  /\ pc \in {"select", "flush", "fsync", "ack"}
  /\ \A i \in DOMAIN queue : queue[i].c = NoCall
  /\ batch # <<>> => Carries("boot")
  /\ pc # "select" => batch # <<>>
  /\ pc \in {"select", "flush"} => /\ pendingSeq = lastSeq
                                   /\ OpenTail(file) => idx.degraded \/ LastOf(file).k = "bare"
  /\ pc \in {"fsync", "ack"} => ~OpenTail(file)

BInv == DownIdle /\ BootAlone

\* Steps nobody takes while the ledger is down or being opened.
LEMMA LaterBoot ==
  ASSUME \/ \E c \in Calls : Producer(c)
         \/ \E r \in Rotators : Rotate(r)
         \/ Close \/ CloseChannel \/ CloseDone
  PROVE  BInv'
<1>1. proc' \notin {"down", "boot"}
  BY DEF Producer, Enter, Send, Block, Refuse, Cancel, SendPanics, Rotate, Close, CloseChannel,
         CloseDone, producerFrame
<1> QED
  BY <1>1 DEF BInv, DownIdle, BootAlone

\* Recovery and the boot records it is to write.
LEMMA OpenBoot ==
  ASSUME IInv, BInv, Open \/ BootNote
  PROVE  BInv'
<1>1. CASE Open
  <2>2. OpenTail(file') => idx'.degraded \/ LastOf(file').k = "bare"
    BY <1>1, OpenHeals DEF IInv
  <2>3. /\ proc = "down" /\ proc' = "boot" /\ pc' = "select" /\ pendingSeq' = lastSeq'
        /\ UNCHANGED <<rotateReq, queue, chClosed, batch, then>>
    BY <1>1 DEF Open, Recover, rotVars
  <2> QED
    BY <2>2, <2>3 DEF BInv, DownIdle, BootAlone, Carries
<1>2. CASE BootNote
  <2>1. /\ proc = "boot" /\ queue' = <<BootEntry>>
        /\ UNCHANGED <<proc, rotateReq, chClosed, batch, then, pc, pendingSeq, lastSeq, file, idx>>
    BY <1>2 DEF BootNote, rotVars, seqVars, disk, env
  <2>2. \A i \in DOMAIN queue' : queue'[i].c = NoCall
    BY <2>1 DEF BootEntry
  <2> QED
    BY <2>1, <2>2 DEF BInv, DownIdle, BootAlone, Carries
<1> QED
  BY <1>1, <1>2

\* The writer's loop while the ledger is being opened.
LEMMA LoopBoot ==
  ASSUME IInv, BInv, PInv,
         Recv \/ Timer \/ Drained \/ RotateReceived \/ HouseBatch \/ RotateReply \/ WriterExit
  PROVE  BInv'
<1>0. proc' = proc /\ proc # "down"
  BY DEF Recv, Timer, Drained, RotateReceived, HouseBatch, RotateReply, WriterExit, Alive, loopFrame
<1> SUFFICES ASSUME proc = "boot" PROVE BootAlone'
  BY <1>0 DEF BInv, DownIdle, BootAlone
<1>1. CASE Recv
  <2>1. PICK q \in Seq(RecType) :
          /\ batch' = q \o EntryRecs(queue[1])
          /\ \/ q = batch /\ batch # <<>> /\ UNCHANGED <<file, synced, cur, faults>>
             \/ \E roll \in Rolls : RollFile(roll)
    BY <1>1, RecvSplit, Zenon
  <2>2. /\ queue # <<>> /\ queue' = Tail(queue) /\ queue[1] \in EntryType
        /\ pc = "select" /\ pc' \in {"select", "flush"} /\ then' = "select"
        /\ UNCHANGED <<rotateReq, chClosed, pendingSeq, lastSeq>>
    BY <1>1, RecvSplit
  <2>6. idx' = idx
    BY <1>1 DEF Recv
  <2>3. queue[1].c = NoCall /\ \A i \in DOMAIN queue' : queue'[i].c = NoCall
    BY <2>2, ReceivedProps DEF BInv, BootAlone
  <2>4. Carries("boot")' /\ batch' # <<>>
    <3> DEFINE e == <<Rec("boot", NoCall, 0, 0)>>
    <3>1. batch' = q \o e /\ e \in Seq(RecType) /\ Len(e) = 1 /\ e[1].t = "boot"
      BY <2>1, <2>2, <2>3, EntryIs DEF Rec
    <3> HIDE DEF e
    <3>2. /\ Len(batch') = Len(q) + 1 /\ Len(q) \in Nat /\ batch' \in Seq(RecType)
          /\ batch'[Len(q) + 1] = e[1]
      <4>1. /\ q \o e \in Seq(RecType) /\ Len(q \o e) = Len(q) + Len(e) /\ Len(q) \in Nat
            /\ \A i \in 1..Len(e) : (q \o e)[Len(q) + i] = e[i]
        <5>1. q \in Seq(RecType) /\ e \in Seq(RecType)
          BY <3>1
        <5> QED
          BY ONLY <5>1, ConcatAt
      <4>2. 1 \in 1..Len(e)
        BY <3>1
      <4> QED
        BY <3>1, <4>1, <4>2
    <3>3. Len(q) + 1 \in DOMAIN batch'
      BY <3>2, LenProperties
    <3> QED
      BY <3>1, <3>2, <3>3 DEF Carries
  <2>5. OpenTail(file') => file' = file
    BY <2>1, RollKeeps
  <2> QED
    BY <2>2, <2>3, <2>4, <2>5, <2>6 DEF BInv, BootAlone
<1>2. CASE Timer
  BY <1>2 DEF Timer, FlushThen, keepBoundary, loopFrame, rotVars, seqVars, BInv, BootAlone, Carries
<1>3. CASE Drained \/ RotateReceived \/ HouseBatch \/ RotateReply \/ WriterExit
  BY <1>3 DEF Drained, RotateReceived, HouseBatch, RotateReply, WriterExit, BInv, BootAlone
<1> QED
  BY <1>1, <1>2, <1>3

\* A boot record that fails ends the opening, one that lands closes the tail.
LEMMA FlushBoot ==
  ASSUME IInv, BInv, PInv, Flush
  PROVE  BInv'
<1>0. proc # "down" /\ proc' # "down"
  BY DEF Flush, Unavailable, Write, WriteFails, FailBatch, Fsync, FsyncFails, Nack, Ack, Alive
<1> SUFFICES ASSUME proc' = "boot" PROVE BootAlone'
  BY <1>0 DEF BInv, DownIdle, BootAlone
<1>1. proc = "boot"
  BY DEF Flush, Unavailable, Write, WriteFails, FailBatch, Fsync, FsyncFails, Nack, Ack
<1>2. Carries("boot") /\ batch # <<>>
  BY <1>1 DEF Flush, Unavailable, Write, WriteFails, Fsync, FsyncFails, Ack, BInv, BootAlone
<1>3. CASE Unavailable \/ WriteFails \/ FsyncFails
  BY <1>2, <1>3 DEF Unavailable, WriteFails, FailBatch, FsyncFails, Nack
<1>4. CASE Write
  <2> DEFINE e == Encode(batch, pendingSeq + 1)
  <2>1. /\ file' \in Appended(file, e) /\ file \in Seq(LineType) /\ pc' = "fsync"
        /\ batch \in Seq(RecType) /\ pendingSeq \in Nat
        /\ UNCHANGED <<proc, rotateReq, chClosed, then, queue, batch>>
    BY <1>4 DEF Write, rotVars, IInv, TypeOK
  <2>2. /\ e \in Seq(LineType) /\ Len(e) = Len(batch) /\ \A i \in DOMAIN e : e[i].k = "line"
    BY <2>1, EncodeProps
  <2>3. Len(batch) \in Nat /\ Len(batch) > 0
    BY <1>2, <2>1, LenProperties, EmptySeq
  <2> HIDE DEF e
  <2>4. DOMAIN e = 1..Len(e)
    BY <2>2, LenProperties
  <2>5. ~OpenTail(file')
    BY <2>1, <2>2, <2>3, <2>4, AppendedCloses
  <2> QED
    BY <1>1, <1>2, <2>1, <2>5 DEF BInv, BootAlone, Carries
<1>5. CASE Fsync
  BY <1>1, <1>5 DEF Fsync, callVars, rotVars, seqVars, BInv, BootAlone, Carries
<1>6. CASE Ack
  BY <1>1, <1>6 DEF Ack, rotVars, BInv, BootAlone, Carries
<1> QED
  BY <1>3, <1>4, <1>5, <1>6 DEF Flush

\* Every step keeps what is said of the opening.
LEMMA StepBInv == IInv /\ PInv /\ BInv /\ [Next]_vars => BInv'
<1> SUFFICES ASSUME IInv, PInv, BInv, [Next]_vars PROVE BInv'
  OBVIOUS
<1>1. CASE UNCHANGED vars
  BY <1>1 DEF vars, callVars, rotVars, seqVars, dropVars, disk, env, BInv, DownIdle, BootAlone, Carries
<1>2. CASE Kill \/ PowerLoss
  BY <1>2 DEF Kill, PowerLoss, Vanish, BInv, DownIdle, BootAlone
<1> QED
  BY <1>1, <1>2, LaterBoot, OpenBoot, LoopBoot, FlushBoot DEF Next, Writer, Lifecycle

\* What is said of the opening holds throughout.
LEMMA Booting == Spec => [](IInv /\ PInv /\ BInv)
<1>1. Init => BInv
  BY DEF Init, BInv, DownIdle, BootAlone
<1> QED
  BY <1>1, Phases, StepBInv, PTL DEF Spec

\* Where a torn tail shows as one, a recovery leaves the file ending with a
\* newline: the first record after Open starts on a line of its own (healTorn).
\* Where the healing fails, or the file could not be read, the index says so.
THEOREM RecoveryClosesTail == Spec => []TailClosed
<1>1. IInv /\ BInv => TailClosed
  <2> SUFFICES ASSUME IInv, BInv, proc = "boot", pendingSeq = lastSeq, batch = <<>>, OpenTail(file)
               PROVE  BareTail \/ idx.degraded
    BY DEF TailClosed
  <2>1. idx.degraded \/ LastOf(file).k = "bare"
    BY DEF BInv, BootAlone
  <2>2. file \in Seq(LineType) /\ Len(file) \in DOMAIN file
    BY FileItem DEF IInv, TypeOK, OpenTail
  <2> QED
    BY <2>1, <2>2 DEF BareTail, LastOf
<1> QED
  BY <1>1, Booting, PTL

-----------------------------------------------------------------------------
(* Where a call's records are *)

Queued(c) == {i \in DOMAIN queue : queue[i].c = c}
Held(c) == {i \in DOMAIN batch : batch[i].id = c}
CallRec(c, a) == Rec("call", c, a, 0)

\* A caller that is not waiting has nothing under way.
NotYet == \A c \in Calls : call[c] \in {"idle", "send", "blocked"} => Queued(c) = {} /\ Held(c) = {}

\* A waiting caller has one chunk under way, the one after what it was told,
\* queued or in the batch.
Single == \A c \in Calls : call[c] = "wait" =>
  /\ \A i, j \in Queued(c) : i = j
  /\ Queued(c) # {} => Held(c) = {}
  /\ \A i \in Queued(c) : queue[i].lo = off[c] + 1

\* A batch that holds a record of a waiting caller holds all of its untold
\* records before that one: the acknowledgement reaches as far as Reach says.
Covered == \A c \in Calls : call[c] = "wait" =>
  \A i \in Held(c) : \A a \in (off[c] + 1)..batch[i].a : \E k \in DOMAIN batch : batch[k] = CallRec(c, a)

\* Before Open has returned no call's record is under way.
BootBatch == notes > 0 \/ proc = "down" =>
  /\ \A i \in DOMAIN queue : queue[i].c = NoCall
  /\ \A i \in DOMAIN batch : batch[i].t # "call"

QInv == NotYet /\ Single /\ Covered /\ BootBatch

\* The items of two sequences one after the other.
LEMMA JoinItems ==
  ASSUME NEW q \in Seq(RecType), NEW e \in Seq(RecType)
  PROVE  LET b == q \o e IN
         /\ \A i \in DOMAIN b : (i \in DOMAIN q /\ b[i] = q[i]) \/ \E k \in DOMAIN e : b[i] = e[k]
         /\ \A k \in DOMAIN q : k \in DOMAIN b /\ b[k] = q[k]
         /\ \A k \in DOMAIN e : \E i \in DOMAIN b : b[i] = e[k]
<1> DEFINE b == q \o e
<1>0. /\ Len(q) \in Nat /\ Len(e) \in Nat /\ DOMAIN q = 1..Len(q) /\ DOMAIN e = 1..Len(e)
      /\ DOMAIN b = 1..(Len(q) + Len(e))
      /\ \A i \in DOMAIN b :
              /\ i \in Nat /\ i >= 1
              /\ i <= Len(q) => i \in DOMAIN q /\ b[i] = q[i]
              /\ i > Len(q) => (i - Len(q)) \in DOMAIN e /\ b[i] = e[i - Len(q)]
  BY ConcatIndex
<1> HIDE DEF b
<1>1. \A i \in DOMAIN b : (i \in DOMAIN q /\ b[i] = q[i]) \/ \E k \in DOMAIN e : b[i] = e[k]
  <2> SUFFICES ASSUME NEW i \in DOMAIN b
               PROVE (i \in DOMAIN q /\ b[i] = q[i]) \/ \E k \in DOMAIN e : b[i] = e[k]
    OBVIOUS
  <2>1. i <= Len(q) \/ i > Len(q)
    BY <1>0
  <2> QED
    BY <1>0, <2>1, Zenon
<1>2. \A k \in DOMAIN q : k \in DOMAIN b /\ b[k] = q[k]
  BY <1>0
<1>3. ASSUME NEW k \in DOMAIN e PROVE \E i \in DOMAIN b : b[i] = e[k]
  <2> DEFINE i == Len(q) + k
  <2>1. i \in DOMAIN b /\ i > Len(q) /\ i - Len(q) = k
    BY <1>0
  <2> HIDE DEF i
  <2>2. b[i] = e[k]
    BY <1>0, <2>1
  <2> QED
    BY <2>1, <2>2
<1> QED
  BY <1>1, <1>2, <1>3 DEF b

\* A step that moves no record.
LEMMA RecordsStay ==
  ASSUME IInv, QInv, UNCHANGED <<queue, batch, off>>,
         notes' > 0 \/ proc' = "down" => notes > 0 \/ proc = "down",
         \A c \in Calls : \/ call'[c] = call[c]
                          \/ call'[c] \in {"send", "blocked"} /\ call[c] \in {"idle", "send"}
                          \/ call'[c] \notin {"idle", "send", "blocked", "wait"}
  PROVE  QInv'
<1>1. NotYet'
  BY DEF QInv, NotYet, Queued, Held
<1>2. Single'
  BY DEF QInv, Single, Queued, Held
<1>3. Covered'
  BY DEF QInv, Covered, Held
<1>4. BootBatch'
  BY DEF QInv, BootBatch
<1> QED
  BY <1>1, <1>2, <1>3, <1>4 DEF QInv

\* A producer puts its next chunk at the end of the queue.
LEMMA ProducerRecords ==
  ASSUME IInv, PInv, QInv, NEW c \in Calls, Producer(c)
  PROVE  QInv'
<1> USE DEF producerFrame, callVars, dropVars
<1>t. /\ call \in [Calls -> {"idle", "send", "blocked", "wait", "ok", "err", "refused",
                             "cancelled", "closed", "crashed"}]
      /\ queue \in Seq(EntryType)
  BY DEF IInv, TypeOK, EntryType
<1>1. CASE Enter(c) \/ Block(c) \/ Refuse(c) \/ Cancel(c) \/ SendPanics(c)
  <2>1. UNCHANGED <<queue, batch, off, notes>> /\ (proc' = proc \/ proc' = "panic")
    BY <1>1 DEF Enter, Block, Refuse, Cancel, SendPanics
  <2>2. \A d \in Calls : \/ call'[d] = call[d]
                         \/ call'[d] \in {"send", "blocked"} /\ call[d] \in {"idle", "send"}
                         \/ call'[d] \notin {"idle", "send", "blocked", "wait"}
    BY <1>t, <1>1 DEF Enter, Block, Refuse, Cancel, SendPanics
  <2> QED
    BY <2>1, <2>2, RecordsStay
<1>2. CASE Send(c)
  <2>1. /\ call[c] \in {"send", "blocked"} /\ call' = [call EXCEPT ![c] = "wait"]
        /\ queue' = Append(queue, Chunk(c)) /\ UNCHANGED <<batch, off, notes, proc>>
        /\ proc # "down"
    BY <1>2 DEF Send
  <2>2. /\ DOMAIN queue' = 1..(Len(queue) + 1) /\ Len(queue) \in Nat /\ DOMAIN queue = 1..Len(queue)
        /\ queue'[Len(queue) + 1] = Chunk(c) /\ \A i \in 1..Len(queue) : queue'[i] = queue[i]
    <3>1. Chunk(c) \in EntryType
      BY ChunkType DEF IInv
    <3> QED
      BY <1>t, <2>1, <3>1, AppendProperties, LenProperties
  <2>3. /\ \A d \in Calls \ {c} : Queued(d)' = Queued(d) /\ call'[d] = call[d]
        /\ Queued(c)' = Queued(c) \cup {Len(queue) + 1} /\ call'[c] = "wait"
    <3>1. Chunk(c).c = c
      BY DEF Chunk
    <3> QED
      BY <1>t, <2>1, <2>2, <3>1 DEF Queued
  <2>4. Queued(c) = {} /\ Held(c) = {}
    BY <2>1 DEF QInv, NotYet
  <2>5. \A d \in Calls : Held(d)' = Held(d) /\ Queued(d) \subseteq 1..Len(queue)
    BY <2>1, <2>2 DEF Held, Queued
  <2>6. NotYet'
    BY <2>1, <2>3, <2>5 DEF QInv, NotYet
  <2>7. Single'
    <3>1. Chunk(c).lo = off[c] + 1
      BY DEF Chunk
    <3> QED
      BY <2>1, <2>2, <2>3, <2>4, <2>5, <3>1 DEF QInv, Single
  <2>8. Covered'
    BY <2>1, <2>3, <2>4, <2>5 DEF QInv, Covered
  <2>9. BootBatch'
    <3>1. ~(notes > 0)
      BY <2>1 DEF PInv, Quiet, InFlight
    <3> QED
      BY <2>1, <3>1 DEF BootBatch
  <2> QED
    BY <2>6, <2>7, <2>8, <2>9 DEF QInv
<1> QED
  BY <1>1, <1>2 DEF Producer

\* Opening and closing move no caller's record.
LEMMA LifeRecords ==
  ASSUME IInv, PInv, BInv, QInv, \/ Close \/ CloseChannel \/ CloseDone \/ Open \/ BootNote
                           \/ \E r \in Rotators : Rotate(r)
  PROVE  QInv'
<1>1. CASE Close \/ CloseChannel \/ CloseDone \/ Open \/ \E r \in Rotators : Rotate(r)
  <2>1. UNCHANGED <<queue, batch, off, call>>
    BY <1>1 DEF Close, CloseChannel, CloseDone, Open, Rotate, callVars
  <2>2. notes' > 0 \/ proc' = "down" => notes > 0 \/ proc = "down"
    BY <1>1 DEF Close, CloseChannel, CloseDone, Open, Rotate
  <2> QED
    BY <2>1, <2>2, RecordsStay
<1>2. CASE BootNote
  <2>1. queue = <<>> /\ queue' = <<BootEntry>> /\ UNCHANGED <<batch, off, call, notes, proc>>
        /\ notes > 0
    BY <1>2 DEF BootNote, callVars
  <2>2. \A i \in DOMAIN queue' : queue'[i].c = NoCall
    BY <2>1 DEF BootEntry
  <2>3. \A c \in Calls : Queued(c)' = {} /\ Held(c)' = Held(c)
    BY <2>1, <2>2, LedgerAssumption DEF Queued, Held
  <2> QED
    BY <2>1, <2>2, <2>3 DEF QInv, NotYet, Single, Covered, BootBatch
<1> QED
  BY <1>1, <1>2

\* A chunk moves from the queue to the batch as a whole.
LEMMA RecvRecords ==
  ASSUME IInv, PInv, QInv, Recv
  PROVE  QInv'
<1> DEFINE h == queue[1]
           e == EntryRecs(h)
<1>1. /\ queue # <<>> /\ queue' = Tail(queue) /\ h \in EntryType
      /\ UNCHANGED <<proc, call, off, notes>>
  BY RecvSplit
<1>2. PICK q \in Seq(RecType) :
        /\ batch' = q \o e
        /\ \/ q = batch
           \/ batch = <<>> /\ \A i \in DOMAIN q : q[i].t \notin {"call", "boot"} /\ q[i].id = NoCall
  BY RecvSplit
<1>3. /\ e \in Seq(RecType) /\ DOMAIN e = 1..Len(e) /\ Len(e) \in Nat
      /\ h.c = NoCall => \A k \in DOMAIN e : e[k].t = "boot" /\ e[k].id = NoCall
      /\ h.c # NoCall => \A k \in DOMAIN e : e[k] = CallRec(h.c, h.lo + k - 1)
  <2>1. e \in Seq(RecType) /\ DOMAIN e = 1..Len(e) /\ Len(e) \in Nat
    BY <1>1, EntryIs, LenProperties
  <2>2. h.c = NoCall => e = <<Rec("boot", NoCall, 0, 0)>>
    BY <1>1, EntryIs
  <2>3. h.c # NoCall => \A k \in DOMAIN e : e[k] = CallRec(h.c, h.lo + k - 1)
    BY <1>1, <2>1, EntryIs DEF CallRec
  <2> QED
    BY <2>1, <2>2, <2>3 DEF Rec
<1> HIDE DEF e, h
<1>4. \A k \in DOMAIN e : e[k].id = h.c
  BY <1>3 DEF CallRec, Rec
<1>5. /\ \A i \in DOMAIN batch' : (i \in DOMAIN q /\ batch'[i] = q[i]) \/ \E k \in DOMAIN e : batch'[i] = e[k]
      /\ \A k \in DOMAIN q : k \in DOMAIN batch' /\ batch'[k] = q[k]
      /\ \A k \in DOMAIN e : \E i \in DOMAIN batch' : batch'[i] = e[k]
  <2>1. q \in Seq(RecType) /\ e \in Seq(RecType) /\ batch' = q \o e
    BY <1>2, <1>3
  <2> DEFINE b == q \o e
  <2>2. /\ \A i \in DOMAIN b : (i \in DOMAIN q /\ b[i] = q[i]) \/ \E k \in DOMAIN e : b[i] = e[k]
        /\ \A k \in DOMAIN q : k \in DOMAIN b /\ b[k] = q[k]
        /\ \A k \in DOMAIN e : \E i \in DOMAIN b : b[i] = e[k]
    BY <2>1, JoinItems
  <2> QED
    BY <2>1, <2>2, Zenon
<1>6. /\ DOMAIN queue = 1..Len(queue) /\ Len(queue) \in Nat \ {0}
      /\ DOMAIN queue' = 1..(Len(queue) - 1)
      /\ \A i \in 1..(Len(queue) - 1) : queue'[i] = queue[i + 1]
  BY <1>1, ReceivedProps
<1>7. \A c \in Calls : c # NoCall
  BY LedgerAssumption
<1>8. ASSUME NEW c \in Calls
      PROVE  /\ \A i \in Queued(c)' : i + 1 \in Queued(c) /\ queue'[i] = queue[i + 1] /\ i + 1 # 1
             /\ h.c = c => 1 \in Queued(c)
             /\ \A i \in Held(c)' : \/ i \in Held(c) /\ batch'[i] = batch[i] /\ q = batch
                                    \/ h.c = c /\ \E k \in DOMAIN e : batch'[i] = e[k]
  <2>1. \A i \in Queued(c)' : i + 1 \in Queued(c) /\ queue'[i] = queue[i + 1] /\ i + 1 # 1
    BY <1>6 DEF Queued
  <2>2. h.c = c => 1 \in Queued(c)
    BY <1>6 DEF Queued, h
  <2>3. ASSUME NEW i \in Held(c)'
        PROVE  \/ i \in Held(c) /\ batch'[i] = batch[i] /\ q = batch
               \/ h.c = c /\ \E k \in DOMAIN e : batch'[i] = e[k]
    <3>1. i \in DOMAIN batch' /\ batch'[i].id = c
      BY <2>3 DEF Held
    <3>2. CASE i \in DOMAIN q /\ batch'[i] = q[i]
      <4>1. q = batch
        BY <1>2, <1>7, <3>1, <3>2
      <4> QED
        BY <3>1, <3>2, <4>1 DEF Held
    <3>3. CASE \E k \in DOMAIN e : batch'[i] = e[k]
      BY <1>4, <3>1, <3>3
    <3> QED
      BY <1>5, <3>1, <3>2, <3>3
  <2> QED
    BY <2>1, <2>2, <2>3
<1>9. NotYet'
  BY <1>1, <1>8 DEF QInv, NotYet
<1>10. ASSUME NEW c \in Calls, call'[c] = "wait"
       PROVE  /\ \A i, j \in Queued(c)' : i = j
              /\ Queued(c)' # {} => Held(c)' = {}
              /\ \A i \in Queued(c)' : queue'[i].lo = off'[c] + 1
  <2>1. /\ \A i, j \in Queued(c) : i = j
        /\ Queued(c) # {} => Held(c) = {}
        /\ \A i \in Queued(c) : queue[i].lo = off[c] + 1
    BY <1>1, <1>10 DEF QInv, Single
  <2>2. \A i, j \in Queued(c)' : i + 1 = j + 1 /\ i \in Int /\ j \in Int
    <3>1. \A i \in Queued(c)' : i \in Int
      BY <1>6 DEF Queued
    <3> QED
      BY <1>8, <2>1, <3>1
  <2>3. \A i, j \in Queued(c)' : i = j
    BY <2>2
  <2>4. Queued(c)' # {} => Held(c)' = {}
    BY <1>8, <2>1
  <2>5. \A i \in Queued(c)' : queue'[i].lo = off'[c] + 1
    <3> SUFFICES ASSUME NEW i \in Queued(c)' PROVE queue'[i].lo = off'[c] + 1
      OBVIOUS
    <3>1. i + 1 \in Queued(c) /\ queue'[i] = queue[i + 1]
      BY <1>8
    <3>2. queue[i + 1].lo = off[c] + 1
      BY <2>1, <3>1
    <3> QED
      BY <1>1, <3>1, <3>2
  <2> QED
    BY <2>3, <2>4, <2>5
<1>11. ASSUME NEW c \in Calls, call'[c] = "wait", NEW i \in Held(c)',
              NEW a \in (off'[c] + 1)..batch'[i].a
       PROVE  \E k \in DOMAIN batch' : batch'[k] = CallRec(c, a)
  <2>1. off' = off /\ call[c] = "wait" /\ off[c] \in Nat /\ h.lo \in Nat
    BY <1>1, <1>11 DEF IInv, TypeOK, EntryType
  <2>2. CASE i \in Held(c) /\ batch'[i] = batch[i] /\ q = batch
    <3>1. PICK k \in DOMAIN batch : batch[k] = CallRec(c, a)
      BY <2>1, <2>2 DEF QInv, Covered
    <3> QED
      BY <1>5, <2>2, <3>1
  <2>3. CASE h.c = c /\ \E k \in DOMAIN e : batch'[i] = e[k]
    <3>1. PICK k \in DOMAIN e : batch'[i] = e[k]
      BY <2>3
    <3>2. h.lo = off[c] + 1
      BY <1>8, <2>1, <2>3 DEF QInv, Single, h
    <3>3. e[k] = CallRec(c, h.lo + k - 1) /\ k \in Nat /\ k >= 1
      BY <1>3, <1>7, <2>3
    <3>4. batch'[i].a = off[c] + k
      BY <2>1, <3>1, <3>2, <3>3 DEF CallRec, Rec
    <3> DEFINE m == a - off[c]
    <3>5. m \in DOMAIN e /\ h.lo + m - 1 = a
      BY <1>3, <2>1, <3>2, <3>3, <3>4
    <3> HIDE DEF m
    <3>6. e[m] = CallRec(c, a)
      BY <1>3, <1>7, <2>3, <3>5
    <3> QED
      BY <1>5, <3>5, <3>6
  <2> QED
    BY <1>8, <2>2, <2>3
<1>12. BootBatch'
  <2> SUFFICES ASSUME notes > 0 \/ proc = "down"
               PROVE  /\ \A i \in DOMAIN queue' : queue'[i].c = NoCall
                      /\ \A i \in DOMAIN batch' : batch'[i].t # "call"
    BY <1>1 DEF BootBatch
  <2>1. /\ \A i \in DOMAIN queue : queue[i].c = NoCall
        /\ \A i \in DOMAIN batch : batch[i].t # "call"
    BY DEF QInv, BootBatch
  <2>2. h.c = NoCall /\ \A i \in DOMAIN queue' : queue'[i].c = NoCall
    BY <1>6, <2>1 DEF h
  <2>3. \A i \in DOMAIN q : q[i].t # "call"
    BY <1>2, <2>1
  <2>4. \A k \in DOMAIN e : e[k].t # "call"
    BY <1>3, <2>2
  <2> QED
    BY <1>5, <2>2, <2>3, <2>4
<1> QED
  BY <1>9, <1>10, <1>11, <1>12 DEF QInv, Single, Covered

\* The other steps of the writer's loop move no caller's record.
LEMMA LoopRecords ==
  ASSUME IInv, PInv, QInv, Timer \/ Drained \/ RotateReceived \/ HouseBatch \/ RotateReply \/ WriterExit
  PROVE  QInv'
<1>1. CASE Timer \/ Drained \/ RotateReceived \/ RotateReply \/ WriterExit
  <2>1. UNCHANGED <<queue, batch, off, call, notes, proc>>
    BY <1>1 DEF Timer, Drained, RotateReceived, RotateReply, WriterExit, loopFrame, callVars
  <2> QED
    BY <2>1, RecordsStay
<1>2. CASE HouseBatch
  <2>1. UNCHANGED <<queue, off, call, notes, proc>> /\ pc \in {"house", "rotHouse"}
    BY <1>2 DEF HouseBatch, loopFrame, callVars
  <2>2. batch = <<>>
    BY <2>1 DEF PInv, Emptied
  <2>3. \A i \in DOMAIN batch' : batch'[i].t # "call" /\ batch'[i].id = NoCall
    BY <1>2, HouseOwn DEF HouseBatch, IInv
  <2>4. \A c \in Calls : Queued(c)' = Queued(c) /\ Held(c)' = {}
    BY <2>1, <2>3, LedgerAssumption DEF Queued, Held
  <2> QED
    BY <2>1, <2>3, <2>4 DEF QInv, NotYet, Single, Covered, BootBatch
<1> QED
  BY <1>1, <1>2

\* A flush answers every waiting caller the batch holds records of.
LEMMA FlushRecords ==
  ASSUME IInv, PInv, QInv, Flush
  PROVE  QInv'
<1>t. call \in [Calls -> {"idle", "send", "blocked", "wait", "ok", "err", "refused",
                          "cancelled", "closed", "crashed"}] /\ notes \in Nat
  BY DEF IInv, TypeOK
<1>1. CASE Write \/ Fsync
  <2>1. UNCHANGED <<queue, batch, off, call, notes, proc>>
    BY <1>1 DEF Write, Fsync, callVars
  <2> QED
    BY <2>1, RecordsStay
<1>2. CASE Unavailable \/ WriteFails \/ FsyncFails
  <2>1. Nack /\ proc # "down"
    BY <1>2 DEF Unavailable, WriteFails, FsyncFails, FailBatch, Alive
  <2>2. UNCHANGED <<queue, off, notes>> /\ batch' = <<>> /\ proc' # "down"
    BY <2>1 DEF Nack
  <2>3. \A c \in Calls : call'[c] \in {call[c], "err"}
    BY <2>1 DEF Nack
  <2>4. \A c \in Calls : Queued(c)' = Queued(c) /\ Held(c)' = {}
    BY <2>2 DEF Queued, Held
  <2> QED
    BY <2>2, <2>3, <2>4 DEF QInv, NotYet, Single, Covered, BootBatch
<1>3. CASE Ack
  <2>1. /\ queue' = queue /\ batch' = <<>>
        /\ off' = [c \in Calls |-> IF c \in Waiters THEN Reach(c) ELSE off[c]]
        /\ call' = [c \in Calls |-> IF c \notin Waiters THEN call[c]
                                    ELSE IF Reach(c) = GroupSize[c] THEN "ok" ELSE "idle"]
        /\ proc # "down" /\ proc' # "down"
        /\ notes' = IF Carries("boot") THEN notes - 1 ELSE notes
    BY <1>3 DEF Ack, Alive
  <2>2. \A c \in Calls : Queued(c)' = Queued(c) /\ Held(c)' = {}
    BY <2>1 DEF Queued, Held
  <2>3. \A c \in Waiters : Queued(c) = {} /\ call'[c] # "wait" /\ c \in Calls
    <3>1. \A c \in Waiters : c \in Calls /\ call[c] = "wait" /\ Held(c) # {}
      BY DEF Waiters, Held
    <3>2. \A c \in Waiters : Queued(c) = {}
      BY <3>1 DEF QInv, Single
    <3> QED
      BY <2>1, <3>1, <3>2
  <2>4. \A c \in Calls \ Waiters : call'[c] = call[c] /\ off'[c] = off[c]
    BY <2>1
  <2>5. notes' > 0 => notes > 0
    BY <1>t, <2>1 DEF IInv, BootOnce
  <2>6. NotYet'
    BY <2>2, <2>3, <2>4 DEF QInv, NotYet
  <2>7. Single'
    BY <2>1, <2>2, <2>3, <2>4 DEF QInv, Single
  <2>8. Covered'
    BY <2>2 DEF Covered
  <2>9. BootBatch'
    BY <2>1, <2>5 DEF QInv, BootBatch
  <2> QED
    BY <2>6, <2>7, <2>8, <2>9 DEF QInv
<1> QED
  BY <1>1, <1>2, <1>3 DEF Flush

\* Every step keeps what is said of the records under way.
LEMMA StepQInv == IInv /\ PInv /\ BInv /\ QInv /\ [Next]_vars => QInv'
<1> SUFFICES ASSUME IInv, PInv, BInv, QInv, [Next]_vars PROVE QInv'
  OBVIOUS
<1>1. CASE UNCHANGED vars
  BY <1>1, RecordsStay DEF vars, callVars
<1>2. CASE Kill \/ PowerLoss
  <2>1. /\ queue' = <<>> /\ batch' = <<>> /\ \A c \in Calls : call'[c] # "wait"
    BY <1>2 DEF Kill, PowerLoss, Vanish, InFlight
  <2> QED
    BY <2>1 DEF QInv, NotYet, Single, Covered, BootBatch, Queued, Held
<1> QED
  BY <1>1, <1>2, ProducerRecords, LifeRecords, RecvRecords, LoopRecords, FlushRecords
     DEF Next, Writer, Lifecycle

\* Nothing is under way at first.
LEMMA InitQInv == Init => QInv
BY DEF Init, QInv, NotYet, Single, Covered, BootBatch, Queued, Held

-----------------------------------------------------------------------------
(* What is on disk *)

\* The first n items of the file f hold r on a line of its own.
WholeIn(f, r, n) == \E j \in 1..n : f[j].k = "line" /\ f[j].rec = r

\* What callers were told is below the synced mark.
AckedWhole == \A c \in Calls : \A i \in 1..off[c] : WholeIn(file, CallRec(c, i), synced)

\* A batch past its write is in the file, past its sync below the mark.
BatchLanded ==
  /\ pc = "fsync" => \A i \in DOMAIN batch : batch[i].t = "call" => WholeIn(file, batch[i], Len(file))
  /\ pc = "ack" => \A i \in DOMAIN batch : batch[i].t = "call" => WholeIn(file, batch[i], synced)
  /\ pc \in {"fsync", "ack"} /\ batch # <<>> => ~OpenTail(file)

\* A short write is followed by a batch that begins with a hole record, which
\* is what the open tail swallows.
TailGuard == proc # "down" /\ pc # "done" /\ notes = 0 /\ OpenTail(file) =>
  /\ cur /\ "short" \in IOFaults /\ faults > 0
  /\ batch = <<>> => holes # <<>>
  /\ batch # <<>> => batch[1].t # "call"

DInv == AckedWhole /\ BatchLanded /\ TailGuard

\* Not both: a write that lands in part, and a file that is lost afterwards.
OneKindOfLoss == MaxFaults <= 1 \/ "open" \notin IOFaults \/ "short" \notin IOFaults

\* A line that is kept is still there.
LEMMA WholeKept ==
  ASSUME NEW f, NEW g, NEW m \in Nat, NEW n \in Nat, m <= n,
         \A j \in 1..m : f[j].k = "line" => g[j] = f[j],
         NEW r, WholeIn(f, r, m)
  PROVE  WholeIn(g, r, n)
<1>1. PICK j \in 1..m : f[j].k = "line" /\ f[j].rec = r
  BY DEF WholeIn
<1>2. j \in 1..n
  OBVIOUS
<1> QED
  BY <1>1, <1>2 DEF WholeIn

\* Whatever keeps the synced lines keeps what callers were told.
LEMMA AckedKept ==
  ASSUME IInv, AckedWhole, off' = off, synced' \in Nat, synced <= synced',
         \A j \in 1..synced : file[j].k = "line" => file'[j] = file[j]
  PROVE  AckedWhole'
<1>1. synced \in Nat
  BY FileItem DEF IInv, TypeOK
<1> SUFFICES ASSUME NEW c \in Calls, NEW i \in 1..off[c] PROVE WholeIn(file', CallRec(c, i), synced')
  BY DEF AckedWhole, CallRec
<1>2. WholeIn(file, CallRec(c, i), synced)
  BY DEF AckedWhole
<1> QED
  BY <1>1, <1>2, WholeKept

\* A step that touches neither the files nor the batch.
LEMMA DiskStays ==
  ASSUME DInv, UNCHANGED <<file, synced, off, batch, cur, faults, holes>>,
         pc' \in {"fsync", "ack"} => pc' = pc,
         proc' # "down" /\ pc' # "done" /\ notes' = 0 => proc # "down" /\ pc # "done" /\ notes = 0
  PROVE  DInv'
<1>1. AckedWhole'
  BY DEF DInv, AckedWhole
<1>2. BatchLanded'
  BY DEF DInv, BatchLanded
<1>3. TailGuard'
  BY DEF DInv, TailGuard
<1> QED
  BY <1>1, <1>2, <1>3 DEF DInv

\* Producers and callers of Rotate leave the disk alone.
LEMMA OutsideDisk ==
  ASSUME DInv, (\E c \in Calls : Producer(c)) \/ \E r \in Rotators : Rotate(r)
  PROVE  DInv'
<1>1. CASE \E c \in Calls : Producer(c)
  <2>1. PICK c \in Calls : Producer(c)
    BY <1>1
  <2>2. UNCHANGED <<file, synced, off, batch, cur, faults, holes, pc, notes>> /\ proc # "down"
    BY <2>1 DEF Producer, Enter, Send, Block, Refuse, Cancel, SendPanics, producerFrame, callVars,
                disk, env
  <2> QED
    BY <2>2, DiskStays
<1>2. CASE \E r \in Rotators : Rotate(r)
  <2>1. UNCHANGED <<file, synced, off, batch, cur, faults, holes, pc, notes>> /\ proc # "down"
    BY <1>2 DEF Rotate, callVars, disk, env
  <2> QED
    BY <2>1, DiskStays
<1> QED
  BY <1>1, <1>2

\* So do Close, the boot records and the idle steps of the loop.
LEMMA IdleDisk ==
  ASSUME DInv, \/ Close \/ CloseChannel \/ CloseDone \/ BootNote
               \/ Timer \/ Drained \/ RotateReceived \/ RotateReply
  PROVE  DInv'
<1>1. CASE Close \/ CloseChannel \/ BootNote
  <2>1. UNCHANGED <<file, synced, off, batch, cur, faults, holes, pc, notes>> /\ proc # "down"
    BY <1>1 DEF Close, CloseChannel, BootNote, callVars, disk, env
  <2> QED
    BY <2>1, DiskStays
<1>2. CASE CloseDone
  <2>1. UNCHANGED <<file, synced, off, batch, pc>> /\ pc = "done"
    BY <1>2 DEF CloseDone, callVars
  <2> QED
    BY <2>1 DEF DInv, AckedWhole, BatchLanded, TailGuard
<1>3. CASE Timer \/ Drained \/ RotateReceived \/ RotateReply
  <2>1. /\ UNCHANGED <<file, synced, off, batch, cur, faults, holes, notes, proc>>
        /\ pc \in {"select", "reply"} /\ pc' \notin {"fsync", "ack"}
    BY <1>3 DEF Timer, Drained, RotateReceived, RotateReply, FlushThen, keepBoundary, loopFrame,
                callVars
  <2> QED
    BY <2>1, DiskStays
<1> QED
  BY <1>1, <1>2, <1>3

\* Recovery heals the file without touching a whole line.
LEMMA OpenDisk ==
  ASSUME IInv, PInv, DInv, Open
  PROVE  DInv'
<1>1. /\ file \in Seq(LineType) /\ synced \in 0..Len(file) /\ Len(file) \in Nat
      /\ off' = off /\ pc' = "select"
  BY FileItem DEF Open, IInv, TypeOK, callVars
<1>2. /\ Len(file') = Len(file) /\ (synced' = Len(file) \/ synced' = synced)
      /\ \A i \in 1..Len(file) : file[i].k = "line" => file'[i] = file[i]
  BY OpenHeals DEF IInv
<1>3. notes' # 0
  BY OpenProps DEF IInv
<1>4. synced <= synced' /\ synced' \in Nat /\ \A j \in 1..synced : j \in 1..Len(file)
  BY <1>1, <1>2
<1>5. AckedWhole'
  BY <1>1, <1>2, <1>4, AckedKept DEF DInv
<1> QED
  BY <1>1, <1>3, <1>5 DEF DInv, BatchLanded, TailGuard

\* A crash keeps what was synced.
LEMMA CrashDisk ==
  ASSUME IInv, DInv, Kill \/ PowerLoss
  PROVE  DInv'
<1>1. /\ file \in Seq(LineType) /\ synced \in 0..Len(file) /\ Len(file) \in Nat
      /\ off' = off /\ proc' = "down" /\ pc' = "down"
  BY FileItem DEF Kill, PowerLoss, Vanish, IInv, TypeOK
<1>2. AckedWhole'
  <2>1. CASE Kill
    BY <2>1, <1>1 DEF Kill, DInv, AckedWhole
  <2>2. CASE PowerLoss
    <3>1. PICK n \in synced..Len(file) : file' \in CutAt(file, n)
      BY <2>2 DEF PowerLoss
    <3>2. n \in 0..Len(file) /\ n \in Nat /\ synced <= n /\ \A j \in 1..synced : j \in 1..n
      BY <1>1
    <3>3. /\ file' \in Seq(LineType) /\ Len(file') \in Nat /\ n <= Len(file')
          /\ \A j \in 1..n : file'[j] = file[j]
      BY <1>1, <3>1, <3>2, CutKeeps, CutProps, LenProperties
    <3>4. synced' = Len(file')
      BY <2>2 DEF PowerLoss
    <3>5. synced' \in Nat /\ synced <= synced'
      BY <1>1, <3>2, <3>3, <3>4
    <3> QED
      BY <1>1, <3>2, <3>3, <3>5, AckedKept DEF DInv
  <2> QED
    BY <2>1, <2>2
<1> QED
  BY <1>1, <1>2 DEF DInv, BatchLanded, TailGuard

\* After a write that landed in part no file can be lost any more.
LEMMA BoundaryGuard ==
  ASSUME IInv, DInv, OneKindOfLoss, proc # "down", pc # "done", notes = 0, OpenTail(file'),
         NEW roll, RollFile(roll)
  PROVE  /\ OpenTail(file) /\ cur /\ cur' /\ "short" \in IOFaults /\ faults' > 0
<1>1. file' = file
  BY RollKeeps
<1>2. cur /\ "short" \in IOFaults /\ faults > 0
  BY <1>1 DEF DInv, TailGuard
<1>3. MaxFaults \in Nat /\ faults \in Nat
  BY LedgerAssumption DEF IInv, TypeOK
<1>4. ~("open" \in IOFaults /\ faults < MaxFaults)
  BY <1>2, <1>3 DEF OneKindOfLoss
<1>5. faults' = faults /\ (cur => cur')
  BY <1>4, RollKeeps
<1> QED
  BY <1>1, <1>2, <1>5

\* A batch boundary keeps the file, and the batch it begins starts with a hole
\* record if a write has landed in part.
LEMMA BoundaryDisk ==
  ASSUME IInv, PInv, DInv, OneKindOfLoss, Recv \/ HouseBatch
  PROVE  DInv'
<1>1. CASE Recv
  <2>1. PICK q \in Seq(RecType) :
          /\ batch' = q \o EntryRecs(queue[1])
          /\ \/ q = batch /\ batch # <<>> /\ UNCHANGED <<file, synced, cur, faults>>
             \/ /\ batch = <<>>
                /\ \A i \in DOMAIN q : q[i].t \notin {"call", "boot"} /\ q[i].id = NoCall
                /\ holes # <<>> => q # <<>>
                /\ \E roll \in Rolls : RollFile(roll)
    BY <1>1, RecvSplit
  <2>2. /\ pc = "select" /\ pc' \in {"select", "flush"} /\ UNCHANGED <<proc, off, notes>>
        /\ queue[1] \in EntryType
    BY <1>1, RecvSplit
  <2>3. /\ file' \in Seq(LineType) /\ synced \in Nat /\ synced <= synced' /\ synced' \in Nat
        /\ \A j \in 1..synced : file'[j] = file[j]
    <3>0. file \in Seq(LineType) /\ synced \in 0..Len(file) /\ Len(file) \in Nat
      BY FileItem DEF IInv, TypeOK
    <3>1. /\ Len(file') >= Len(file) /\ synced <= synced' /\ \A j \in 1..Len(file) : file'[j] = file[j]
      <4>1. CASE UNCHANGED <<file, synced, cur, faults>>
        BY <3>0, <4>1
      <4>2. CASE \E roll \in Rolls : RollFile(roll)
        BY <4>2, RollKeeps
      <4> QED
        BY <2>1, <4>1, <4>2
    <3>2. TypeOK'
      BY <1>1, RecvStep DEF IInv
    <3>3. file' \in Seq(LineType) /\ synced' \in Nat
      BY <3>2, FileItem DEF TypeOK
    <3> QED
      BY <3>0, <3>1, <3>3
  <2>4. AckedWhole'
    BY <2>2, <2>3, AckedKept DEF DInv
  <2>5. TailGuard'
    <3> SUFFICES ASSUME proc # "down", notes = 0, OpenTail(file')
                 PROVE  /\ cur' /\ "short" \in IOFaults /\ faults' > 0
                        /\ batch' # <<>> /\ batch'[1].t # "call"
      BY <2>2 DEF TailGuard
    <3>1. EntryRecs(queue[1]) \in Seq(RecType)
      BY <2>2, EntryIs
    <3>2. q # <<>> => batch' # <<>> /\ batch'[1] = q[1] /\ 1 \in DOMAIN q
      <4> SUFFICES ASSUME q # <<>> PROVE batch' # <<>> /\ batch'[1] = q[1] /\ 1 \in DOMAIN q
        OBVIOUS
      <4>1. 1 \in DOMAIN q
        BY LenProperties, EmptySeq
      <4>2. 1 \in DOMAIN (q \o EntryRecs(queue[1])) /\ (q \o EntryRecs(queue[1]))[1] = q[1]
        BY <3>1, <4>1, JoinItems
      <4> QED
        BY <2>1, <4>1, <4>2
    <3>3. CASE q = batch /\ batch # <<>> /\ UNCHANGED <<file, synced, cur, faults>>
      BY <2>2, <3>2, <3>3 DEF DInv, TailGuard
    <3>4. CASE /\ batch = <<>>
               /\ \A i \in DOMAIN q : q[i].t \notin {"call", "boot"}
               /\ holes # <<>> => q # <<>>
               /\ \E roll \in Rolls : RollFile(roll)
      <4>1. OpenTail(file) /\ cur' /\ "short" \in IOFaults /\ faults' > 0
        BY <2>2, <3>4, BoundaryGuard
      <4>2. q # <<>>
        BY <2>2, <3>4, <4>1 DEF DInv, TailGuard
      <4> QED
        BY <3>2, <3>4, <4>1, <4>2
    <3> QED
      BY <2>1, <3>3, <3>4
  <2> QED
    BY <2>2, <2>4, <2>5 DEF DInv, BatchLanded
<1>2. CASE HouseBatch
  <2>1. PICK over \in DiskOver \cup {degraded}, roll \in Rolls :
          /\ BeforeBatch(over, roll)
          /\ batch' = House(over, roll)
    BY <1>2 DEF HouseBatch
  <2>2. /\ pc \in {"house", "rotHouse"} /\ pc' \in {"exit", "reply", "flush"}
        /\ UNCHANGED <<proc, off, notes>>
    BY <1>2 DEF HouseBatch, loopFrame, callVars
  <2>3. batch = <<>>
    BY <2>2 DEF PInv, Emptied
  <2>4. RollFile(roll)
    BY <2>1 DEF BeforeBatch
  <2>5. AckedWhole'
    <3>0. file \in Seq(LineType) /\ synced \in 0..Len(file) /\ Len(file) \in Nat
      BY FileItem DEF IInv, TypeOK
    <3>1. synced <= synced' /\ \A j \in 1..Len(file) : file'[j] = file[j]
      BY <2>4, RollKeeps
    <3>2. TypeOK'
      BY <1>2, HouseBatchStep DEF IInv
    <3>3. synced' \in Nat
      BY <3>2, FileItem DEF TypeOK
    <3> QED
      BY <2>2, <3>0, <3>1, <3>3, AckedKept DEF DInv
  <2>6. TailGuard'
    <3> SUFFICES ASSUME proc # "down", notes = 0, OpenTail(file')
                 PROVE  /\ cur' /\ "short" \in IOFaults /\ faults' > 0
                        /\ batch' # <<>> /\ batch'[1].t # "call"
      BY <2>2 DEF TailGuard
    <3>1. OpenTail(file) /\ cur' /\ "short" \in IOFaults /\ faults' > 0
      BY <2>2, <2>4, BoundaryGuard
    <3>2. holes # <<>>
      BY <2>2, <2>3, <3>1 DEF DInv, TailGuard
    <3>3. batch' \in Seq(RecType) /\ batch' # <<>> /\ \A i \in DOMAIN batch' : batch'[i].t # "call"
      BY <2>1, <3>2, HouseOwn, HouseType DEF IInv
    <3>4. 1 \in DOMAIN batch'
      BY <3>3, LenProperties, EmptySeq
    <3> QED
      BY <3>1, <3>3, <3>4
  <2> QED
    BY <2>2, <2>5, <2>6 DEF DInv, BatchLanded
<1> QED
  BY <1>1, <1>2

\* The writer syncs its file as it leaves.
LEMMA ExitDisk ==
  ASSUME IInv, DInv, WriterExit
  PROVE  DInv'
<1>1. /\ file \in Seq(LineType) /\ synced \in 0..Len(file) /\ Len(file) \in Nat
      /\ file' = file /\ (synced' = synced \/ synced' = Len(file)) /\ off' = off /\ pc' = "done"
  BY FileItem DEF WriterExit, IInv, TypeOK, loopFrame, callVars
<1>2. AckedWhole'
  BY <1>1, AckedKept DEF DInv
<1> QED
  BY <1>1, <1>2 DEF DInv, BatchLanded, TailGuard

\* The batch lands: an open tail swallows its first record, and that one is
\* not a caller's.
LEMMA WriteDisk ==
  ASSUME IInv, QInv, DInv, Write
  PROVE  DInv'
<1> DEFINE e == Encode(batch, pendingSeq + 1)
<1>1. /\ file' \in Appended(file, e) /\ file \in Seq(LineType) /\ pc = "flush" /\ pc' = "fsync"
      /\ batch \in Seq(RecType) /\ pendingSeq \in Nat /\ synced \in 0..Len(file)
      /\ Len(file) \in Nat /\ UNCHANGED <<proc, off, notes, batch, synced, cur, holes, faults>>
      /\ proc # "down"
  BY FileItem DEF Write, callVars, env, IInv, TypeOK, Alive
<1>2. /\ e \in Seq(LineType) /\ Len(e) = Len(batch) /\ \A i \in DOMAIN e : e[i].k = "line"
  BY <1>1, EncodeProps
<1>3. Len(batch) \in Nat /\ DOMAIN batch = 1..Len(batch)
  BY <1>1, LenProperties
<1>4. \A i \in DOMAIN batch : e[i].rec = batch[i]
  BY <1>3 DEF Encode, Line
<1> HIDE DEF e
<1>5. DOMAIN e = 1..Len(batch)
  BY <1>2, LenProperties
<1>6. /\ Len(file) <= Len(file') /\ Len(file') \in Nat
      /\ \A j \in 1..Len(file) : file[j].k = "line" => file'[j] = file[j]
  BY <1>1, <1>2, AppendedKeeps, AppendedShape, LenProperties
<1>7. AckedWhole'
  <2>1. synced' \in Nat /\ synced <= synced' /\ \A j \in 1..synced : j \in 1..Len(file)
    BY <1>1
  <2> QED
    BY <1>1, <1>6, <2>1, AckedKept DEF DInv
<1>8. batch # <<>> => ~OpenTail(file')
  <2> SUFFICES ASSUME batch # <<>> PROVE ~OpenTail(file')
    OBVIOUS
  <2>1. Len(e) > 0
    BY <1>1, <1>2, <1>3, EmptySeq
  <2> QED
    BY <1>1, <1>2, <1>5, <2>1, AppendedCloses
<1>9. ASSUME NEW i \in DOMAIN batch, batch[i].t = "call" PROVE WholeIn(file', batch[i], Len(file'))
  <2>1. i > 1 \/ ~OpenTail(file)
    <3> SUFFICES ASSUME OpenTail(file), i = 1 PROVE FALSE
      BY <1>3
    <3>1. CASE notes = 0
      <4>1. batch # <<>>
        BY <1>3
      <4> QED
        BY <1>1, <1>9, <3>1, <4>1 DEF DInv, TailGuard
    <3>2. CASE notes # 0
      <4>1. notes > 0
        BY <3>2 DEF IInv, TypeOK
      <4> QED
        BY <1>9, <4>1 DEF QInv, BootBatch
    <3> QED
      BY <3>1, <3>2
  <2>2. i \in 1..Len(e)
    BY <1>2, <1>3
  <2>3. PICK j \in 1..Len(file') : file'[j] = e[i]
    BY <1>1, <1>2, <2>1, <2>2, AppendedLands
  <2> QED
    BY <1>2, <1>4, <1>5, <1>3, <2>3 DEF WholeIn
<1>10. CASE batch # <<>>
  BY <1>1, <1>7, <1>8, <1>9, <1>10 DEF DInv, BatchLanded, TailGuard
<1>11. CASE batch = <<>>
  <2>1. file' = file
    BY <1>1, <1>2, <1>11, AppendedIs
  <2> QED
    BY <1>1, <1>7, <1>9, <1>11, <2>1 DEF DInv, BatchLanded, TailGuard
<1> QED
  BY <1>10, <1>11

\* A failed batch leaves a hole to be written, whatever part of it landed.
LEMMA FailDisk ==
  ASSUME IInv, PInv, DInv, Unavailable \/ WriteFails \/ FsyncFails
  PROVE  DInv'
<1>0. /\ file \in Seq(LineType) /\ synced \in 0..Len(file) /\ Len(file) \in Nat
      /\ holes \in Seq(HoleType) /\ faults \in Nat
      /\ then \in {"select", "house", "exit", "rotHouse", "reply"}
  BY FileItem DEF IInv, TypeOK
<1>1. /\ Nack /\ pc \in {"flush", "fsync"} /\ proc # "down" /\ synced' = synced
  BY DEF Unavailable, WriteFails, FsyncFails, FailBatch, Alive
<1>2. batch' = <<>> /\ pc' = then /\ UNCHANGED <<off, notes, cur>>
  BY <1>1 DEF Nack
<1>3. /\ Len(file) <= Len(file') /\ \A j \in 1..Len(file) : file[j].k = "line" => file'[j] = file[j]
  <2>1. CASE file' = file
    BY <1>0, <2>1
  <2>2. CASE WriteFails /\ file' # file
    <3> DEFINE e == Encode(batch, pendingSeq + 1)
    <3>1. PICK n \in 0..(Len(batch) - 1) : \E landed \in CutAt(e, n) : file' \in Appended(file, landed)
      BY <2>2 DEF WriteFails
    <3>2. PICK landed \in CutAt(e, n) : file' \in Appended(file, landed)
      BY <3>1
    <3>3. batch \in Seq(RecType) /\ pendingSeq \in Nat /\ Len(batch) \in Nat
      BY LenProperties DEF IInv, TypeOK
    <3>4. e \in Seq(LineType) /\ Len(e) = Len(batch)
      BY <3>3, EncodeProps
    <3> HIDE DEF e
    <3>5. n \in 0..Len(e)
      BY <3>3, <3>4
    <3>6. landed \in Seq(LineType)
      BY <3>2, <3>4, <3>5, CutProps
    <3> QED
      BY <1>0, <3>2, <3>6, AppendedKeeps
  <2> QED
    BY <2>1, <2>2 DEF Unavailable, FsyncFails
<1>4. AckedWhole'
  BY <1>0, <1>1, <1>2, <1>3, AckedKept DEF DInv
<1>5. TailGuard'
  <2> SUFFICES ASSUME notes = 0, OpenTail(file')
               PROVE  cur' /\ "short" \in IOFaults /\ faults' > 0 /\ holes' # <<>>
    BY <1>2 DEF TailGuard
  <2>1. CASE Unavailable
    BY <1>1, <2>1 DEF Unavailable, DInv, TailGuard
  <2>2. CASE WriteFails \/ FsyncFails
    <3>1. PICK x : holes' = Append(holes, x)
      BY <2>2 DEF WriteFails, FsyncFails, FailBatch
    <3>2. holes' # <<>>
      BY <1>0, <3>1
    <3>3. faults' > 0
      BY <1>0, <2>2 DEF WriteFails, FsyncFails, Fault
    <3>4. CASE file' = file
      BY <1>1, <1>2, <3>2, <3>3, <3>4 DEF DInv, TailGuard
    <3>5. CASE file' # file
      <4>1. WriteFails /\ "short" \in IOFaults
        BY <2>2, <3>5 DEF WriteFails, FsyncFails, Fault
      <4>2. cur'
        BY <1>2, <4>1 DEF WriteFails
      <4> QED
        BY <3>2, <3>3, <4>1, <4>2
    <3> QED
      BY <3>4, <3>5
  <2> QED
    BY <2>1, <2>2
<1> QED
  BY <1>0, <1>2, <1>4, <1>5 DEF DInv, BatchLanded

\* The sync raises the mark over the batch.
LEMMA FsyncDisk ==
  ASSUME IInv, DInv, Fsync
  PROVE  DInv'
<1>1. /\ file \in Seq(LineType) /\ synced \in 0..Len(file) /\ Len(file) \in Nat
      /\ UNCHANGED <<file, off, batch, proc, notes, cur, faults, holes>> /\ synced' = Len(file)
      /\ pc = "fsync" /\ pc' = "ack"
  BY FileItem DEF Fsync, callVars, env, IInv, TypeOK
<1>2. AckedWhole'
  BY <1>1, AckedKept DEF DInv
<1> QED
  BY <1>1, <1>2 DEF DInv, BatchLanded, TailGuard

\* An acknowledged caller is told of records that are below the synced mark.
LEMMA AckDisk ==
  ASSUME IInv, PInv, BInv, QInv, DInv, Ack
  PROVE  DInv'
<1>1. /\ UNCHANGED <<file, synced, cur, holes>> /\ batch' = <<>> /\ pc = "ack" /\ pc' = then
      /\ off' = [c \in Calls |-> IF c \in Waiters THEN Reach(c) ELSE off[c]]
      /\ notes' = IF Carries("boot") THEN notes - 1 ELSE notes
      /\ proc # "down" /\ (faults' = faults \/ faults' = faults + 1)
  BY DEF Ack, Alive, Fault
<1>2. /\ faults \in Nat /\ notes \in Nat /\ then \in {"select", "house", "exit", "rotHouse", "reply"}
      /\ batch \in Seq(RecType) /\ off \in [Calls -> Nat]
  BY DEF IInv, TypeOK
<1>3. AckedWhole'
  <2> SUFFICES ASSUME NEW c \in Calls, NEW a \in 1..off'[c] PROVE WholeIn(file, CallRec(c, a), synced)
    BY <1>1 DEF AckedWhole, CallRec
  <2>1. CASE a \in 1..off[c]
    BY <2>1 DEF DInv, AckedWhole
  <2>2. CASE a \notin 1..off[c]
    <3>1. c \in Waiters /\ a \in 1..Reach(c)
      BY <1>1, <2>2
    <3>2. call[c] = "wait" /\ Held(c) # {}
      BY <3>1 DEF Waiters, Held
    <3>3. PICK i \in Held(c) : Reach(c) = batch[i].a
      <4> DEFINE S == {batch[i].a : i \in Held(c)}
      <4>1. \A i \in DOMAIN batch : batch[i].a \in Nat
        <5>1. \A i \in DOMAIN batch : batch[i] \in RecType
          BY <1>2, ElementOfSeq, LenProperties
        <5> QED
          BY <5>1 DEF RecType
      <4>2. S \in SUBSET Nat /\ S # {}
        BY <3>2, <4>1 DEF Held
      <4>3. \E m \in S : \A y \in S : y <= m
        <5>1. /\ Len(batch) \in Nat /\ DOMAIN batch = 1..Len(batch)
          BY <1>2, LenProperties
        <5> DEFINE s == [i \in 1..Len(batch) |-> batch[i].a]
        <5>2. PICK n \in Nat : \A i \in 1..Len(batch) : s[i] <= n
          <6>1. \A i \in 1..Len(batch) : s[i] \in Nat
            BY <4>1, <5>1
          <6> HIDE DEF s
          <6> QED
            BY <5>1, <6>1, SeqBounded DEF Bounded
        <5>3. \A x \in S : x <= n
          BY <5>1, <5>2 DEF Held
        <5> HIDE DEF S
        <5> QED
          BY <4>2, <5>3, GreatestNat
      <4>4. Reach(c) = Max(S)
        BY DEF Reach, Held
      <4>5. Max(S) \in S
        <5> HIDE DEF S
        <5> QED
          BY <4>2, <4>3, MaxIs
      <4> QED
        BY <4>4, <4>5
    <3>4. a \in (off[c] + 1)..batch[i].a
      BY <1>2, <2>2, <3>1, <3>3
    <3>5. PICK k \in DOMAIN batch : batch[k] = CallRec(c, a)
      BY <3>2, <3>3, <3>4 DEF QInv, Covered
    <3>6. batch[k].t = "call"
      BY <3>5 DEF CallRec, Rec
    <3> QED
      BY <1>1, <3>5, <3>6 DEF DInv, BatchLanded
  <2> QED
    BY <2>1, <2>2
<1>4. TailGuard'
  <2> SUFFICES ASSUME notes' = 0, OpenTail(file)
               PROVE  cur /\ "short" \in IOFaults /\ faults' > 0 /\ holes # <<>>
    BY <1>1 DEF TailGuard
  <2>1. batch = <<>>
    BY <1>1 DEF DInv, BatchLanded
  <2>2. ~Carries("boot")
    BY <2>1 DEF Carries
  <2>3. notes = 0
    BY <1>1, <2>2
  <2> QED
    BY <1>1, <1>2, <2>1, <2>3 DEF DInv, TailGuard
<1> QED
  BY <1>1, <1>2, <1>3, <1>4 DEF DInv, BatchLanded

\* Every step keeps what is said of the disk.
LEMMA StepDInv ==
  ASSUME OneKindOfLoss
  PROVE  IInv /\ PInv /\ BInv /\ QInv /\ DInv /\ [Next]_vars => DInv'
<1> SUFFICES ASSUME IInv, PInv, BInv, QInv, DInv, [Next]_vars PROVE DInv'
  OBVIOUS
<1>1. CASE UNCHANGED vars
  BY <1>1, DiskStays DEF vars, callVars, disk, env
<1>2. CASE \/ \E c \in Calls : Producer(c)
           \/ \E r \in Rotators : Rotate(r)
  BY <1>2, OutsideDisk
<1>3. CASE Lifecycle
  <2>1. CASE Close \/ CloseChannel \/ CloseDone \/ BootNote
    BY <2>1, IdleDisk
  <2>2. CASE Open
    BY <2>2, OpenDisk
  <2> QED
    BY <1>3, <2>1, <2>2 DEF Lifecycle
<1>4. CASE Writer
  <2>1. CASE Flush
    <3>1. CASE Unavailable \/ WriteFails \/ FsyncFails
      BY <3>1, FailDisk
    <3> QED
      BY <2>1, <3>1, WriteDisk, FsyncDisk, AckDisk DEF Flush
  <2>2. CASE Recv \/ HouseBatch
    BY <2>2, BoundaryDisk
  <2>3. CASE Timer \/ Drained \/ RotateReceived \/ RotateReply
    BY <2>3, IdleDisk
  <2>4. CASE WriterExit
    BY <2>4, ExitDisk
  <2> QED
    BY <1>4, <2>1, <2>2, <2>3, <2>4 DEF Writer
<1>5. CASE Kill \/ PowerLoss
  BY <1>5, CrashDisk
<1> QED
  BY <1>1, <1>2, <1>3, <1>4, <1>5 DEF Next

\* A record is durable the moment Append returns: whatever a caller was told
\* about stays readable below the synced mark through failed batches, rotation,
\* crashes of either kind and recoveries (flushBatch, recover, healTorn), as
\* long as short writes and lost files do not both happen.
THEOREM AckedStaysReadable == OneKindOfLoss => (Spec => []AckedReadable)
<1> SUFFICES ASSUME OneKindOfLoss PROVE Spec => []AckedReadable
  OBVIOUS
<1>1. Init => DInv
  BY DEF Init, DInv, AckedWhole, BatchLanded, TailGuard
<1>2. IInv /\ DInv => AckedReadable
  <2> SUFFICES ASSUME IInv, DInv, NEW c \in Calls, NEW i \in 1..off[c]
               PROVE  \E j \in Landed(c, i) : j <= synced
    BY DEF AckedReadable
  <2>1. PICK j \in 1..synced : file[j].k = "line" /\ file[j].rec = CallRec(c, i)
    BY DEF DInv, AckedWhole, WholeIn
  <2>2. j \in DOMAIN file /\ j <= synced
    <3>1. synced \in 0..Len(file) /\ Len(file) \in Nat /\ DOMAIN file = 1..Len(file)
      BY FileItem DEF IInv, TypeOK
    <3> QED
      BY <3>1
  <2>3. j \in Landed(c, i)
    BY <2>1, <2>2 DEF Landed, Readable, CallRec
  <2> QED
    BY <2>2, <2>3
<1> QED
  BY <1>1, <1>2, Booting, InitQInv, StepQInv, StepDInv, PTL DEF Spec
=============================================================================
