-------------------------- MODULE FlowSpawnProofs --------------------------
(***************************************************************************)
(* What holds of hot-fix spawns for any incidents, queue and bounds: no    *)
(* queued dispatch is lost in silence, what the queue is over its bound by *)
(* is what a replay wrote back, and one signature has one fix.             *)
(*                                                                         *)
(* EInv is what the queue's entries and the debts of records have in       *)
(* common; LInv says who holds the signature's lease while a dispatch is   *)
(* asked for, waits in the queue or is under way.                          *)
(***************************************************************************)
EXTENDS FlowSpawn, FiniteSetTheorems, TLAPS

(* The incidents are none of the words the model uses beside them.         *)
Sane ==
  /\ "none" \notin Incs /\ "free" \notin Incs /\ "loop" \notin Incs
  /\ SpoolMax \in Nat

Entry == [id : Nat \ {0}, key : Incs, tries : Nat, due : BOOLEAN]
Stages == {"idle", "gated", "granted", "call", "taken", "put1", "rec1", "refused", "put2", "rec2"}
States == {"none", "requested", "pending", "leased", "promoted", "discarded"}

Types ==
  /\ lease \in [holder : Incs \cup {"none"}, live : BOOLEAN]
  /\ spawn \in [Incs -> States] /\ pc \in [Incs -> Stages] /\ mutex \in Incs \cup {"free"}
  /\ spool \in SUBSET Entry /\ IsFiniteSet(spool) /\ written \in Nat
  /\ replay \in [list : SUBSET Entry, cur : Entry \cup {NoEntry}, claimed : SUBSET Incs]
  /\ owed \in [Actors -> SUBSET Nat]
  /\ router \in SUBSET Incs /\ fixing \in SUBSET Incs /\ back \in Nat /\ broken \in BOOLEAN
  /\ hist \in [done : SUBSET (Nat \X Incs), dropped : SUBSET Nat, forgot : SUBSET Nat]

(* The entries the queue and its replay loop know of.                      *)
Known == spool \cup replay.list \cup ({replay.cur} \ {NoEntry})
Ids(S) == {e.id : e \in S}

(* Ids are given out once, and a record that is owed is owed by one who    *)
(* has nothing else to record.                                             *)
Given == \A e \in Known : e.id \in 1..written
OneEach == \A e, f \in spool : e.id = f.id => e = f
Listed ==
  /\ \A e, f \in replay.list : e.id = f.id => e = f
  /\ replay.cur # NoEntry => replay.cur.id \notin Ids(replay.list)
OwedOnce ==
  /\ \A i \in Incs : pc[i] \notin {"rec1", "rec2"} => owed[i] = {}
  /\ replay.cur # NoEntry => owed["loop"] = {}
EInv == Types /\ Given /\ OneEach /\ Listed /\ OwedOnce

(* From its lease to its answer a call has the lease of the signature, and *)
(* so has an incident with a fix under way or a dispatch that may start    *)
(* one.                                                                    *)
Asking == {"granted", "call", "taken", "put1", "rec1", "refused"}
Mutexed == mutex # "free" => pc[mutex] \in Asking \ {"granted"}
Accepted ==
  /\ fixing \subseteq router
  /\ \A i \in Incs : pc[i] = "taken" \/ spawn[i] = "leased" => i \in router
Held ==
  /\ lease.holder # "none" => lease.live
  /\ \A i \in Incs : pc[i] \in Asking \/ spawn[i] = "leased" \/ i \in fixing => lease.holder = i
  /\ \A i \in Incs : pc[i] = "put2" => i \in router \/ lease.holder = i
  /\ \A e \in Known : e.key \in router \/ lease.holder = e.key
LInv == Mutexed /\ Accepted /\ (broken \/ Held)

-----------------------------------------------------------------------------
(* ------------------------------- types ---------------------------------- *)

(* The actions, one by one.                                                *)
Steps ==
  \/ \E i \in Incs : HotfixGate(i)
  \/ \E i \in Incs : GrantLease(i)
  \/ \E i \in Incs : LockRepo(i)
  \/ \E i \in Incs : RequestSpawn(i)
  \/ \E i \in Incs : SpoolWrite(i)
  \/ \E i \in Incs : SpoolRecords(i)
  \/ \E i \in Incs : Answered(i)
  \/ \E i \in Incs : Promote(i)
  \/ \E i \in Incs : Rollback(i)
  \/ List \/ Take \/ Deliver \/ DropRecords \/ Due \/ Lapse \/ Restart

LEMMA NextIsSteps == Next => Steps
BY DEF Next, Steps, Spawn, Replay

(* A put takes entries out and adds at most one, under a fresh id.         *)
LEMMA PutShape ==
  ASSUME Sane, Types, NEW i \in Incs, Put(i, i)
  PROVE  \E out \in SUBSET spool :
           /\ Cardinality(out) = IF Over > 0 THEN Over ELSE 0
           /\ owed' = [owed EXCEPT ![i] = Ids(out)]
           /\ \/ /\ written' = written + 1
                 /\ spool' = (spool \ out) \cup {[id |-> written + 1, key |-> i, tries |-> 0, due |-> FALSE]}
              \/ spool' = spool \ out /\ written' = written
BY DEF Put, Ids

LEMMA PutTypes ==
  ASSUME Sane, Types, NEW i \in Incs, Put(i, i)
  PROVE  spool' \in SUBSET Entry /\ IsFiniteSet(spool') /\ written' \in Nat /\ owed' \in [Actors -> SUBSET Nat]
<1>1. PICK out \in SUBSET spool :
        /\ owed' = [owed EXCEPT ![i] = Ids(out)]
        /\ \/ /\ written' = written + 1
              /\ spool' = (spool \ out) \cup {[id |-> written + 1, key |-> i, tries |-> 0, due |-> FALSE]}
           \/ spool' = spool \ out /\ written' = written
  BY PutShape
<1>2. IsFiniteSet(spool \ out)
  BY FS_Difference DEF Types
<1>3. \A x : IsFiniteSet((spool \ out) \cup {x})
  BY <1>2, FS_AddElement
<1>4. IsFiniteSet(spool')
  BY <1>1, <1>2, <1>3
<1>5. Ids(out) \in SUBSET Nat
  BY DEF Types, Entry, Ids
<1>6. owed' \in [Actors -> SUBSET Nat]
  BY <1>1, <1>5 DEF Types, Actors
<1>7. [id |-> written + 1, key |-> i, tries |-> 0, due |-> FALSE] \in Entry /\ written + 1 \in Nat
  BY DEF Types, Entry
<1>8. spool' \in SUBSET Entry /\ written' \in Nat
  BY <1>1, <1>7 DEF Types
<1>9. QED
  BY <1>4, <1>6, <1>8

(* What the actions write into lease, pc and spawn.                        *)
Leases == [holder : Incs \cup {"none"}, live : BOOLEAN]
Replays == [list : SUBSET Entry, cur : Entry \cup {NoEntry}, claimed : SUBSET Incs]
Retried(e) == [e EXCEPT !.tries = @ + 1, !.due = FALSE]
LEMMA LeaseTypes == NoLease \in Leases /\ \A i \in Incs : [holder |-> i, live |-> TRUE] \in Leases
BY DEF Leases, NoLease

LEMMA RetriedEntry ==
  ASSUME NEW e \in Entry
  PROVE  Retried(e) \in Entry /\ Retried(e).id = e.id /\ Retried(e).key = e.key
<1>1. Retried(e) = [id |-> e.id, key |-> e.key, tries |-> e.tries + 1, due |-> FALSE]
  <2> DEFINE f == [e EXCEPT !.tries = e.tries + 1]
  <2>1. f = [id |-> e.id, key |-> e.key, tries |-> e.tries + 1, due |-> e.due]
    BY DEF Entry
  <2>2. Retried(e) = [f EXCEPT !.due = FALSE]
    BY DEF Retried
  <2> HIDE DEF f
  <2>3. QED
    BY <2>1, <2>2
<1>2. e.id \in Nat \ {0} /\ e.key \in Incs /\ e.tries + 1 \in Nat
  BY DEF Entry
<1>3. QED
  BY <1>1, <1>2 DEF Entry

LEMMA DueEntry ==
  ASSUME NEW e \in Entry
  PROVE  [e EXCEPT !.due = TRUE] \in Entry /\ [e EXCEPT !.due = TRUE].id = e.id /\ [e EXCEPT !.due = TRUE].key = e.key
BY DEF Entry

LEMMA GotoTypes == ASSUME Types, NEW i \in Incs, NEW l \in Stages, Goto(i, l) PROVE pc' \in [Incs -> Stages]
BY DEF Types, Goto

LEMMA SpawnTypes == ASSUME Types, NEW i \in Incs, NEW st \in States PROVE [spawn EXCEPT ![i] = st] \in [Incs -> States]
BY DEF Types

LEMMA FiniteWithout == ASSUME Types, NEW e PROVE IsFiniteSet(Without(e)) /\ Without(e) \subseteq spool
BY FS_Subset DEF Types, Without

LEMMA InitTypes == Init => Types
<1> SUFFICES ASSUME Init PROVE Types
  OBVIOUS
<1>1. hist \in [done : SUBSET (Nat \X Incs), dropped : SUBSET Nat, forgot : SUBSET Nat]
  BY DEF Init
<1>2. lease \in Leases /\ replay \in Replays
  BY LeaseTypes DEF Init, NoReplay, Replays
<1>3. owed \in [Actors -> SUBSET Nat] /\ spawn \in [Incs -> States] /\ pc \in [Incs -> Stages]
  BY DEF Init, States, Stages
<1>4. QED
  BY <1>1, <1>2, <1>3, FS_EmptySet DEF Init, Types, Leases, Replays

LEMMA StepTypes == Sane /\ Types /\ [Next]_vars => Types'
<1> SUFFICES ASSUME Sane, Types, [Next]_vars PROVE Types'
  OBVIOUS
<1>1. CASE UNCHANGED vars
  BY <1>1 DEF vars, Types
<1>2. ASSUME NEW i \in Incs, HotfixGate(i) PROVE Types'
  BY <1>2 DEF HotfixGate, Goto, Types, NoLease, Stages
<1>3. ASSUME NEW i \in Incs, GrantLease(i) PROVE Types'
  <2>1. spawn' \in [Incs -> States]
    BY <1>3, SpawnTypes DEF GrantLease, States
  <2>2. pc' \in [Incs -> Stages]
    BY <1>3, GotoTypes DEF GrantLease, Stages
  <2>3. lease' \in Leases
    <3>1. CASE LeaseHeld(i)
      BY <1>3, <3>1 DEF GrantLease, Types, Leases
    <3>2. CASE ~LeaseHeld(i)
      BY <1>3, <3>2, LeaseTypes DEF GrantLease
    <3>3. QED
      BY <3>1, <3>2
  <2>4. QED
    BY <1>3, <2>1, <2>2, <2>3 DEF GrantLease, Types, Leases
<1>4. ASSUME NEW i \in Incs, LockRepo(i) PROVE Types'
  <2>1. pc' \in [Incs -> Stages]
    BY <1>4, GotoTypes DEF LockRepo, Stages
  <2>2. lease' \in Leases
    BY <1>4, LeaseTypes DEF LockRepo, Types, Leases
  <2>3. QED
    BY <1>4, <2>1, <2>2 DEF LockRepo, Types, Leases
<1>5. ASSUME NEW i \in Incs, RequestSpawn(i) PROVE Types'
  BY <1>5 DEF RequestSpawn, Attempt, Goto, Types, Stages
<1>6. ASSUME NEW i \in Incs, SpoolWrite(i) PROVE Types'
  <2>1. Put(i, i)
    BY <1>6 DEF SpoolWrite
  <2>2. spool' \in SUBSET Entry /\ IsFiniteSet(spool') /\ written' \in Nat /\ owed' \in [Actors -> SUBSET Nat]
    BY <2>1, PutTypes
  <2>3. back' \in Nat
    BY <2>1 DEF Put
  <2>4. QED
    BY <1>6, <2>2, <2>3 DEF SpoolWrite, Goto, Types, Stages
<1>7. ASSUME NEW i \in Incs, SpoolRecords(i) PROVE Types'
  <2>1. pc' \in [Incs -> Stages]
    BY <1>7, GotoTypes DEF SpoolRecords, Stages
  <2>2. owed' \in [Actors -> SUBSET Nat] /\ hist' \in [done : SUBSET (Nat \X Incs), dropped : SUBSET Nat, forgot : SUBSET Nat]
    BY <1>7 DEF SpoolRecords, RecordDrops, Types, Actors
  <2>3. QED
    BY <1>7, <2>1, <2>2 DEF SpoolRecords, Types
<1>8. ASSUME NEW i \in Incs, Answered(i) PROVE Types'
  <2>1. spawn' \in [Incs -> States]
    <3>1. spawn' = [spawn EXCEPT ![i] = "pending"] \/ spawn' = [spawn EXCEPT ![i] = "leased"]
      BY <1>8 DEF Answered
    <3>2. "pending" \in States /\ "leased" \in States
      BY DEF States
    <3>3. QED
      BY <3>1, <3>2, SpawnTypes
  <2>2. pc' \in [Incs -> Stages]
    BY <1>8, GotoTypes DEF Answered, Stages
  <2>3. lease' \in Leases
    BY <1>8, LeaseTypes DEF Answered, Types, Leases
  <2>4. QED
    BY <1>8, <2>1, <2>2, <2>3 DEF Answered, Types, Leases
<1>9. ASSUME NEW i \in Incs, Promote(i) PROVE Types'
  BY <1>9, LeaseTypes DEF Promote, FreeLease, Types, States, Leases
<1>10. ASSUME NEW i \in Incs, Rollback(i) PROVE Types'
  BY <1>10, LeaseTypes DEF Rollback, FreeLease, Types, States, Leases
<1>11. CASE List
  BY <1>11 DEF List, Quiet, Types
<1>12. CASE Take
  <2>1. PICK e \in replay.list :
          /\ replay' \in {[replay EXCEPT !.list = @ \ {e}, !.cur = e, !.claimed = @ \cup {e.key}],
                           [replay EXCEPT !.list = @ \ {e}]}
          /\ \/ UNCHANGED <<spool, owed>>
             \/ spool' = Without(e) /\ owed' = [owed EXCEPT !["loop"] = {e.id}]
    BY <1>12 DEF Take
  <2>2. e \in Entry
    BY DEF Types
  <2>3. IsFiniteSet(spool') /\ spool' \in SUBSET Entry
    BY <2>1, FiniteWithout DEF Types
  <2>4. owed' \in [Actors -> SUBSET Nat]
    BY <2>1, <2>2 DEF Types, Actors, Entry
  <2>0. e.key \in Incs
    BY <2>2 DEF Entry
  <2>5. replay' \in Replays
    <3>1. CASE replay' = [replay EXCEPT !.list = @ \ {e}]
      BY <3>1 DEF Types, Replays
    <3>2. CASE replay' = [replay EXCEPT !.list = @ \ {e}, !.cur = e, !.claimed = @ \cup {e.key}]
      BY <2>0, <2>2, <3>2 DEF Types, Replays
    <3>3. QED
      BY <2>1, <3>1, <3>2
  <2>6. QED
    BY <1>12, <2>3, <2>4, <2>5 DEF Take, Quiet, Types, Replays
<1>13. CASE Deliver
  <2>1. replay.cur \in Entry
    BY <1>13 DEF Deliver, Types
  <2>0. PICK ok \in BOOLEAN : replay' = [replay EXCEPT !.cur = NoEntry, !.claimed = Release(ok)]
    BY <1>13 DEF Deliver
  <2>2. replay' \in Replays
    BY <2>0 DEF Types, Release, Replays
  <2>3. router' \in SUBSET Incs /\ fixing' \in SUBSET Incs
    BY <1>13, <2>1 DEF Deliver, Attempt, Types, Entry
  <2>4. owed' \in [Actors -> SUBSET Nat]
    BY <1>13, <2>1 DEF Deliver, Types, Entry, Actors
  <2>5. hist' \in [done : SUBSET (Nat \X Incs), dropped : SUBSET Nat, forgot : SUBSET Nat]
    BY <1>13, <2>1 DEF Deliver, Types, Entry
  <2>6. Retried(replay.cur) \in Entry
    BY <2>1, RetriedEntry
  <2>7. spool' = Without(replay.cur) \/ spool' = Without(replay.cur) \cup {Retried(replay.cur)}
    BY <1>13 DEF Deliver, Retried
  <2>8. \A x : IsFiniteSet(Without(replay.cur) \cup {x})
    BY FiniteWithout, FS_AddElement
  <2>9. IsFiniteSet(spool') /\ spool' \in SUBSET Entry
    <3>1. IsFiniteSet(spool')
      BY <2>7, <2>8, FiniteWithout
    <3>2. Without(replay.cur) \subseteq Entry
      BY FiniteWithout DEF Types
    <3>3. QED
      BY <2>6, <2>7, <3>1, <3>2
  <2>10. QED
    BY <1>13, <2>2, <2>3, <2>4, <2>5, <2>9 DEF Deliver, Quiet, Types, Replays
<1>14. CASE DropRecords
  BY <1>14 DEF DropRecords, RecordDrops, Quiet, Types, Actors
<1>15. CASE Due
  <2>1. PICK e \in spool : spool' = (spool \ {e}) \cup {[e EXCEPT !.due = TRUE]}
    BY <1>15 DEF Due
  <2>2. IsFiniteSet(spool \ {e})
    BY FS_RemoveElement DEF Types
  <2>3. IsFiniteSet(spool')
    BY <2>1, <2>2, FS_AddElement
  <2>4. spool' \in SUBSET Entry
    BY <2>1 DEF Types, Entry
  <2>5. QED
    BY <1>15, <2>3, <2>4 DEF Due, Types
<1>16. CASE Lapse
  BY <1>16 DEF Lapse, Types
<1>17. CASE Restart
  <2>1. replay' \in Replays /\ lease' \in Leases
    BY <1>17, LeaseTypes DEF Restart, Memory, NoReplay, Replays
  <2>2. hist' \in [done : SUBSET (Nat \X Incs), dropped : SUBSET Nat, forgot : SUBSET Nat]
    <3>1. UNION {owed[a] : a \in Actors} \in SUBSET Nat
      BY DEF Types
    <3>2. QED
      BY <1>17, <3>1 DEF Restart, Types
  <2>3. spawn' \in [Incs -> States] /\ pc' \in [Incs -> Stages] /\ owed' \in [Actors -> SUBSET Nat] /\ mutex' \in Incs \cup {"free"}
    BY <1>17 DEF Restart, Memory, States, Stages
  <2>4. QED
    BY <1>17, <2>1, <2>2, <2>3 DEF Restart, Types, Replays, Leases
<1>18. QED
  BY <1>1, <1>2, <1>3, <1>4, <1>5, <1>6, <1>7, <1>8, <1>9, <1>10, <1>11, <1>12, <1>13, <1>14, <1>15, <1>16, <1>17,
     NextIsSteps DEF Steps

-----------------------------------------------------------------------------
(* ------------------------------- the queue ------------------------------ *)

(* The steps that leave the queue, its replay and its records alone.       *)
Aside(i) ==
  \/ HotfixGate(i) \/ GrantLease(i) \/ LockRepo(i) \/ RequestSpawn(i) \/ Answered(i) \/ Promote(i) \/ Rollback(i)

LEMMA AsideKeeps ==
  ASSUME Types, NEW i \in Incs, Aside(i)
  PROVE  /\ UNCHANGED <<spool, back, written, replay, owed, hist>>
         /\ \A j \in Incs : pc'[j] \in {"rec1", "rec2"} <=> pc[j] \in {"rec1", "rec2"}
         /\ router \subseteq router'
<1>1. UNCHANGED <<spool, back, written, replay, owed, hist>> /\ router \subseteq router'
  BY DEF Aside, HotfixGate, GrantLease, LockRepo, RequestSpawn, Attempt, Answered, Promote, Rollback
<1>2. pc' = pc \/ \E l \in Stages \ {"rec1", "rec2"} : pc' = [pc EXCEPT ![i] = l]
  BY DEF Aside, HotfixGate, GrantLease, LockRepo, RequestSpawn, Answered, Promote, Rollback, Goto, Stages
<1>3. pc[i] \notin {"rec1", "rec2"}
  BY DEF Aside, HotfixGate, GrantLease, LockRepo, RequestSpawn, Answered, Promote, Rollback
<1>4. QED
  BY <1>1, <1>2, <1>3 DEF Types

LEMMA InitEInv == Init => EInv
<1> SUFFICES ASSUME Init PROVE EInv
  OBVIOUS
<1>1. Types
  BY InitTypes
<1>2. QED
  BY <1>1 DEF Init, EInv, Given, OneEach, Listed, OwedOnce, Known, NoReplay, Actors

(* No step that leaves queue and loop alone disturbs EInv.                 *)
LEMMA AsideEInv ==
  ASSUME EInv, Types', UNCHANGED <<spool, written, replay, owed>>,
         \A j \in Incs : pc'[j] \in {"rec1", "rec2"} <=> pc[j] \in {"rec1", "rec2"}
  PROVE  EInv'
BY DEF EInv, Given, OneEach, Listed, OwedOnce, Known, Ids

LEMMA StepEInv == Sane /\ EInv /\ [Next]_vars => EInv'
<1> SUFFICES ASSUME Sane, EInv, [Next]_vars PROVE EInv'
  OBVIOUS
<1>0. Types /\ Types'
  BY StepTypes DEF EInv
<1>1. CASE UNCHANGED vars
  BY <1>0, <1>1 DEF vars, EInv, Given, OneEach, Listed, OwedOnce, Known, Ids
<1>2. ASSUME NEW i \in Incs, Aside(i) PROVE EInv'
  BY <1>0, <1>2, AsideKeeps, AsideEInv
<1>3. ASSUME NEW i \in Incs, SpoolWrite(i) PROVE EInv'
  <2>1. PICK out \in SUBSET spool :
          /\ owed' = [owed EXCEPT ![i] = Ids(out)]
          /\ \/ /\ written' = written + 1
                /\ spool' = (spool \ out) \cup {[id |-> written + 1, key |-> i, tries |-> 0, due |-> FALSE]}
             \/ spool' = spool \ out /\ written' = written
    BY <1>0, <1>3, PutShape DEF SpoolWrite
  <2>2. UNCHANGED replay /\ pc' = [pc EXCEPT ![i] = IF pc[i] = "put1" THEN "rec1" ELSE "rec2"]
    BY <1>3 DEF SpoolWrite, Goto
  <2>3. written \in Nat /\ \A e \in Known : e.id \in 1..written
    BY DEF EInv, Types, Given
  <2>4. Given'
    BY <2>1, <2>2, <2>3 DEF Given, Known
  <2>5. OneEach'
    <3>1. \A e, f \in spool \ out : e.id = f.id => e = f
      BY DEF EInv, OneEach
    <3>2. \A e \in spool : e.id # written + 1
      BY <2>3 DEF Known
    <3> DEFINE new == [id |-> written + 1, key |-> i, tries |-> 0, due |-> FALSE]
    <3>3. new.id = written + 1
      OBVIOUS
    <3>4. spool' = (spool \ out) \cup {new} \/ spool' = spool \ out
      BY <2>1
    <3> HIDE DEF new
    <3>5. QED
      BY <3>1, <3>2, <3>3, <3>4 DEF OneEach
  <2>6. OwedOnce'
    <3>1. ASSUME NEW j \in Incs, pc'[j] \notin {"rec1", "rec2"} PROVE owed'[j] = {}
      BY <1>0, <2>1, <2>2, <3>1 DEF EInv, OwedOnce, Types, Actors
    <3>2. owed'["loop"] = owed["loop"]
      BY <1>0, <2>1 DEF Types, Sane, Actors
    <3>3. QED
      BY <2>2, <3>1, <3>2 DEF EInv, OwedOnce
  <2>7. QED
    BY <1>0, <2>2, <2>4, <2>5, <2>6 DEF EInv, Listed, Ids
<1>4. ASSUME NEW i \in Incs, SpoolRecords(i) PROVE EInv'
  <2>1. UNCHANGED <<spool, written, replay>> /\ owed' = [owed EXCEPT ![i] = {}]
    BY <1>4 DEF SpoolRecords, RecordDrops
  <2>2. \A j \in Incs \ {i} : pc'[j] = pc[j]
    BY <1>0, <1>4 DEF SpoolRecords, Goto, Types
  <2>3. OwedOnce'
    BY <1>0, <2>1, <2>2 DEF EInv, OwedOnce, Types, Actors, Sane
  <2>4. QED
    BY <1>0, <2>1, <2>3 DEF EInv, Given, OneEach, Listed, Known, Ids
<1>5. CASE List
  <2>1. UNCHANGED <<spool, written, owed, pc>> /\ replay' = [replay EXCEPT !.list = {e \in spool : e.due}] /\ replay.cur = NoEntry
    BY <1>5 DEF List, Quiet
  <2>2. replay'.cur = NoEntry /\ replay'.list = {e \in spool : e.due}
    BY <1>0, <2>1 DEF Types
  <2>3. QED
    BY <1>0, <2>1, <2>2 DEF EInv, Given, OneEach, Listed, Known, OwedOnce
<1>6. CASE Take
  <2>1. PICK e \in replay.list :
          /\ replay.cur = NoEntry /\ owed["loop"] = {}
          /\ \/ UNCHANGED <<spool, owed>> /\ replay' = [replay EXCEPT !.list = @ \ {e}, !.cur = e, !.claimed = @ \cup {e.key}]
             \/ UNCHANGED <<spool, owed>> /\ replay' = [replay EXCEPT !.list = @ \ {e}]
             \/ /\ replay' = [replay EXCEPT !.list = @ \ {e}]
                /\ spool' = Without(e) /\ owed' = [owed EXCEPT !["loop"] = {e.id}]
    BY <1>6 DEF Take
  <2>2. UNCHANGED <<written, pc>>
    BY <1>6 DEF Take, Quiet
  <2>3. replay'.list = replay.list \ {e} /\ replay'.cur \in {e, NoEntry}
    BY <1>0, <2>1 DEF Types
  <2>4. spool' \subseteq spool
    BY <2>1 DEF Without
  <2>5. Given'
    BY <2>2, <2>3, <2>4 DEF EInv, Given, Known
  <2>6. OneEach' /\ Listed'
    BY <2>3, <2>4 DEF EInv, OneEach, Listed, Ids
  <2>7. OwedOnce'
    <3>1. \A j \in Incs : owed'[j] = owed[j]
      BY <1>0, <2>1 DEF Types, Sane, Actors
    <3>2. replay'.cur # NoEntry => owed'["loop"] = {}
      BY <1>0, <2>1 DEF Types
    <3>3. QED
      BY <2>2, <3>1, <3>2 DEF EInv, OwedOnce
  <2>8. QED
    BY <1>0, <2>5, <2>6, <2>7 DEF EInv
<1>7. CASE Deliver
  <2>1. replay.cur \in Entry /\ replay.cur # NoEntry
    BY <1>0, <1>7 DEF Deliver, Types
  <2>2. replay'.list = replay.list /\ replay'.cur = NoEntry
    BY <1>0, <1>7 DEF Deliver, Types
  <2>3. spool' = Without(replay.cur) \/ spool' = Without(replay.cur) \cup {Retried(replay.cur)}
    BY <1>7 DEF Deliver, Retried
  <2>4. UNCHANGED <<written, pc>>
    BY <1>7 DEF Deliver, Quiet
  <2>5. Retried(replay.cur).id = replay.cur.id
    BY <2>1, RetriedEntry
  <2>6. Without(replay.cur) \subseteq spool /\ \A x \in Without(replay.cur) : x.id # replay.cur.id
    BY DEF Without
  <2>7. Given'
    BY <2>1, <2>2, <2>3, <2>4, <2>5, <2>6 DEF EInv, Given, Known
  <2>8. OneEach'
    BY <2>3, <2>5, <2>6 DEF EInv, OneEach
  <2>9. Listed'
    BY <2>2 DEF EInv, Listed
  <2>10. \A j \in Incs : owed'[j] = owed[j]
    BY <1>0, <1>7 DEF Deliver, Types, Sane, Actors
  <2>11. OwedOnce'
    BY <2>2, <2>4, <2>10 DEF EInv, OwedOnce
  <2>12. QED
    BY <1>0, <2>7, <2>8, <2>9, <2>11 DEF EInv
<1>8. CASE DropRecords
  <2>1. UNCHANGED <<spool, written, replay, pc>> /\ owed' = [owed EXCEPT !["loop"] = {}]
    BY <1>8 DEF DropRecords, RecordDrops, Quiet
  <2>2. OwedOnce'
    BY <1>0, <2>1 DEF EInv, OwedOnce, Types, Actors
  <2>3. QED
    BY <1>0, <2>1, <2>2 DEF EInv, Given, OneEach, Listed, Known, Ids
<1>9. CASE Due
  <2>1. PICK e \in spool : spool' = (spool \ {e}) \cup {[e EXCEPT !.due = TRUE]}
    BY <1>9 DEF Due
  <2>2. UNCHANGED <<written, replay, owed, pc>>
    BY <1>9 DEF Due
  <2>3. [e EXCEPT !.due = TRUE].id = e.id
    BY <1>0, DueEntry DEF Types
  <2>4. Given'
    BY <2>1, <2>2, <2>3 DEF EInv, Given, Known
  <2>5. OneEach'
    BY <2>1, <2>3 DEF EInv, OneEach
  <2>6. QED
    BY <1>0, <2>2, <2>4, <2>5 DEF EInv, Listed, OwedOnce, Ids
<1>10. CASE Lapse
  BY <1>0, <1>10, AsideEInv DEF Lapse
<1>11. CASE Restart
  <2>1. UNCHANGED <<spool, written>> /\ replay' = NoReplay /\ \A i \in Incs : owed'[i] = {}
    BY <1>11 DEF Restart, Memory, Actors
  <2>2. QED
    BY <1>0, <2>1 DEF EInv, Given, OneEach, Listed, OwedOnce, Known, NoReplay, Ids
<1>12. QED
  BY <1>1, <1>2, <1>3, <1>4, <1>5, <1>6, <1>7, <1>8, <1>9, <1>10, <1>11, NextIsSteps DEF Steps, Aside

(* ----------------------- nothing lost in silence ------------------------ *)

LEMMA EInvHolds == Sane => (Spec => []EInv)
<1> SUFFICES ASSUME Sane PROVE Spec => []EInv
  OBVIOUS
<1>1. EInv /\ [Next]_vars => EInv'
  BY StepEInv
<1>2. QED
  BY <1>1, InitEInv, PTL DEF Spec

(* One entry's whereabouts.                                                *)
Found(n) ==
  \/ n \in {e.id : e \in spool} \cup hist.dropped \cup hist.forgot
  \/ \E a \in Actors : n \in owed[a]
  \/ \E d \in hist.done : d[1] = n /\ d[2] \in router

LEMMA StepAccounted == Sane /\ EInv /\ Accounted /\ [Next]_vars => Accounted'
<1> SUFFICES ASSUME Sane, EInv, Accounted, [Next]_vars PROVE Accounted'
  OBVIOUS
<1>0. Types /\ written \in Nat
  BY DEF EInv, Types
<1>a. \A n \in 1..written : Found(n)
  BY DEF Accounted, Found
<1>b. ASSUME written' = written, \A n \in 1..written : Found(n) => Found(n)' PROVE Accounted'
  BY <1>a, <1>b DEF Accounted, Found
<1>1. CASE UNCHANGED vars
  BY <1>1 DEF vars, Accounted
<1>2. ASSUME NEW i \in Incs, Aside(i) PROVE Accounted'
  <2>1. UNCHANGED <<spool, written, owed, hist>> /\ router \subseteq router'
    BY <1>0, <1>2, AsideKeeps
  <2>2. QED
    BY <2>1, <1>b DEF Found
<1>3. ASSUME NEW i \in Incs, SpoolWrite(i) PROVE Accounted'
  <2>1. PICK out \in SUBSET spool :
          /\ owed' = [owed EXCEPT ![i] = Ids(out)]
          /\ \/ /\ written' = written + 1
                /\ spool' = (spool \ out) \cup {[id |-> written + 1, key |-> i, tries |-> 0, due |-> FALSE]}
             \/ spool' = spool \ out /\ written' = written
    BY <1>0, <1>3, PutShape DEF SpoolWrite
  <2>2. UNCHANGED <<hist, router>> /\ owed[i] = {}
    BY <1>3 DEF SpoolWrite, EInv, OwedOnce
  <2>3. \A a \in Actors : owed[a] \subseteq owed'[a]
    BY <1>0, <2>1, <2>2 DEF Types
  <2>4. owed'[i] = Ids(out) /\ i \in Actors
    BY <1>0, <2>1 DEF Types, Actors
  <2>5. ASSUME NEW n \in 1..written PROVE Found(n)'
    <3>1. ASSUME NEW e \in spool, n = e.id PROVE Found(n)'
      <4>1. CASE e \in out
        BY <2>4, <3>1, <4>1 DEF Found, Ids
      <4>2. CASE e \notin out
        BY <2>1, <3>1, <4>2 DEF Found
      <4>3. QED
        BY <4>1, <4>2
    <3>2. QED
      BY <1>a, <2>2, <2>3, <3>1 DEF Found
  <2>6. ASSUME NEW n, n = written + 1, written' = n PROVE Found(n)'
    <3> DEFINE new == [id |-> written + 1, key |-> i, tries |-> 0, due |-> FALSE]
    <3>1. new \in spool' /\ new.id = n
      BY <1>0, <2>1, <2>6
    <3> HIDE DEF new
    <3>2. QED
      BY <3>1 DEF Found
  <2>7. written' = written + 1 \/ written' = written
    BY <2>1
  <2>8. ASSUME NEW n \in 1..written' PROVE Found(n)'
    <3>1. n \in 1..written \/ (n = written + 1 /\ written' = n)
      BY <1>0, <2>7
    <3>2. QED
      BY <2>5, <2>6, <3>1
  <2>9. \A n \in 1..written' : Found(n)'
    BY <2>8
  <2>10. QED
    BY <2>9 DEF Accounted, Found
<1>4. ASSUME NEW i \in Incs, SpoolRecords(i) PROVE Accounted'
  <2>1. UNCHANGED <<spool, written, router>> /\ owed' = [owed EXCEPT ![i] = {}]
    BY <1>4 DEF SpoolRecords, RecordDrops
  <2>2. hist' = [hist EXCEPT !.dropped = @ \cup owed[i]]
    BY <1>4 DEF SpoolRecords, RecordDrops
  <2>3. hist'.dropped = hist.dropped \cup owed[i] /\ hist'.forgot = hist.forgot /\ hist'.done = hist.done
    BY <1>0, <2>2 DEF Types
  <2>4. \A a \in Actors : a = i \/ owed'[a] = owed[a]
    BY <1>0, <2>1 DEF Types
  <2>5. QED
    BY <1>b, <2>1, <2>3, <2>4 DEF Found
<1>5. CASE List
  BY <1>5, <1>b DEF List, Quiet, Found
<1>6. CASE Take
  <2>1. PICK e \in replay.list :
          \/ UNCHANGED <<spool, owed>>
          \/ spool' = Without(e) /\ owed' = [owed EXCEPT !["loop"] = {e.id}] /\ owed["loop"] = {}
    BY <1>6 DEF Take
  <2>2. UNCHANGED <<written, hist, router>>
    BY <1>6 DEF Take, Quiet
  <2>3. \A n : n \in Ids(spool) => n \in Ids(spool') \/ \E a \in Actors : n \in owed'[a]
    <3>1. CASE UNCHANGED <<spool, owed>>
      BY <3>1
    <3>2. CASE spool' = Without(e) /\ owed' = [owed EXCEPT !["loop"] = {e.id}]
      <4>1. "loop" \in Actors /\ owed'["loop"] = {e.id}
        BY <1>0, <3>2 DEF Types, Actors
      <4>2. QED
        BY <3>2, <4>1 DEF Ids, Without
    <3>3. QED
      BY <2>1, <3>1, <3>2
  <2>4. \A a \in Actors : owed[a] \subseteq owed'[a]
    BY <1>0, <2>1 DEF Types
  <2>5. QED
    BY <1>b, <2>2, <2>3, <2>4 DEF Found, Ids
<1>7. CASE Deliver
  <2> DEFINE e == replay.cur
  <2>1. e \in Entry /\ e # NoEntry /\ owed["loop"] = {}
    BY <1>0, <1>7 DEF Deliver, Types, EInv, OwedOnce
  <2>2. PICK ok \in BOOLEAN :
          /\ Attempt(e.key, ok)
          /\ \/ /\ ok /\ spool' = Without(e)
                /\ hist' = [hist EXCEPT !.done = @ \cup {<<e.id, e.key>>}] /\ UNCHANGED owed
             \/ ~ok /\ spool' = Without(e) /\ owed' = [owed EXCEPT !["loop"] = {e.id}] /\ UNCHANGED hist
             \/ ~ok /\ UNCHANGED <<hist, owed>> /\ spool' = Without(e) \cup {Retried(e)}
    BY <1>7 DEF Deliver, Retried
  <2>3. written' = written /\ router \subseteq router' /\ (ok => e.key \in router')
    BY <1>7, <2>2 DEF Deliver, Quiet, Attempt
  <2>4. \A a \in Actors : owed[a] \subseteq owed'[a]
    BY <1>0, <2>1, <2>2 DEF Types
  <2>5. hist'.dropped = hist.dropped /\ hist'.forgot = hist.forgot /\ hist.done \subseteq hist'.done
    BY <1>0, <2>2 DEF Types
  <2>6. ASSUME NEW x \in spool PROVE Found(x.id)'
    <3>1. CASE x.id # e.id
      <4>1. x \in spool'
        BY <2>2, <3>1 DEF Without
      <4>2. QED
        BY <4>1 DEF Found
    <3>2. CASE x.id = e.id /\ ok
      <4>1. <<e.id, e.key>> \in hist'.done
        BY <1>0, <2>2, <3>2 DEF Types
      <4>2. QED
        BY <2>3, <3>2, <4>1 DEF Found
    <3>3. CASE x.id = e.id /\ owed' = [owed EXCEPT !["loop"] = {e.id}]
      <4>1. "loop" \in Actors /\ owed'["loop"] = {e.id}
        BY <1>0, <3>3 DEF Types, Actors
      <4>2. QED
        BY <3>3, <4>1 DEF Found
    <3>4. CASE x.id = e.id /\ spool' = Without(e) \cup {Retried(e)}
      <4>1. Retried(e).id = e.id /\ Retried(e) \in spool'
        BY <2>1, <3>4, RetriedEntry
      <4>2. QED
        BY <3>4, <4>1 DEF Found
    <3>5. QED
      BY <2>2, <3>1, <3>2, <3>3, <3>4
  <2>7. QED
    BY <1>b, <2>3, <2>4, <2>5, <2>6 DEF Found
<1>8. CASE DropRecords
  <2>1. UNCHANGED <<spool, written, router>> /\ owed' = [owed EXCEPT !["loop"] = {}]
    BY <1>8 DEF DropRecords, RecordDrops, Quiet
  <2>2. hist' = [hist EXCEPT !.dropped = @ \cup owed["loop"]]
    BY <1>8 DEF DropRecords, RecordDrops
  <2>3. hist'.dropped = hist.dropped \cup owed["loop"] /\ hist'.forgot = hist.forgot /\ hist'.done = hist.done
    BY <1>0, <2>2 DEF Types
  <2>4. \A a \in Actors : a = "loop" \/ owed'[a] = owed[a]
    BY <1>0, <2>1 DEF Types
  <2>5. QED
    BY <1>b, <2>1, <2>3, <2>4 DEF Found
<1>9. CASE Due
  <2>1. PICK e \in spool : spool' = (spool \ {e}) \cup {[e EXCEPT !.due = TRUE]}
    BY <1>9 DEF Due
  <2>2. UNCHANGED <<written, owed, hist, router>>
    BY <1>9 DEF Due
  <2>3. [e EXCEPT !.due = TRUE].id = e.id
    BY <1>0, DueEntry DEF Types
  <2>4. Ids(spool) \subseteq Ids(spool')
    BY <2>1, <2>3 DEF Ids
  <2>5. QED
    BY <1>b, <2>2, <2>4 DEF Found, Ids
<1>10. CASE Lapse
  BY <1>b, <1>10 DEF Lapse, Found
<1>11. CASE Restart
  <2>1. UNCHANGED <<spool, written, router>>
    BY <1>11 DEF Restart
  <2>2. hist' = [hist EXCEPT !.forgot = @ \cup UNION {owed[a] : a \in Actors}]
    BY <1>11 DEF Restart
  <2>3. hist'.dropped = hist.dropped /\ hist'.done = hist.done /\ hist'.forgot = hist.forgot \cup UNION {owed[a] : a \in Actors}
    BY <1>0, <2>2 DEF Types
  <2>4. QED
    BY <1>b, <2>1, <2>3 DEF Found
<1>12. QED
  BY <1>1, <1>2, <1>3, <1>4, <1>5, <1>6, <1>7, <1>8, <1>9, <1>10, <1>11, NextIsSteps DEF Steps, Aside

(* Nothing queued is lost in silence: whatever evictions, failures,        *)
(* retries and restarts come together, an entry once written is queued,    *)
(* delivered to a router that has its key, recorded as dropped, about to   *)
(* be, or among those a restart cut off from their record (spoolWrite,     *)
(* Replay, Update).                                                        *)
THEOREM QueueAccounted == Sane => (Spec => []Accounted)
<1> SUFFICES ASSUME Sane PROVE Spec => []Accounted
  OBVIOUS
<1>1. Init => Accounted
  BY DEF Init, Accounted
<1>2. EInv /\ Accounted /\ [Next]_vars => Accounted'
  BY StepAccounted
<1>3. Spec => []EInv
  BY EInvHolds
<1>4. QED
  BY <1>1, <1>2, <1>3, PTL DEF Spec

-----------------------------------------------------------------------------
(* -------------------------- the queue's bound --------------------------- *)

(* One element for another does not make a set larger.                     *)
LEMMA Swapped ==
  ASSUME NEW S, IsFiniteSet(S), NEW x \in S, NEW y, NEW T \in SUBSET ((S \ {x}) \cup {y}),
         NEW n \in Nat, Cardinality(S) <= n
  PROVE  Cardinality(T) <= n
<1>1. IsFiniteSet(S \ {x}) /\ Cardinality(S \ {x}) = Cardinality(S) - 1 /\ Cardinality(S) \in Nat
  BY FS_RemoveElement, FS_CardinalityType
<1>2. IsFiniteSet((S \ {x}) \cup {y}) /\ Cardinality((S \ {x}) \cup {y}) <= Cardinality(S)
  <2> DEFINE R == S \ {x}
  <2>1. IsFiniteSet(R \cup {y}) /\ Cardinality(R \cup {y}) \in {Cardinality(R), Cardinality(R) + 1}
    BY <1>1, FS_AddElement
  <2>2. QED
    BY <1>1, <2>1
<1>3. Cardinality(T) <= Cardinality((S \ {x}) \cup {y}) /\ Cardinality(T) \in Nat /\ Cardinality((S \ {x}) \cup {y}) \in Nat
  BY <1>2, FS_Subset, FS_CardinalityType
<1>4. QED
  BY <1>1, <1>2, <1>3

LEMMA Smaller ==
  ASSUME NEW S, IsFiniteSet(S), NEW T \in SUBSET S, NEW n \in Nat, Cardinality(S) <= n
  PROVE  Cardinality(T) <= n
<1>1. Cardinality(T) <= Cardinality(S) /\ Cardinality(T) \in Nat /\ Cardinality(S) \in Nat
  BY FS_Subset, FS_CardinalityType
<1>2. QED
  BY <1>1

LEMMA StepQueueBound == Sane /\ EInv /\ QueueBound /\ [Next]_vars => QueueBound'
<1> SUFFICES ASSUME Sane, EInv, QueueBound, [Next]_vars PROVE Cardinality(spool') <= SpoolMax + back'
  BY DEF QueueBound
<1>0. Types /\ Types' /\ SpoolMax + back \in Nat /\ back \in Nat /\ SpoolMax \in Nat
  BY StepTypes DEF EInv, Sane, Types
<1>1. IsFiniteSet(spool) /\ Cardinality(spool) \in Nat /\ Cardinality(spool) <= SpoolMax + back
  BY <1>0, FS_CardinalityType DEF Types, QueueBound
<1>2. ASSUME spool' \subseteq spool, back' = back PROVE Cardinality(spool') <= SpoolMax + back'
  BY <1>0, <1>1, <1>2, Smaller
<1>3. ASSUME NEW x \in spool, NEW y, spool' \subseteq (spool \ {x}) \cup {y}, back' = back
      PROVE  Cardinality(spool') <= SpoolMax + back'
  BY <1>0, <1>1, <1>3, Swapped
<1>4. ASSUME NEW i \in Incs, SpoolWrite(i) PROVE Cardinality(spool') <= SpoolMax + back'
  <2>1. PICK out \in SUBSET spool :
           /\ Cardinality(out) = IF Over > 0 THEN Over ELSE 0
           /\ \/ spool' = (spool \ out) \cup {[id |-> written + 1, key |-> i, tries |-> 0, due |-> FALSE]}
              \/ spool' = spool \ out
    BY <1>0, <1>4, PutShape DEF SpoolWrite
  <2>2. back' = 0
    BY <1>4 DEF SpoolWrite, Put
  <2>3. IsFiniteSet(spool \ out) /\ Cardinality(spool \ out) = Cardinality(spool) - Cardinality(out)
    <3>1. spool \cap out = out
      OBVIOUS
    <3>2. IsFiniteSet(spool \ out) /\ Cardinality(spool \ out) = Cardinality(spool) - Cardinality(spool \cap out)
      BY <1>1, FS_Difference
    <3>3. QED
      BY <3>1, <3>2
  <2>4. Cardinality(out) \in Nat /\ Cardinality(spool \ out) \in Nat
    BY <1>1, <2>3, FS_CardinalityType, FS_Subset
  <2>5. Cardinality(spool \ out) + 1 <= SpoolMax
    BY <1>0, <1>1, <2>1, <2>3, <2>4 DEF Over
  <2>6. CASE spool' = spool \ out
    BY <1>0, <2>2, <2>4, <2>5, <2>6
  <2> DEFINE new == [id |-> written + 1, key |-> i, tries |-> 0, due |-> FALSE]
  <2>7. CASE spool' = (spool \ out) \cup {new}
    <3> HIDE DEF new
    <3>1. Cardinality(spool') \in {Cardinality(spool \ out), Cardinality(spool \ out) + 1}
      BY <2>3, <2>7, FS_AddElement
    <3>2. QED
      BY <1>0, <2>2, <2>4, <2>5, <3>1
  <2>8. QED
    BY <2>1, <2>6, <2>7
<1>5. CASE Deliver
  <2> DEFINE e == replay.cur
  <2>1. \/ spool' = Without(e) /\ back' = back
        \/ /\ spool' = Without(e) \cup {Retried(e)}
           /\ back' = IF Without(e) = spool THEN back + 1 ELSE back
    BY <1>5 DEF Deliver, Retried
  <2>2. CASE spool' = Without(e) /\ back' = back
    BY <1>2, <2>2 DEF Without
  <2>3. CASE spool' = Without(e) \cup {Retried(e)} /\ Without(e) = spool /\ back' = back + 1
    <3>1. Cardinality(spool') \in {Cardinality(spool), Cardinality(spool) + 1}
      BY <1>1, <2>3, FS_AddElement
    <3>2. QED
      BY <1>0, <1>1, <2>3, <3>1
  <2>4. CASE spool' = Without(e) \cup {Retried(e)} /\ Without(e) # spool /\ back' = back
    <3>1. PICK x \in spool : x \notin Without(e)
      BY <2>4 DEF Without
    <3>2. spool' \subseteq (spool \ {x}) \cup {Retried(e)}
      BY <2>4, <3>1 DEF Without
    <3>3. QED
      BY <1>3, <2>4, <3>1, <3>2
  <2>5. QED
    BY <2>1, <2>2, <2>3, <2>4
<1>6. CASE Due
  <2>1. PICK e \in spool : spool' = (spool \ {e}) \cup {[e EXCEPT !.due = TRUE]}
    BY <1>6 DEF Due
  <2>2. back' = back
    BY <1>6 DEF Due
  <2>3. QED
    BY <1>3, <2>1, <2>2
<1>7. ASSUME NEW i \in Incs, Aside(i) PROVE spool' \subseteq spool /\ back' = back
  BY <1>0, <1>7, AsideKeeps
<1>8. ASSUME NEW i \in Incs, SpoolRecords(i) PROVE spool' \subseteq spool /\ back' = back
  BY <1>8 DEF SpoolRecords
<1>9. UNCHANGED vars \/ List \/ Take \/ DropRecords \/ Lapse \/ Restart => spool' \subseteq spool /\ back' = back
  BY DEF vars, List, Take, DropRecords, Lapse, Restart, Without
<1>10. QED
  BY <1>2, <1>4, <1>5, <1>6, <1>7, <1>8, <1>9, NextIsSteps DEF Steps, Aside

(* What the whole queue is over its bound by, a replay wrote back after a  *)
(* put had evicted it, and since the last put: a put makes room for what   *)
(* it adds and for whatever was written back (Put, Replay, Update).        *)
THEOREM QueueExcessBounded == Sane => (Spec => []QueueBound)
<1> SUFFICES ASSUME Sane PROVE Spec => []QueueBound
  OBVIOUS
<1>1. Init => QueueBound
  BY FS_EmptySet DEF Init, QueueBound, Sane
<1>2. EInv /\ QueueBound /\ [Next]_vars => QueueBound'
  BY StepQueueBound
<1>3. Spec => []EInv
  BY EInvHolds
<1>4. QED
  BY <1>1, <1>2, <1>3, PTL DEF Spec

-----------------------------------------------------------------------------
(* ------------------------- one fix per signature ------------------------ *)

(* As the replay loop's entries come and go, no new key is among them.     *)
LEMMA KnownKeys ==
  ASSUME Sane, EInv, [Next]_vars
  PROVE  \A e \in Known' : \/ \E f \in Known : f.key = e.key
                           \/ \E i \in Incs : SpoolWrite(i) /\ e.key = i
<1>0. Types
  BY DEF EInv
<1> DEFINE Goal == \A e \in Known' : \/ \E f \in Known : f.key = e.key
                                   \/ \E i \in Incs : SpoolWrite(i) /\ e.key = i
<1>1. ASSUME Known' \subseteq Known PROVE Goal
  BY <1>1
<1>2. ASSUME NEW x, NEW f \in Known, x.key = f.key, Known' \subseteq Known \cup {x} PROVE Goal
  BY <1>2
<1>3. CASE UNCHANGED vars
  BY <1>1, <1>3 DEF vars, Known
<1>4. ASSUME NEW i \in Incs, Aside(i) PROVE Goal
  BY <1>0, <1>1, <1>4, AsideKeeps DEF Known
<1>5. ASSUME NEW i \in Incs, SpoolWrite(i) PROVE Goal
  <2> DEFINE new == [id |-> written + 1, key |-> i, tries |-> 0, due |-> FALSE]
  <2>1. spool' \subseteq spool \cup {new}
    BY <1>0, <1>5, PutShape DEF SpoolWrite
  <2>2. UNCHANGED replay /\ new.key = i
    BY <1>5 DEF SpoolWrite
  <2> HIDE DEF new
  <2>3. Known' \subseteq Known \cup {new}
    BY <2>1, <2>2 DEF Known
  <2>4. QED
    BY <1>5, <2>2, <2>3
<1>6. ASSUME NEW i \in Incs, SpoolRecords(i) PROVE Goal
  BY <1>1, <1>6 DEF SpoolRecords, Known
<1>7. CASE List
  <2>1. UNCHANGED spool /\ replay' = [replay EXCEPT !.list = {e \in spool : e.due}]
    BY <1>7 DEF List
  <2>2. replay'.cur = replay.cur /\ replay'.list \subseteq spool
    BY <1>0, <2>1 DEF Types
  <2>3. QED
    BY <1>1, <2>1, <2>2 DEF Known
<1>8. CASE Take
  <2>1. PICK e \in replay.list :
          \/ replay' = [replay EXCEPT !.list = @ \ {e}, !.cur = e, !.claimed = @ \cup {e.key}]
          \/ replay' = [replay EXCEPT !.list = @ \ {e}]
    BY <1>8 DEF Take
  <2>2. replay'.list \subseteq replay.list /\ replay'.cur \in {e, replay.cur}
    <3>1. CASE replay' = [replay EXCEPT !.list = @ \ {e}]
      BY <1>0, <3>1 DEF Types
    <3>2. CASE replay' = [replay EXCEPT !.list = @ \ {e}, !.cur = e, !.claimed = @ \cup {e.key}]
      BY <1>0, <3>2 DEF Types
    <3>3. QED
      BY <2>1, <3>1, <3>2
  <2>3. spool' \subseteq spool
    BY <1>8 DEF Take, Without
  <2>4. QED
    BY <1>1, <2>2, <2>3 DEF Known
<1>9. CASE Deliver
  <2>1. replay.cur \in Entry /\ replay.cur \in Known
    BY <1>0, <1>9 DEF Deliver, Types, Known
  <2>2. replay'.list = replay.list /\ replay'.cur = NoEntry
    BY <1>0, <1>9 DEF Deliver, Types
  <2>3. spool' \subseteq spool \cup {Retried(replay.cur)}
    BY <1>9 DEF Deliver, Retried, Without
  <2>4. Retried(replay.cur).key = replay.cur.key
    BY <2>1, RetriedEntry
  <2>5. Known' \subseteq Known \cup {Retried(replay.cur)}
    BY <2>2, <2>3 DEF Known
  <2>6. QED
    BY <1>2, <2>1, <2>4, <2>5
<1>10. CASE DropRecords
  BY <1>1, <1>10 DEF DropRecords, Known
<1>11. CASE Due
  <2>1. PICK e \in spool : spool' = (spool \ {e}) \cup {[e EXCEPT !.due = TRUE]}
    BY <1>11 DEF Due
  <2>2. [e EXCEPT !.due = TRUE].key = e.key
    BY <1>0, DueEntry DEF Types
  <2>3. Known' \subseteq Known \cup {[e EXCEPT !.due = TRUE]} /\ e \in Known
    BY <1>11, <2>1 DEF Due, Known
  <2>4. QED
    BY <1>2, <2>2, <2>3
<1>12. CASE Lapse
  BY <1>1, <1>12 DEF Lapse, Known
<1>13. CASE Restart
  <2>1. Known' \subseteq Known
    BY <1>13 DEF Restart, Memory, NoReplay, Known
  <2>2. QED
    BY <1>1, <2>1
<1>14. QED
  BY <1>3, <1>4, <1>5, <1>6, <1>7, <1>8, <1>9, <1>10, <1>11, <1>12, <1>13, NextIsSteps DEF Steps, Aside

(* The mutex's holder is asking, and what was accepted the router has.     *)
LEMMA StepMutexed == Sane /\ Types /\ Mutexed /\ [Next]_vars => Mutexed'
<1> SUFFICES ASSUME Sane, Types, Mutexed, [Next]_vars PROVE Mutexed'
  OBVIOUS
<1>1. ASSUME NEW i \in Incs, LockRepo(i) PROVE Mutexed'
  BY <1>1 DEF LockRepo, Goto, Mutexed, Types, Asking, Sane
<1>2. ASSUME NEW i \in Incs, Answered(i) PROVE Mutexed'
  BY <1>2 DEF Answered, Mutexed
<1>3. ASSUME NEW i \in Incs, mutex' = mutex, pc[i] \in Asking \ {"granted"} => pc'[i] \in Asking \ {"granted"},
             \A j \in Incs \ {i} : pc'[j] = pc[j]
      PROVE  Mutexed'
  BY <1>3 DEF Mutexed, Types
<1>4. ASSUME NEW i \in Incs, HotfixGate(i) \/ GrantLease(i) \/ RequestSpawn(i) PROVE Mutexed'
  BY <1>3, <1>4 DEF HotfixGate, GrantLease, RequestSpawn, Goto, Types, Asking
<1>5. ASSUME NEW i \in Incs, SpoolWrite(i) \/ SpoolRecords(i) PROVE Mutexed'
  BY <1>3, <1>5 DEF SpoolWrite, SpoolRecords, Goto, Types, Asking
<1>6. ASSUME NEW i \in Incs, Promote(i) \/ Rollback(i) PROVE Mutexed'
  BY <1>6 DEF Promote, Rollback, Mutexed
<1>7. CASE List \/ Take \/ Deliver \/ DropRecords
  BY <1>7 DEF List, Take, Deliver, DropRecords, Quiet, Mutexed
<1>8. CASE Due \/ Lapse \/ Restart \/ UNCHANGED vars
  BY <1>8 DEF Due, Lapse, Restart, Memory, vars, Mutexed
<1>9. QED
  BY <1>1, <1>2, <1>4, <1>5, <1>6, <1>7, <1>8, NextIsSteps DEF Steps

LEMMA StepAccepted == Sane /\ EInv /\ Accepted /\ [Next]_vars => Accepted'
<1> SUFFICES ASSUME Sane, EInv, Accepted, [Next]_vars PROVE Accepted'
  OBVIOUS
<1>0. Types
  BY DEF EInv
<1>1. ASSUME NEW i \in Incs, HotfixGate(i) \/ LockRepo(i) PROVE Accepted'
  BY <1>0, <1>1 DEF HotfixGate, LockRepo, Goto, Accepted, Types
<1>2. ASSUME NEW i \in Incs, GrantLease(i) PROVE Accepted'
  BY <1>0, <1>2 DEF GrantLease, Goto, Accepted, Types
<1>3. ASSUME NEW i \in Incs, RequestSpawn(i) PROVE Accepted'
  BY <1>0, <1>3 DEF RequestSpawn, Attempt, Goto, Accepted, Types
<1>4. ASSUME NEW i \in Incs, SpoolWrite(i) \/ SpoolRecords(i) PROVE Accepted'
  BY <1>0, <1>4 DEF SpoolWrite, SpoolRecords, Goto, Accepted, Types
<1>5. ASSUME NEW i \in Incs, Answered(i) PROVE Accepted'
  BY <1>0, <1>5 DEF Answered, Goto, Accepted, Types
<1>6. ASSUME NEW i \in Incs, Promote(i) \/ Rollback(i) PROVE Accepted'
  BY <1>0, <1>6 DEF Promote, Rollback, Accepted, Types
<1>7. CASE Deliver
  BY <1>7 DEF Deliver, Attempt, Quiet, Accepted
<1>8. CASE List \/ Take \/ DropRecords
  BY <1>8 DEF List, Take, DropRecords, Quiet, Accepted
<1>9. CASE Due \/ Lapse \/ UNCHANGED vars
  BY <1>9 DEF Due, Lapse, vars, Accepted
<1>10. CASE Restart
  BY <1>10 DEF Restart, Memory, Accepted
<1>11. QED
  BY <1>1, <1>2, <1>3, <1>4, <1>5, <1>6, <1>7, <1>8, <1>9, <1>10, NextIsSteps DEF Steps

(* Who a lease must be for.                                                *)
Needs(i) == pc[i] \in Asking \/ spawn[i] = "leased" \/ i \in fixing

(* A step that leaves the lease alone and lets nobody in but its holder.   *)
LEMMA LeaseKept ==
  ASSUME Sane, EInv, [Next]_vars, Held, lease' = lease, router \subseteq router',
         \A i \in Incs : Needs(i)' => Needs(i) \/ lease.holder = i,
         \A i \in Incs : pc'[i] = "put2" => pc[i] \in Asking \cup {"put2"}
  PROVE  Held'
<1>1. \A i \in Incs : Needs(i) => lease.holder = i
  BY DEF Held, Needs
<1>2. \A i \in Incs : Needs(i)' => lease.holder = i
  BY <1>1
<1>3. \A i \in Incs : pc'[i] = "put2" => i \in router' \/ lease.holder = i
  BY DEF Held
<1>4. ASSUME NEW e \in Known' PROVE e.key \in router' \/ lease.holder = e.key
  <2>1. CASE \E f \in Known : f.key = e.key
    BY <2>1 DEF Held
  <2>2. ASSUME NEW i \in Incs, SpoolWrite(i), e.key = i PROVE e.key \in router' \/ lease.holder = e.key
    BY <2>2 DEF SpoolWrite, Held, Asking
  <2>3. QED
    BY <2>1, <2>2, KnownKeys
<1>5. QED
  BY <1>2, <1>3, <1>4 DEF Held, Needs

LEMMA StepHeld ==
  ASSUME Sane, EInv, LInv, [Next]_vars, ~broken'
  PROVE  Held'
<1>0. Types /\ Types' /\ Mutexed /\ Accepted
  BY StepTypes DEF EInv, LInv
<1>1. ~broken
  <2>1. ASSUME NEW i \in Incs, Promote(i) \/ Rollback(i) PROVE broken => broken'
    BY <1>0, <2>1 DEF Promote, Rollback, FreeLease
  <2>2. ASSUME NEW i \in Incs, HotfixGate(i) \/ GrantLease(i) \/ LockRepo(i) \/ RequestSpawn(i) \/ Answered(i)
                               \/ SpoolWrite(i) \/ SpoolRecords(i)
        PROVE  UNCHANGED broken
    BY <2>2 DEF HotfixGate, GrantLease, LockRepo, RequestSpawn, Answered, SpoolWrite, SpoolRecords
  <2>3. List \/ Take \/ Deliver \/ DropRecords \/ Due \/ UNCHANGED vars => UNCHANGED broken
    BY DEF List, Take, Deliver, DropRecords, Quiet, Due, vars
  <2>4. Lapse \/ Restart => broken'
    BY DEF Lapse, Restart
  <2>5. QED
    BY <2>1, <2>2, <2>3, <2>4, NextIsSteps DEF Steps
<1>2. Held
  BY <1>1 DEF LInv
<1>3. lease = [holder |-> lease.holder, live |-> lease.live] /\ lease.live \in BOOLEAN
  BY <1>0 DEF Types
<1>4. CASE UNCHANGED vars
  BY <1>2, <1>4 DEF vars, Held, Known
<1>5. ASSUME NEW i \in Incs, HotfixGate(i) PROVE Held'
  <2>1. lease' = lease
    BY <1>2, <1>5 DEF HotfixGate, Held
  <2>2. UNCHANGED <<spawn, router, fixing>> /\ pc[i] = "idle" /\ \E l \in {"idle", "gated"} : pc' = [pc EXCEPT ![i] = l]
    BY <1>5 DEF HotfixGate, Goto
  <2>3. \A j \in Incs : (Needs(j)' => Needs(j)) /\ (pc'[j] = "put2" => pc[j] = "put2")
    BY <1>0, <2>2 DEF Needs, Asking, Types
  <2>4. QED
    BY <1>2, <2>1, <2>2, <2>3, LeaseKept
<1>6. ASSUME NEW i \in Incs, GrantLease(i) PROVE Held'
  <2>1. UNCHANGED <<router, fixing, spool, replay>> /\ pc[i] = "gated" /\ spawn' = [spawn EXCEPT ![i] = "requested"]
    BY <1>6 DEF GrantLease
  <2>2. CASE LeaseHeld(i)
    <3>1. lease' = lease /\ pc' = [pc EXCEPT ![i] = "idle"]
      BY <1>6, <2>2 DEF GrantLease, Goto
    <3>2. \A j \in Incs : (Needs(j)' => Needs(j)) /\ (pc'[j] = "put2" => pc[j] = "put2")
      BY <1>0, <2>1, <3>1 DEF Needs, Asking, Types
    <3>3. QED
      BY <1>2, <2>1, <3>1, <3>2, LeaseKept
  <2>3. CASE ~LeaseHeld(i)
    <3>1. lease' = [holder |-> i, live |-> TRUE] /\ pc' = [pc EXCEPT ![i] = "granted"]
      BY <1>6, <2>3 DEF GrantLease, Goto
    <3>2. lease.holder \in {"none", i}
      BY <1>2, <2>3 DEF LeaseHeld, Held
    <3>3. \A j \in Incs \ {i} : ~Needs(j)
      BY <1>2, <3>2 DEF Held, Needs, Sane
    <3>4. \A j \in Incs : Needs(j)' => j = i
      BY <1>0, <2>1, <3>1, <3>3 DEF Needs, Types
    <3>5. \A j \in Incs : pc'[j] = "put2" => pc[j] = "put2"
      BY <1>0, <3>1 DEF Types
    <3>6. \A j \in Incs : lease.holder = j => j = i
      BY <3>2 DEF Sane
    <3>7. \A e \in Known : e.key \in Incs
      BY <1>0 DEF Types, Known, Entry
    <3>8. Known' = Known
      BY <2>1 DEF Known
    <3>9. QED
      BY <1>2, <2>1, <3>1, <3>4, <3>5, <3>6, <3>7, <3>8 DEF Held, Needs
  <2>4. QED
    BY <2>2, <2>3
<1>7. ASSUME NEW i \in Incs, LockRepo(i) PROVE Held'
  <2>1. lease.holder = i
    BY <1>2, <1>7 DEF LockRepo, Held, Asking
  <2>2. ~(mutex \notin {"free", i})
    BY <1>0, <1>2, <2>1 DEF Mutexed, Held, Types
  <2>3. UNCHANGED <<lease, spawn, router, fixing>> /\ pc' = [pc EXCEPT ![i] = "call"]
    BY <1>7, <2>2 DEF LockRepo, Goto
  <2>4. \A j \in Incs : (Needs(j)' => Needs(j) \/ lease.holder = j) /\ (pc'[j] = "put2" => pc[j] = "put2")
    BY <1>0, <2>1, <2>3 DEF Needs, Types
  <2>5. QED
    BY <1>2, <2>3, <2>4, LeaseKept
<1>8. ASSUME NEW i \in Incs, RequestSpawn(i) PROVE Held'
  <2>1. lease.holder = i
    BY <1>2, <1>8 DEF RequestSpawn, Held, Asking
  <2>2. UNCHANGED <<lease, spawn>> /\ router \subseteq router' /\ fixing' \subseteq fixing \cup {i}
    BY <1>8 DEF RequestSpawn, Attempt
  <2>3. \E l \in {"taken", "put1"} : pc' = [pc EXCEPT ![i] = l]
    BY <1>8 DEF RequestSpawn, Goto
  <2>4. \A j \in Incs : (Needs(j)' => Needs(j) \/ lease.holder = j) /\ (pc'[j] = "put2" => pc[j] = "put2")
    BY <1>0, <2>1, <2>2, <2>3 DEF Needs, Types
  <2>5. QED
    BY <1>2, <2>2, <2>4, LeaseKept
<1>9. ASSUME NEW i \in Incs, SpoolWrite(i) PROVE Held'
  <2>1. UNCHANGED <<lease, spawn, router, fixing>>
    BY <1>9 DEF SpoolWrite
  <2>2. \/ pc[i] = "put1" /\ pc' = [pc EXCEPT ![i] = "rec1"]
        \/ pc[i] = "put2" /\ pc' = [pc EXCEPT ![i] = "rec2"]
    BY <1>9 DEF SpoolWrite, Goto
  <2>3. \A j \in Incs : (Needs(j)' => Needs(j)) /\ (pc'[j] = "put2" => pc[j] = "put2")
    BY <1>0, <2>1, <2>2 DEF Needs, Types, Asking
  <2>4. QED
    BY <1>2, <2>1, <2>3, LeaseKept
<1>10. ASSUME NEW i \in Incs, SpoolRecords(i) PROVE Held'
  <2>1. UNCHANGED <<lease, spawn, router, fixing>>
    BY <1>10 DEF SpoolRecords
  <2>2. \/ pc[i] = "rec1" /\ pc' = [pc EXCEPT ![i] = "refused"]
        \/ pc[i] = "rec2" /\ pc' = [pc EXCEPT ![i] = "idle"]
    BY <1>10 DEF SpoolRecords, Goto
  <2>3. \A j \in Incs : (Needs(j)' => Needs(j)) /\ (pc'[j] = "put2" => pc[j] = "put2")
    BY <1>0, <2>1, <2>2 DEF Needs, Types, Asking
  <2>4. QED
    BY <1>2, <2>1, <2>3, LeaseKept
<1>11. ASSUME NEW i \in Incs, Answered(i) PROVE Held'
  <2>1. lease.holder = i /\ pc[i] \in Asking
    BY <1>2, <1>11 DEF Answered, Held, Asking
  <2>2. lease.live
    BY <1>2, <2>1 DEF Held, Sane
  <2>3. lease' = lease
    BY <1>3, <1>11, <2>1, <2>2 DEF Answered
  <2>4. UNCHANGED <<router, fixing>> /\ (\E l \in {"put2", "idle"} : pc' = [pc EXCEPT ![i] = l])
        /\ \E st \in {"pending", "leased"} : spawn' = [spawn EXCEPT ![i] = st]
    BY <1>11 DEF Answered, Goto
  <2>5. \A j \in Incs \ {i} : pc'[j] = pc[j] /\ spawn'[j] = spawn[j]
    BY <1>0, <2>4 DEF Types
  <2>6. \A j \in Incs : (Needs(j)' => Needs(j) \/ lease.holder = j) /\ (pc'[j] = "put2" => pc[j] \in Asking \cup {"put2"})
    BY <2>1, <2>4, <2>5 DEF Needs
  <2>7. QED
    BY <1>2, <2>3, <2>4, <2>6, LeaseKept
<1>12. ASSUME NEW i \in Incs, Promote(i) \/ Rollback(i) PROVE Held'
  <2>1. pc[i] = "idle" /\ i \in router /\ lease.holder \in {"none", i}
    BY <1>12 DEF Promote, Rollback, FreeLease
  <2>2. UNCHANGED <<pc, router, spool, replay>> /\ fixing' = fixing \ {i} /\ lease' = NoLease
        /\ \E st \in {"promoted", "discarded"} : spawn' = [spawn EXCEPT ![i] = st]
    BY <1>12 DEF Promote, Rollback, FreeLease
  <2>3. \A j \in Incs : Needs(j) => j = i
    BY <1>2, <2>1 DEF Held, Needs, Sane
  <2>4. \A j \in Incs : ~Needs(j)'
    BY <1>0, <2>1, <2>2, <2>3 DEF Needs, Asking, Types
  <2>5. \A j \in Incs : pc[j] = "put2" => j \in router
    BY <1>2, <2>1 DEF Held, Sane
  <2>6. \A e \in Known : e.key \in Incs
    BY <1>0 DEF Types, Known, Entry
  <2>7. \A e \in Known : e.key \in router
    BY <1>2, <2>1, <2>6 DEF Held, Sane
  <2>8. QED
    BY <2>2, <2>4, <2>5, <2>7 DEF Held, Needs, Known, NoLease
<1>13. CASE Deliver
  <2>1. replay.cur \in Known
    BY <1>13 DEF Deliver, Known
  <2>2. UNCHANGED <<lease, spawn, pc>> /\ router \subseteq router'
    BY <1>13 DEF Deliver, Quiet, Attempt
  <2>3. fixing' \subseteq fixing \cup ({replay.cur.key} \ router)
    BY <1>13 DEF Deliver, Attempt
  <2>4. \A j \in Incs : Needs(j)' => Needs(j) \/ lease.holder = j
    BY <1>2, <2>1, <2>2, <2>3 DEF Needs, Held
  <2>5. QED
    BY <1>2, <2>2, <2>4, LeaseKept
<1>14. CASE List \/ Take \/ DropRecords \/ Due
  <2>1. UNCHANGED <<lease, spawn, pc, router, fixing>>
    BY <1>14 DEF List, Take, DropRecords, Due, Quiet
  <2>2. \A j \in Incs : Needs(j)' => Needs(j)
    BY <2>1 DEF Needs
  <2>3. QED
    BY <1>2, <2>1, <2>2, LeaseKept
<1>15. CASE Lapse \/ Restart
  BY <1>15 DEF Lapse, Restart
<1>16. QED
  BY <1>4, <1>5, <1>6, <1>7, <1>8, <1>9, <1>10, <1>11, <1>12, <1>13, <1>14, <1>15, NextIsSteps DEF Steps

(* One fix per signature: as long as no lease lapsed, no restart forgot    *)
(* them and no decision freed the lease of another or of a dispatch yet to *)
(* arrive, no two incidents have a fix under way or are asking for one,    *)
(* whatever the gates let through at once and however often the queue      *)
(* replays what was already accepted (grantLease, Spawn, replayOne).       *)
THEOREM OneFixHolds == Sane => (Spec => []OneFixPerSig)
<1> SUFFICES ASSUME Sane PROVE Spec => []OneFixPerSig
  OBVIOUS
<1>1. Init => LInv
  BY DEF Init, LInv, Mutexed, Accepted, Held, Known, NoLease, NoReplay, Asking
<1>2. EInv /\ LInv /\ [Next]_vars => LInv'
  BY StepMutexed, StepAccepted, StepHeld DEF EInv, LInv
<1>3. EInv /\ LInv => OneFixPerSig
  <2> SUFFICES ASSUME EInv, LInv, ~broken PROVE OneFixPerSig
    BY DEF OneFixPerSig
  <2> DEFINE S == fixing \cup {i \in Incs : pc[i] \in {"call", "put1", "rec1", "taken"}}
  <2>1. S \in SUBSET {lease.holder}
    BY DEF LInv, Held, EInv, Types, Asking
  <2>2. IsFiniteSet({lease.holder}) /\ Cardinality({lease.holder}) = 1
    BY FS_Singleton
  <2>3. Cardinality(S) <= 1
    BY <2>1, <2>2, Smaller
  <2>4. QED
    BY <2>3 DEF OneFixPerSig
<1>4. Spec => []EInv
  BY EInvHolds
<1>5. QED
  BY <1>1, <1>2, <1>3, <1>4, PTL DEF Spec
=============================================================================
