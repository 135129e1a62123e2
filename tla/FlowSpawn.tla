----------------------------- MODULE FlowSpawn -----------------------------
(***************************************************************************)
(* Hot-fix spawns (internal/flow) of one signature in one repository: the  *)
(* gates, the one-fix-per-signature lease, the repository's mutex, the     *)
(* dispatch to the task router, the durable queue that a failed or         *)
(* unfinished dispatch waits in, its replay loop, promotion, rollback and  *)
(* a restart, which keeps the queue and forgets the rest.                  *)
(*                                                                         *)
(* A dispatch is keyed by the incident's board row, so the key is the      *)
(* incident here; the router takes a key once and answers a second one     *)
(* with 409, a success.  Waits, leases and time-to-live elapse at any      *)
(* time, and the queue's next_try order is left open.                      *)
(***************************************************************************)
EXTENDS Naturals, FiniteSets

CONSTANTS
  Incs,           \* incidents of the signature
  Worktrees,      \* of BOOLEAN: whether the router may report, or not report, a worktree
  MaxConcurrent,  \* hotfix.max_concurrent
  SpoolMax,       \* MaxEntries of the queue
  MaxAttempts,    \* MaxAttempts of a queued dispatch
  MaxCalls, MaxFaults, MaxCrashes   \* bounds

VARIABLES
  lease,    \* the signature's lease: [holder, live], holder "none" when there is none
  spawn,    \* spawn[i]: the state of the incident's spawn in memory
  trees,    \* incidents whose spawn has a worktree
  pc,       \* pc[i]: how far the incident's Spawn call has come
  mutex,    \* the holder of the repository's mutex
  spool,    \* queued dispatches [id, key, tries, due]
  back,     \* entries written back after their eviction, since the last put
  written,  \* the entries' ids given out
  replay,   \* the replay loop: [list, cur, claimed]
  owed,     \* owed[a]: evicted entries actor a has yet to record
  router,   \* keys the router has accepted
  fixing,   \* incidents whose dispatch was accepted and whose fix has not ended
  hist,     \* history: [done, dropped, forgot]
  broken,   \* history: the lease was lost, or freed on the word of one it did not serve
  calls, faults, crashes

vars == <<lease, spawn, trees, pc, mutex, spool, back, written, replay, owed, router, fixing, hist, broken,
          calls, faults, crashes>>

NoLease == [holder |-> "none", live |-> FALSE]
NoEntry == [id |-> 0, key |-> "none", tries |-> 0, due |-> FALSE]
Actors == Incs \cup {"loop"}
NoReplay == [list |-> {}, cur |-> NoEntry, claimed |-> {}]

Memory ==
  /\ lease' = NoLease /\ spawn' = [i \in Incs |-> "none"] /\ trees' = {} /\ pc' = [i \in Incs |-> "idle"]
  /\ mutex' = "free" /\ replay' = NoReplay /\ owed' = [a \in Actors |-> {}]

Init ==
  /\ lease = NoLease /\ spawn = [i \in Incs |-> "none"] /\ trees = {} /\ pc = [i \in Incs |-> "idle"]
  /\ mutex = "free" /\ replay = NoReplay /\ owed = [a \in Actors |-> {}]
  /\ spool = {} /\ back = 0 /\ written = 0 /\ router = {} /\ fixing = {}
  /\ hist = [done |-> {}, dropped |-> {}, forgot |-> {}] /\ broken = FALSE
  /\ calls = 0 /\ faults = 0 /\ crashes = 0

Goto(i, l) == pc' = [pc EXCEPT ![i] = l]

(* ------------------------------ the gates ------------------------------- *)

(* Spawns a foreman is known to work on.                                   *)
Concurrent == Cardinality({i \in Incs : spawn[i] = "leased"})

(* leaseHeld: an own or a lapsed lease is no obstacle; the latter goes.    *)
LeaseHeld(i) == lease.holder \notin {"none", i} /\ lease.live

(* hotfixGate, read before anything is taken.                              *)
HotfixGate(i) ==
  /\ pc[i] = "idle" /\ spawn[i] \notin {"leased", "pending"} /\ calls < MaxCalls /\ calls' = calls + 1
  /\ lease' = IF lease.holder \notin {"none", i} /\ ~lease.live THEN NoLease ELSE lease
  /\ Goto(i, IF LeaseHeld(i) \/ Concurrent >= MaxConcurrent THEN "idle" ELSE "gated")
  /\ UNCHANGED <<spawn, trees, mutex, spool, back, written, replay, owed, router, fixing, hist, broken, faults, crashes>>

(* A mutant: the lease is taken on the word of the gate.                   *)
GrantLease_Gated(i) ==
  /\ pc[i] = "gated" /\ spawn' = [spawn EXCEPT ![i] = "requested"] /\ trees' = trees \ {i}
  /\ lease' = [holder |-> i, live |-> TRUE] /\ Goto(i, "granted")
  /\ UNCHANGED <<mutex, spool, back, written, replay, owed, router, fixing, hist, broken, calls, faults, crashes>>

(* The spawn is remembered and the lease taken, looked at once more.       *)
GrantLease(i) ==
  /\ pc[i] = "gated" /\ spawn' = [spawn EXCEPT ![i] = "requested"] /\ trees' = trees \ {i}
  /\ IF LeaseHeld(i) THEN Goto(i, "idle") /\ UNCHANGED lease
                     ELSE lease' = [holder |-> i, live |-> TRUE] /\ Goto(i, "granted")
  /\ UNCHANGED <<mutex, spool, back, written, replay, owed, router, fixing, hist, broken, calls, faults, crashes>>

(* The repository's mutex, or the wait for it timing out, which gives up   *)
(* whatever lease the signature has.                                       *)
LockRepo(i) ==
  /\ pc[i] = "granted"
  /\ \/ mutex = "free" /\ mutex' = i /\ Goto(i, "call") /\ UNCHANGED lease
     \/ mutex \notin {"free", i} /\ Goto(i, "idle") /\ lease' = NoLease /\ UNCHANGED mutex
  /\ UNCHANGED <<spawn, trees, spool, back, written, replay, owed, router, fixing, hist, broken, calls, faults, crashes>>

(* ----------------------------- the dispatch ----------------------------- *)

(* attempt: accepted (a second time too), accepted with the answer lost,   *)
(* or refused.                                                             *)
Attempt(k, ok) ==
  \/ ok /\ router' = router \cup {k} /\ fixing' = fixing \cup ({k} \ router) /\ UNCHANGED faults
  \/ /\ ~ok /\ faults < MaxFaults /\ faults' = faults + 1
     /\ \/ router' = router \cup {k} /\ fixing' = fixing \cup ({k} \ router)
        \/ UNCHANGED <<router, fixing>>

(* requestSpawn: DispatchSpawn queues a failed dispatch itself, and Spawn  *)
(* then queues it again.                                                   *)
RequestSpawn(i) ==
  /\ pc[i] = "call"
  /\ \E ok \in BOOLEAN : Attempt(i, ok) /\ Goto(i, IF ok THEN "taken" ELSE "put1")
  /\ UNCHANGED <<lease, spawn, trees, mutex, spool, back, written, replay, owed, hist, broken, calls, crashes>>

(* How many entries Put must evict.                                        *)
Over == Cardinality(spool) + 1 - SpoolMax

(* Put: evict, then write the new entry, both under the queue's lock; the  *)
(* write may fail after the eviction.  The evictions are recorded later.   *)
Put(a, k) ==
  \E out \in {s \in SUBSET spool : Cardinality(s) = IF Over > 0 THEN Over ELSE 0} :
    /\ owed' = [owed EXCEPT ![a] = {e.id : e \in out}] /\ back' = 0
    /\ \/ /\ written' = written + 1 /\ UNCHANGED faults
          /\ spool' = (spool \ out) \cup {[id |-> written + 1, key |-> k, tries |-> 0, due |-> FALSE]}
       \/ /\ faults < MaxFaults /\ faults' = faults + 1 /\ spool' = spool \ out /\ UNCHANGED written

(* One record per evicted entry.                                           *)
RecordDrops(a) ==
  /\ owed' = [owed EXCEPT ![a] = {}]
  /\ hist' = [hist EXCEPT !.dropped = @ \cup owed[a]]

(* spoolWrite, from the dispatch ("put1") and from Spawn ("put2").         *)
SpoolWrite(i) ==
  /\ pc[i] \in {"put1", "put2"} /\ Put(i, i)
  /\ Goto(i, IF pc[i] = "put1" THEN "rec1" ELSE "rec2")
  /\ UNCHANGED <<lease, spawn, trees, mutex, replay, router, fixing, hist, broken, calls, crashes>>
SpoolRecords(i) ==
  /\ pc[i] \in {"rec1", "rec2"} /\ RecordDrops(i)
  /\ Goto(i, IF pc[i] = "rec1" THEN "refused" ELSE "idle")
  /\ UNCHANGED <<lease, spawn, trees, mutex, spool, back, written, replay, router, fixing, broken, calls, faults, crashes>>

(* The rest of Spawn: unlock; a refused dispatch is pending; an accepted   *)
(* one renews the lease in the caller's name, and without a worktree is    *)
(* pending, and queued, as well.                                           *)
Answered(i) ==
  /\ pc[i] \in {"taken", "refused"} /\ mutex' = "free"
  /\ \/ /\ pc[i] = "refused" /\ Goto(i, "put2") /\ spawn' = [spawn EXCEPT ![i] = "pending"]
        /\ UNCHANGED <<lease, trees>>
     \/ /\ pc[i] = "taken" /\ lease' = [holder |-> i, live |-> TRUE]
        /\ \/ TRUE \in Worktrees /\ spawn' = [spawn EXCEPT ![i] = "leased"] /\ Goto(i, "idle") /\ trees' = trees \cup {i}
           \/ FALSE \in Worktrees /\ spawn' = [spawn EXCEPT ![i] = "pending"] /\ Goto(i, "put2") /\ UNCHANGED trees
  /\ UNCHANGED <<spool, back, written, replay, owed, router, fixing, hist, broken, calls, faults, crashes>>

(* One step of a Spawn call.                                               *)
Spawn(i) ==
  GrantLease(i) \/ LockRepo(i) \/ RequestSpawn(i) \/ SpoolWrite(i) \/ SpoolRecords(i) \/ Answered(i)

(* A decision frees the signature's lease, whoever holds it.  Where that   *)
(* is another's, or the decided dispatch is still on its way to the        *)
(* router, the lease has nothing more to say about how many fixes run.     *)
FreeLease(i) ==
  /\ lease' = NoLease
  /\ broken' = (broken \/ i \notin router \/ lease.holder \notin {"none", i})

(* Promote, and Rollback of a spawn that has a worktree: any spawn that is *)
(* remembered will do, decided before or not, accepted or not.  The caller *)
(* has the spawn's id once the Spawn call has returned.                    *)
Promote(i) ==
  /\ pc[i] = "idle" /\ spawn[i] # "none"
  /\ \E s \in {"promoted", "discarded"} : spawn' = [spawn EXCEPT ![i] = s]
  /\ fixing' = fixing \ {i} /\ FreeLease(i)
  /\ UNCHANGED <<trees, pc, mutex, spool, back, written, replay, owed, router, hist, calls, faults, crashes>>
Rollback(i) ==
  /\ pc[i] = "idle" /\ i \in trees /\ spawn' = [spawn EXCEPT ![i] = "discarded"]
  /\ fixing' = fixing \ {i} /\ FreeLease(i)
  /\ UNCHANGED <<trees, pc, mutex, spool, back, written, replay, owed, router, hist, calls, faults, crashes>>

(* ------------------------------- the replay ----------------------------- *)

Quiet == UNCHANGED <<lease, spawn, trees, pc, mutex, written, broken, calls, crashes>>

(* Replay lists the queue once and works on the copies that are due; one   *)
(* past its time-to-live (72 h, a wait is at most 5 min) soon is.          *)
List ==
  /\ replay.list = {} /\ replay.cur = NoEntry /\ owed["loop"] = {} /\ \E e \in spool : e.due
  /\ replay' = [replay EXCEPT !.list = {e \in spool : e.due}]
  /\ Quiet /\ UNCHANGED <<spool, back, owed, router, fixing, hist, faults>>

Without(e) == {x \in spool : x.id # e.id}

(* An entry past its time-to-live is dropped, one whose key is claimed is  *)
(* passed over, the next is claimed.                                       *)
Take ==
  \E e \in replay.list :
    /\ replay.cur = NoEntry /\ owed["loop"] = {}
    /\ \/ /\ e.key \notin replay.claimed /\ UNCHANGED <<spool, owed>>
          /\ replay' = [replay EXCEPT !.list = @ \ {e}, !.cur = e, !.claimed = @ \cup {e.key}]
       \/ /\ e.key \in replay.claimed /\ UNCHANGED <<spool, owed>>
          /\ replay' = [replay EXCEPT !.list = @ \ {e}]
       \/ /\ replay' = [replay EXCEPT !.list = @ \ {e}]
          /\ spool' = Without(e) /\ owed' = [owed EXCEPT !["loop"] = {e.id}]
    /\ Quiet /\ UNCHANGED <<back, router, fixing, hist, faults>>

(* The claim is released however the attempt ended.                        *)
Release(ok) == replay.claimed \ {replay.cur.key}

(* The attempt and what follows: a delivered entry is deleted, a failed    *)
(* one dropped at its last try and otherwise written back, evicted in the  *)
(* meantime or not.                                                        *)
Deliver ==
  LET e == replay.cur IN
  /\ e # NoEntry
  /\ \E ok \in BOOLEAN :
       /\ Attempt(e.key, ok)
       /\ replay' = [replay EXCEPT !.cur = NoEntry, !.claimed = Release(ok)]
       /\ \/ /\ ok /\ spool' = Without(e)
             /\ hist' = [hist EXCEPT !.done = @ \cup {<<e.id, e.key>>}] /\ UNCHANGED <<owed, back>>
          \/ /\ ~ok /\ e.tries + 1 >= MaxAttempts /\ spool' = Without(e)
             /\ owed' = [owed EXCEPT !["loop"] = {e.id}] /\ UNCHANGED <<hist, back>>
          \/ /\ ~ok /\ e.tries + 1 < MaxAttempts /\ UNCHANGED <<hist, owed>>
             /\ spool' = Without(e) \cup {[e EXCEPT !.tries = @ + 1, !.due = FALSE]}
             /\ back' = IF Without(e) = spool THEN back + 1 ELSE back
  /\ Quiet

DropRecords ==
  /\ owed["loop"] # {} /\ RecordDrops("loop")
  /\ Quiet /\ UNCHANGED <<spool, back, replay, router, fixing, faults>>

Replay == List \/ Take \/ Deliver \/ DropRecords

(* --------------------------- time and restart --------------------------- *)

(* An entry's next_try comes.                                              *)
Due ==
  /\ \E e \in spool : ~e.due /\ spool' = (spool \ {e}) \cup {[e EXCEPT !.due = TRUE]}
  /\ UNCHANGED <<lease, spawn, trees, pc, mutex, back, written, replay, owed, router, fixing, hist, broken, calls, faults, crashes>>

(* A lease reaches its expiry.                                             *)
Lapse ==
  /\ lease.live /\ lease' = [lease EXCEPT !.live = FALSE] /\ broken' = TRUE
  /\ UNCHANGED <<spawn, trees, pc, mutex, spool, back, written, replay, owed, router, fixing, hist, calls, faults, crashes>>

(* The daemon goes down and comes back: leases, spawns and the in-memory   *)
(* queue are not rebuilt, so Reconcile has nothing to look at.             *)
Restart ==
  /\ crashes < MaxCrashes /\ crashes' = crashes + 1 /\ Memory
  /\ broken' = TRUE /\ hist' = [hist EXCEPT !.forgot = @ \cup UNION {owed[a] : a \in Actors}]
  /\ UNCHANGED <<spool, back, written, router, fixing, calls, faults>>

Next ==
  \/ \E i \in Incs : HotfixGate(i) \/ Spawn(i) \/ Promote(i) \/ Rollback(i)
  \/ Replay \/ Due \/ Lapse \/ Restart

Spec == Init /\ [][Next]_vars

(* ------------------------------ properties ------------------------------ *)

TypeOK ==
  /\ lease \in [holder : Incs \cup {"none"}, live : BOOLEAN] /\ mutex \in Incs \cup {"free"}
  /\ spawn \in [Incs -> {"none", "requested", "pending", "leased", "promoted", "discarded"}]
  /\ trees \subseteq Incs /\ back \in Nat /\ broken \in BOOLEAN
  /\ \A e \in spool : e.key \in Incs /\ e.tries < MaxAttempts /\ e.id \in 1..written

(* One fix per signature: as long as no lease lapsed, no restart forgot    *)
(* them and no decision freed the lease of another or of a dispatch yet to *)
(* arrive, the incidents a fix is under way for, or is being asked for,    *)
(* are never two (hotfix.go grantLease, §3.9's one-fix-per-sig).           *)
OneFixPerSig ==
  broken \/ Cardinality(fixing \cup {i \in Incs : pc[i] \in {"call", "put1", "rec1", "taken"}}) <= 1

(* Nothing queued is lost in silence: an entry once written is queued,     *)
(* delivered to a router that has its key, recorded as dropped, or about   *)
(* to be; only a restart between an eviction and its record forgets one.   *)
Accounted ==
  \A n \in 1..written :
    \/ n \in {e.id : e \in spool} \cup hist.dropped \cup hist.forgot
    \/ \E a \in Actors : n \in owed[a]
    \/ \E d \in hist.done : d[1] = n /\ d[2] \in router

(* The whole queue is over its bound by no more than the entries that the  *)
(* replay loop wrote back, after a put had evicted them, since the last    *)
(* put, which takes the excess away again (spool.go Put, replay.go         *)
(* Update).                                                                *)
QueueBound == Cardinality(spool) <= SpoolMax + back

(* The queue drains: the loop runs on and every entry is delivered or used *)
(* up (to be checked as <>[]Drained).                                      *)
Drained == spool = {}
=============================================================================
