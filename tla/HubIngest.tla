----------------------------- MODULE HubIngest -----------------------------
(***************************************************************************)
(* The light-hub ingestion path (internal/hub): a sender's event is        *)
(* claimed at the dedup gate, enqueued on a Redis stream and answered when *)
(* the one consumer has appended it to the ledger and told the door.  The  *)
(* consumer acknowledges an entry only after the append.  A supervisor     *)
(* probes the queue and wires it anew: a new gate, warmed from the         *)
(* ledger's tail and trusted for failover_grace, a new door and a new      *)
(* consumer.                                                               *)
(*                                                                         *)
(* The hub's process may crash, Redis may be unreachable, come back empty  *)
(* or lose a claim, and an append may fail or outlive its caller.  Time is *)
(* abstracted to what it ends: a wait, the trust window, and the idleness  *)
(* XAUTOCLAIM asks for.                                                    *)
(***************************************************************************)
EXTENDS Naturals, FiniteSets, Sequences

CONSTANTS
  Senders, Keys,
  KeyOf,          \* KeyOf[s]: the idempotency key of the sender's event
  BatchRecs,      \* server.redis.batch_records
  RequireRedis,   \* server.redis.require_redis
  Faults,         \* which faults may happen
  MaxFaults,      \* bound: faults and crashes
  MaxTries,       \* bound: offers per sender
  MaxEntries      \* bound: entries ever added

VARIABLES
  redis,   \* the server: up, group, todo, pel, old and the claims
  hub,     \* the runtime: mode, gate and door
  cons,    \* the consumer's loop
  offer,   \* offer[s]: the call of Offer the sender is in
  ledger,  \* ledger[k]: how many records of the event the ledger has
  direct,  \* events the standalone path recorded
  bad,     \* keys whose entry DecodeEntry refuses, chosen at the start
  late,    \* records in the ledger's queue whose caller has left
  dead,    \* keys on the dead-letter stream
  acked,   \* history: keys of entries the consumer acknowledged
  spent    \* faults that happened, entries added

vars == <<redis, hub, cons, offer, ledger, direct, bad, late, dead, acked, spent>>

None == "none"
Phases == {None, "enqueued", "appended"}
Lost == IF RequireRedis THEN "refusing" ELSE "unavailable"

Batch(seq) == {seq[n] : n \in DOMAIN seq}
Keyed(ents) == {e.key : e \in ents}
Quiet == [run |-> FALSE, pc |-> "read", batch |-> <<>>, done |-> {}]
NoOffer == [pc |-> "idle", id |-> 0, wire |-> 0, ans |-> None, told |-> None, tries |-> 0]
Empty == [k \in Keys |-> None]

Fault(f) ==
  /\ f \in Faults /\ spent.faults < MaxFaults
  /\ spent' = [spent EXCEPT !.faults = @ + 1]

(* ------------------------------ the gate -------------------------------- *)

Trusted(k) == k \in hub.trust

(* DedupGate.State: the restored index while it is trusted, the LRU while  *)
(* degraded, else Redis.                                                   *)
State(k) ==
  IF Trusted(k) THEN "appended"
  ELSE IF hub.degraded \/ ~redis.up THEN hub.lru[k]
  ELSE redis.claim[k]

(* Whether a gate operation that asks Redis leaves the gate degraded.      *)
Degrades == hub.degraded \/ ~redis.up

(* lruPhases.put: `appended` dominates.                                    *)
Put(lru, k, ph) == IF lru[k] = "appended" THEN lru ELSE [lru EXCEPT ![k] = ph]

(* DedupGate.Claim's answer: SET NX in Redis, the LRU when that fails.     *)
Fresh(k) == ~Trusted(k) /\ (IF redis.up THEN redis.claim[k] ELSE hub.lru[k]) = None

(* Restore, from the keys rewarmGate finds in the ledger's tail.           *)
Warmed(h) ==
  [h EXCEPT !.degraded = FALSE, !.trust = h.indexed,
            !.lru = [k \in Keys |-> IF k \in h.indexed THEN "appended" ELSE None]]

(* Mutant: the claim stays `enqueued` once the record is in the ledger.    *)
MarkAppended_Forgets(k) ==
  /\ hub' = [hub EXCEPT !.lru = Put(hub.lru, k, "appended"), !.degraded = Degrades]
  /\ UNCHANGED redis

(* MarkAppended: the phase in the LRU, and in Redis unless degraded.       *)
MarkAppended(k) ==
  /\ hub' = [hub EXCEPT !.lru = Put(hub.lru, k, "appended"), !.degraded = Degrades]
  /\ redis' = IF Degrades THEN redis ELSE [redis EXCEPT !.claim[k] = "appended"]

(* Release: the claim of an event that did not reach the stream.           *)
Release(k, h) ==
  /\ hub' = [h EXCEPT !.lru[k] = None, !.degraded = Degrades]
  /\ redis' = IF Degrades THEN redis ELSE [redis EXCEPT !.claim[k] = None]

(* ------------------------------ the door -------------------------------- *)

Reply(s, told) == offer' = [offer EXCEPT ![s] = [NoOffer EXCEPT !.told = told, !.tries = offer[s].tries + 1]]

(* markLost: an attributable queue failure moves `up` to the lost mode.    *)
MarkLost(h) == IF h.mode = "up" THEN [h EXCEPT !.mode = Lost] ELSE h

(* Ingest in ModeUp, up to Claim's answer.  An event already claimed is    *)
(* confirmed at once; a fresh one goes on to the stream.                   *)
Claim(s) ==
  LET k == KeyOf[s] IN
  /\ hub.mode = "up" /\ offer[s].pc = "idle" /\ offer[s].tries < MaxTries
  /\ IF Trusted(k) THEN UNCHANGED <<hub, redis>>
     ELSE /\ hub' = [hub EXCEPT !.lru = Put(hub.lru, k, "enqueued"), !.degraded = ~redis.up]
          /\ redis' = IF redis.up /\ Fresh(k) THEN [redis EXCEPT !.claim[k] = "enqueued"] ELSE redis
  /\ IF Fresh(k) THEN offer' = [offer EXCEPT ![s].pc = "claimed", ![s].wire = hub.wire, ![s].told = None]
     ELSE Reply(s, "confirmed")
  /\ UNCHANGED <<cons, ledger, direct, late, dead, acked, spent>>

(* EnqueueEntry: XADD.  A stream without its group takes the entry too,    *)
(* and a group made later starts after it.                                 *)
Enqueue(s) ==
  LET e == [id |-> spent.entries + 1, key |-> KeyOf[s]] IN
  /\ offer[s].pc = "claimed" /\ redis.up /\ offer[s].wire = hub.wire /\ spent.entries < MaxEntries
  /\ redis' = IF redis.group THEN [redis EXCEPT !.todo = Append(@, e)] ELSE redis
  /\ spent' = [spent EXCEPT !.entries = @ + 1]
  /\ offer' = [offer EXCEPT ![s].pc = "added", ![s].id = e.id]
  /\ UNCHANGED <<hub, cons, ledger, direct, late, dead, acked>>

(* A failed XADD: the claim is given back and the sender refused.  The     *)
(* client of an earlier wiring is closed: it can neither add nor release.  *)
EnqueueFails(s) ==
  /\ offer[s].pc = "claimed"
  /\ \/ ~redis.up /\ offer[s].wire = hub.wire /\ Release(KeyOf[s], MarkLost(hub))
     \/ offer[s].wire # hub.wire /\ hub' = MarkLost(hub) /\ UNCHANGED redis
  /\ Reply(s, "refused")
  /\ UNCHANGED <<cons, ledger, direct, late, dead, acked, spent>>

(* The waiter is registered under the entry's id, and takes the answer     *)
(* parked for it in the meantime.                                          *)
Register(s) ==
  LET mine == {a \in hub.parked : a.id = offer[s].id /\ offer[s].wire = hub.wire} IN
  /\ offer[s].pc = "added"
  /\ offer' = [offer EXCEPT ![s].pc = "wait", ![s].ans = IF mine = {} THEN None ELSE (CHOOSE a \in mine : TRUE).ans]
  /\ hub' = [hub EXCEPT !.parked = @ \ mine]
  /\ UNCHANGED <<redis, cons, ledger, direct, late, dead, acked, spent>>

Answered(s) ==
  /\ offer[s].pc = "wait" /\ offer[s].ans # None
  /\ Reply(s, IF offer[s].ans = "error" THEN "refused" ELSE "confirmed")
  /\ hub' = [hub EXCEPT !.parked = {a \in @ : a.id # offer[s].id}]
  /\ UNCHANGED <<redis, cons, ledger, direct, late, dead, acked, spent>>

(* The door's wait expires, or the sender's request ends: only the first   *)
(* is a loss of the queue.                                                 *)
Timeout(s) ==
  /\ offer[s].pc = "wait"
  /\ Reply(s, "refused")
  /\ \E h \in {hub, MarkLost(hub)} : hub' = [h EXCEPT !.parked = {a \in @ : a.id # offer[s].id}]
  /\ UNCHANGED <<redis, cons, ledger, direct, late, dead, acked, spent>>

(* Ingest in the other modes: the standalone path, which knows no claims,  *)
(* after a degraded boot, and a refusal elsewhere.                         *)
Bypass(s) ==
  /\ hub.mode \in {"boot", "unavailable", "refusing"}
  /\ offer[s].pc = "idle" /\ offer[s].tries < MaxTries
  /\ direct' = IF hub.mode = "boot" THEN direct \cup {KeyOf[s]} ELSE direct
  /\ Reply(s, IF hub.mode = "boot" THEN "confirmed" ELSE "refused")
  /\ UNCHANGED <<redis, hub, cons, ledger, late, dead, acked, spent>>

(* ---------------------------- the consumer ------------------------------ *)

(* Door.Complete: the waiter's answer, or parked where Register looks.     *)
Waiting(e) == {s \in Senders : offer[s].pc = "wait" /\ offer[s].id = e.id /\ offer[s].wire = hub.wire}
Complete(e, ans, h) ==
  IF Waiting(e) # {}
  THEN /\ offer' = [s \in Senders |-> IF s \in Waiting(e) THEN [offer[s] EXCEPT !.ans = ans] ELSE offer[s]]
       /\ hub' = [h EXCEPT !.done = @ \cup {e.id}]
  ELSE /\ hub' = [h EXCEPT !.parked = @ \cup {[id |-> e.id, ans |-> ans]}, !.done = @ \cup {e.id}]
       /\ UNCHANGED offer

Entry == Head(cons.batch)
Advance(c) == [c EXCEPT !.batch = Tail(@), !.done = @ \cup {Entry},
                        !.pc = IF Len(c.batch) = 1 THEN "ack" ELSE "entry"]
Rest == [cons EXCEPT !.pc = "read", !.batch = <<>>, !.done = {}]

(* XREADGROUP >: the next entries nobody was given.                        *)
Read ==
  /\ cons.run /\ cons.pc = "read" /\ redis.up /\ redis.group /\ redis.todo # <<>>
  /\ LET n == IF Len(redis.todo) < BatchRecs THEN Len(redis.todo) ELSE BatchRecs
         b == SubSeq(redis.todo, 1, n)
     IN  /\ cons' = [cons EXCEPT !.pc = "entry", !.batch = b]
         /\ redis' = [redis EXCEPT !.todo = SubSeq(@, n + 1, Len(@)), !.pel = @ \cup Batch(b)]
  /\ UNCHANGED <<hub, offer, ledger, direct, late, dead, acked, spent>>

(* Mutant: only entries of the present wiring's batches are taken back.    *)
Reclaim_OwnOnly ==
  /\ cons.run /\ cons.pc = "read" /\ redis.up /\ redis.group /\ redis.old # {}
  /\ \E e \in redis.old : /\ e.id \in hub.done
                           /\ cons' = [cons EXCEPT !.pc = "entry", !.batch = <<e>>]
                           /\ redis' = [redis EXCEPT !.old = @ \ {e}]
  /\ UNCHANGED <<hub, offer, ledger, direct, late, dead, acked, spent>>

(* XAUTOCLAIM: delivered entries idle for claim_min_idle, the oldest here. *)
Reclaim ==
  /\ cons.run /\ cons.pc = "read" /\ redis.up /\ redis.group /\ redis.old # {}
  /\ \E e \in redis.old : /\ \A x \in redis.old : e.id <= x.id
                           /\ cons' = [cons EXCEPT !.pc = "entry", !.batch = <<e>>]
                           /\ redis' = [redis EXCEPT !.old = @ \ {e}]
  /\ UNCHANGED <<hub, offer, ledger, direct, late, dead, acked, spent>>

(* An XAUTOCLAIM that fails where XPENDING had answered ends the loop: 005.*)
ReclaimFails ==
  /\ cons.run /\ cons.pc = "read" /\ redis.pel # {} /\ Fault("claimfail")
  /\ cons' = Quiet
  /\ UNCHANGED <<redis, hub, offer, ledger, direct, late, dead, acked>>

(* handleEntry up to the append: an undecodable entry is copied to the     *)
(* dead letters, one whose record is in the ledger already is skipped.     *)
Decide ==
  /\ cons.run /\ cons.pc = "entry"
  /\ IF Entry.key \in bad
     THEN /\ redis.up
          /\ dead' = dead \cup {Entry.key}
          /\ cons' = Advance(cons)
          /\ Complete(Entry, "error", hub)
     ELSE /\ LET h == IF Trusted(Entry.key) THEN hub ELSE [hub EXCEPT !.degraded = Degrades]
             IN  IF State(Entry.key) = "appended"
                 THEN cons' = Advance(cons) /\ Complete(Entry, "record", h)
                 ELSE cons' = [cons EXCEPT !.pc = "append"] /\ hub' = h /\ UNCHANGED offer
          /\ UNCHANGED dead
  /\ UNCHANGED <<redis, ledger, direct, late, acked, spent>>

AppendOK ==
  /\ cons.run /\ cons.pc = "append"
  /\ ledger' = [ledger EXCEPT ![Entry.key] = @ + 1]
  /\ hub' = [hub EXCEPT !.indexed = @ \cup {Entry.key}]
  /\ cons' = [cons EXCEPT !.pc = "mark"]
  /\ UNCHANGED <<redis, offer, direct, late, dead, acked, spent>>

Mark ==
  /\ cons.run /\ cons.pc = "mark"
  /\ MarkAppended(Entry.key)
  /\ cons' = [cons EXCEPT !.pc = "complete"]
  /\ UNCHANGED <<offer, ledger, direct, late, dead, acked, spent>>

Completed ==
  /\ cons.run /\ cons.pc = "complete"
  /\ Complete(Entry, "record", hub)
  /\ cons' = Advance(cons)
  /\ UNCHANGED <<redis, ledger, direct, late, dead, acked, spent>>

(* XACK of the entries done; when it fails they stay pending.              *)
Acknowledge ==
  /\ redis' = IF redis.up THEN [redis EXCEPT !.pel = @ \ cons.done, !.old = @ \ cons.done] ELSE redis
  /\ acked' = IF redis.up THEN acked \cup Keyed(cons.done) ELSE acked
  /\ cons' = Rest

(* Mutant: a failing entry is acknowledged with those before it.           *)
EntryFails_AcksAll ==
  /\ cons.run
  /\ \/ cons.pc = "append" /\ Fault("append")
     \/ cons.pc = "entry" /\ Entry.key \in bad /\ ~redis.up /\ UNCHANGED spent
  /\ redis' = IF redis.up THEN [redis EXCEPT !.pel = @ \ Batch(cons.batch)] ELSE redis
  /\ acked' = IF redis.up THEN acked \cup Keyed(Batch(cons.batch)) ELSE acked
  /\ cons' = Rest
  /\ UNCHANGED <<hub, offer, ledger, direct, late, dead>>

(* handleEntry fails: the entries before it are acknowledged, it and those *)
(* behind it stay pending.                                                 *)
EntryFails ==
  /\ cons.run
  /\ \/ cons.pc = "append" /\ Fault("append")
     \/ cons.pc = "entry" /\ Entry.key \in bad /\ ~redis.up /\ UNCHANGED spent
  /\ Acknowledge
  /\ UNCHANGED <<hub, offer, ledger, direct, late, dead>>

Ack ==
  /\ cons.run /\ cons.pc = "ack"
  /\ Acknowledge
  /\ UNCHANGED <<hub, offer, ledger, direct, late, dead, spent>>

(* ------------------- the supervisor, boot and crash --------------------- *)

(* attach: the group made at the stream's end unless it exists, a gate     *)
(* trusted for what the ledger's tail holds, a new door, a new consumer.   *)
Attach ==
  /\ redis' = IF redis.group THEN redis ELSE [redis EXCEPT !.group = TRUE, !.todo = <<>>]
  /\ hub' = [Warmed(hub) EXCEPT !.mode = "up", !.wire = @ + 1, !.parked = {}, !.done = {}]
  /\ cons' = [Quiet EXCEPT !.run = TRUE]

(* superviseOnce finds the queue not live while the mode says up.          *)
ProbeFails ==
  /\ hub.mode = "up" /\ ~(redis.up /\ redis.group)
  /\ hub' = MarkLost(hub)
  /\ UNCHANGED <<redis, cons, offer, ledger, direct, late, dead, acked, spent>>

(* stopConsumer: the loop's context ends.  An append under way returns at  *)
(* once and its record may still land; a mark and an ack are refused.      *)
StopConsumer ==
  /\ hub.mode \in {"unavailable", "refusing"} /\ cons.run
  /\ cons' = Quiet
  /\ late' \in {late, IF cons.pc = "append" THEN late \cup {Entry.key} ELSE late}
  /\ UNCHANGED <<redis, hub, offer, ledger, direct, dead, acked, spent>>

(* reconnect, once the old consumer has stopped.                           *)
Reconnect ==
  /\ hub.mode \in {"boot", "unavailable", "refusing"} /\ ~cons.run
  /\ IF redis.up THEN Attach
     ELSE hub' = [hub EXCEPT !.mode = Lost] /\ UNCHANGED <<redis, cons>>
  /\ UNCHANGED <<offer, ledger, direct, late, dead, acked, spent>>

(* The group is fine and nobody drains it: startConsumer.                  *)
Restart ==
  /\ hub.mode = "up" /\ redis.up /\ redis.group /\ ~cons.run
  /\ cons' = [Quiet EXCEPT !.run = TRUE]
  /\ UNCHANGED <<redis, hub, offer, ledger, direct, late, dead, acked, spent>>

(* Open: without Redis the boot is refused, or degraded.                   *)
Open ==
  /\ hub.mode = "down"
  /\ IF redis.up THEN Attach
     ELSE /\ ~RequireRedis
          /\ hub' = [hub EXCEPT !.mode = "boot"]
          /\ UNCHANGED <<redis, cons>>
  /\ UNCHANGED <<offer, ledger, direct, late, dead, acked, spent>>

(* The daemon dies; calls under way end without an answer.                 *)
Crash ==
  /\ hub.mode # "down" /\ Fault("crash")
  /\ hub' = [hub EXCEPT !.mode = "down", !.degraded = FALSE, !.lru = Empty, !.trust = {},
                        !.parked = {}, !.done = {}]
  /\ cons' = Quiet /\ late' = {}
  /\ offer' = [s \in Senders |-> IF offer[s].pc = "idle" THEN offer[s]
                 ELSE [NoOffer EXCEPT !.told = "refused", !.tries = offer[s].tries + 1]]
  /\ UNCHANGED <<redis, ledger, direct, dead, acked>>

(* ---------------------------- the world --------------------------------- *)

(* failover_grace ends; a delivered entry has been idle for claim_min_idle.*)
TrustEnds ==
  /\ hub.trust # {}
  /\ hub' = [hub EXCEPT !.trust = {}]
  /\ UNCHANGED <<redis, cons, offer, ledger, direct, late, dead, acked, spent>>

Idle(e) ==
  /\ e \in redis.pel \ redis.old
  /\ cons.run => e \notin Batch(cons.batch) \cup cons.done
  /\ redis' = [redis EXCEPT !.old = @ \cup {e}]
  /\ UNCHANGED <<hub, cons, offer, ledger, direct, late, dead, acked, spent>>

(* The ledger's writer lands a record whose caller is gone.                *)
Land(k) ==
  /\ k \in late
  /\ late' = late \ {k}
  /\ ledger' = [ledger EXCEPT ![k] = @ + 1]
  /\ hub' = [hub EXCEPT !.indexed = @ \cup {k}]
  /\ UNCHANGED <<redis, cons, offer, direct, dead, acked, spent>>

RedisDown ==
  /\ redis.up /\ Fault("down")
  /\ redis' = [redis EXCEPT !.up = FALSE]
  /\ UNCHANGED <<hub, cons, offer, ledger, direct, late, dead, acked>>

(* Redis is back, with its data or (a cold server) without.                *)
RedisUp ==
  /\ ~redis.up
  /\ redis' \in {[redis EXCEPT !.up = TRUE]} \cup
       (IF "cold" \in Faults
        THEN {[up |-> TRUE, group |-> FALSE, todo |-> <<>>, pel |-> {}, old |-> {}, claim |-> Empty]} ELSE {})
  /\ UNCHANGED <<hub, cons, offer, ledger, direct, late, dead, acked, spent>>

(* A failover or the TTL takes a claim.                                    *)
ClaimLost(k) ==
  /\ redis.claim[k] # None /\ Fault("claim")
  /\ redis' = [redis EXCEPT !.claim[k] = None]
  /\ UNCHANGED <<hub, cons, offer, ledger, direct, late, dead, acked>>

Init ==
  /\ redis = [up |-> TRUE, group |-> TRUE, todo |-> <<>>, pel |-> {}, old |-> {}, claim |-> Empty]
  /\ hub = [mode |-> "down", degraded |-> FALSE, lru |-> Empty, trust |-> {}, indexed |-> {},
            wire |-> 0, parked |-> {}, done |-> {}]
  /\ cons = Quiet
  /\ offer = [s \in Senders |-> NoOffer]
  /\ ledger = [k \in Keys |-> 0]
  /\ direct = {} /\ bad \in SUBSET Keys /\ late = {} /\ dead = {} /\ acked = {}
  /\ spent = [faults |-> 0, entries |-> 0]

Consume == Read \/ Reclaim \/ Decide \/ AppendOK \/ Mark \/ Completed \/ Ack \/ EntryFails
Supervise == ProbeFails \/ StopConsumer \/ Reconnect \/ Restart
Call(s) == Enqueue(s) \/ EnqueueFails(s) \/ Register(s) \/ Answered(s) \/ Timeout(s)

Step ==
  \/ \E s \in Senders : Claim(s) \/ Call(s) \/ Bypass(s)
  \/ Consume \/ ReclaimFails \/ Supervise \/ Open \/ Crash
  \/ TrustEnds \/ \E e \in redis.pel : Idle(e)
  \/ \E k \in Keys : Land(k) \/ ClaimLost(k)
  \/ RedisDown \/ RedisUp

Next == Step /\ UNCHANGED bad

Spec == Init /\ [][Next]_vars

-----------------------------------------------------------------------------
(* What the consumer has acknowledged is out of Redis's hands; by then it  *)
(* is in the ledger or on the dead-letter stream, whatever failed on the   *)
(* way (runBatch acknowledges only what handleEntry finished).             *)
AckedIsRecorded == \A k \in acked : ledger[k] > 0 \/ k \in dead

(* The consumer may finish an entry before the door has registered who     *)
(* waits for it: whichever comes first, the waiter gets the answer         *)
(* (Door.Complete, Door.register).                                         *)
NoLostAnswer ==
  \A s \in Senders : offer[s].pc = "wait" /\ offer[s].wire = hub.wire /\ offer[s].id \in hub.done
                        => offer[s].ans # None

(* An event may be recorded twice, and each time has its cause: a fault or *)
(* a new wiring of the queue.  Redelivery alone adds nothing, because the  *)
(* claim says `appended` (DedupGate.State, MarkAppended).                  *)
DuplicatesPriced == \A k \in Keys : ledger[k] <= hub.wire + spent.faults

(* What SPEC-13 says of redelivery: zero new records, however often.       *)
Once == \A k \in Keys : ledger[k] <= 1

(* Every entry is acknowledged in the end, those of a dead consumer too    *)
(* (Consumer.reclaim).                                                     *)
Drained == redis.pel = {} /\ redis.todo = <<>>
Drains == <>[]Drained

(* A queue that was lost is wired again (Runtime.supervise, reconnect).    *)
Rewired == hub.mode = "up"
Rewires == []<>Rewired
=============================================================================
