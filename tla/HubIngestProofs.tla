-------------------------- MODULE HubIngestProofs --------------------------
(***************************************************************************)
(* Proofs about HubIngest, for every number of senders, keys and entries   *)
(* and every pattern of faults, crashes and new wirings.                   *)
(*                                                                         *)
(* What the consumer acknowledged is in the ledger or on the dead-letter   *)
(* stream: whatever says `appended` (a claim in Redis, the LRU, the trust  *)
(* window, the ledger's index) speaks of a record (Evidence), and what the *)
(* consumer counts as done was recorded or set aside (Work).               *)
(*                                                                         *)
(* No answer is lost between the door and the consumer: ids are given out  *)
(* once (Ids), so an answer parked for an entry is there until the one who *)
(* added it registers (Parked).                                            *)
(***************************************************************************)
EXTENDS HubIngest, TLAPS

-----------------------------------------------------------------------------
(* -------------------------------- types -------------------------------- *)

\* Every sender has a key, and a batch is not empty (hub/config.go's defaults).
Sane == KeyOf \in [Senders -> Keys] /\ BatchRecs \in Nat \ {0}

\* An entry of the stream.
Ent == [id : Nat, key : Keys]

RedisSet ==
  [up : BOOLEAN, group : BOOLEAN, todo : Seq(Ent), pel : SUBSET Ent, old : SUBSET Ent,
   claim : [Keys -> Phases]]
RedisOK == redis \in RedisSet

HubSet ==
  [mode : {"down", "boot", "up", "unavailable", "refusing"}, degraded : BOOLEAN,
   lru : [Keys -> Phases], trust : SUBSET Keys, indexed : SUBSET Keys, wire : Nat,
   parked : SUBSET [id : Nat, ans : {"record", "error"}], done : SUBSET Nat]
HubOK == hub \in HubSet

\* Between taking a batch and the acknowledgement there is an entry at hand.
ConsOK ==
  /\ cons \in [run : BOOLEAN, pc : {"read", "entry", "append", "mark", "complete", "ack"},
               batch : Seq(Ent), done : SUBSET Ent]
  /\ cons.pc \in {"entry", "append", "mark", "complete"} => cons.batch # <<>>

Offers ==
  [pc : {"idle", "claimed", "added", "wait"}, id : Nat, wire : Nat, ans : {None, "record", "error"},
   told : {None, "confirmed", "refused"}, tries : Nat]
OfferOK == offer \in [Senders -> Offers]

RestOK ==
  /\ ledger \in [Keys -> Nat] /\ late \subseteq Keys /\ dead \subseteq Keys /\ acked \subseteq Keys
  /\ spent \in [faults : Nat, entries : Nat]

Types == RedisOK /\ HubOK /\ ConsOK /\ OfferOK /\ RestOK

-----------------------------------------------------------------------------
(* ------------------------------ sequences ------------------------------ *)

\* Adding an entry to the stream.
LEMMA Adds ==
  ASSUME NEW S, NEW q \in Seq(S), NEW e \in S
  PROVE  Append(q, e) \in Seq(S) /\ Batch(Append(q, e)) = Batch(q) \cup {e}
<1>1. /\ Append(q, e) \in Seq(S) /\ Len(Append(q, e)) = Len(q) + 1 /\ Len(q) \in Nat
      /\ \A n \in 1..Len(q) : Append(q, e)[n] = q[n]
      /\ Append(q, e)[Len(q) + 1] = e
  OBVIOUS
<1>2. DOMAIN q = 1..Len(q) /\ DOMAIN Append(q, e) = 1..(Len(q) + 1)
  BY <1>1
<1> QED BY <1>1, <1>2 DEF Batch

\* Reading a batch off the stream.
LEMMA Splits ==
  ASSUME NEW S, NEW q \in Seq(S), NEW n \in 1..Len(q)
  PROVE  /\ SubSeq(q, 1, n) \in Seq(S) /\ SubSeq(q, 1, n) # <<>> /\ Batch(SubSeq(q, 1, n)) \subseteq Batch(q)
         /\ SubSeq(q, n + 1, Len(q)) \in Seq(S) /\ Batch(SubSeq(q, n + 1, Len(q))) \subseteq Batch(q)
<1>1. /\ SubSeq(q, 1, n) \in Seq(S) /\ Len(SubSeq(q, 1, n)) = n
      /\ \A m \in 1..n : SubSeq(q, 1, n)[m] = q[m]
  OBVIOUS
<1>2. /\ SubSeq(q, n + 1, Len(q)) \in Seq(S) /\ Len(SubSeq(q, n + 1, Len(q))) = Len(q) - n
      /\ \A m \in 1..(Len(q) - n) : SubSeq(q, n + 1, Len(q))[m] = q[n + m]
  OBVIOUS
<1>3. Batch(SubSeq(q, 1, n)) \subseteq Batch(q)
  BY <1>1 DEF Batch
<1>4. Batch(SubSeq(q, n + 1, Len(q))) \subseteq Batch(q)
  BY <1>2 DEF Batch
<1> QED BY <1>1, <1>2, <1>3, <1>4

\* Working through a batch.
LEMMA Takes ==
  ASSUME NEW S, NEW q \in Seq(S), q # <<>>
  PROVE  /\ Head(q) \in S /\ Head(q) \in Batch(q)
         /\ Tail(q) \in Seq(S) /\ Batch(Tail(q)) \subseteq Batch(q) /\ (Len(q) # 1 => Tail(q) # <<>>)
<1>1. Len(q) \in Nat \ {0} /\ DOMAIN q = 1..Len(q) /\ Head(q) = q[1]
  OBVIOUS
<1>2. /\ Tail(q) \in Seq(S) /\ Len(Tail(q)) = Len(q) - 1
      /\ \A m \in 1..(Len(q) - 1) : Tail(q)[m] = q[m + 1]
  BY <1>1
<1>3. Batch(Tail(q)) \subseteq Batch(q)
  BY <1>1, <1>2 DEF Batch
<1> QED BY <1>1, <1>2, <1>3 DEF Batch

\* A batch of one, or of none.
LEMMA Single ==
  /\ \A S : \A e \in S : <<e>> \in Seq(S) /\ <<e>> # <<>> /\ Batch(<<e>>) = {e}
  /\ Batch(<<>>) = {} /\ \A S : <<>> \in Seq(S)
BY DEF Batch

-----------------------------------------------------------------------------
(* ------------------------------ the types ------------------------------- *)

\* The entry at hand, and the batch without it.
LEMMA AtHand ==
  ASSUME ConsOK, cons.pc \in {"entry", "append", "mark", "complete"}
  PROVE  /\ Entry \in Ent /\ Entry \in Batch(cons.batch)
         /\ Advance(cons) \in [run : BOOLEAN, pc : {"entry", "ack"}, batch : Seq(Ent), done : SUBSET Ent]
         /\ Advance(cons).pc = "entry" => Advance(cons).batch # <<>>
         /\ Advance(cons).run = cons.run /\ Advance(cons).batch = Tail(cons.batch)
         /\ Advance(cons).done = cons.done \cup {Entry}
         /\ Batch(Tail(cons.batch)) \subseteq Batch(cons.batch)
<1>1. cons.batch \in Seq(Ent) /\ cons.batch # <<>> /\ cons.done \subseteq Ent /\ cons.run \in BOOLEAN
  BY DEF ConsOK
<1>2. /\ Head(cons.batch) \in Ent /\ Head(cons.batch) \in Batch(cons.batch)
      /\ Tail(cons.batch) \in Seq(Ent) /\ Batch(Tail(cons.batch)) \subseteq Batch(cons.batch)
      /\ Len(cons.batch) # 1 => Tail(cons.batch) # <<>>
  BY <1>1, Takes
<1>3. /\ Advance(cons).run = cons.run /\ Advance(cons).batch = Tail(cons.batch)
      /\ Advance(cons).done = cons.done \cup {Entry}
      /\ Advance(cons).pc = IF Len(cons.batch) = 1 THEN "ack" ELSE "entry"
      /\ Advance(cons) \in [run : BOOLEAN, pc : {"entry", "ack"}, batch : Seq(Ent), done : SUBSET Ent]
  BY <1>1, <1>2 DEF Advance, Entry, ConsOK
<1> QED BY <1>2, <1>3 DEF Entry

\* A call that ends.
LEMMA Ended ==
  ASSUME NEW n \in Nat, NEW w \in {"confirmed", "refused"}
  PROVE  /\ [NoOffer EXCEPT !.told = w, !.tries = n + 1] \in Offers
         /\ [NoOffer EXCEPT !.told = w, !.tries = n + 1].pc = "idle"
<1>1. NoOffer \in Offers /\ NoOffer.pc = "idle"
  BY DEF NoOffer, None, Offers
<1>2. n + 1 \in Nat
  OBVIOUS
<1> QED BY <1>1, <1>2 DEF Offers

\* It leaves its sender idle.
LEMMA Replies ==
  ASSUME OfferOK, NEW s \in Senders, NEW w \in {"confirmed", "refused"}, Reply(s, w)
  PROVE  OfferOK' /\ offer'[s].pc = "idle" /\ \A t \in Senders : t # s => offer'[t] = offer[t]
<1>1. offer[s].tries \in Nat
  BY DEF OfferOK, Offers
<1>2. /\ [NoOffer EXCEPT !.told = w, !.tries = offer[s].tries + 1] \in
           Offers
      /\ [NoOffer EXCEPT !.told = w, !.tries = offer[s].tries + 1].pc = "idle"
  BY <1>1, Ended
<1> QED BY <1>2 DEF Reply, OfferOK

\* One sender's call moves on.
LEMMA SetOffer ==
  ASSUME OfferOK, NEW s \in Senders, NEW x \in Offers, offer' = [offer EXCEPT ![s] = x]
  PROVE  OfferOK' /\ offer'[s] = x /\ \A t \in Senders : t # s => offer'[t] = offer[t]
BY DEF OfferOK

\* A fault is counted.
LEMMA FaultIs ==
  ASSUME RestOK, NEW f, Fault(f)
  PROVE  spent' \in [faults : Nat, entries : Nat] /\ spent'.entries = spent.entries
BY DEF RestOK, Fault

\* The modes a loss of the queue leads to.
LEMMA LostIs == Lost \in {"refusing", "unavailable"}
BY DEF Lost

\* What markLost leaves alone.
LEMMA MarkLostIs ==
  ASSUME HubOK
  PROVE  /\ MarkLost(hub) \in HubSet
         /\ MarkLost(hub).lru = hub.lru /\ MarkLost(hub).trust = hub.trust /\ MarkLost(hub).indexed = hub.indexed
         /\ MarkLost(hub).wire = hub.wire /\ MarkLost(hub).parked = hub.parked /\ MarkLost(hub).done = hub.done
BY LostIs DEF MarkLost, HubOK, HubSet

\* lruPhases.put keeps the LRU a map of phases, and adds one `appended` at most.
LEMMA PutIs ==
  ASSUME NEW lru \in [Keys -> Phases], NEW k \in Keys, NEW ph \in Phases
  PROVE  Put(lru, k, ph) \in [Keys -> Phases]
         /\ \A j \in Keys : Put(lru, k, ph)[j] = "appended" => lru[j] = "appended" \/ (j = k /\ ph = "appended")
BY DEF Put

\* The phases, and the empty map.
LEMMA PhasesAre == {"none", "enqueued", "appended"} = Phases /\ None = "none" /\ Empty \in [Keys -> Phases]
BY DEF Phases, None, Empty

\* Degraded or not.
LEMMA FlagsAre == RedisOK /\ HubOK => Degrades \in BOOLEAN /\ redis.up \in BOOLEAN
BY DEF RedisOK, RedisSet, HubOK, HubSet, Degrades

\* The gate keeps the types.
LEMMA TClaim ==
  ASSUME Sane, Types, NEW s \in Senders, Claim(s)
  PROVE  Types'
<1>k. KeyOf[s] \in Keys
  BY DEF Sane
<1>1. RedisOK'
  BY <1>k, PhasesAre DEF Claim, Types, RedisOK, RedisSet
<1>2. HubOK'
  <2>1. Put(hub.lru, KeyOf[s], "enqueued") \in [Keys -> Phases]
    BY <1>k, PutIs, PhasesAre DEF Types, HubOK, HubSet
  <2> QED BY <2>1, FlagsAre DEF Claim, Types, HubOK, HubSet
<1>3. OfferOK'
  <2>1. CASE Fresh(KeyOf[s])
    <3> DEFINE x == [offer[s] EXCEPT !.pc = "claimed", !.wire = hub.wire, !.told = None]
    <3>1. offer' = [offer EXCEPT ![s] = x]
      BY <2>1 DEF Claim, Types, OfferOK
    <3>2. x \in Offers
      <4>1. offer[s] \in Offers /\ hub.wire \in Nat
        BY DEF Types, OfferOK, HubOK, HubSet
      <4> QED BY <4>1 DEF Offers
    <3> QED BY <3>1, <3>2, SetOffer DEF Types
  <2>2. CASE ~Fresh(KeyOf[s])
    BY <2>2, Replies DEF Claim, Types
  <2> QED BY <2>1, <2>2
<1> QED BY <1>1, <1>2, <1>3 DEF Claim, Types, ConsOK, RestOK

\* So do the steps of a call.
LEMMA TCall ==
  ASSUME Sane, Types, NEW s \in Senders, Call(s)
  PROVE  Types'
<1>k. KeyOf[s] \in Keys
  BY DEF Sane
<1>1. CASE Enqueue(s)
  <2> DEFINE e == [id |-> spent.entries + 1, key |-> KeyOf[s]]
  <2>1. e \in Ent /\ spent.entries + 1 \in Nat
    BY <1>k DEF Types, RestOK, Ent
  <2>2. Append(redis.todo, e) \in Seq(Ent)
    BY <2>1, Adds DEF Types, RedisOK, RedisSet
  <2>3. redis' = (IF redis.group THEN [redis EXCEPT !.todo = Append(redis.todo, e)] ELSE redis)
    BY <1>1 DEF Enqueue
  <2>4. RedisOK'
    BY <2>2, <2>3 DEF Types, RedisOK, RedisSet
  <2>5. RestOK'
    BY <1>1, <2>1 DEF Enqueue, Types, RestOK
  <2>6. OfferOK'
    <3> DEFINE x == [offer[s] EXCEPT !.pc = "added", !.id = e.id]
    <3>1. offer' = [offer EXCEPT ![s] = x]
      BY <1>1 DEF Enqueue, Types, OfferOK
    <3>2. x \in Offers
      BY <2>1 DEF Types, OfferOK, Offers
    <3> QED BY <3>1, <3>2, SetOffer DEF Types
  <2> QED BY <1>1, <2>4, <2>5, <2>6 DEF Enqueue, Types, HubOK, ConsOK
<1>2. CASE EnqueueFails(s)
  <2>1. OfferOK'
    BY <1>2, Replies DEF EnqueueFails, Types
  <2>2. RedisOK'
    BY <1>2, <1>k, PhasesAre DEF EnqueueFails, Release, Types, RedisOK, RedisSet
  <2>3. HubOK'
    <3>1. CASE hub' = MarkLost(hub)
      BY <3>1, MarkLostIs DEF Types, HubOK
    <3>2. CASE hub' = [MarkLost(hub) EXCEPT !.lru[KeyOf[s]] = None, !.degraded = Degrades]
      BY <3>2, <1>k, MarkLostIs, PhasesAre, FlagsAre DEF Types, HubOK, HubSet
    <3> QED BY <1>2, <3>1, <3>2 DEF EnqueueFails, Release
  <2> QED BY <1>2, <2>1, <2>2, <2>3 DEF EnqueueFails, Types, ConsOK, RestOK
<1>3. CASE Register(s)
  <2> DEFINE mine == {a \in hub.parked : a.id = offer[s].id /\ offer[s].wire = hub.wire}
  <2>1. (IF mine = {} THEN None ELSE (CHOOSE a \in mine : TRUE).ans) \in {None, "record", "error"}
    BY DEF Types, HubOK, HubSet
  <2> HIDE DEF mine
  <2>2. /\ offer' = [offer EXCEPT ![s].pc = "wait", ![s].ans = IF mine = {} THEN None ELSE (CHOOSE a \in mine : TRUE).ans]
        /\ hub' = [hub EXCEPT !.parked = @ \ mine]
    BY <1>3 DEF Register, mine
  <2>3. OfferOK'
    <3> DEFINE y == IF mine = {} THEN None ELSE (CHOOSE a \in mine : TRUE).ans
               x == [offer[s] EXCEPT !.pc = "wait", !.ans = y]
    <3> HIDE DEF y
    <3>1. offer' = [offer EXCEPT ![s] = x]
      BY <2>2 DEF Types, OfferOK, y
    <3>2. y \in {None, "record", "error"}
      BY <2>1 DEF y
    <3>3. x \in Offers
      BY <3>2 DEF Types, OfferOK, Offers
    <3> QED BY <3>1, <3>3, SetOffer DEF Types
  <2>4. HubOK'
    BY <2>2 DEF Types, HubOK, HubSet
  <2> QED BY <1>3, <2>3, <2>4 DEF Register, Types, RedisOK, ConsOK, RestOK
<1>4. CASE Answered(s)
  <2>1. OfferOK'
    BY <1>4, Replies DEF Answered, Types
  <2>2. HubOK'
    BY <1>4 DEF Answered, Types, HubOK, HubSet
  <2> QED BY <1>4, <2>1, <2>2 DEF Answered, Types, RedisOK, ConsOK, RestOK
<1>5. CASE Timeout(s)
  <2>1. OfferOK'
    BY <1>5, Replies DEF Timeout, Types
  <2>2. HubOK'
    BY <1>5, MarkLostIs DEF Timeout, Types, HubOK, HubSet
  <2> QED BY <1>5, <2>1, <2>2 DEF Timeout, Types, RedisOK, ConsOK, RestOK
<1> QED BY <1>1, <1>2, <1>3, <1>4, <1>5 DEF Call

\* So does a call outside the up mode.
LEMMA TBypass ==
  ASSUME Types, NEW s \in Senders, Bypass(s)
  PROVE  Types'
BY Replies DEF Bypass, Types, RedisOK, HubOK, ConsOK, RestOK

\* Answering an entry.
LEMMA Completes ==
  ASSUME OfferOK, NEW e \in Ent, NEW w \in {"record", "error"}, NEW h, Complete(e, w, h),
         h \in HubSet
  PROVE  /\ OfferOK' /\ HubOK'
         /\ hub'.lru = h.lru /\ hub'.trust = h.trust /\ hub'.indexed = h.indexed /\ hub'.wire = h.wire
         /\ hub'.done = h.done \cup {e.id} /\ h.parked \subseteq hub'.parked
<1>1. [id |-> e.id, ans |-> w] \in [id : Nat, ans : {"record", "error"}] /\ e.id \in Nat
  BY DEF Ent
<1>2. CASE Waiting(e) # {}
  <2>1. hub' = [h EXCEPT !.done = @ \cup {e.id}]
        /\ offer' = [s \in Senders |-> IF s \in Waiting(e) THEN [offer[s] EXCEPT !.ans = w] ELSE offer[s]]
    BY <1>2 DEF Complete
  <2>2. \A s \in Senders : [offer[s] EXCEPT !.ans = w] \in Offers
    BY DEF OfferOK, Offers
  <2>3. OfferOK'
    BY <2>1, <2>2 DEF OfferOK
  <2> QED BY <1>1, <2>1, <2>3 DEF HubOK, HubSet
<1>3. CASE Waiting(e) = {}
  <2>1. hub' = [h EXCEPT !.parked = @ \cup {[id |-> e.id, ans |-> w]}, !.done = @ \cup {e.id}]
        /\ UNCHANGED offer
    BY <1>3 DEF Complete
  <2> QED BY <1>1, <2>1 DEF HubOK, HubSet, OfferOK
<1> QED BY <1>2, <1>3

\* So does the consumer.
LEMMA TConsume ==
  ASSUME Sane, Types, Consume
  PROVE  Types'
<1>1. CASE Read
  <2> DEFINE n == IF Len(redis.todo) < BatchRecs THEN Len(redis.todo) ELSE BatchRecs
             b == SubSeq(redis.todo, 1, n)
  <2>1. redis.todo \in Seq(Ent) /\ redis.todo # <<>>
    BY <1>1 DEF Read, Types, RedisOK, RedisSet
  <2>2. n \in 1..Len(redis.todo)
    BY <2>1 DEF Sane
  <2>3. cons' = [cons EXCEPT !.pc = "entry", !.batch = b]
        /\ redis' = [redis EXCEPT !.todo = SubSeq(@, n + 1, Len(@)), !.pel = @ \cup Batch(b)]
    BY <1>1 DEF Read
  <2> HIDE DEF n
  <2>4. /\ b \in Seq(Ent) /\ b # <<>> /\ Batch(b) \subseteq Batch(redis.todo)
        /\ SubSeq(redis.todo, n + 1, Len(redis.todo)) \in Seq(Ent)
    BY <2>1, <2>2, Splits
  <2>5. Batch(redis.todo) \subseteq Ent
    BY <2>1 DEF Batch
  <2> HIDE DEF b
  <2>6. RedisOK' /\ ConsOK'
    BY <2>3, <2>4, <2>5 DEF Types, RedisOK, RedisSet, ConsOK
  <2> QED BY <1>1, <2>6 DEF Read, Types, HubOK, OfferOK, RestOK
<1>2. CASE Reclaim
  <2>1. PICK e \in redis.old : /\ cons' = [cons EXCEPT !.pc = "entry", !.batch = <<e>>]
                               /\ redis' = [redis EXCEPT !.old = @ \ {e}]
    BY <1>2 DEF Reclaim
  <2>2. e \in Ent
    BY <2>1 DEF Types, RedisOK, RedisSet
  <2>3. RedisOK' /\ ConsOK'
    BY <2>1, <2>2, Single DEF Types, RedisOK, RedisSet, ConsOK
  <2> QED BY <1>2, <2>3 DEF Reclaim, Types, HubOK, OfferOK, RestOK
<1>3. CASE Decide
  <2>1. /\ Entry \in Ent /\ Advance(cons) \in [run : BOOLEAN, pc : {"entry", "ack"}, batch : Seq(Ent), done : SUBSET Ent]
        /\ Advance(cons).pc = "entry" => Advance(cons).batch # <<>>
    BY <1>3, AtHand DEF Decide, Types
  <2>2. [hub EXCEPT !.degraded = Degrades] \in
          HubSet
    BY FlagsAre DEF Types, HubOK, HubSet
  <2>3. HubOK' /\ OfferOK'
    BY <1>3, <2>1, <2>2, Completes DEF Decide, Types, HubOK, OfferOK
  <2>4. ConsOK'
    BY <1>3, <2>1 DEF Decide, Types, ConsOK
  <2>5. RestOK'
    BY <1>3, <2>1 DEF Decide, Types, RestOK, Ent
  <2> QED BY <1>3, <2>3, <2>4, <2>5 DEF Decide, Types, RedisOK
<1>4. CASE AppendOK
  <2>1. Entry.key \in Keys
    BY <1>4, AtHand DEF AppendOK, Types, Ent
  <2>2. HubOK'
    BY <1>4, <2>1 DEF AppendOK, Types, HubOK, HubSet
  <2>3. ConsOK'
    BY <1>4 DEF AppendOK, Types, ConsOK
  <2>4. RestOK'
    BY <1>4, <2>1 DEF AppendOK, Types, RestOK
  <2> QED BY <1>4, <2>2, <2>3, <2>4 DEF AppendOK, Types, RedisOK, OfferOK
<1>5. CASE Mark
  <2>1. Entry.key \in Keys
    BY <1>5, AtHand DEF Mark, Types, Ent
  <2>2. Put(hub.lru, Entry.key, "appended") \in [Keys -> Phases]
    BY <2>1, PutIs, PhasesAre DEF Types, HubOK, HubSet
  <2>3. HubOK'
    BY <1>5, <2>2, FlagsAre DEF Mark, MarkAppended, Types, HubOK, HubSet
  <2>4. RedisOK'
    BY <1>5, <2>1, PhasesAre DEF Mark, MarkAppended, Types, RedisOK, RedisSet
  <2> QED BY <1>5, <2>3, <2>4 DEF Mark, Types, ConsOK, OfferOK, RestOK
<1>6. CASE Completed
  <2>1. /\ Entry \in Ent /\ Advance(cons) \in [run : BOOLEAN, pc : {"entry", "ack"}, batch : Seq(Ent), done : SUBSET Ent]
        /\ Advance(cons).pc = "entry" => Advance(cons).batch # <<>>
    BY <1>6, AtHand DEF Completed, Types
  <2>2. HubOK' /\ OfferOK'
    BY <1>6, <2>1, Completes DEF Completed, Types, HubOK
  <2>3. ConsOK'
    BY <1>6, <2>1 DEF Completed, ConsOK
  <2> QED BY <1>6, <2>2, <2>3 DEF Completed, Types, RedisOK, RestOK
<1>7. CASE Ack \/ EntryFails
  <2>1. Acknowledge /\ UNCHANGED <<hub, offer, ledger, late, dead>>
    BY <1>7 DEF Ack, EntryFails
  <2>2. spent' \in [faults : Nat, entries : Nat]
    BY <1>7, FaultIs DEF Ack, EntryFails, Types, RestOK
  <2>3. Keyed(cons.done) \subseteq Keys
    BY DEF Keyed, Types, ConsOK, Ent
  <2>4. RedisOK' /\ ConsOK'
    BY <2>1, Single DEF Acknowledge, Rest, Types, RedisOK, RedisSet, ConsOK
  <2>5. RestOK'
    BY <2>1, <2>2, <2>3 DEF Acknowledge, Types, RestOK
  <2> QED BY <2>1, <2>4, <2>5 DEF Types, HubOK, OfferOK
<1> QED BY <1>1, <1>2, <1>3, <1>4, <1>5, <1>6, <1>7 DEF Consume

\* A consumer that starts.
LEMMA QuietIs ==
  ASSUME NEW b \in BOOLEAN, cons' = [Quiet EXCEPT !.run = b]
  PROVE  ConsOK' /\ cons'.pc = "read" /\ cons'.batch = <<>> /\ cons'.done = {}
BY Single DEF ConsOK, Quiet

\* A consumer that stopped.
LEMMA QuietToo ==
  ASSUME cons' = Quiet
  PROVE  ConsOK' /\ cons'.pc = "read" /\ cons'.batch = <<>> /\ cons'.done = {}
BY Single DEF ConsOK, Quiet

\* Wiring the queue anew.
LEMMA Attaches ==
  ASSUME Types, Attach
  PROVE  /\ RedisOK' /\ HubOK' /\ ConsOK' /\ hub'.done = {} /\ hub'.trust = hub.indexed /\ hub'.indexed = hub.indexed
         /\ \A k \in Keys : hub'.lru[k] = "appended" => k \in hub.indexed
         /\ redis'.claim = redis.claim /\ redis'.pel = redis.pel /\ redis'.old = redis.old
         /\ redis'.todo \in {redis.todo, <<>>}
         /\ cons'.pc = "read" /\ cons'.batch = <<>> /\ cons'.done = {}
<1>1. ConsOK' /\ cons'.pc = "read" /\ cons'.batch = <<>> /\ cons'.done = {}
  BY QuietIs DEF Attach
<1>2. /\ RedisOK' /\ redis'.claim = redis.claim /\ redis'.pel = redis.pel /\ redis'.old = redis.old
      /\ redis'.todo \in {redis.todo, <<>>}
  BY Single DEF Attach, Types, RedisOK, RedisSet
<1> DEFINE l == [k \in Keys |-> IF k \in hub.indexed THEN "appended" ELSE None]
<1>3. l \in [Keys -> Phases] /\ \A k \in Keys : l[k] = "appended" => k \in hub.indexed
  BY PhasesAre
<1> DEFINE g == [hub EXCEPT !.degraded = FALSE, !.trust = hub.indexed, !.lru = l]
<1>4. hub' = [g EXCEPT !.mode = "up", !.wire = @ + 1, !.parked = {}, !.done = {}]
  BY DEF Attach, Warmed
<1> HIDE DEF l
<1>g. g \in HubSet /\ g.trust = hub.indexed /\ g.indexed = hub.indexed /\ g.lru = l
  BY <1>3 DEF Types, HubOK, HubSet
<1> HIDE DEF g
<1>n. g.wire + 1 \in Nat
  BY <1>g DEF HubSet
<1>h. hub' \in HubSet
  BY <1>4, <1>g, <1>n DEF HubSet
<1>5. /\ hub'.done = {} /\ hub'.trust = hub.indexed /\ hub'.indexed = hub.indexed /\ hub'.lru = l /\ HubOK'
  BY <1>4, <1>g, <1>h DEF HubOK, HubSet
<1> QED BY <1>1, <1>2, <1>3, <1>5

\* The supervisor, boot and crash keep the types.
LEMMA TSupervise ==
  ASSUME Types, Supervise \/ ReclaimFails \/ Open \/ Crash
  PROVE  Types'
<1>1. CASE ProbeFails
  <2>1. HubOK'
    BY <1>1, MarkLostIs DEF ProbeFails, Types, HubOK
  <2> QED BY <1>1, <2>1 DEF ProbeFails, Types, RedisOK, ConsOK, OfferOK, RestOK
<1>2. CASE StopConsumer
  <2>1. ConsOK'
    BY <1>2, QuietToo DEF StopConsumer
  <2>2. cons.pc = "append" => Entry.key \in Keys
    BY AtHand DEF Types, Ent
  <2>3. late' \subseteq Keys
    BY <1>2, <2>2 DEF StopConsumer, Types, RestOK
  <2> QED BY <1>2, <2>1, <2>3 DEF StopConsumer, Types, RedisOK, HubOK, OfferOK, RestOK
<1>3. CASE Reconnect
  <2>1. RedisOK' /\ HubOK' /\ ConsOK'
    BY <1>3, Attaches, LostIs DEF Reconnect, Types, RedisOK, HubOK, HubSet, ConsOK
  <2> QED BY <1>3, <2>1 DEF Reconnect, Types, OfferOK, RestOK
<1>4. CASE Restart
  <2>1. ConsOK'
    BY <1>4, QuietIs DEF Restart
  <2> QED BY <1>4, <2>1 DEF Restart, Types, RedisOK, HubOK, OfferOK, RestOK
<1>5. CASE ReclaimFails
  <2>1. ConsOK'
    BY <1>5, QuietToo DEF ReclaimFails
  <2> QED BY <1>5, <2>1, FaultIs DEF ReclaimFails, Types, RedisOK, HubOK, OfferOK, RestOK
<1>6. CASE Open
  <2>1. RedisOK' /\ HubOK' /\ ConsOK'
    BY <1>6, Attaches DEF Open, Types, RedisOK, HubOK, HubSet, ConsOK
  <2> QED BY <1>6, <2>1 DEF Open, Types, OfferOK, RestOK
<1>7. CASE Crash
  <2>1. ConsOK'
    BY <1>7, QuietToo DEF Crash
  <2>2. HubOK'
    BY <1>7, PhasesAre DEF Crash, Types, HubOK, HubSet
  <2>3. \A s \in Senders : [NoOffer EXCEPT !.told = "refused", !.tries = offer[s].tries + 1] \in Offers
    <3>1. \A s \in Senders : offer[s].tries \in Nat
      BY DEF Types, OfferOK, Offers
    <3> QED BY <3>1, Ended
  <2>4. OfferOK'
    BY <1>7, <2>3 DEF Crash, Types, OfferOK
  <2>5. RestOK'
    BY <1>7, FaultIs DEF Crash, Types, RestOK
  <2> QED BY <1>7, <2>1, <2>2, <2>4, <2>5 DEF Crash, Types, RedisOK
<1> QED BY <1>1, <1>2, <1>3, <1>4, <1>5, <1>6, <1>7 DEF Supervise

\* The world's steps.
World ==
  \/ TrustEnds \/ \E e \in redis.pel : Idle(e)
  \/ \E k \in Keys : Land(k) \/ ClaimLost(k)
  \/ RedisDown \/ RedisUp

\* So does the world.
LEMMA TWorld ==
  ASSUME Types, World
  PROVE  Types'
<1>1. CASE TrustEnds
  <2>1. HubOK'
    BY <1>1 DEF TrustEnds, Types, HubOK, HubSet
  <2> QED BY <1>1, <2>1 DEF TrustEnds, Types, RedisOK, ConsOK, OfferOK, RestOK
<1>2. ASSUME NEW e \in redis.pel, Idle(e) PROVE Types'
  <2>1. RedisOK'
    BY <1>2 DEF Idle, Types, RedisOK, RedisSet
  <2> QED BY <1>2, <2>1 DEF Idle, Types, HubOK, ConsOK, OfferOK, RestOK
<1>3. ASSUME NEW k \in Keys, Land(k) PROVE Types'
  <2>1. HubOK'
    BY <1>3 DEF Land, Types, HubOK, HubSet
  <2>2. RestOK'
    BY <1>3 DEF Land, Types, RestOK
  <2> QED BY <1>3, <2>1, <2>2 DEF Land, Types, RedisOK, ConsOK, OfferOK
<1>4. ASSUME NEW k \in Keys, ClaimLost(k) PROVE Types'
  <2>1. RedisOK'
    BY <1>4, PhasesAre DEF ClaimLost, Types, RedisOK, RedisSet
  <2>2. RestOK'
    BY <1>4, FaultIs DEF ClaimLost, Types, RestOK
  <2> QED BY <1>4, <2>1, <2>2 DEF ClaimLost, Types, HubOK, ConsOK, OfferOK
<1>5. CASE RedisDown
  <2>1. RedisOK'
    BY <1>5 DEF RedisDown, Types, RedisOK, RedisSet
  <2>2. RestOK'
    BY <1>5, FaultIs DEF RedisDown, Types, RestOK
  <2> QED BY <1>5, <2>1, <2>2 DEF RedisDown, Types, HubOK, ConsOK, OfferOK
<1>6. CASE RedisUp
  <2>1. CASE redis' = [redis EXCEPT !.up = TRUE]
    BY <2>1, <1>6 DEF RedisUp, Types, RedisOK, RedisSet, HubOK, ConsOK, OfferOK, RestOK
  <2>2. CASE redis' = [up |-> TRUE, group |-> FALSE, todo |-> <<>>, pel |-> {}, old |-> {}, claim |-> Empty]
    <3>1. RedisOK'
      BY <2>2, PhasesAre, Single DEF RedisOK, RedisSet
    <3> QED BY <1>6, <3>1 DEF RedisUp, Types, HubOK, ConsOK, OfferOK, RestOK
  <2> QED BY <1>6, <2>1, <2>2 DEF RedisUp
<1> QED BY <1>1, <1>2, <1>3, <1>4, <1>5, <1>6 DEF World

\* Next, by who takes the step.
LEMMA StepsAre ==
  Next => \/ \E s \in Senders : Claim(s) \/ Call(s) \/ Bypass(s)
          \/ Consume \/ Supervise \/ ReclaimFails \/ Open \/ Crash \/ World
BY DEF Next, Step, World

\* The types are inductive.
LEMMA TStep == Sane /\ Types /\ [Next]_vars => Types'
<1> SUFFICES ASSUME Sane, Types, [Next]_vars PROVE Types'
  OBVIOUS
<1>1. CASE UNCHANGED vars
  BY <1>1 DEF vars, Types, RedisOK, HubOK, ConsOK, OfferOK, RestOK
<1> QED BY <1>1, StepsAre, TClaim, TCall, TBypass, TConsume, TSupervise, TWorld

\* The types hold at the start.
LEMMA TInit == Init => Types
<1> SUFFICES ASSUME Init PROVE Types
  OBVIOUS
<1>1. RedisOK
  BY PhasesAre, Single DEF Init, RedisOK, RedisSet
<1>2. HubOK
  BY PhasesAre DEF Init, HubOK, HubSet
<1>3. ConsOK
  BY Single DEF Init, ConsOK, Quiet
<1> QED BY <1>1, <1>2, <1>3 DEF Init, Types, OfferOK, Offers, RestOK, NoOffer, None
-----------------------------------------------------------------------------
(* ------------------- what is acknowledged is recorded ------------------- *)

\* The keys something says are in the ledger.
Evidence == {k \in Keys : \/ redis.claim[k] = "appended" \/ hub.lru[k] = "appended"
                          \/ k \in hub.trust \/ k \in hub.indexed}

\* They are.
Backed == \A k \in Evidence : ledger[k] > 0

\* What the consumer is done with was recorded or set aside, and between the append
\* and the answer the entry at hand is in the ledger.
Filed(k) == ledger[k] > 0 \/ k \in dead
Work == /\ \A e \in cons.done : Filed(e.key)
        /\ cons.pc \in {"mark", "complete"} => ledger[Entry.key] > 0

RInv == Types /\ Backed /\ Work /\ AckedIsRecorded

\* A step that records nothing and lets nothing more be said to be recorded.
LEMMA LightKeeps ==
  ASSUME RInv, UNCHANGED <<ledger, dead, acked, cons>>, Evidence' \subseteq Evidence
  PROVE  Backed' /\ Work' /\ AckedIsRecorded'
BY DEF RInv, Backed, Work, Filed, Entry, AckedIsRecorded

\* The consumer starts over.
LEMMA RestartKeeps ==
  ASSUME RInv, UNCHANGED <<ledger, dead, acked>>, Evidence' \subseteq Evidence,
         cons'.pc = "read" /\ cons'.done = {}
  PROVE  Backed' /\ Work' /\ AckedIsRecorded'
BY DEF RInv, Backed, Work, Filed, AckedIsRecorded

\* Senders record nothing, and nothing they write says `appended`.
LEMMA RSender ==
  ASSUME RInv, Sane, NEW s \in Senders, Claim(s) \/ Call(s) \/ Bypass(s)
  PROVE  Backed' /\ Work' /\ AckedIsRecorded'
<1>t. RedisOK /\ HubOK /\ KeyOf[s] \in Keys
  BY DEF RInv, Types, Sane
<1>1. UNCHANGED <<ledger, dead, acked, cons>>
  BY DEF Claim, Call, Bypass, Enqueue, EnqueueFails, Register, Answered, Timeout
<1>2. redis'.claim \in {redis.claim} \cup {[redis.claim EXCEPT ![KeyOf[s]] = ph] : ph \in {"enqueued", "none"}}
  <2>1. CASE Claim(s)
    BY <1>t, <2>1 DEF Claim, RedisOK, RedisSet
  <2>2. CASE EnqueueFails(s)
    BY <1>t, <2>2 DEF EnqueueFails, Release, RedisOK, RedisSet, None
  <2>3. CASE Enqueue(s) \/ Register(s) \/ Answered(s) \/ Timeout(s) \/ Bypass(s)
    BY <1>t, <2>3 DEF Enqueue, Register, Answered, Timeout, Bypass, RedisOK, RedisSet
  <2> QED BY <2>1, <2>2, <2>3 DEF Call
<1>3. /\ hub'.lru \in {hub.lru, Put(hub.lru, KeyOf[s], "enqueued"), [hub.lru EXCEPT ![KeyOf[s]] = "none"]}
      /\ hub'.trust = hub.trust /\ hub'.indexed = hub.indexed
  <2>1. CASE Claim(s)
    BY <1>t, <2>1 DEF Claim, HubOK, HubSet
  <2>2. CASE EnqueueFails(s)
    <3>1. /\ MarkLost(hub).lru = hub.lru /\ MarkLost(hub).trust = hub.trust /\ MarkLost(hub).indexed = hub.indexed
          /\ MarkLost(hub) \in HubSet
      BY <1>t, MarkLostIs
    <3> QED BY <2>2, <3>1 DEF EnqueueFails, Release, HubSet, None
  <2>3. CASE Timeout(s)
    <3>1. /\ MarkLost(hub).lru = hub.lru /\ MarkLost(hub).trust = hub.trust /\ MarkLost(hub).indexed = hub.indexed
          /\ MarkLost(hub) \in HubSet /\ hub \in HubSet
      BY <1>t, MarkLostIs DEF HubOK
    <3> QED BY <2>3, <3>1 DEF Timeout, HubSet
  <2>4. CASE Enqueue(s) \/ Register(s) \/ Answered(s) \/ Bypass(s)
    BY <1>t, <2>4 DEF Enqueue, Register, Answered, Bypass, HubOK, HubSet
  <2> QED BY <2>1, <2>2, <2>3, <2>4 DEF Call
<1>4. \A k \in Keys : redis'.claim[k] = "appended" => redis.claim[k] = "appended"
  BY <1>t, <1>2 DEF RedisOK, RedisSet
<1>5. \A k \in Keys : hub'.lru[k] = "appended" => hub.lru[k] = "appended"
  <2>1. hub.lru \in [Keys -> Phases]
    BY <1>t DEF HubOK, HubSet
  <2> QED BY <1>t, <1>3, <2>1 DEF Put
<1>6. Evidence' \subseteq Evidence
  BY <1>3, <1>4, <1>5 DEF Evidence
<1> QED BY <1>1, <1>6, LightKeeps

\* A new wiring trusts what the ledger has; the rest forgets.
LEMMA RSupervise ==
  ASSUME RInv, Supervise \/ ReclaimFails \/ Open \/ Crash
  PROVE  Backed' /\ Work' /\ AckedIsRecorded'
<1>t. Types /\ RedisOK /\ HubOK
  BY DEF RInv, Types
<1>1. UNCHANGED <<ledger, dead, acked>>
  BY DEF Supervise, ProbeFails, StopConsumer, Reconnect, Restart, ReclaimFails, Open, Crash
<1>2. CASE Attach
  <2>1. Evidence' \subseteq Evidence
    BY <1>t, <1>2, Attaches DEF Evidence
  <2> QED BY <1>t, <1>1, <1>2, <2>1, Attaches, RestartKeeps
<1>3. CASE ~Attach
  <2>1. \/ UNCHANGED cons
        \/ cons'.pc = "read" /\ cons'.done = {}
    BY <1>3, QuietToo, QuietIs DEF Supervise, ProbeFails, StopConsumer, Reconnect, Restart, ReclaimFails, Open, Crash
  <2>2. UNCHANGED redis
    BY <1>3 DEF Supervise, ProbeFails, StopConsumer, Reconnect, Restart, ReclaimFails, Open, Crash
  <2>3. /\ \A k \in Keys : hub'.lru[k] = "appended" => hub.lru[k] = "appended"
        /\ hub'.trust \subseteq hub.trust /\ hub'.indexed = hub.indexed
    <3>1. CASE Crash
      BY <1>t, <3>1, PhasesAre DEF Crash, HubOK, HubSet, Empty, None
    <3>2. CASE ProbeFails
      BY <1>t, <3>2, MarkLostIs DEF ProbeFails
    <3>3. CASE Reconnect \/ Open
      BY <1>t, <1>3, <3>3 DEF Reconnect, Open, HubOK, HubSet
    <3>4. CASE StopConsumer \/ Restart \/ ReclaimFails
      BY <3>4 DEF StopConsumer, Restart, ReclaimFails
    <3> QED BY <3>1, <3>2, <3>3, <3>4 DEF Supervise
  <2>4. Evidence' \subseteq Evidence
    BY <2>2, <2>3 DEF Evidence
  <2> QED BY <1>1, <2>1, <2>4, LightKeeps, RestartKeeps
<1> QED BY <1>2, <1>3

\* A late record lands, a claim or the window is lost.
LEMMA RWorld ==
  ASSUME RInv, World
  PROVE  Backed' /\ Work' /\ AckedIsRecorded'
<1>t. RedisOK /\ HubOK /\ ConsOK /\ RestOK
  BY DEF RInv, Types
<1>1. ASSUME NEW k \in Keys, Land(k) PROVE Backed' /\ Work' /\ AckedIsRecorded'
  <2>1. /\ ledger' = [ledger EXCEPT ![k] = @ + 1] /\ UNCHANGED <<redis, cons, dead, acked>>
        /\ hub'.lru = hub.lru /\ hub'.trust = hub.trust /\ hub'.indexed = hub.indexed \cup {k}
    BY <1>t, <1>1 DEF Land, HubOK, HubSet
  <2>2. ledger'[k] > 0 /\ \A j \in Keys : ledger[j] > 0 => ledger'[j] > 0
    BY <1>t, <2>1 DEF RestOK
  <2>3. Evidence' \subseteq Evidence \cup {k}
    BY <2>1 DEF Evidence
  <2>4. Backed'
    BY <2>2, <2>3 DEF RInv, Backed, Evidence
  <2>5. \A e \in cons.done : e.key \in Keys
    BY <1>t DEF ConsOK, Ent
  <2>6. cons.pc \in {"mark", "complete"} => Entry.key \in Keys
    BY <1>t, AtHand DEF Ent
  <2>7. Work'
    BY <2>1, <2>2, <2>5, <2>6 DEF RInv, Work, Filed, Entry
  <2>8. AckedIsRecorded'
    BY <1>t, <2>1, <2>2 DEF RInv, AckedIsRecorded, RestOK
  <2> QED BY <2>4, <2>7, <2>8
<1>2. CASE ~ \E k \in Keys : Land(k)
  <2>1. UNCHANGED <<ledger, dead, acked, cons>>
    BY <1>2 DEF World, TrustEnds, Idle, ClaimLost, RedisDown, RedisUp
  <2>2. \A k \in Keys : redis'.claim[k] = "appended" => redis.claim[k] = "appended"
    <3>1. CASE RedisUp
      BY <1>t, <3>1 DEF RedisUp, RedisOK, RedisSet, Empty, None
    <3>2. ASSUME NEW k \in Keys, ClaimLost(k) PROVE \A j \in Keys : redis'.claim[j] = "appended" => redis.claim[j] = "appended"
      BY <1>t, <3>2 DEF ClaimLost, RedisOK, RedisSet, None
    <3>3. CASE TrustEnds \/ (\E e \in redis.pel : Idle(e)) \/ RedisDown
      BY <1>t, <3>3 DEF TrustEnds, Idle, RedisDown, RedisOK, RedisSet
    <3> QED BY <1>2, <3>1, <3>2, <3>3 DEF World
  <2>3. hub'.lru = hub.lru /\ hub'.trust \subseteq hub.trust /\ hub'.indexed = hub.indexed
    BY <1>t, <1>2 DEF World, TrustEnds, Idle, ClaimLost, RedisDown, RedisUp, HubOK, HubSet
  <2>4. Evidence' \subseteq Evidence
    BY <2>2, <2>3 DEF Evidence
  <2> QED BY <2>1, <2>4, LightKeeps
<1> QED BY <1>1, <1>2

\* The entry at hand is done with: it is in the ledger or on the dead-letter stream.
LEMMA DoneKeeps ==
  ASSUME RInv, cons.pc \in {"entry", "complete"}, cons' = Advance(cons), Evidence' \subseteq Evidence,
         UNCHANGED <<ledger, acked>>, dead \subseteq dead',
         ledger[Entry.key] > 0 \/ Entry.key \in dead'
  PROVE  Backed' /\ Work' /\ AckedIsRecorded'
<1>1. /\ Advance(cons).done = cons.done \cup {Entry} /\ Advance(cons).pc \in {"entry", "ack"}
  BY AtHand DEF RInv, Types
<1>2. Backed' /\ AckedIsRecorded'
  BY DEF RInv, Backed, AckedIsRecorded
<1> QED BY <1>1, <1>2 DEF RInv, Work, Filed

\* The consumer, by its steps.
LEMMA RConsume ==
  ASSUME RInv, Sane, Consume
  PROVE  Backed' /\ Work' /\ AckedIsRecorded'
<1>t. RedisOK /\ HubOK /\ ConsOK /\ OfferOK /\ RestOK
  BY DEF RInv, Types
<1>k. cons.pc \in {"entry", "append", "mark", "complete"} => Entry \in Ent /\ Entry.key \in Keys
  BY <1>t, AtHand DEF Ent
<1>1. CASE Read \/ Reclaim
  <2>1. /\ UNCHANGED <<hub, ledger, dead, acked>> /\ redis'.claim = redis.claim
        /\ cons'.pc = "entry" /\ cons'.done = cons.done
    BY <1>t, <1>1 DEF Read, Reclaim, RedisOK, RedisSet, ConsOK
  <2>2. Evidence' \subseteq Evidence
    BY <2>1 DEF Evidence
  <2> QED BY <2>1, <2>2 DEF RInv, Backed, Work, Filed, AckedIsRecorded
<1>2. CASE Decide
  <2> DEFINE h == IF Trusted(Entry.key) THEN hub ELSE [hub EXCEPT !.degraded = Degrades]
  <2>h. h \in HubSet /\ h.lru = hub.lru /\ h.trust = hub.trust /\ h.indexed = hub.indexed
    BY <1>t, FlagsAre DEF HubOK, HubSet
  <2>e. cons.pc = "entry" /\ Entry \in Ent /\ Entry.key \in Keys /\ UNCHANGED <<redis, ledger, acked>>
    BY <1>2, <1>k DEF Decide
  <2>1. CASE Entry.key \in bad
    <3>1. dead' = dead \cup {Entry.key} /\ cons' = Advance(cons) /\ Complete(Entry, "error", hub)
      BY <1>2, <2>1 DEF Decide
    <3>2. hub'.lru = hub.lru /\ hub'.trust = hub.trust /\ hub'.indexed = hub.indexed
      BY <1>t, <2>e, <3>1, Completes DEF HubOK
    <3>3. Evidence' \subseteq Evidence
      BY <2>e, <3>2 DEF Evidence
    <3> QED BY <2>e, <3>1, <3>3, DoneKeeps
  <2>2. CASE Entry.key \notin bad /\ State(Entry.key) = "appended"
    <3>1. UNCHANGED dead /\ cons' = Advance(cons) /\ Complete(Entry, "record", h)
      BY <1>2, <2>2 DEF Decide
    <3> HIDE DEF h
    <3>2. hub'.lru = hub.lru /\ hub'.trust = hub.trust /\ hub'.indexed = hub.indexed
      BY <1>t, <2>e, <2>h, <3>1, Completes
    <3>3. Evidence' \subseteq Evidence
      BY <2>e, <3>2 DEF Evidence
    <3>4. Entry.key \in Evidence
      BY <2>e, <2>2 DEF State, Trusted, Evidence
    <3>5. ledger[Entry.key] > 0
      BY <3>4 DEF RInv, Backed
    <3> QED BY <2>e, <3>1, <3>3, <3>5, DoneKeeps
  <2>3. CASE Entry.key \notin bad /\ State(Entry.key) # "appended"
    <3>1. UNCHANGED dead /\ cons' = [cons EXCEPT !.pc = "append"] /\ hub' = h
      BY <1>2, <2>3 DEF Decide
    <3> HIDE DEF h
    <3>2. Evidence' \subseteq Evidence
      BY <2>e, <2>h, <3>1 DEF Evidence
    <3>3. cons'.pc = "append" /\ cons'.done = cons.done
      BY <1>t, <3>1 DEF ConsOK
    <3> QED BY <2>e, <3>1, <3>2, <3>3 DEF RInv, Backed, Work, Filed, AckedIsRecorded
  <2> QED BY <2>1, <2>2, <2>3
<1>3. CASE AppendOK
  <2>1. /\ ledger' = [ledger EXCEPT ![Entry.key] = @ + 1] /\ UNCHANGED <<redis, dead, acked>>
        /\ hub'.lru = hub.lru /\ hub'.trust = hub.trust /\ hub'.indexed = hub.indexed \cup {Entry.key}
        /\ cons'.batch = cons.batch /\ cons'.done = cons.done /\ Entry.key \in Keys
    BY <1>t, <1>k, <1>3 DEF AppendOK, HubOK, HubSet, ConsOK
  <2>2. ledger'[Entry.key] > 0 /\ \A j \in Keys : ledger[j] > 0 => ledger'[j] > 0
    BY <1>t, <2>1 DEF RestOK
  <2>3. Evidence' \subseteq Evidence \cup {Entry.key}
    BY <2>1 DEF Evidence
  <2>4. Backed'
    BY <2>2, <2>3 DEF RInv, Backed, Evidence
  <2>5. \A e \in cons.done : e.key \in Keys
    BY <1>t DEF ConsOK, Ent
  <2>6. Work'
    BY <2>1, <2>2, <2>5 DEF RInv, Work, Filed, Entry
  <2>7. AckedIsRecorded'
    BY <1>t, <2>1, <2>2 DEF RInv, AckedIsRecorded, RestOK
  <2> QED BY <2>4, <2>6, <2>7
<1>4. CASE Mark
  <2>1. /\ cons.pc = "mark" /\ UNCHANGED <<ledger, dead, acked>> /\ Entry.key \in Keys
        /\ cons'.pc = "complete" /\ cons'.batch = cons.batch /\ cons'.done = cons.done
    BY <1>t, <1>k, <1>4 DEF Mark, ConsOK
  <2>2. /\ hub'.lru = Put(hub.lru, Entry.key, "appended") /\ hub'.trust = hub.trust /\ hub'.indexed = hub.indexed
        /\ redis'.claim \in {redis.claim, [redis.claim EXCEPT ![Entry.key] = "appended"]}
    BY <1>t, <1>4 DEF Mark, MarkAppended, HubOK, HubSet, RedisOK, RedisSet
  <2>3. \A k \in Keys : hub'.lru[k] = "appended" => hub.lru[k] = "appended" \/ k = Entry.key
    <3>1. hub.lru \in [Keys -> Phases]
      BY <1>t DEF HubOK, HubSet
    <3> QED BY <2>1, <2>2, <3>1 DEF Put
  <2>4. \A k \in Keys : redis'.claim[k] = "appended" => redis.claim[k] = "appended" \/ k = Entry.key
    BY <1>t, <2>1, <2>2 DEF RedisOK, RedisSet
  <2>5. Evidence' \subseteq Evidence \cup {Entry.key}
    BY <2>2, <2>3, <2>4 DEF Evidence
  <2>6. ledger[Entry.key] > 0
    BY <2>1 DEF RInv, Work
  <2> QED BY <2>1, <2>5, <2>6 DEF RInv, Backed, Work, Filed, Entry, AckedIsRecorded
<1>5. CASE Completed
  <2>1. /\ cons.pc = "complete" /\ cons' = Advance(cons) /\ UNCHANGED <<redis, ledger, dead, acked>>
        /\ Complete(Entry, "record", hub) /\ Entry \in Ent
    BY <1>k, <1>5 DEF Completed
  <2>2. hub'.lru = hub.lru /\ hub'.trust = hub.trust /\ hub'.indexed = hub.indexed
    BY <1>t, <2>1, Completes DEF HubOK
  <2>3. Evidence' \subseteq Evidence
    BY <2>1, <2>2 DEF Evidence
  <2>4. ledger[Entry.key] > 0
    BY <2>1 DEF RInv, Work
  <2> QED BY <2>1, <2>3, <2>4, DoneKeeps
<1>6. CASE Ack \/ EntryFails
  <2>1. Acknowledge /\ UNCHANGED <<hub, ledger, dead>>
    BY <1>6 DEF Ack, EntryFails
  <2>2. /\ redis'.claim = redis.claim /\ cons'.pc = "read" /\ cons'.done = {}
        /\ acked' \subseteq acked \cup Keyed(cons.done)
    BY <1>t, <2>1 DEF Acknowledge, Rest, RedisOK, RedisSet, ConsOK
  <2>3. Evidence' \subseteq Evidence
    BY <2>1, <2>2 DEF Evidence
  <2>4. \A k \in Keyed(cons.done) : Filed(k)
    BY DEF RInv, Work, Keyed
  <2>5. AckedIsRecorded'
    BY <2>1, <2>2, <2>4 DEF RInv, AckedIsRecorded, Filed
  <2> QED BY <2>1, <2>2, <2>3, <2>5 DEF RInv, Backed, Work
<1> QED BY <1>1, <1>2, <1>3, <1>4, <1>5, <1>6 DEF Consume

\* The invariant is inductive.
LEMMA RStep == Sane /\ RInv /\ [Next]_vars => RInv'
<1> SUFFICES ASSUME Sane, RInv, [Next]_vars PROVE RInv'
  OBVIOUS
<1>t. Types'
  BY TStep DEF RInv
<1>1. CASE UNCHANGED vars
  BY <1>t, <1>1 DEF vars, RInv, Backed, Evidence, Work, Filed, Entry, AckedIsRecorded
<1> QED BY <1>t, <1>1, StepsAre, RSender, RConsume, RSupervise, RWorld DEF RInv

\* At the start nothing is said to be recorded.
LEMMA RInit == Init => RInv
<1> SUFFICES ASSUME Init PROVE RInv
  OBVIOUS
<1>1. Evidence = {}
  BY DEF Init, Evidence, Empty, None
<1> QED BY <1>1, TInit DEF Init, RInv, Backed, Work, Quiet, AckedIsRecorded

(***************************************************************************)
(* What the consumer acknowledged is in the ledger or on the dead-letter   *)
(* stream, whatever appends fail, claims are lost, Redis forgets, consumers *)
(* are stopped and processes die (runBatch, handleEntry).                  *)
(***************************************************************************)
THEOREM AckedStaysRecorded == Sane => (Spec => []AckedIsRecorded)
<1> SUFFICES ASSUME Sane PROVE Spec => []AckedIsRecorded
  OBVIOUS
<1>1. RInv => AckedIsRecorded
  BY DEF RInv
<1> QED BY <1>1, RInit, RStep, PTL DEF Spec

-----------------------------------------------------------------------------
(* ------------------------- no answer is lost ---------------------------- *)

\* The entries in the stream and in the consumer's hands.
Around == Batch(redis.todo) \cup redis.pel \cup redis.old \cup Batch(cons.batch) \cup cons.done

\* The sender's entry is on the stream and the call is not over.
Active(s) == offer[s].pc \in {"added", "wait"}

\* Ids are given out in order, so the next one is new to everybody.
Ids ==
  /\ \A e \in Around : e.id <= spent.entries
  /\ \A n \in hub.done : n <= spent.entries
  /\ \A s \in Senders : Active(s) => offer[s].id <= spent.entries

\* Two calls under way wait for different entries.
Own == \A s, t \in Senders : s # t /\ Active(s) /\ Active(t) => offer[s].id # offer[t].id

\* The answer to an entry whose sender has yet to register is parked.
Parked ==
  \A s \in Senders : offer[s].pc = "added" /\ offer[s].wire = hub.wire /\ offer[s].id \in hub.done
                        => \E a \in hub.parked : a.id = offer[s].id

Doors == Ids /\ Own /\ Parked /\ NoLostAnswer
NInv == Types /\ Doors

\* A step the door has no part in.
LEMMA DoorStill ==
  ASSUME NInv, UNCHANGED offer, spent'.entries = spent.entries, Around' \subseteq Around,
         hub'.done = hub.done, hub'.parked = hub.parked, hub'.wire = hub.wire
  PROVE  Doors'
BY DEF NInv, Doors, Ids, Own, Parked, NoLostAnswer, Active

\* A new door has answered nothing.
LEMMA DoorNew ==
  ASSUME NInv, spent'.entries = spent.entries, Around' \subseteq Around, hub'.done = {},
         \A s \in Senders : offer'[s] = offer[s] \/ offer'[s].pc = "idle"
  PROVE  Doors'
<1>1. \A s \in Senders : Active(s)' => Active(s) /\ offer'[s] = offer[s]
  BY DEF Active
<1>2. Ids'
  BY <1>1 DEF NInv, Doors, Ids
<1>3. Own'
  BY <1>1 DEF NInv, Doors, Own
<1> QED BY <1>2, <1>3 DEF Doors, Parked, NoLostAnswer

\* A call that is over, or not yet on the stream, leaves the others' answers alone.
LEMMA DoorLeft ==
  ASSUME NInv, NEW s \in Senders, offer'[s].pc \in {"idle", "claimed"},
         \A t \in Senders : t # s => offer'[t] = offer[t],
         spent'.entries = spent.entries, Around' \subseteq Around, hub'.done = hub.done, hub'.wire = hub.wire,
         \A a \in hub.parked : a \in hub'.parked \/ (Active(s) /\ a.id = offer[s].id)
  PROVE  Doors'
<1>1. \A t \in Senders : Active(t)' => t # s /\ Active(t) /\ offer'[t] = offer[t]
  BY DEF Active
<1>2. Ids'
  BY <1>1 DEF NInv, Doors, Ids
<1>3. Own'
  BY <1>1 DEF NInv, Doors, Own
<1>4. Parked'
  <2> SUFFICES ASSUME NEW t \in Senders, offer'[t].pc = "added", offer'[t].wire = hub.wire, offer'[t].id \in hub.done
               PROVE  \E a \in hub'.parked : a.id = offer'[t].id
    BY DEF Parked
  <2>1. t # s /\ Active(t) /\ offer'[t] = offer[t]
    BY <1>1 DEF Active
  <2>2. PICK a \in hub.parked : a.id = offer[t].id
    BY <2>1 DEF NInv, Doors, Parked
  <2>3. ~(Active(s) /\ a.id = offer[s].id)
    BY <2>1, <2>2 DEF NInv, Doors, Own
  <2> QED BY <2>1, <2>2, <2>3
<1>5. NoLostAnswer'
  BY <1>1 DEF NInv, Doors, NoLostAnswer, Active
<1> QED BY <1>2, <1>3, <1>4, <1>5 DEF Doors

\* An entry is answered: its waiter has the answer, or the answer is parked.
LEMMA DoorAnswers ==
  ASSUME NInv, NEW e \in Around, e \in Ent, NEW w \in {"record", "error"}, NEW h, h \in HubSet, Complete(e, w, h),
         h.done = hub.done, h.parked = hub.parked, h.wire = hub.wire,
         spent'.entries = spent.entries, Around' \subseteq Around
  PROVE  Doors'
<1>t. OfferOK
  BY DEF NInv, Types
<1>1. hub'.done = hub.done \cup {e.id} /\ hub'.wire = hub.wire /\ hub.parked \subseteq hub'.parked
  BY <1>t, Completes
<1>2. \A s \in Senders : /\ offer'[s].pc = offer[s].pc /\ offer'[s].id = offer[s].id /\ offer'[s].wire = offer[s].wire
                         /\ offer'[s].ans = IF s \in Waiting(e) THEN w ELSE offer[s].ans
  <2>1. CASE Waiting(e) # {}
    <3>1. offer' = [s \in Senders |-> IF s \in Waiting(e) THEN [offer[s] EXCEPT !.ans = w] ELSE offer[s]]
      BY <2>1 DEF Complete
    <3>2. \A s \in Senders : offer[s] \in Offers
      BY <1>t DEF OfferOK
    <3> QED BY <3>1, <3>2 DEF Offers
  <2>2. CASE Waiting(e) = {}
    BY <2>2 DEF Complete
  <2> QED BY <2>1, <2>2
<1>3. Waiting(e) = {} => [id |-> e.id, ans |-> w] \in hub'.parked
  <2> SUFFICES ASSUME Waiting(e) = {} PROVE [id |-> e.id, ans |-> w] \in hub'.parked
    OBVIOUS
  <2>1. hub' = [h EXCEPT !.parked = @ \cup {[id |-> e.id, ans |-> w]}, !.done = @ \cup {e.id}]
    BY DEF Complete
  <2>2. hub'.parked = h.parked \cup {[id |-> e.id, ans |-> w]}
    BY <2>1 DEF HubSet
  <2> QED BY <2>2
<1>4. Ids'
  BY <1>1, <1>2 DEF NInv, Doors, Ids, Active
<1>5. Own'
  BY <1>2 DEF NInv, Doors, Own, Active
<1>6. Parked'
  <2> SUFFICES ASSUME NEW s \in Senders, offer[s].pc = "added", offer[s].wire = hub.wire, offer[s].id \in hub'.done
               PROVE  \E a \in hub'.parked : a.id = offer[s].id
    BY <1>1, <1>2 DEF Parked
  <2>1. CASE offer[s].id \in hub.done
    BY <1>1, <2>1 DEF NInv, Doors, Parked
  <2>2. CASE offer[s].id = e.id
    <3>1. \A t \in Senders : t \notin Waiting(e)
      BY <2>2 DEF NInv, Doors, Own, Active, Waiting
    <3>2. Waiting(e) = {}
      BY <3>1 DEF Waiting
    <3> QED BY <1>3, <2>2, <3>2
  <2> QED BY <1>1, <2>1, <2>2
<1>7. NoLostAnswer'
  <2> SUFFICES ASSUME NEW s \in Senders, offer[s].pc = "wait", offer[s].wire = hub.wire, offer[s].id \in hub'.done
               PROVE  offer'[s].ans # None
    BY <1>1, <1>2 DEF NoLostAnswer
  <2>1. CASE s \in Waiting(e)
    BY <1>2, <2>1 DEF None
  <2>2. CASE s \notin Waiting(e)
    <3>1. offer[s].id \in hub.done
      BY <1>1, <2>2 DEF Waiting
    <3> QED BY <1>2, <2>2, <3>1 DEF NInv, Doors, NoLostAnswer
  <2> QED BY <2>1, <2>2
<1> QED BY <1>4, <1>5, <1>6, <1>7 DEF Doors

\* The stream and the consumer's hands, where they only lose entries.
LEMMA AroundShrinks ==
  ASSUME Batch(redis'.todo) \subseteq Around, redis'.pel \subseteq Around, redis'.old \subseteq Around,
         Batch(cons'.batch) \subseteq Around, cons'.done \subseteq Around
  PROVE  Around' \subseteq Around
<1>1. Around' = Batch(redis'.todo) \cup redis'.pel \cup redis'.old \cup Batch(cons'.batch) \cup cons'.done
  BY DEF Around, Batch
<1> QED BY <1>1

\* The parts of it.
LEMMA AroundHas ==
  /\ Batch(redis.todo) \subseteq Around /\ redis.pel \subseteq Around /\ redis.old \subseteq Around
  /\ Batch(cons.batch) \subseteq Around /\ cons.done \subseteq Around
BY DEF Around

\* A call's steps that end it, or come before the stream.
LEMMA NLeaves ==
  ASSUME NInv, Sane, NEW s \in Senders, Claim(s) \/ EnqueueFails(s) \/ Answered(s) \/ Timeout(s) \/ Bypass(s)
  PROVE  Doors'
<1>t. RedisOK /\ HubOK /\ OfferOK
  BY DEF NInv, Types
<1>1. offer'[s].pc \in {"idle", "claimed"} /\ \A t \in Senders : t # s => offer'[t] = offer[t]
  <2>1. CASE Fresh(KeyOf[s]) /\ Claim(s)
    BY <1>t, <2>1 DEF Claim, OfferOK, Offers
  <2>2. CASE ~(Fresh(KeyOf[s]) /\ Claim(s))
    <3>1. \E w \in {"confirmed", "refused"} : Reply(s, w)
      BY <2>2 DEF Claim, EnqueueFails, Answered, Timeout, Bypass
    <3> QED BY <1>t, <3>1, Replies
  <2> QED BY <2>1, <2>2
<1>2. UNCHANGED <<cons, spent>>
  BY DEF Claim, EnqueueFails, Answered, Timeout, Bypass
<1>3. redis'.todo = redis.todo /\ redis'.pel = redis.pel /\ redis'.old = redis.old
  <2>1. CASE Claim(s)
    BY <1>t, <2>1 DEF Claim, RedisOK, RedisSet
  <2>2. CASE EnqueueFails(s)
    BY <1>t, <2>2 DEF EnqueueFails, Release, RedisOK, RedisSet
  <2>3. CASE Answered(s) \/ Timeout(s) \/ Bypass(s)
    BY <2>3 DEF Answered, Timeout, Bypass
  <2> QED BY <2>1, <2>2, <2>3
<1>4. Around' \subseteq Around
  BY <1>2, <1>3, AroundHas, AroundShrinks
<1>5. /\ hub'.done = hub.done /\ hub'.wire = hub.wire
      /\ \A a \in hub.parked : a \in hub'.parked \/ (Active(s) /\ a.id = offer[s].id)
  <2>l. /\ MarkLost(hub) \in HubSet /\ hub \in HubSet /\ MarkLost(hub).wire = hub.wire
        /\ MarkLost(hub).parked = hub.parked /\ MarkLost(hub).done = hub.done
    BY <1>t, MarkLostIs DEF HubOK
  <2>1. CASE Claim(s)
    BY <2>l, <2>1 DEF Claim, HubSet
  <2>2. CASE EnqueueFails(s)
    BY <2>l, <2>2 DEF EnqueueFails, Release, HubSet
  <2>3. CASE Answered(s)
    BY <2>l, <2>3 DEF Answered, HubSet, Active
  <2>4. CASE Timeout(s)
    BY <2>l, <2>4 DEF Timeout, HubSet, Active
  <2>5. CASE Bypass(s)
    BY <2>5 DEF Bypass
  <2> QED BY <2>1, <2>2, <2>3, <2>4, <2>5
<1> QED BY <1>1, <1>2, <1>4, <1>5, DoorLeft

\* The entry is added: its id is nobody else's.
LEMMA NEnqueue ==
  ASSUME NInv, Sane, NEW s \in Senders, Enqueue(s)
  PROVE  Doors'
<1> DEFINE n == spent.entries + 1
           e == [id |-> n, key |-> KeyOf[s]]
<1>t. RedisOK /\ OfferOK /\ RestOK /\ HubOK
  BY DEF NInv, Types
<1>n. n \in Nat /\ spent.entries \in Nat /\ e \in Ent /\ e.id = n
  BY <1>t DEF RestOK, Ent, Sane
<1>1. UNCHANGED <<hub, cons>> /\ spent'.entries = n
  BY <1>t DEF Enqueue, RestOK
<1>2. /\ offer'[s].pc = "added" /\ offer'[s].id = n
      /\ \A t \in Senders : t # s => offer'[t] = offer[t]
  BY <1>t DEF Enqueue, OfferOK, Offers
<1> HIDE DEF n
<1>3. Batch(redis'.todo) \subseteq Around \cup {e} /\ redis'.pel = redis.pel /\ redis'.old = redis.old
  <2>1. redis' = IF redis.group THEN [redis EXCEPT !.todo = Append(redis.todo, e)] ELSE redis
    BY DEF Enqueue, n
  <2>2. redis.todo \in Seq(Ent)
    BY <1>t DEF RedisOK, RedisSet
  <2>3. Batch(Append(redis.todo, e)) = Batch(redis.todo) \cup {e}
    BY <1>n, <2>2, Adds
  <2> QED BY <1>t, <2>1, <2>3, AroundHas DEF RedisOK, RedisSet
<1>4. Around' \subseteq Around \cup {e}
  <2>1. Around' = Batch(redis'.todo) \cup redis'.pel \cup redis'.old \cup Batch(cons.batch) \cup cons.done
    BY <1>1 DEF Around, Batch
  <2> QED BY <1>3, <2>1, AroundHas
<1>a. Around \subseteq Ent
  <2>1. Batch(redis.todo) \subseteq Ent /\ Batch(cons.batch) \subseteq Ent
    BY DEF Batch, NInv, Types, RedisOK, RedisSet, ConsOK
  <2> QED BY <2>1 DEF Around, NInv, Types, RedisOK, RedisSet, ConsOK
<1>5. \A x \in Around : x.id \in Nat /\ x.id <= n
  BY <1>a, <1>n DEF NInv, Doors, Ids, Ent, n
<1>6. \A m \in hub.done : m \in Nat /\ m < n
  BY <1>t, <1>n DEF NInv, Doors, Ids, HubOK, HubSet, n
<1>7. \A t \in Senders : Active(t) => offer[t].id \in Nat /\ offer[t].id < n
  BY <1>t, <1>n DEF NInv, Doors, Ids, OfferOK, Offers, n
<1>8. \A t \in Senders : t # s /\ Active(t)' => Active(t) /\ offer'[t] = offer[t]
  BY <1>2 DEF Active
<1>9. Ids'
  BY <1>1, <1>2, <1>4, <1>5, <1>6, <1>7, <1>8, <1>n DEF Ids
<1>10. Own'
  BY <1>2, <1>7, <1>8, <1>n DEF NInv, Doors, Own
<1>11. Parked'
  BY <1>1, <1>2, <1>6, <1>n DEF NInv, Doors, Parked
<1>12. NoLostAnswer'
  BY <1>1, <1>2 DEF NInv, Doors, NoLostAnswer
<1> QED BY <1>9, <1>10, <1>11, <1>12 DEF Doors

\* The waiter registers, and takes what is parked.
LEMMA NRegister ==
  ASSUME NInv, NEW s \in Senders, Register(s)
  PROVE  Doors'
<1> DEFINE mine == {a \in hub.parked : a.id = offer[s].id /\ offer[s].wire = hub.wire}
           y == IF mine = {} THEN None ELSE (CHOOSE a \in mine : TRUE).ans
<1>t. HubOK /\ OfferOK
  BY DEF NInv, Types
<1>1. /\ offer[s].pc = "added" /\ UNCHANGED <<redis, cons, spent>>
      /\ offer' = [offer EXCEPT ![s].pc = "wait", ![s].ans = y]
      /\ hub' = [hub EXCEPT !.parked = @ \ mine]
  BY DEF Register
<1>2. mine # {} => y \in {"record", "error"}
  BY <1>t DEF HubOK, HubSet
<1> HIDE DEF y
<1>3. /\ offer'[s].pc = "wait" /\ offer'[s].id = offer[s].id /\ offer'[s].wire = offer[s].wire /\ offer'[s].ans = y
      /\ \A t \in Senders : t # s => offer'[t] = offer[t]
  BY <1>t, <1>1 DEF OfferOK, Offers
<1>4. hub'.done = hub.done /\ hub'.wire = hub.wire /\ hub'.parked = hub.parked \ mine
  BY <1>t, <1>1 DEF HubOK, HubSet
<1>5. \A t \in Senders : (Active(t)' <=> Active(t)) /\ offer'[t].id = offer[t].id
  BY <1>1, <1>3 DEF Active
<1>6. Around' \subseteq Around
  BY <1>1 DEF Around
<1>7. Ids'
  BY <1>1, <1>4, <1>5, <1>6 DEF NInv, Doors, Ids
<1>8. Own'
  BY <1>5 DEF NInv, Doors, Own
<1>9. Parked'
  <2> SUFFICES ASSUME NEW t \in Senders, offer'[t].pc = "added", offer'[t].wire = hub.wire, offer'[t].id \in hub.done
               PROVE  \E a \in hub'.parked : a.id = offer'[t].id
    BY <1>4 DEF Parked
  <2>1. t # s /\ offer'[t] = offer[t]
    BY <1>3
  <2>2. PICK a \in hub.parked : a.id = offer[t].id
    BY <2>1 DEF NInv, Doors, Parked
  <2>3. offer[t].id # offer[s].id
    BY <1>1, <2>1 DEF NInv, Doors, Own, Active
  <2> QED BY <1>4, <2>1, <2>2, <2>3
<1>10. NoLostAnswer'
  <2>1. offer[s].wire = hub.wire /\ offer[s].id \in hub.done => mine # {}
    BY <1>1 DEF NInv, Doors, Parked
  <2> QED BY <1>2, <1>3, <1>4, <2>1 DEF NInv, Doors, NoLostAnswer, None
<1> QED BY <1>7, <1>8, <1>9, <1>10 DEF Doors

\* The consumer at work.
LEMMA NConsume ==
  ASSUME NInv, Sane, Consume
  PROVE  Doors'
<1>t. RedisOK /\ HubOK /\ ConsOK /\ OfferOK /\ RestOK
  BY DEF NInv, Types
<1>h. cons.pc \in {"entry", "append", "mark", "complete"} =>
        /\ Entry \in Ent /\ Entry \in Around
        /\ Batch(Advance(cons).batch) \subseteq Around /\ Advance(cons).done \subseteq Around
  <2> SUFFICES ASSUME cons.pc \in {"entry", "append", "mark", "complete"}
               PROVE  /\ Entry \in Ent /\ Entry \in Around
                      /\ Batch(Advance(cons).batch) \subseteq Around /\ Advance(cons).done \subseteq Around
    OBVIOUS
  <2>1. /\ Entry \in Ent /\ Entry \in Batch(cons.batch)
        /\ Advance(cons).batch = Tail(cons.batch) /\ Advance(cons).done = cons.done \cup {Entry}
        /\ Batch(Tail(cons.batch)) \subseteq Batch(cons.batch)
    BY <1>t, AtHand
  <2> QED BY <2>1, AroundHas
<1>1. CASE Read
  <2> DEFINE n == IF Len(redis.todo) < BatchRecs THEN Len(redis.todo) ELSE BatchRecs
             b == SubSeq(redis.todo, 1, n)
  <2>1. redis.todo \in Seq(Ent) /\ redis.todo # <<>>
    BY <1>1, <1>t DEF Read, RedisOK, RedisSet
  <2>2. n \in 1..Len(redis.todo)
    BY <2>1 DEF Sane
  <2>3. /\ cons' = [cons EXCEPT !.pc = "entry", !.batch = b] /\ UNCHANGED <<hub, offer, spent>>
        /\ redis' = [redis EXCEPT !.todo = SubSeq(@, n + 1, Len(@)), !.pel = @ \cup Batch(b)]
    BY <1>1 DEF Read
  <2> HIDE DEF n
  <2>4. /\ Batch(b) \subseteq Batch(redis.todo)
        /\ Batch(SubSeq(redis.todo, n + 1, Len(redis.todo))) \subseteq Batch(redis.todo)
    BY <2>1, <2>2, Splits
  <2> HIDE DEF b
  <2>5. /\ redis'.todo = SubSeq(redis.todo, n + 1, Len(redis.todo)) /\ redis'.pel = redis.pel \cup Batch(b)
        /\ redis'.old = redis.old /\ cons'.batch = b /\ cons'.done = cons.done
    BY <1>t, <2>3 DEF RedisOK, RedisSet, ConsOK
  <2>6. Around' \subseteq Around
    BY <2>4, <2>5, AroundHas, AroundShrinks
  <2> QED BY <2>3, <2>6, DoorStill
<1>2. CASE Reclaim
  <2>1. PICK e \in redis.old : /\ cons' = [cons EXCEPT !.pc = "entry", !.batch = <<e>>]
                               /\ redis' = [redis EXCEPT !.old = @ \ {e}]
    BY <1>2 DEF Reclaim
  <2>2. Batch(<<e>>) = {e}
    BY Single
  <2>3. /\ redis'.todo = redis.todo /\ redis'.pel = redis.pel /\ redis'.old \subseteq redis.old
        /\ Batch(cons'.batch) = {e} /\ cons'.done = cons.done
    BY <1>t, <2>1, <2>2 DEF RedisOK, RedisSet, ConsOK
  <2>4. Around' \subseteq Around
    BY <2>1, <2>3, AroundHas, AroundShrinks
  <2> QED BY <1>2, <2>4, DoorStill DEF Reclaim
<1>3. CASE Decide
  <2> DEFINE h == IF Trusted(Entry.key) THEN hub ELSE [hub EXCEPT !.degraded = Degrades]
  <2>h. /\ h \in HubSet /\ hub \in HubSet /\ h.done = hub.done /\ h.parked = hub.parked /\ h.wire = hub.wire
    BY <1>t, FlagsAre DEF HubOK, HubSet
  <2>e. /\ Entry \in Ent /\ Entry \in Around /\ UNCHANGED <<redis, spent>>
        /\ Batch(Advance(cons).batch) \subseteq Around /\ Advance(cons).done \subseteq Around
    BY <1>3, <1>h DEF Decide
  <2>a. cons' = Advance(cons) => Around' \subseteq Around
    BY <2>e, AroundHas, AroundShrinks
  <2>1. CASE Entry.key \in bad
    <3>1. cons' = Advance(cons) /\ Complete(Entry, "error", hub)
      BY <1>3, <2>1 DEF Decide
    <3> QED BY <2>h, <2>e, <2>a, <3>1, DoorAnswers
  <2>2. CASE Entry.key \notin bad /\ State(Entry.key) = "appended"
    <3>1. cons' = Advance(cons) /\ Complete(Entry, "record", h)
      BY <1>3, <2>2 DEF Decide
    <3> HIDE DEF h
    <3> QED BY <2>h, <2>e, <2>a, <3>1, DoorAnswers
  <2>3. CASE Entry.key \notin bad /\ State(Entry.key) # "appended"
    <3>1. cons' = [cons EXCEPT !.pc = "append"] /\ hub' = h /\ UNCHANGED offer
      BY <1>3, <2>3 DEF Decide
    <3> HIDE DEF h
    <3>2. cons'.batch = cons.batch /\ cons'.done = cons.done
      BY <1>t, <3>1 DEF ConsOK
    <3>3. Around' \subseteq Around
      BY <2>e, <3>2, AroundHas, AroundShrinks
    <3> QED BY <2>h, <2>e, <3>1, <3>3, DoorStill
  <2> QED BY <2>1, <2>2, <2>3
<1>4. CASE AppendOK \/ Mark
  <2>1. UNCHANGED <<offer, spent>> /\ cons'.batch = cons.batch /\ cons'.done = cons.done
    BY <1>t, <1>4 DEF AppendOK, Mark, ConsOK
  <2>2. hub'.done = hub.done /\ hub'.parked = hub.parked /\ hub'.wire = hub.wire
    BY <1>t, <1>4 DEF AppendOK, Mark, MarkAppended, HubOK, HubSet
  <2>3. redis'.todo = redis.todo /\ redis'.pel = redis.pel /\ redis'.old = redis.old
    BY <1>t, <1>4 DEF AppendOK, Mark, MarkAppended, RedisOK, RedisSet
  <2>4. Around' \subseteq Around
    BY <2>1, <2>3, AroundHas, AroundShrinks
  <2> QED BY <2>1, <2>2, <2>4, DoorStill
<1>5. CASE Completed
  <2>1. /\ cons' = Advance(cons) /\ UNCHANGED <<redis, spent>> /\ Complete(Entry, "record", hub)
        /\ Entry \in Ent /\ Entry \in Around
        /\ Batch(Advance(cons).batch) \subseteq Around /\ Advance(cons).done \subseteq Around
    BY <1>5, <1>h DEF Completed
  <2>2. Around' \subseteq Around
    BY <2>1, AroundHas, AroundShrinks
  <2>3. hub \in HubSet
    BY <1>t DEF HubOK
  <2> QED BY <2>1, <2>2, <2>3, DoorAnswers
<1>6. CASE Ack \/ EntryFails
  <2>1. Acknowledge /\ UNCHANGED <<hub, offer>> /\ spent'.entries = spent.entries
    BY <1>t, <1>6, FaultIs DEF Ack, EntryFails
  <2>2. /\ redis'.todo = redis.todo /\ redis'.pel \subseteq redis.pel /\ redis'.old \subseteq redis.old
        /\ cons'.batch = <<>> /\ cons'.done = {}
    BY <1>t, <2>1 DEF Acknowledge, Rest, RedisOK, RedisSet, ConsOK
  <2>3. Around' \subseteq Around
    BY <2>2, Single, AroundHas, AroundShrinks
  <2> QED BY <2>1, <2>3, DoorStill
<1> QED BY <1>1, <1>2, <1>3, <1>4, <1>5, <1>6 DEF Consume

\* The supervisor, boot and crash.
LEMMA NSupervise ==
  ASSUME NInv, Supervise \/ ReclaimFails \/ Open \/ Crash
  PROVE  Doors'
<1>t. Types /\ RedisOK /\ HubOK /\ ConsOK /\ OfferOK /\ RestOK
  BY DEF NInv, Types
<1>s. spent'.entries = spent.entries
  BY <1>t, FaultIs DEF Supervise, ProbeFails, StopConsumer, Reconnect, Restart, ReclaimFails, Open, Crash
<1>q. cons' = Quiet \/ cons' = [Quiet EXCEPT !.run = TRUE] => Batch(cons'.batch) = {} /\ cons'.done = {}
  BY QuietToo, QuietIs, Single
<1>1. CASE (Reconnect \/ Open) /\ Attach
  <2>1. UNCHANGED offer
    BY <1>1 DEF Reconnect, Open
  <2>2. /\ redis'.pel = redis.pel /\ redis'.old = redis.old /\ redis'.todo \in {redis.todo, <<>>}
        /\ cons'.batch = <<>> /\ cons'.done = {} /\ hub'.done = {}
    BY <1>t, <1>1, Attaches
  <2>3. Around' \subseteq Around
    BY <2>2, Single, AroundHas, AroundShrinks
  <2> QED BY <1>s, <2>1, <2>2, <2>3, DoorNew
<1>2. CASE Crash
  <2>1. hub'.done = {} /\ UNCHANGED redis /\ cons' = Quiet
    BY <1>t, <1>2 DEF Crash, HubOK, HubSet
  <2>2. \A s \in Senders : offer'[s] = offer[s] \/ offer'[s].pc = "idle"
    BY <1>2 DEF Crash, NoOffer
  <2>3. Around' \subseteq Around
    BY <1>q, <2>1, AroundHas, AroundShrinks
  <2> QED BY <1>s, <2>1, <2>2, <2>3, DoorNew
<1>3. CASE ~Attach /\ ~Crash
  <2>1. UNCHANGED <<offer, redis>> /\ (UNCHANGED cons \/ cons' = Quiet \/ cons' = [Quiet EXCEPT !.run = TRUE])
    BY <1>3 DEF Supervise, ProbeFails, StopConsumer, Reconnect, Restart, ReclaimFails, Open
  <2>2. Around' \subseteq Around
    BY <1>q, <2>1, AroundHas, AroundShrinks
  <2>3. hub'.done = hub.done /\ hub'.parked = hub.parked /\ hub'.wire = hub.wire
    <3>1. CASE ProbeFails
      BY <1>t, <3>1, MarkLostIs DEF ProbeFails
    <3>2. CASE Reconnect \/ Open
      BY <1>t, <1>3, <3>2 DEF Reconnect, Open, HubOK, HubSet
    <3>3. CASE StopConsumer \/ Restart \/ ReclaimFails
      BY <3>3 DEF StopConsumer, Restart, ReclaimFails
    <3> QED BY <1>3, <3>1, <3>2, <3>3 DEF Supervise
  <2> QED BY <1>s, <2>1, <2>2, <2>3, DoorStill
<1>4. CASE Attach /\ ~(Reconnect \/ Open) /\ ~Crash
  <2>1. UNCHANGED redis /\ UNCHANGED offer /\ (UNCHANGED cons \/ cons' = Quiet \/ cons' = [Quiet EXCEPT !.run = TRUE])
    BY <1>4 DEF Supervise, ProbeFails, StopConsumer, Restart, ReclaimFails
  <2>2. Around' \subseteq Around
    BY <1>q, <2>1, AroundHas, AroundShrinks
  <2>3. hub'.done = {}
    BY <1>t, <1>4, Attaches
  <2> QED BY <1>s, <2>1, <2>2, <2>3, DoorNew
<1> QED BY <1>1, <1>2, <1>3, <1>4

\* The world's steps.
LEMMA NWorld ==
  ASSUME NInv, World
  PROVE  Doors'
<1>t. RedisOK /\ HubOK /\ RestOK
  BY DEF NInv, Types
<1>1. UNCHANGED <<cons, offer>> /\ spent'.entries = spent.entries
  BY <1>t, FaultIs DEF World, TrustEnds, Idle, Land, ClaimLost, RedisDown, RedisUp
<1>2. hub'.done = hub.done /\ hub'.parked = hub.parked /\ hub'.wire = hub.wire
  BY <1>t DEF World, TrustEnds, Idle, Land, ClaimLost, RedisDown, RedisUp, HubOK, HubSet
<1>3. /\ redis'.todo \in {redis.todo, <<>>} /\ redis'.pel \subseteq redis.pel
      /\ redis'.old \subseteq redis.old \cup redis.pel
  <2>1. CASE RedisUp
    BY <1>t, <2>1 DEF RedisUp, RedisOK, RedisSet
  <2>2. ASSUME NEW e \in redis.pel, Idle(e)
        PROVE  redis'.todo = redis.todo /\ redis'.pel = redis.pel /\ redis'.old = redis.old \cup {e}
    BY <1>t, <2>2 DEF Idle, RedisOK, RedisSet
  <2>3. CASE TrustEnds \/ RedisDown \/ \E k \in Keys : Land(k) \/ ClaimLost(k)
    BY <1>t, <2>3 DEF TrustEnds, RedisDown, Land, ClaimLost, RedisOK, RedisSet
  <2> QED BY <2>1, <2>2, <2>3 DEF World
<1>4. Around' \subseteq Around
  BY <1>1, <1>3, Single, AroundHas, AroundShrinks
<1> QED BY <1>1, <1>2, <1>4, DoorStill

\* The invariant is inductive.
LEMMA NStep == Sane /\ NInv /\ [Next]_vars => NInv'
<1> SUFFICES ASSUME Sane, NInv, [Next]_vars PROVE NInv'
  OBVIOUS
<1>t. Types'
  BY TStep DEF NInv
<1>1. CASE UNCHANGED vars
  <2>1. UNCHANGED <<redis, hub, cons, offer, spent>> /\ Around' \subseteq Around
    BY <1>1 DEF vars, Around
  <2> QED BY <1>t, <2>1, DoorStill DEF NInv
<1>2. ASSUME NEW s \in Senders, Claim(s) \/ Call(s) \/ Bypass(s) PROVE Doors'
  BY <1>2, NLeaves, NEnqueue, NRegister DEF Call
<1> QED BY <1>t, <1>1, <1>2, StepsAre, NConsume, NSupervise, NWorld DEF NInv

\* At the start nobody waits.
LEMMA NInit == Init => NInv
<1> SUFFICES ASSUME Init PROVE NInv
  OBVIOUS
<1>1. Around = {}
  BY Single DEF Init, Around, Quiet
<1>2. \A s \in Senders : offer[s].pc = "idle"
  BY DEF Init, NoOffer
<1>3. hub.done = {}
  BY DEF Init
<1> QED BY <1>1, <1>2, <1>3, TInit DEF NInv, Doors, Ids, Own, Parked, NoLostAnswer, Active

(***************************************************************************)
(* Whichever comes first, the consumer's answer or the sender's            *)
(* registration, a sender that waits on the present wiring for an entry    *)
(* that has been answered has its answer (Door.Complete, Door.register).   *)
(***************************************************************************)
THEOREM NoAnswerLost == Sane => (Spec => []NoLostAnswer)
<1> SUFFICES ASSUME Sane PROVE Spec => []NoLostAnswer
  OBVIOUS
<1>1. NInv => NoLostAnswer
  BY DEF NInv, Doors
<1> QED BY <1>1, NInit, NStep, PTL DEF Spec
=============================================================================
