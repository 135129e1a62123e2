------------------------------ MODULE LedgerIndex ------------------------------
(* The resident index of the ledger (index.go): groups with their slots,   *)
(* the cold shadow, the alias maps, incidents, their refs and the recency  *)
(* ring.  Every record the writer flushed is applied in seq order; a boot  *)
(* applies the whole log again, in full or without the events (build).     *)
(* The index is one value and Apply a function on it, as live appends and  *)
(* the rebuild share applyLocked.  A record's timestamp is its seq.        *)
EXTENDS Naturals, Sequences, SequencesExt, FiniteSets, FiniteSetsExt

CONSTANTS
  Events,         \* the events that may arrive: [key, sig, mk, inc]
  Incs,           \* incidents: id -> sig
  MaxGroups,      \* index_max_groups
  MaxIncidents,   \* index_max_incidents
  IncPerIncident, \* index_inc_per_incident
  IncidentRing,   \* index_incident_ring
  MaxRecs,        \* bound: records appended
  MaxBoots        \* bound: restarts

VARIABLES
  log,    \* the records on disk
  ix,     \* the index
  boots   \* restarts so far

vars == <<log, ix, boots>>

None == "none"
Nil == [key |-> None]
Empty == [n \in {} |-> 0]
NewIndex ==
  [groups |-> Empty, cold |-> Empty, order |-> <<>>, counts |-> <<>>, retired |-> <<>>, free |-> <<>>,
   sigs |-> Empty, mks |-> Empty, incs |-> Empty, open |-> Empty, ring |-> <<>>, refs |-> Empty, over |-> Empty,
   evicted |-> {}, part |-> FALSE]

Put(f, k, v) == [x \in DOMAIN f \union {k} |-> IF x = k THEN v ELSE f[x]]
Without(f, S) == [x \in DOMAIN f \ S |-> f[x]]
At(f, k, d) == IF k \in DOMAIN f THEN f[k] ELSE d
(* Remove an entry of a map when it has the value expected.                *)
Unmap(f, k, v) == IF k \in DOMAIN f /\ f[k] = v THEN Without(f, {k}) ELSE f
-----------------------------------------------------------------------------
(* Groups and their slots.                                                 *)

NewEntry(key) == [key |-> key, sig |-> None, mk |-> None, inc |-> None, count |-> 0, seen |-> 0, last |-> 0]
(* newGroupLocked: a released slot first, a new one at the end otherwise.  *)
InSlot(x, key, s) ==
  [x EXCEPT !.groups = Put(@, key, s), !.order[s] = NewEntry(key), !.counts[s] = 0, !.retired[s] = FALSE,
            !.free = Front(@)]
NewGroup(x, key) ==
  IF x.free # <<>> THEN InSlot(x, key, Last(x.free))
  ELSE [x EXCEPT !.groups = Put(@, key, Len(x.order) + 1), !.order = Append(@, NewEntry(key)),
                 !.counts = Append(@, 0), !.retired = Append(@, FALSE)]

(* releaseSlotLocked.                                                      *)
ReleaseSlot(x, s) ==
  [x EXCEPT !.order[s] = Nil, !.counts[s] = 0, !.retired[s] = TRUE, !.free = Append(@, s)]

Unalias(x, ge) == [x EXCEPT !.sigs = Unmap(@, ge.sig, ge.key), !.mks = Unmap(@, ge.mk, ge.key)]
(* expireColdLocked: the cold group seen longest ago leaves, and its slot. *)
ColdVictim(x) == CHOOSE k \in DOMAIN x.cold : \A j \in DOMAIN x.cold : x.order[x.cold[k]].seen <= x.order[x.cold[j]].seen
DropCold(x, k) == ReleaseSlot(Unalias([x EXCEPT !.cold = Without(@, {k})], x.order[x.cold[k]]), x.cold[k])
ExpireCold(x) == IF Cardinality(DOMAIN x.cold) <= MaxGroups THEN x ELSE DropCold(x, ColdVictim(x))

(* evictIfNeededLocked: the group seen longest ago, one without an         *)
(* incident first, goes cold.                                              *)
Spare(x) == {k \in DOMAIN x.groups : x.order[x.groups[k]].inc = None}
Candidates(x) == IF Spare(x) # {} THEN Spare(x) ELSE DOMAIN x.groups
Victim(x) == CHOOSE k \in Candidates(x) : \A j \in Candidates(x) : x.order[x.groups[k]].seen <= x.order[x.groups[j]].seen
GoCold(x, k) ==
  Unalias(ExpireCold([x EXCEPT !.groups = Without(@, {k}), !.cold = Put(@, k, x.groups[k]),
                               !.retired[x.groups[k]] = TRUE, !.evicted = @ \union {k}]),
          x.order[x.groups[k]])
EvictIfNeeded(x) == IF Cardinality(DOMAIN x.groups) < MaxGroups \/ DOMAIN x.groups = {} THEN x ELSE GoCold(x, Victim(x))

(* applyEventLocked.                                                       *)
CountEvent(x, r, s) ==
  [x EXCEPT !.mks = LET kept == IF x.order[s].mk # r.mk THEN Unmap(@, x.order[s].mk, r.key) ELSE @
                    IN IF r.mk # None THEN Put(kept, r.mk, r.key) ELSE kept,
            !.order[s] = [@ EXCEPT !.sig = r.sig, !.mk = IF r.mk # None THEN r.mk ELSE @,
                            !.inc = IF r.inc # None THEN r.inc ELSE @, !.count = @ + 1, !.seen = r.seq, !.last = r.seq],
            !.counts[s] = x.order[s].count + 1, !.sigs = Put(@, r.sig, r.key)]
EventIn(x, r) == CountEvent(x, r, x.groups[r.key])
ApplyEvent(x, r) == IF r.key \in DOMAIN x.groups THEN EventIn(x, r) ELSE EventIn(NewGroup(EvictIfNeeded(x), r.key), r)

(* applyGroupLocked: the record's own count; neither eviction nor the rank *)
(* keys.                                                                   *)
SetGroup(x, r, s) ==
  [x EXCEPT !.order[s] = [@ EXCEPT !.sig = r.sig, !.mk = IF r.mk # None THEN r.mk ELSE @, !.inc = r.inc,
                            !.count = r.count, !.seen = r.seq],
            !.mks = IF r.mk # None THEN Put(@, r.mk, r.key) ELSE @, !.sigs = Put(@, r.sig, r.key)]
GroupIn(x, r) == SetGroup(x, r, x.groups[r.key])
ApplyGroup(x, r) == IF r.key \in DOMAIN x.groups THEN GroupIn(x, r) ELSE GroupIn(NewGroup(x, r.key), r)
-----------------------------------------------------------------------------
(* Incidents.                                                              *)

Closed == {"resolved", "suppressed", "quarantined"}
IsOpenState(s) == s \notin Closed

(* evictIncidentIfNeededLocked: only an incident that is not open leaves.  *)
Evictable(x) == {i \in DOMAIN x.incs : ~IsOpenState(x.incs[i].state)}
IncVictim(x) == CHOOSE i \in Evictable(x) : \A j \in Evictable(x) : x.incs[i].upd <= x.incs[j].upd
DropInc(x, i) ==
  [x EXCEPT !.incs = Without(@, {i}), !.refs = Without(@, {i}), !.over = Without(@, {i}),
            !.open = Unmap(@, x.incs[i].sig, i), !.evicted = @ \union {i}]
EvictIncident(x) ==
  IF Cardinality(DOMAIN x.incs) < MaxIncidents \/ Evictable(x) = {} THEN x ELSE DropInc(x, IncVictim(x))

(* Mutant: a record of a closed incident clears the sig, whoever has it.   *)
Reindexed_Any(x, i, sig, state) ==
  IF IsOpenState(state) THEN Put(x.open, sig, i) ELSE Without(x.open, {sig})
(* reindexIncidentLocked: an open incident takes its sig, a closed one     *)
(* gives it up if it has it.                                               *)
Reindexed(x, i, sig, state) ==
  IF IsOpenState(state) THEN Put(x.open, sig, i) ELSE Unmap(x.open, sig, i)
Recent(ring, i) == LET r == <<i>> \o SelectSeq(ring, LAMBDA j : j # i) IN SubSeq(r, 1, Min({Len(r), IncidentRing}))
SetIncident(x, r) ==
  [x EXCEPT !.incs = Put(@, r.inc, [sig |-> r.sig, state |-> r.state, upd |-> r.seq]),
            !.open = Reindexed(x, r.inc, r.sig, r.state), !.ring = Recent(@, r.inc)]
(* applyIncidentLocked.                                                    *)
ApplyIncident(x, r) == IF r.inc \in DOMAIN x.incs THEN SetIncident(x, r) ELSE SetIncident(EvictIncident(x), r)

(* addRefLocked: the first records of an incident are named, the rest are  *)
(* counted.                                                                *)
AddRef(x, r) ==
  IF r.inc = None THEN x
  ELSE IF Len(At(x.refs, r.inc, <<>>)) >= IncPerIncident THEN [x EXCEPT !.over = Put(@, r.inc, At(@, r.inc, 0) + 1)]
  ELSE [x EXCEPT !.refs = Put(@, r.inc, Append(At(@, r.inc, <<>>), r.seq))]

(* applyLocked.                                                            *)
ByKind(x, r) ==
  CASE r.kind = "event" -> ApplyEvent(x, r)
    [] r.kind = "group" -> ApplyGroup(x, r)
    [] r.kind = "incident" -> ApplyIncident(x, r)
    [] OTHER -> x
Apply(x, r) == ByKind(AddRef(x, r), r)
-----------------------------------------------------------------------------
Rec(kind, key, sig, mk, inc, state, count) ==
  [seq |-> Len(log) + 1, kind |-> kind, key |-> key, sig |-> sig, mk |-> mk, inc |-> inc, state |-> state, count |-> count]
(* flush: what was written is indexed.                                     *)
Flushed(r) ==
  /\ Len(log) < MaxRecs
  /\ log' = Append(log, r) /\ ix' = Apply(ix, r)
  /\ UNCHANGED boots

EventsOf(k) == Cardinality({n \in 1..Len(log) : log[n].kind = "event" /\ log[n].key = k})
StateOf(i) == LET S == {n \in 1..Len(log) : log[n].kind = "incident" /\ log[n].inc = i}
              IN  IF S = {} THEN None ELSE log[Max(S)].state
OpenNow == {i \in DOMAIN Incs : StateOf(i) # None /\ IsOpenState(StateOf(i))}

(* An event, and the group record that tells what the dedup core counted.  *)
AppendEvent(e) == Flushed(Rec("event", e.key, e.sig, e.mk, e.inc, None, 0))
AppendGroup(e) ==
  /\ EventsOf(e.key) > 0
  /\ Flushed(Rec("group", e.key, e.sig, e.mk, e.inc, None, EventsOf(e.key)))
(* An incident record; the ladder keeps one open incident of a sig.        *)
AppendIncident(i, state) ==
  /\ IsOpenState(state) => \A j \in OpenNow : j = i \/ Incs[j] # Incs[i]
  /\ StateOf(i) = None => IsOpenState(state)
  /\ Flushed(Rec("incident", None, Incs[i], None, i, state, 0))
(* Another record of an incident's audit chain.                            *)
AppendChained(i) == StateOf(i) # None /\ Flushed(Rec("verify", None, Incs[i], None, i, None, 0))

(* build: the log from its start, without the events past the budget.      *)
Kept(skip) == SelectSeq(log, LAMBDA r : ~(skip /\ r.kind = "event"))
Rebuilt(skip) == FoldLeft(Apply, [NewIndex EXCEPT !.part = skip], Kept(skip))
Restart(skip) ==
  /\ boots < MaxBoots
  /\ ix' = Rebuilt(skip)
  /\ boots' = boots + 1
  /\ UNCHANGED log
-----------------------------------------------------------------------------
(* Answers.                                                                *)

(* incidentForSig: the open incident of a sig, else the one its group has. *)
GroupInc(s) ==
  LET k == At(ix.sigs, s, None)
      warm == IF k \in DOMAIN ix.groups THEN ix.order[ix.groups[k]].inc ELSE None
  IN  IF warm # None THEN warm ELSE IF k \in DOMAIN ix.cold THEN ix.order[ix.cold[k]].inc ELSE None
IncidentForSig(s) ==
  LET i == IF s \in DOMAIN ix.open THEN ix.open[s] ELSE GroupInc(s)
  IN  IF i \in DOMAIN ix.incs THEN i ELSE None
(* groupByDigest: the live entry, else the cold one.                       *)
Known == DOMAIN ix.groups \union DOMAIN ix.cold
GroupByDigest(k) == ix.order[IF k \in DOMAIN ix.groups THEN ix.groups[k] ELSE ix.cold[k]]
(* openIncidents: the open ones of the recency ring, that have a ref past  *)
(* the seq a poll saw.                                                     *)
LastRef(i) == IF At(ix.refs, i, <<>>) = <<>> THEN 0 ELSE Last(ix.refs[i])
OpenIncidentsSince(s) ==
  {i \in Range(ix.ring) : i \in DOMAIN ix.incs /\ IsOpenState(ix.incs[i].state) /\ (s > 0 => LastRef(i) > s)}
-----------------------------------------------------------------------------
Init == log = <<>> /\ ix = NewIndex /\ boots = 0

Next ==
  \/ \E e \in Events : AppendEvent(e) \/ AppendGroup(e)
  \/ \E i \in DOMAIN Incs : AppendChained(i) \/ \E s \in {"diagnosing", "resolved"} : AppendIncident(i, s)
  \/ \E b \in BOOLEAN : Restart(b)

Spec == Init /\ [][Next]_vars
-----------------------------------------------------------------------------
(* A slot is owned by at most one group: every live and every cold group   *)
(* stands in its own slot, a slot in use has a live group and a released   *)
(* one none, so a ranking never meets an empty slot (topGroups).           *)
SlotsSound ==
  /\ \A k \in DOMAIN ix.groups : ix.order[ix.groups[k]].key = k /\ ~ix.retired[ix.groups[k]]
  /\ \A k \in DOMAIN ix.cold : ix.order[ix.cold[k]].key = k /\ ix.retired[ix.cold[k]]
  /\ \A s \in 1..Len(ix.order) : ~ix.retired[s] => \E k \in DOMAIN ix.groups : ix.groups[k] = s
  /\ \A m \in 1..Len(ix.free) : ix.order[ix.free[m]] = Nil /\ \A n \in 1..Len(ix.free) : ix.free[m] = ix.free[n] => m = n

(* A group that never went cold shows the events it had, all of them when  *)
(* the boot read them and never more (applyEventLocked, applyGroupLocked). *)
CountsExact ==
  \A k \in Known : /\ GroupByDigest(k).count <= EventsOf(k)
                   /\ (k \notin ix.evicted /\ ~ix.part => GroupByDigest(k).count = EventsOf(k))

(* The open incident of a sig is found by the sig and listed as open,      *)
(* through evictions and after any boot, so an arrival joins it instead of *)
(* opening a second one (incidentForSig, openIncidents).                   *)
OpenFound ==
  \A i \in OpenNow : IncidentForSig(Incs[i]) = i /\ i \in OpenIncidentsSince(0)

(* What an incident's evidence names and what it says it leaves out make   *)
(* the records it has (addRefLocked, refsFor).                             *)
EvidenceAccounted ==
  \A i \in DOMAIN ix.incs : i \notin ix.evicted /\ ~ix.part =>
    Len(At(ix.refs, i, <<>>)) + At(ix.over, i, 0) = Cardinality({n \in 1..Len(log) : log[n].inc = i})

(* The slot arrays stay within twice index_max_groups, whatever groups     *)
(* come and go (evictIfNeededLocked).                                      *)
SlotsBounded == Len(ix.order) <= 2 * MaxGroups
=============================================================================
