----------------------- MODULE LadderAdmissionProofs -----------------------
(***************************************************************************)
(* Proofs about LadderAdmission.  Every operation that touches the maps    *)
(* writes one incident's record and moves index entries to that incident   *)
(* or to nothing (Writes); one lemma per operation shows it, and the       *)
(* invariants are argued from Writes alone.                                *)
(*                                                                         *)
(* Where a sig has one key, no operator, restart or failure makes an index *)
(* lead an arrival to a stranger (HInv).  Where in addition sigs and keys  *)
(* correspond and nothing goes around the indexes, they are exact, the     *)
(* ledger shows one open incident per sig, and no arrival is absorbed by a *)
(* finished incident (AInv).                                               *)
(***************************************************************************)
EXTENDS LadderAdmission, TLAPS

-----------------------------------------------------------------------------
(* ----------------------- where the indexes lead ------------------------ *)

\* Observations of one sig carry one correlation key: inKeyFor hashes what goes
\* into the sig.
SigHasKey == \A o, p \in Obs : o.sig = p.sig => o.key = p.key

\* An incident's record, whatever its place on the ladder.
Record ==
  [state : Live \cup {"resolved", "escalated", "quarantined"}, sigs : Seq(Sigs), key : Keys,
   rule : Scopes, paths : SUBSET Scopes, reopens : Nat, folded : BOOLEAN]

\* Sig s and key k go together in some observation.
Pair(s, k) == \E o \in Obs : o.sig = s /\ o.key = k

\* The record's sigs are sigs of its key.
Home(x) == Len(x.sigs) > 0 /\ \A k \in 1..Len(x.sigs) : Pair(x.sigs[k], x.key)

\* The types of the three maps.
Maps ==
  /\ incs \in [Ids -> Record \cup {NoInc}]
  /\ bySig \in [Sigs -> {0} \cup Known]
  /\ byKey \in [Keys -> {0} \cup Known]

\* An entry leads to an incident of the sig's key.
Leads ==
  /\ \A s \in Sigs : bySig[s] # 0 => Pair(s, incs[bySig[s]].key)
  /\ \A k \in Keys : byKey[k] # 0 => incs[byKey[k]].key = k

\* The invariant behind EntriesHome.
HInv == Maps /\ Leads /\ \A i \in Known : Home(incs[i])

\* A missing incident has no record.
LEMMA NoIncIs == NoInc \notin Record /\ \A x \in Record : x # NoInc
BY DEF NoInc, Record, Live

\* The known incidents are those with a record.
LEMMA KnownIs == Maps => \A i \in Ids : i \in Known <=> incs[i] \in Record
BY NoIncIs DEF Maps, Known

\* Zero, which stands for no entry, is no incident.
LEMMA IdsAre == 0 \notin Ids
BY DEF Ids

\* A step that writes one incident's record, keeping its key, and moves index
\* entries to that incident or to nothing.
Writes(i, x) ==
  /\ x \in Record /\ Home(x)
  /\ i \in Known => x.key = incs[i].key
  /\ incs' = [incs EXCEPT ![i] = x]
  /\ bySig' \in [Sigs -> {0} \cup Known \cup {i}]
  /\ byKey' \in [Keys -> {0} \cup Known \cup {i}]
  /\ \A s \in Sigs : bySig'[s] \in {0, bySig[s]} \/ (bySig'[s] = i /\ Pair(s, x.key))
  /\ \A k \in Keys : byKey'[k] \in {0, byKey[k]} \/ (byKey'[k] = i /\ x.key = k)

\* Such a step keeps the invariant.
LEMMA WritesKeeps ==
  ASSUME HInv, NEW i \in Ids, NEW x, Writes(i, x)
  PROVE  HInv' /\ Known' = Known \cup {i}
<1>1. incs' \in [Ids -> Record \cup {NoInc}] /\ incs'[i] = x /\ \A j \in Ids : j # i => incs'[j] = incs[j]
  BY DEF HInv, Maps, Writes
<1>2. Known' = Known \cup {i}
  BY <1>1, NoIncIs DEF Known, Writes
<1>3. Maps'
  BY <1>1, <1>2 DEF Maps, Writes
<1>4. \A j \in Known : incs'[j].key = incs[j].key
  BY <1>1 DEF Writes, Known
<1>5. ASSUME NEW s \in Sigs, bySig'[s] # 0 PROVE Pair(s, incs'[bySig'[s]].key)
  <2>1. CASE bySig'[s] = bySig[s]
    <3>1. bySig[s] \in Known
      BY <1>5, <2>1 DEF HInv, Maps
    <3> QED BY <1>4, <1>5, <2>1, <3>1 DEF HInv, Leads
  <2>2. CASE bySig'[s] = i /\ Pair(s, x.key)
    BY <1>1, <2>2
  <2> QED BY <1>5, <2>1, <2>2 DEF Writes
<1>6. ASSUME NEW k \in Keys, byKey'[k] # 0 PROVE incs'[byKey'[k]].key = k
  <2>1. CASE byKey'[k] = byKey[k]
    <3>1. byKey[k] \in Known
      BY <1>6, <2>1 DEF HInv, Maps
    <3> QED BY <1>4, <1>6, <2>1, <3>1 DEF HInv, Leads
  <2>2. CASE byKey'[k] = i /\ x.key = k
    BY <1>1, <2>2
  <2> QED BY <1>6, <2>1, <2>2 DEF Writes
<1>7. Leads'
  <2>1. \A s, k : Pair(s, k)' <=> Pair(s, k)
    BY DEF Pair
  <2> QED BY <1>5, <1>6, <2>1 DEF Leads
<1>8. \A j \in Known' : Home(incs[j])'
  <2>1. \A j \in Known \cup {i} : Home(incs'[j])
    BY <1>1 DEF HInv, Writes, Known
  <2> QED BY <1>2, <2>1 DEF Home
<1> QED BY <1>2, <1>3, <1>7, <1>8 DEF HInv

\* What an observation carries has its types.
LEMMA ObsAre ==
  \A o \in Obs : /\ o.sig \in Sigs /\ o.key \in Keys /\ o.rule \in Scopes /\ o.source \in Scopes
                 /\ Pair(o.sig, o.key)
BY AdmissionAssumption DEF Scopes, Pair

\* newIncidentLocked's record is one, and at home.
LEMMA NewIncIs ==
  ASSUME NEW o \in Obs, NEW st \in Live
  PROVE  NewInc(o, st) \in Record /\ Home(NewInc(o, st)) /\ NewInc(o, st).key = o.key
         /\ NewInc(o, st).state = st /\ NewInc(o, st).sigs = <<o.sig>>
<1> DEFINE x == NewInc(o, st)
<1>1. x \in Record /\ x.key = o.key /\ x.sigs = <<o.sig>> /\ x.state = st
  BY ObsAre DEF NewInc, Record
<1>2. Len(x.sigs) = 1 /\ x.sigs[1] = o.sig
  BY <1>1
<1> HIDE DEF x
<1>3. Home(x)
  BY <1>1, <1>2, ObsAre DEF Home
<1> QED BY <1>1, <1>3 DEF x

\* A fresh id names no incident, here or on disk.
LEMMA FreshIs == Free # {} => FreshId \in Ids /\ FreshId \notin Known /\ disk[FreshId] = NoInc
BY DEF Free, FreshId, Known

\* Opening an incident writes it.
LEMMA Creates ==
  ASSUME HInv, NEW o \in Obs, NEW st \in Live, Free # {},
         incs' = [incs EXCEPT ![FreshId] = NewInc(o, st)],
         bySig' = [bySig EXCEPT ![o.sig] = FreshId],
         byKey' = [byKey EXCEPT ![o.key] = FreshId]
  PROVE  Writes(FreshId, NewInc(o, st))
<1> DEFINE x == NewInc(o, st)
           i == FreshId
<1>1. x \in Record /\ Home(x) /\ x.key = o.key
  BY NewIncIs
<1>2. i \in Ids /\ i \notin Known
  BY FreshIs
<1>3. o.sig \in Sigs /\ o.key \in Keys /\ Pair(o.sig, o.key)
  BY ObsAre
<1> HIDE DEF x, i
<1>4. incs' = [incs EXCEPT ![i] = x] /\ bySig' = [bySig EXCEPT ![o.sig] = i] /\ byKey' = [byKey EXCEPT ![o.key] = i]
  BY DEF x, i
<1>5. Writes(i, x)
  BY <1>1, <1>2, <1>3, <1>4 DEF Writes, HInv, Maps
<1> QED BY <1>5 DEF x, i

\* Rewriting a known record with its sigs and key writes it.
LEMMA Rewrites ==
  ASSUME HInv, NEW i \in Known, NEW x \in Record, x.key = incs[i].key, x.sigs = incs[i].sigs,
         incs' = [incs EXCEPT ![i] = x],
         \/ UNCHANGED bySig
         \/ bySig' = [bySig EXCEPT ![Primary(i)] = 0]
         \/ bySig' = [bySig EXCEPT ![Primary(i)] = i],
         \/ UNCHANGED byKey
         \/ byKey' = [byKey EXCEPT ![incs[i].key] = 0]
         \/ byKey' = [byKey EXCEPT ![incs[i].key] = i]
  PROVE  Writes(i, x)
<1>1. incs[i] \in Record /\ Home(incs[i]) /\ i \in Ids
  BY KnownIs DEF HInv, Known
<1>2. Home(x)
  BY <1>1 DEF Home
<1>3. Primary(i) \in Sigs /\ Pair(Primary(i), x.key)
  <2>1. incs[i].sigs \in Seq(Sigs) /\ 1 \in 1..Len(incs[i].sigs)
    BY <1>1 DEF Home, Record
  <2> QED BY <1>1, <2>1 DEF Home, Primary
<1>4. incs[i].key \in Keys
  BY <1>1 DEF Record
<1>5. bySig' \in [Sigs -> {0} \cup Known] /\ \A s \in Sigs : bySig'[s] \in {0, bySig[s]} \/ (bySig'[s] = i /\ Pair(s, x.key))
  BY <1>3 DEF HInv, Maps
<1>6. byKey' \in [Keys -> {0} \cup Known] /\ \A k \in Keys : byKey'[k] \in {0, byKey[k]} \/ (byKey'[k] = i /\ x.key = k)
  BY <1>4 DEF HInv, Maps
<1> QED BY <1>1, <1>2, <1>5, <1>6 DEF Writes

\* The assignments the operations make leave a record with its sigs and key.
LEMMA SetRecord ==
  ASSUME NEW x \in Record
  PROVE  /\ \A st \in Live \cup {"resolved", "escalated", "quarantined"} :
              LET y == [x EXCEPT !.state = st]
              IN  y \in Record /\ y.key = x.key /\ y.sigs = x.sigs /\ y.state = st
         /\ \A st \in Live :
              LET y == [x EXCEPT !.state = st, !.reopens = @ + 1]
              IN  y \in Record /\ y.key = x.key /\ y.sigs = x.sigs /\ y.state = st
         /\ \A sc \in Scopes :
              LET y == [x EXCEPT !.paths = @ \cup {sc}]
              IN  y \in Record /\ y.key = x.key /\ y.sigs = x.sigs /\ y.state = x.state
         /\ \A sc \in Scopes :
              LET y == [x EXCEPT !.folded = TRUE, !.paths = @ \cup {sc}]
              IN  y \in Record /\ y.key = x.key /\ y.sigs = x.sigs /\ y.state = x.state
<1>1. x.paths \subseteq Scopes /\ x.reopens + 1 \in Nat
  BY DEF Record
<1> QED BY <1>1 DEF Record

\* What an index names is known.
LEMMA EntryIs ==
  ASSUME Maps
  PROVE  /\ \A s \in Sigs : bySig[s] # 0 => bySig[s] \in Known
         /\ \A k \in Keys : byKey[k] # 0 => byKey[k] \in Known
BY DEF Maps

\* The maps stay as they are.
Same == UNCHANGED <<incs, bySig, byKey>>

\* foldLocked and the fold of Admit write the incident the indexes name, if any.
LEMMA FoldWrites ==
  ASSUME HInv, NEW o \in Obs, NEW ok, FoldHeld(o, ok) \/ Fold(o, ok)
  PROVE  \/ Same /\ UNCHANGED disk /\ reply'.how = "held"
         \/ \E i \in Known, x \in Record :
              /\ Writes(i, x) /\ UNCHANGED <<bySig, byKey>>
              /\ x.sigs = incs[i].sigs /\ x.state = incs[i].state
              /\ disk' \in {disk, OnDisk(i, x)} /\ reply'.inc = i
              /\ reply'.how = "held" \/ i = bySig[o.sig]
<1>o. o.sig \in Sigs /\ o.key \in Keys /\ o.source \in Scopes
  BY ObsAre
<1>w. ASSUME NEW i \in Known, NEW x, incs' = [incs EXCEPT ![i] = x], UNCHANGED <<bySig, byKey>>,
             \/ x = [incs[i] EXCEPT !.folded = TRUE, !.paths = @ \cup {o.source}]
             \/ x = [incs[i] EXCEPT !.paths = @ \cup {o.source}]
      PROVE  Writes(i, x) /\ x \in Record /\ x.sigs = incs[i].sigs /\ x.state = incs[i].state
  <2>1. incs[i] \in Record
    BY KnownIs DEF HInv, Known
  <2>2. x \in Record /\ x.key = incs[i].key /\ x.sigs = incs[i].sigs /\ x.state = incs[i].state
    <3>1. CASE x = [incs[i] EXCEPT !.folded = TRUE, !.paths = @ \cup {o.source}]
      BY <1>o, <2>1, <3>1, SetRecord
    <3>2. CASE x = [incs[i] EXCEPT !.paths = @ \cup {o.source}]
      BY <1>o, <2>1, <3>2, SetRecord
    <3> QED BY <1>w, <3>1, <3>2
  <2> QED BY <1>w, <2>2, Rewrites
<1>1. CASE FoldHeld(o, ok)
  <2> DEFINE i == IF bySig[o.sig] # 0 THEN bySig[o.sig] ELSE byKey[o.key]
             x == [incs[i] EXCEPT !.folded = TRUE, !.paths = @ \cup {o.source}]
  <2>1. /\ incs' = (IF i = 0 THEN incs ELSE [incs EXCEPT ![i] = x]) /\ UNCHANGED <<bySig, byKey>>
        /\ disk' \in {disk, OnDisk(i, x)} /\ (i = 0 => UNCHANGED disk)
        /\ reply'.inc = i /\ reply'.how = "held"
    BY <1>1 DEF FoldHeld, Ends
  <2>2. i = 0 \/ i \in Known
    BY <1>o, EntryIs DEF HInv
  <2>3. CASE i = 0
    BY <2>1, <2>3 DEF Same
  <2>4. CASE i # 0
    <3>1. i \in Known /\ incs' = [incs EXCEPT ![i] = x] /\ UNCHANGED <<bySig, byKey>>
      BY <2>1, <2>2, <2>4
    <3> HIDE DEF i
    <3>2. Writes(i, x) /\ x \in Record /\ x.sigs = incs[i].sigs /\ x.state = incs[i].state
      BY <3>1, <1>w
    <3> HIDE DEF x
    <3> QED BY <2>1, <3>1, <3>2
  <2> QED BY <2>3, <2>4
<1>2. CASE Fold(o, ok)
  <2> DEFINE i == bySig[o.sig]
             x == [incs[i] EXCEPT !.paths = @ \cup {o.source}]
  <2>1. i \in Known /\ incs' = [incs EXCEPT ![i] = x] /\ UNCHANGED <<bySig, byKey>>
    BY <1>2, <1>o, EntryIs DEF Fold, HInv
  <2>2. disk' \in {disk, OnDisk(i, x)} /\ reply'.inc = i /\ i = bySig[o.sig]
    BY <1>2 DEF Fold, Ends
  <2> HIDE DEF i
  <2>3. Writes(i, x) /\ x \in Record /\ x.sigs = incs[i].sigs /\ x.state = incs[i].state
    BY <2>1, <1>w
  <2> HIDE DEF x
  <2> QED BY <2>1, <2>2, <2>3
<1> QED BY <1>1, <1>2

\* The merge writes the incident the key index names.
LEMMA MergeWrites ==
  ASSUME HInv, NEW o \in Obs, NEW ok, Merge(o, ok)
  PROVE  \E i \in Known, x \in Record : Writes(i, x)
<1> DEFINE i == byKey[o.key]
           x == [incs[i] EXCEPT !.sigs = Append(@, o.sig), !.paths = @ \cup {o.source}]
<1>o. o.sig \in Sigs /\ o.key \in Keys /\ o.source \in Scopes /\ Pair(o.sig, o.key)
  BY ObsAre
<1>1. i \in Known /\ incs[i].key = o.key
  BY <1>o, EntryIs DEF Merge, Merges, HInv, Leads
<1>2. /\ incs' = [incs EXCEPT ![i] = x]
      /\ bySig' = [bySig EXCEPT ![o.sig] = i] /\ UNCHANGED byKey
  BY DEF Merge
<1>3. incs[i] \in Record /\ Home(incs[i]) /\ i \in Ids
  BY <1>1, KnownIs DEF HInv, Known
<1> HIDE DEF i
<1>4. incs[i].paths \cup {o.source} \subseteq Scopes /\ incs[i].sigs \in Seq(Sigs)
  BY <1>o, <1>3 DEF Record
<1>5. Append(incs[i].sigs, o.sig) \in Seq(Sigs)
  BY <1>o, <1>4
<1>6. x \in Record /\ x.key = incs[i].key /\ x.sigs = Append(incs[i].sigs, o.sig)
  BY <1>3, <1>4, <1>5 DEF Record
<1>7. Home(x)
  <2>1. /\ Len(x.sigs) = Len(incs[i].sigs) + 1
        /\ x.sigs[Len(incs[i].sigs) + 1] = o.sig
        /\ \A k \in 1..Len(incs[i].sigs) : x.sigs[k] = incs[i].sigs[k]
    BY <1>4, <1>6, <1>o
  <2> HIDE DEF x
  <2>2. Len(incs[i].sigs) \in Nat
    BY <1>4
  <2> QED BY <1>1, <1>3, <1>6, <1>o, <2>1, <2>2 DEF Home
<1> HIDE DEF x
<1>8. Writes(i, x)
  BY <1>o, <1>1, <1>2, <1>3, <1>6, <1>7 DEF Writes, HInv, Maps
<1> QED BY <1>1, <1>6, <1>8

\* A finished incident of the sig or key has the key.
LEMMA OverIs ==
  ASSUME HInv, SigHasKey, NEW o \in Obs, NEW i \in Over(o)
  PROVE  i \in Known /\ incs[i].key = o.key /\ incs[i].state \in {"resolved", "escalated"}
<1>1. i \in Known /\ Home(incs[i]) /\ incs[i].state \in {"resolved", "escalated"}
  BY DEF Over, HInv
<1>2. CASE incs[i].key = o.key
  BY <1>1, <1>2
<1>3. CASE HasSig(i, o.sig)
  <2>1. PICK k \in 1..Len(incs[i].sigs) : incs[i].sigs[k] = o.sig
    BY <1>3 DEF HasSig
  <2>2. Pair(o.sig, incs[i].key)
    BY <1>1, <2>1 DEF Home
  <2> QED BY <1>1, <2>2 DEF Pair, SigHasKey
<1> QED BY <1>2, <1>3 DEF Over

\* The reopening writes a finished incident and leads both indexes to it.
LEMMA ReopenWrites ==
  ASSUME HInv, SigHasKey, NEW o \in Obs, NEW ok, Reopen(o, ok)
  PROVE  \E i \in Over(o), x \in Record :
           /\ Writes(i, x) /\ x.state = "open" /\ x.sigs = incs[i].sigs
           /\ bySig' = [bySig EXCEPT ![o.sig] = i]
           /\ byKey' = [byKey EXCEPT ![o.key] = i]
           /\ Ends(o, i, IF ok THEN "reopened" ELSE "error", x, ok)
<1>o. o.sig \in Sigs /\ o.key \in Keys /\ Pair(o.sig, o.key)
  BY ObsAre
<1>1. PICK i \in Over(o) :
        LET x == [incs[i] EXCEPT !.state = "open", !.reopens = @ + 1] IN
        /\ incs' = [incs EXCEPT ![i] = x]
        /\ bySig' = [bySig EXCEPT ![o.sig] = i]
        /\ byKey' = [byKey EXCEPT ![o.key] = i]
        /\ Ends(o, i, IF ok THEN "reopened" ELSE "error", x, ok)
  BY DEF Reopen
<1> DEFINE x == [incs[i] EXCEPT !.state = "open", !.reopens = @ + 1]
<1>2. i \in Known /\ incs[i].key = o.key
  BY OverIs
<1>3. incs[i] \in Record /\ Home(incs[i]) /\ i \in Ids
  BY <1>2, KnownIs DEF HInv, Known
<1>4. x \in Record /\ x.key = incs[i].key /\ x.sigs = incs[i].sigs /\ x.state = "open"
  BY <1>3, SetRecord DEF Live
<1>x. incs' = [incs EXCEPT ![i] = x] /\ Ends(o, i, IF ok THEN "reopened" ELSE "error", x, ok)
  BY <1>1
<1> HIDE DEF x
<1>5. Home(x)
  BY <1>3, <1>4 DEF Home
<1>6. Writes(i, x)
  BY <1>o, <1>1, <1>x, <1>2, <1>3, <1>4, <1>5 DEF Writes, HInv, Maps
<1> QED BY <1>1, <1>x, <1>4, <1>6

\* Every arrival writes one incident or none.
LEMMA AdmitWrites ==
  ASSUME HInv, SigHasKey, NEW o \in Obs, Admit(o)
  PROVE  Same \/ \E i \in Ids, x \in Record : Writes(i, x)
<1>1. CASE Replayed(o)
  BY <1>1 DEF Replayed, Same
<1>2. ASSUME NEW ok, Suppressed(o, ok) \/ New(o, ok) PROVE \E i \in Ids, x \in Record : Writes(i, x)
  <2>1. PICK st \in Live : /\ Free # {}
                           /\ incs' = [incs EXCEPT ![FreshId] = NewInc(o, st)]
                           /\ bySig' = [bySig EXCEPT ![o.sig] = FreshId]
                           /\ byKey' = [byKey EXCEPT ![o.key] = FreshId]
    BY <1>2 DEF Suppressed, New, Live
  <2> QED BY <2>1, Creates, NewIncIs, FreshIs
<1>3. ASSUME NEW ok, FoldHeld(o, ok) \/ Fold(o, ok) PROVE Same \/ \E i \in Ids, x \in Record : Writes(i, x)
  BY <1>3, FoldWrites DEF Known
<1>4. ASSUME NEW ok, Merge(o, ok) PROVE \E i \in Ids, x \in Record : Writes(i, x)
  BY <1>4, MergeWrites DEF Known
<1>5. ASSUME NEW ok, Reopen(o, ok) PROVE \E i \in Ids, x \in Record : Writes(i, x)
  BY <1>5, ReopenWrites DEF Over, Known
<1> QED BY <1>1, <1>2, <1>3, <1>4, <1>5 DEF Admit

\* So does every other move of an incident.
LEMMA MoveWrites ==
  ASSUME HInv, NEW i \in Known,
         \/ Resolve(i) \/ Escalate(i) \/ Row(i) \/ Refuse(i) \/ Quarantine(i) \/ Unquarantine(i)
  PROVE  \E x \in Record : Writes(i, x) /\ x.sigs = incs[i].sigs
<1>1. incs[i] \in Record
  BY KnownIs DEF HInv, Known
<1>w. ASSUME NEW x \in Record, x.key = incs[i].key, x.sigs = incs[i].sigs, incs' = [incs EXCEPT ![i] = x],
         \/ UNCHANGED bySig
         \/ bySig' = [bySig EXCEPT ![Primary(i)] = 0]
         \/ bySig' = [bySig EXCEPT ![Primary(i)] = i],
         \/ UNCHANGED byKey
         \/ byKey' = [byKey EXCEPT ![incs[i].key] = 0]
         \/ byKey' = [byKey EXCEPT ![incs[i].key] = i]
      PROVE  \E y \in Record : Writes(i, y) /\ y.sigs = incs[i].sigs
  BY <1>w, Rewrites
<1>s. ASSUME NEW st \in Live \cup {"resolved", "escalated", "quarantined"},
         incs' = [incs EXCEPT ![i].state = st],
         \/ UNCHANGED bySig
         \/ bySig' = [bySig EXCEPT ![Primary(i)] = 0]
         \/ bySig' = [bySig EXCEPT ![Primary(i)] = i],
         \/ UNCHANGED byKey
         \/ byKey' = [byKey EXCEPT ![incs[i].key] = 0]
         \/ byKey' = [byKey EXCEPT ![incs[i].key] = i]
      PROVE  \E y \in Record : Writes(i, y) /\ y.sigs = incs[i].sigs
  <2>1. incs' = [incs EXCEPT ![i] = [incs[i] EXCEPT !.state = st]]
    BY <1>s DEF HInv, Maps
  <2> DEFINE y == [incs[i] EXCEPT !.state = st]
  <2>2. y \in Record /\ y.key = incs[i].key /\ y.sigs = incs[i].sigs /\ incs' = [incs EXCEPT ![i] = y]
    BY <1>1, <2>1, SetRecord
  <2> HIDE DEF y
  <2> QED BY <1>s, <1>w, <2>2
<1>2. CASE Resolve(i)
  BY <1>2, <1>s DEF Resolve, Finish
<1>3. CASE Escalate(i)
  BY <1>3, <1>s DEF Escalate, Finish
<1>4. CASE Row(i)
  <2>1. UNCHANGED <<bySig, byKey>>
    BY <1>4 DEF Row
  <2>2. CASE incs' = [incs EXCEPT ![i].state = "open", ![i].reopens = @ + 1]
    <3>1. incs' = [incs EXCEPT ![i] = [incs[i] EXCEPT !.state = "open", !.reopens = @ + 1]]
      BY <2>2 DEF HInv, Maps
    <3> QED BY <1>1, <1>w, <2>1, <3>1, SetRecord DEF Live
  <2>3. CASE \E st \in Live : incs' = [incs EXCEPT ![i].state = st]
    BY <1>s, <2>1, <2>3
  <2> QED BY <1>4, <2>2, <2>3 DEF Row, Live
<1>5. CASE Refuse(i)
  BY <1>5, <1>s DEF Refuse
<1>6. CASE Quarantine(i)
  BY <1>6, <1>s DEF Quarantine
<1>7. CASE Unquarantine(i)
  BY <1>7, <1>s DEF Unquarantine, Live
<1> QED BY <1>2, <1>3, <1>4, <1>5, <1>6, <1>7

\* The invariant speaks of the maps alone.
LEMMA SameKeeps == HInv /\ Same => HInv'
BY DEF HInv, Same, Maps, Leads, Known, Home, Pair

\* The invariant is inductive.
LEMMA HStep == HInv /\ SigHasKey /\ [Next]_vars => HInv'
<1> SUFFICES ASSUME HInv, SigHasKey, [Next]_vars PROVE HInv'
  OBVIOUS
<1>1. CASE \E o \in Obs : Admit(o)
  BY <1>1, AdmitWrites, WritesKeeps, SameKeeps
<1>2. CASE \E i \in Known : \/ Resolve(i) \/ Escalate(i) \/ Row(i) \/ Refuse(i)
                            \/ Quarantine(i) \/ Unquarantine(i)
  BY <1>2, MoveWrites, WritesKeeps DEF Known
<1>3. CASE \/ \E s \in Sigs : Suppress(s)
           \/ \E sc \in Scopes : TripBreaker(sc) \/ Lapse(sc)
           \/ UNCHANGED vars
  <2>1. Same
    BY <1>3 DEF Suppress, TripBreaker, Lapse, vars, Same
  <2> QED BY <2>1, SameKeeps
<1>4. CASE Restart
  BY <1>4 DEF Restart, HInv, Maps, Leads, Known
<1> QED BY <1>1, <1>2, <1>3, <1>4 DEF Next

\* It holds of empty maps.
LEMMA HInit == Init => HInv
BY DEF Init, HInv, Maps, Leads, Known

(***************************************************************************)
(* Where a sig has one key, what the indexes name for an arrival has its   *)
(* sig or its key, whatever operators, restarts, refused appends and lapsed *)
(* windows come between (Admit's fold, merge and reopen).                  *)
(***************************************************************************)
THEOREM EntriesStayHome == SigHasKey => (Spec => []EntriesHome)
<1> SUFFICES ASSUME SigHasKey PROVE Spec => []EntriesHome
  OBVIOUS
<1>1. HInv => EntriesHome
  BY DEF HInv, Leads, EntriesHome, Pair
<1> QED BY <1>1, HInit, HStep, PTL DEF Spec

-----------------------------------------------------------------------------
(* ---------------------------- exact indexes ---------------------------- *)

\* Sigs and keys correspond one to one, no rule has a Cooldown, and nothing moves
\* incidents around the indexes; escalation, refusals, tripped breakers and failed
\* appends may all happen.
Apart ==
  /\ SigHasKey
  /\ \A o, p \in Obs : o.key = p.key => o.sig = p.sig
  /\ Cooldown = FALSE
  /\ Moves \cap {"rows", "quarantine", "unquarantine", "suppress", "restart"} = {}

\* What the ledger shows as live is live in the map, under the same sig.
Disk ==
  /\ disk \in [Ids -> [state : Live \cup {"resolved", "escalated", "quarantined"}, sig : Sigs] \cup {NoInc}]
  /\ \A i \in Ids : disk[i].state \in Live =>
       i \in Known /\ incs[i].state \in Live /\ disk[i].sig = Primary(i)

\* No suppression window is open.
NoWindow == suppress = [s \in Sigs |-> FALSE]

\* The invariant behind IndexExact, OneOpenPerSig and ArrivalFindsWork.
AInv == HInv /\ IndexExact /\ Disk /\ NoWindow

\* A known incident has a first sig, which goes with its key.
LEMMA PrimaryIs ==
  ASSUME HInv, NEW i \in Known
  PROVE  /\ i \in Ids /\ incs[i] \in Record
         /\ Primary(i) \in Sigs /\ incs[i].key \in Keys /\ Pair(Primary(i), incs[i].key)
<1>1. incs[i] \in Record /\ Home(incs[i]) /\ i \in Ids
  BY KnownIs DEF HInv, Known
<1>2. incs[i].sigs \in Seq(Sigs) /\ 1 \in 1..Len(incs[i].sigs)
  BY <1>1 DEF Home, Record
<1> QED BY <1>1, <1>2 DEF Home, Primary, Record

\* Where sigs and keys correspond, that is the only sig of its key.
LEMMA OneSig ==
  ASSUME HInv, Apart, NEW i \in Known, NEW s
  PROVE  Pair(s, incs[i].key) <=> s = Primary(i)
BY PrimaryIs DEF Pair, Apart

\* Record x, written at i, starts with a sig of its key, and with i's own.
Starts(i, x) == x.sigs[1] \in Sigs /\ Pair(x.sigs[1], x.key) /\ (i \in Known => x.sigs[1] = Primary(i))

\* What a write leaves in the map.
LEMMA WrittenIs ==
  ASSUME HInv, NEW i \in Ids, NEW x, Writes(i, x)
  PROVE  /\ Known' = Known \cup {i} /\ incs'[i] = x /\ x.key \in Keys
         /\ \A j \in Ids : j # i => incs'[j] = incs[j] /\ Primary(j)' = Primary(j)
         /\ Primary(i)' = x.sigs[1]
<1>1. Known' = Known \cup {i}
  BY WritesKeeps
<1> QED BY <1>1 DEF HInv, Maps, Writes, Primary, Record

\* An incident is opened or reopened and both indexes lead to it.
LEMMA OpensExact ==
  ASSUME HInv, Apart, IndexExact, NEW i \in Ids, NEW x, Writes(i, x), Starts(i, x), x.state \in Live,
         bySig[x.sigs[1]] = 0,
         bySig' = [bySig EXCEPT ![x.sigs[1]] = i],
         byKey' = [byKey EXCEPT ![x.key] = i]
  PROVE  IndexExact'
<1>1. /\ Known' = Known \cup {i} /\ incs'[i] = x /\ x.key \in Keys
      /\ \A j \in Ids : j # i => incs'[j] = incs[j] /\ Primary(j)' = Primary(j)
      /\ Primary(i)' = x.sigs[1]
  BY WrittenIs
<1>2. bySig'[x.sigs[1]] = i /\ byKey'[x.key] = i
  BY <1>1 DEF HInv, Maps, Starts
<1>3. ASSUME NEW j \in Known, j # i PROVE
        /\ incs'[j].state \in Live => bySig'[Primary(j)] = j /\ byKey'[incs'[j].key] = j
        /\ incs'[j].state \in {"resolved", "escalated"} => bySig'[Primary(j)] # j /\ byKey'[incs'[j].key] # j
  <2>1. /\ j \in Ids /\ Primary(j) \in Sigs /\ incs[j].key \in Keys /\ Pair(Primary(j), incs[j].key)
    BY PrimaryIs
  <2>2. incs'[j] = incs[j]
    BY <1>1, <1>3, <2>1
  <2>3. CASE incs[j].state \in Live
    <3>1. bySig[Primary(j)] = j /\ byKey[incs[j].key] = j
      BY <2>3 DEF IndexExact
    <3>2. Primary(j) # x.sigs[1]
      BY <3>1, <2>1, IdsAre
    <3>3. incs[j].key # x.key
      BY <3>2, OneSig, <1>3 DEF Starts
    <3> QED BY <2>1, <2>2, <2>3, <3>1, <3>2, <3>3 DEF HInv, Maps, Live
  <2>4. CASE incs[j].state \in {"resolved", "escalated"}
    <3>1. bySig[Primary(j)] # j /\ byKey[incs[j].key] # j
      BY <2>4 DEF IndexExact
    <3> QED BY <1>3, <2>1, <2>2, <2>4, <3>1 DEF HInv, Maps, Live
  <2> QED BY <2>2, <2>3, <2>4
<1>4. x.state \notin {"resolved", "escalated"}
  BY DEF Live
<1>5. \A j \in Known' :
        /\ incs'[j].state \in Live => bySig'[Primary(j)'] = j /\ byKey'[incs'[j].key] = j
        /\ incs'[j].state \in {"resolved", "escalated"} => bySig'[Primary(j)'] # j /\ byKey'[incs'[j].key] # j
  BY <1>1, <1>2, <1>3, <1>4 DEF Known
<1> QED BY <1>5 DEF IndexExact

\* An incident is written and the indexes stay.
LEMMA StaysExact ==
  ASSUME HInv, IndexExact, NEW i \in Known, NEW x, Writes(i, x), Starts(i, x),
         x.state = incs[i].state \/ x.state = "quarantined",
         UNCHANGED <<bySig, byKey>>
  PROVE  IndexExact'
<1>0. i \in Ids
  BY DEF Known
<1>1. /\ Known' = Known \cup {i} /\ incs'[i] = x /\ x.key = incs[i].key
      /\ \A j \in Ids : j # i => incs'[j] = incs[j] /\ Primary(j)' = Primary(j)
      /\ Primary(i)' = Primary(i)
  BY <1>0, WrittenIs DEF Starts, Writes
<1>2. \A j \in Known : incs'[j].key = incs[j].key /\ Primary(j)' = Primary(j)
                        /\ (incs'[j].state = incs[j].state \/ incs'[j].state = "quarantined")
  BY <1>1 DEF Known
<1> QED BY <1>1, <1>2 DEF IndexExact, Live

\* An open incident finishes and leaves both indexes.
LEMMA FinishesExact ==
  ASSUME HInv, IndexExact, NEW i \in Known, NEW x, Writes(i, x), Starts(i, x),
         incs[i].state \in Live, x.state \in {"resolved", "escalated"},
         bySig' = [bySig EXCEPT ![Primary(i)] = 0],
         byKey' = [byKey EXCEPT ![incs[i].key] = 0]
  PROVE  IndexExact'
<1>0. i \in Ids /\ i # 0 /\ Primary(i) \in Sigs /\ incs[i].key \in Keys
  BY PrimaryIs, IdsAre
<1>1. /\ Known' = Known \cup {i} /\ incs'[i] = x /\ x.key = incs[i].key
      /\ \A j \in Ids : j # i => incs'[j] = incs[j] /\ Primary(j)' = Primary(j)
      /\ Primary(i)' = Primary(i)
  BY <1>0, WrittenIs DEF Starts, Writes
<1>2. bySig[Primary(i)] = i /\ byKey[incs[i].key] = i
  BY DEF IndexExact
<1>3. bySig'[Primary(i)] = 0 /\ byKey'[incs[i].key] = 0
  BY <1>0 DEF HInv, Maps
<1>4. ASSUME NEW j \in Known, j # i PROVE
        /\ incs'[j].state \in Live => bySig'[Primary(j)] = j /\ byKey'[incs'[j].key] = j
        /\ incs'[j].state \in {"resolved", "escalated"} => bySig'[Primary(j)] # j /\ byKey'[incs'[j].key] # j
  <2>1. j \in Ids /\ j # 0 /\ Primary(j) \in Sigs /\ incs[j].key \in Keys
    BY PrimaryIs, IdsAre
  <2>2. incs'[j] = incs[j]
    BY <1>1, <1>4, <2>1
  <2>3. CASE incs[j].state \in Live
    <3>1. bySig[Primary(j)] = j /\ byKey[incs[j].key] = j
      BY <2>3 DEF IndexExact
    <3>2. Primary(j) # Primary(i) /\ incs[j].key # incs[i].key
      BY <1>2, <1>4, <3>1
    <3> QED BY <2>1, <2>2, <2>3, <3>1, <3>2 DEF HInv, Maps, Live
  <2>4. CASE incs[j].state \in {"resolved", "escalated"}
    <3>1. bySig[Primary(j)] # j /\ byKey[incs[j].key] # j
      BY <2>4 DEF IndexExact
    <3> QED BY <2>1, <2>2, <2>4, <3>1 DEF HInv, Maps, Live
  <2> QED BY <2>2, <2>3, <2>4
<1>5. \A j \in Known' :
        /\ incs'[j].state \in Live => bySig'[Primary(j)'] = j /\ byKey'[incs'[j].key] = j
        /\ incs'[j].state \in {"resolved", "escalated"} => bySig'[Primary(j)'] # j /\ byKey'[incs'[j].key] # j
  BY <1>0, <1>1, <1>3, <1>4 DEF Known, Live
<1> QED BY <1>5 DEF IndexExact

\* What the ledger shows as live is live here under the same sig, when the write
\* is on record and when its append was refused.
LEMMA DiskKeeps ==
  ASSUME HInv, Disk, NEW i \in Ids, NEW x, Writes(i, x), Starts(i, x),
         \/ disk' = OnDisk(i, x)
         \/ disk' = disk /\ (x.state \in Live \/ (i \in Known /\ x.state = incs[i].state))
  PROVE  Disk'
<1>1. /\ Known' = Known \cup {i} /\ incs'[i] = x
      /\ \A j \in Ids : j # i => incs'[j] = incs[j] /\ Primary(j)' = Primary(j)
      /\ Primary(i)' = x.sigs[1]
  BY WrittenIs
<1>2. x.state \in Live \cup {"resolved", "escalated", "quarantined"} /\ x.sigs[1] \in Sigs
  BY DEF Writes, Record, Starts
<1>3. CASE disk' = OnDisk(i, x)
  <2>1. /\ disk' \in [Ids -> [state : Live \cup {"resolved", "escalated", "quarantined"}, sig : Sigs] \cup {NoInc}]
        /\ disk'[i] = [state |-> x.state, sig |-> x.sigs[1]]
        /\ \A j \in Ids : j # i => disk'[j] = disk[j]
    BY <1>2, <1>3 DEF OnDisk, Disk
  <2>2. \A j \in Ids : disk'[j].state \in Live =>
          j \in Known' /\ incs'[j].state \in Live /\ disk'[j].sig = Primary(j)'
    BY <1>1, <2>1 DEF Disk
  <2> QED BY <2>1, <2>2 DEF Disk
<1>4. CASE disk' = disk /\ (x.state \in Live \/ (i \in Known /\ x.state = incs[i].state))
  <2>1. \A j \in Ids : disk[j].state \in Live =>
          j \in Known' /\ incs'[j].state \in Live /\ disk[j].sig = Primary(j)'
    BY <1>1, <1>4 DEF Disk, Starts
  <2> QED BY <1>4, <2>1 DEF Disk
<1> QED BY <1>3, <1>4

\* A record written over the one of a known incident with its sigs starts as that one does.
LEMMA SameStart ==
  ASSUME HInv, NEW i \in Known, NEW x, Writes(i, x), x.sigs = incs[i].sigs
  PROVE  Starts(i, x)
BY PrimaryIs DEF Starts, Writes, Primary

\* Where sigs and keys correspond, an entry leads to an incident of that very sig and key.
LEMMA EntryHasSig ==
  ASSUME HInv, Apart, NEW o \in Obs
  PROVE  /\ bySig[o.sig] # 0 => Primary(bySig[o.sig]) = o.sig
         /\ byKey[o.key] # 0 => HasSig(byKey[o.key], o.sig)
<1>o. o.sig \in Sigs /\ o.key \in Keys /\ Pair(o.sig, o.key)
  BY ObsAre
<1>1. ASSUME bySig[o.sig] # 0 PROVE Primary(bySig[o.sig]) = o.sig
  <2>1. bySig[o.sig] \in Known /\ Pair(o.sig, incs[bySig[o.sig]].key)
    BY <1>o, <1>1, EntryIs DEF HInv, Leads
  <2> QED BY <2>1, OneSig
<1>2. ASSUME byKey[o.key] # 0 PROVE HasSig(byKey[o.key], o.sig)
  <2>1. byKey[o.key] \in Known /\ incs[byKey[o.key]].key = o.key
    BY <1>o, <1>2, EntryIs DEF HInv, Leads
  <2>2. Primary(byKey[o.key]) = o.sig
    BY <1>o, <2>1, OneSig
  <2>3. 1 \in 1..Len(incs[byKey[o.key]].sigs)
    BY <2>1, KnownIs DEF HInv, Home, Known, Record
  <2> QED BY <2>2, <2>3 DEF HasSig, Primary
<1> QED BY <1>1, <1>2

\* An arrival keeps the indexes exact, and leaves the incident it reports unfinished.
Sound(o) ==
  /\ IndexExact' /\ Disk' /\ UNCHANGED suppress
  /\ reply'.how \in {"folded", "merged", "reopened", "created"}
       => incs'[reply'.inc].state \notin {"resolved", "escalated"}

\* The arrival folds.
LEMMA FoldSound ==
  ASSUME AInv, Apart, NEW o \in Obs, NEW ok, FoldHeld(o, ok) \/ Fold(o, ok)
  PROVE  Sound(o)
<1>s. UNCHANGED suppress
  BY DEF FoldHeld, Fold, LetThrough
<1>1. CASE Same /\ UNCHANGED disk /\ reply'.how = "held"
  BY <1>s, <1>1 DEF Same, Sound, AInv, IndexExact, Disk, Known, Primary
<1>2. CASE \E i \in Known, x \in Record :
              /\ Writes(i, x) /\ UNCHANGED <<bySig, byKey>>
              /\ x.sigs = incs[i].sigs /\ x.state = incs[i].state
              /\ disk' \in {disk, OnDisk(i, x)} /\ reply'.inc = i
              /\ reply'.how = "held" \/ i = bySig[o.sig]
  <2>1. PICK i \in Known, x \in Record :
              /\ Writes(i, x) /\ UNCHANGED <<bySig, byKey>>
              /\ x.sigs = incs[i].sigs /\ x.state = incs[i].state
              /\ disk' \in {disk, OnDisk(i, x)} /\ reply'.inc = i
              /\ reply'.how = "held" \/ i = bySig[o.sig]
    BY <1>2
  <2>2. HInv /\ IndexExact /\ Disk /\ i \in Ids /\ i # 0
    BY IdsAre DEF AInv, Known
  <2>3. Starts(i, x)
    BY <2>1, <2>2, SameStart
  <2>4. IndexExact' /\ Disk'
    BY <2>1, <2>2, <2>3, StaysExact, DiskKeeps
  <2>5. incs'[i] = x
    BY <2>1, <2>2, WrittenIs
  <2>6. ASSUME i = bySig[o.sig] PROVE incs[i].state \notin {"resolved", "escalated"}
    <3>1. Primary(i) = o.sig
      BY <2>2, <2>6, EntryHasSig
    <3> QED BY <2>2, <2>6, <3>1 DEF IndexExact
  <2> QED BY <1>s, <2>1, <2>4, <2>5, <2>6 DEF Sound
<1> QED BY <1>1, <1>2, FoldWrites DEF AInv

\* The arrival opens an incident.
LEMMA NewSound ==
  ASSUME AInv, Apart, NEW o \in Obs, NEW ok, New(o, ok)
  PROVE  Sound(o)
<1> DEFINE i == FreshId
           x == NewInc(o, "open")
<1>h. HInv /\ IndexExact /\ Disk
  BY DEF AInv
<1>o. o.sig \in Sigs /\ o.key \in Keys /\ Pair(o.sig, o.key)
  BY ObsAre
<1>1. /\ Free # {} /\ bySig[o.sig] = 0 /\ UNCHANGED suppress
      /\ incs' = [incs EXCEPT ![i] = x]
      /\ bySig' = [bySig EXCEPT ![o.sig] = i] /\ byKey' = [byKey EXCEPT ![o.key] = i]
      /\ disk' \in {disk, OnDisk(i, x)} /\ reply'.inc = i
  BY DEF New, LetThrough, Ends
<1>2. Writes(i, x)
  BY <1>h, <1>1, Creates DEF Live
<1>3. i \in Ids /\ i \notin Known
  BY <1>1, FreshIs
<1>4. x.state = "open" /\ x.state \in Live /\ x.key = o.key /\ x.sigs[1] = o.sig
  BY NewIncIs DEF Live
<1> HIDE DEF i, x
<1>5. Starts(i, x)
  BY <1>o, <1>3, <1>4 DEF Starts
<1>6. IndexExact'
  BY <1>h, <1>1, <1>2, <1>3, <1>4, <1>5, OpensExact
<1>7. Disk'
  BY <1>h, <1>1, <1>2, <1>3, <1>4, <1>5, DiskKeeps
<1>8. incs'[i] = x
  BY <1>h, <1>2, <1>3, WrittenIs
<1> QED BY <1>1, <1>4, <1>6, <1>7, <1>8 DEF Sound

\* The arrival reopens a finished incident.
LEMMA ReopenSound ==
  ASSUME AInv, Apart, NEW o \in Obs, NEW ok, Reopen(o, ok)
  PROVE  Sound(o)
<1>h. HInv /\ IndexExact /\ Disk /\ SigHasKey
  BY DEF AInv, Apart
<1>o. o.sig \in Sigs /\ o.key \in Keys /\ Pair(o.sig, o.key)
  BY ObsAre
<1>s. UNCHANGED suppress /\ bySig[o.sig] = 0
  BY DEF Reopen, LetThrough
<1>1. PICK i \in Over(o), x \in Record :
           /\ Writes(i, x) /\ x.state = "open" /\ x.sigs = incs[i].sigs
           /\ bySig' = [bySig EXCEPT ![o.sig] = i]
           /\ byKey' = [byKey EXCEPT ![o.key] = i]
           /\ Ends(o, i, IF ok THEN "reopened" ELSE "error", x, ok)
  BY <1>h, ReopenWrites
<1>2. i \in Known /\ incs[i].key = o.key /\ i \in Ids
  BY <1>h, OverIs DEF Known
<1>3. Starts(i, x)
  BY <1>h, <1>1, <1>2, SameStart
<1>4. x.sigs[1] = o.sig /\ x.key = o.key /\ x.state \in Live
  <2>1. Primary(i) = o.sig
    BY <1>h, <1>o, <1>2, OneSig
  <2> QED BY <1>1, <1>2, <2>1 DEF Primary, Writes, Live
<1>5. IndexExact'
  BY <1>h, <1>s, <1>1, <1>2, <1>3, <1>4, OpensExact
<1>6. disk' \in {disk, OnDisk(i, x)} /\ reply'.inc = i
  BY <1>1 DEF Ends
<1>7. Disk'
  BY <1>h, <1>1, <1>2, <1>3, <1>4, <1>6, DiskKeeps
<1>8. incs'[i] = x
  BY <1>h, <1>1, <1>2, WrittenIs
<1> QED BY <1>s, <1>1, <1>5, <1>6, <1>7, <1>8 DEF Sound

\* Every arrival; with sigs apart none merges, and without windows none is suppressed.
LEMMA AdmitSound ==
  ASSUME AInv, Apart, NEW o \in Obs, Admit(o)
  PROVE  Sound(o)
<1>1. CASE Replayed(o)
  BY <1>1 DEF Replayed, Sound, AInv, IndexExact, Disk, Known, Primary
<1>2. ASSUME NEW ok, Suppressed(o, ok) PROVE FALSE
  BY <1>2, ObsAre DEF Suppressed, AInv, NoWindow
<1>3. ASSUME NEW ok, Merge(o, ok) PROVE FALSE
  BY <1>3, EntryHasSig DEF Merge, Merges, AInv
<1> QED BY <1>1, <1>2, <1>3, FoldSound, NewSound, ReopenSound DEF Admit

\* An incident finishes, or is refused a third time.
LEMMA MoveSound ==
  ASSUME AInv, Apart, NEW i \in Known, Resolve(i) \/ Escalate(i) \/ Refuse(i)
  PROVE  IndexExact' /\ Disk' /\ NoWindow'
<1>h. HInv /\ IndexExact /\ Disk /\ NoWindow
  BY DEF AInv
<1>i. i \in Ids /\ Primary(i) \in Sigs /\ incs[i] \in Record
  BY <1>h, PrimaryIs
<1>1. PICK to \in {"resolved", "escalated", "quarantined"} :
        /\ incs' = [incs EXCEPT ![i].state = to]
        /\ disk' = OnDisk(i, [incs[i] EXCEPT !.state = to])
        /\ \/ to = "quarantined" /\ UNCHANGED <<bySig, byKey>>
           \/ /\ to # "quarantined" /\ incs[i].state \in Live
              /\ bySig' = [bySig EXCEPT ![Primary(i)] = 0]
              /\ byKey' = [byKey EXCEPT ![incs[i].key] = 0]
  BY DEF Resolve, Escalate, Refuse, Finish, Live
<1> DEFINE x == [incs[i] EXCEPT !.state = to]
<1>2. x.state = to /\ x.sigs = incs[i].sigs /\ x.key = incs[i].key /\ x \in Record
  BY <1>i, SetRecord
<1>3. incs' = [incs EXCEPT ![i] = x] /\ disk' = OnDisk(i, x)
  BY <1>h, <1>i, <1>1 DEF HInv, Maps
<1> HIDE DEF x
<1>4. Writes(i, x)
  BY <1>h, <1>1, <1>2, <1>3, Rewrites
<1>5. Starts(i, x)
  BY <1>h, <1>2, <1>4, SameStart
<1>6. Disk'
  BY <1>h, <1>i, <1>3, <1>4, <1>5, DiskKeeps
<1>7. IndexExact'
  BY <1>h, <1>1, <1>2, <1>4, <1>5, StaysExact, FinishesExact
<1>8. NoWindow'
  <2>1. \/ UNCHANGED suppress
        \/ suppress' = [suppress EXCEPT ![Primary(i)] = FALSE]
    <3>1. CASE Resolve(i)
      BY <1>h, <1>i, <3>1 DEF Resolve, NoWindow, Apart
    <3>2. CASE Escalate(i)
      BY <1>h, <1>i, <3>2 DEF Escalate, NoWindow, Apart
    <3>3. CASE Refuse(i)
      BY <3>3 DEF Refuse
    <3> QED BY <3>1, <3>2, <3>3
  <2> QED BY <1>h, <1>i, <2>1 DEF NoWindow
<1> QED BY <1>6, <1>7, <1>8

\* The exact indexes are inductive while sigs are apart.
LEMMA AStep == AInv /\ Apart /\ [Next]_vars => AInv'
<1> SUFFICES ASSUME AInv, Apart, [Next]_vars PROVE AInv'
  OBVIOUS
<1>h. HInv'
  BY HStep DEF AInv, Apart
<1>1. CASE \E o \in Obs : Admit(o)
  BY <1>h, <1>1, AdmitSound DEF AInv, Sound, NoWindow
<1>2. ASSUME NEW i \in Known, Resolve(i) \/ Escalate(i) \/ Refuse(i) PROVE AInv'
  BY <1>h, <1>2, MoveSound DEF AInv
<1>3. ASSUME NEW i \in Known, Row(i) \/ Quarantine(i) \/ Unquarantine(i) PROVE FALSE
  BY <1>3 DEF Row, Quarantine, Unquarantine, Move, Apart
<1>4. CASE (\E s \in Sigs : Suppress(s)) \/ Restart
  BY <1>4 DEF Suppress, Restart, Move, Apart
<1>5. CASE (\E sc \in Scopes : TripBreaker(sc) \/ Lapse(sc)) \/ UNCHANGED vars
  <2>1. UNCHANGED <<incs, bySig, byKey, disk, suppress>>
    BY <1>5 DEF TripBreaker, Lapse, vars, AInv, NoWindow
  <2> QED BY <1>h, <2>1 DEF AInv, IndexExact, Disk, Known, Primary, NoWindow
<1> QED BY <1>1, <1>2, <1>3, <1>4, <1>5 DEF Next

\* Nothing is indexed at first.
LEMMA AInit == Init => AInv
<1>1. Init => Known = {}
  BY DEF Init, Known
<1>2. Init => Disk
  BY DEF Init, Disk, NoInc, Live
<1> QED BY <1>1, <1>2, HInit DEF Init, AInv, IndexExact, NoWindow

(***************************************************************************)
(* Every open incident is the one its sig and key lead to and no finished  *)
(* one is led to, through any number of arrivals, reopenings, breakers,    *)
(* refused transitions and failed appends (newIncidentLocked, Advance).    *)
(***************************************************************************)
THEOREM IndexesStayExact == Apart => (Spec => []IndexExact)
<1> SUFFICES ASSUME Apart PROVE Spec => []IndexExact
  OBVIOUS
<1>1. AInv => IndexExact
  BY DEF AInv
<1> QED BY <1>1, AInit, AStep, PTL DEF Spec

(***************************************************************************)
(* SPEC-05 INV-1, one open incident per sig on the ledger, holds as long   *)
(* as no restart, window or operator comes between: AdmitRestart shows a   *)
(* restart alone breaks it.                                                *)
(***************************************************************************)
THEOREM OneOpenIncident == Apart => (Spec => []OneOpenPerSig)
<1> SUFFICES ASSUME Apart PROVE Spec => []OneOpenPerSig
  OBVIOUS
<1>1. AInv => OneOpenPerSig
  BY DEF AInv, OneOpenPerSig, Disk, IndexExact
<1> QED BY <1>1, AInit, AStep, PTL DEF Spec

(***************************************************************************)
(* An arrival no breaker holds leaves an incident that is not finished:    *)
(* none is absorbed by a resolved or escalated one (Admit).                *)
(***************************************************************************)
THEOREM ArrivalsFindWork == Apart => (Spec => ArrivalFindsWork)
<1> SUFFICES ASSUME Apart PROVE Spec => ArrivalFindsWork
  OBVIOUS
<1> DEFINE Finds == arrivals' # arrivals /\ reply'.how \in {"folded", "merged", "reopened", "created"}
                      => incs'[reply'.inc].state \notin {"resolved", "escalated"}
<1>1. AInv /\ [Next]_vars => [Finds]_vars
  <2> SUFFICES ASSUME AInv, Next PROVE Finds
    OBVIOUS
  <2>1. CASE \E o \in Obs : Admit(o)
    BY <2>1, AdmitSound DEF Sound
  <2>2. CASE ~ \E o \in Obs : Admit(o)
    <3>1. UNCHANGED arrivals
      BY <2>2 DEF Next, Resolve, Escalate, Row, Refuse, Quarantine, Unquarantine, Suppress, TripBreaker,
                  Lapse, Restart, Move
    <3> QED BY <3>1
  <2> QED BY <2>1, <2>2
<1> QED BY <1>1, AInit, AStep, PTL DEF Spec, ArrivalFindsWork
=============================================================================
