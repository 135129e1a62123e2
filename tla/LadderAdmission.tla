-------------------------- MODULE LadderAdmission --------------------------
(***************************************************************************)
(* Admission (internal/ladder/ladder.go, budget.go, gates.go): how an      *)
(* arrival finds its incident.  The ladder keeps every incident of the     *)
(* process in one map and indexes the open ones by sig and by correlation  *)
(* key (inKey).  Admit holds the lock throughout, so an arrival is one     *)
(* step; what makes it hard is the order of its tests, and that the other  *)
(* operations which open and close incidents each maintain the two indexes *)
(* by hand.                                                                *)
(*                                                                         *)
(* An incident's place on the ladder is reduced to what admission asks of  *)
(* it: open (any state with work or a human ahead), suppressed, resolved,  *)
(* escalated or quarantined.  LadderRun has the states in between.         *)
(***************************************************************************)
EXTENDS Naturals, FiniteSets, Sequences

CONSTANTS
  Obs,           \* the observations: [ev, sig, key, rule, source]
  Sigs, Keys,
  Global,        \* the scope every arrival is subject to
  Cooldown,      \* the rules have a Cooldown
  QuietClose,    \* ladder.quiet_close
  ReopenMax,
  MaxSeen,       \* event ids remembered (4096 in the code)
  Moves,         \* what may happen besides arrivals and resolution
  MaxInc,        \* bound: incidents ever opened
  MaxArrivals,   \* bound: calls of Admit
  MaxMoves       \* bound: all other steps but Lapse

Ids == 1..MaxInc
Scopes == Sigs \cup {o.rule : o \in Obs} \cup {o.source : o \in Obs} \cup {Global}
AllMoves == {"escalate", "refuse", "quarantine", "unquarantine", "suppress",
             "trip", "restart", "fault", "rows"}

ASSUME AdmissionAssumption ==
  /\ \A o \in Obs : o.sig \in Sigs /\ o.key \in Keys
  /\ {Cooldown, QuietClose} \subseteq BOOLEAN
  /\ {ReopenMax, MaxInc, MaxArrivals, MaxMoves} \subseteq Nat /\ MaxSeen \in Nat \ {0}
  /\ Moves \subseteq AllMoves

VARIABLES
  incs,       \* l.incs: the incidents this process knows
  bySig,      \* l.openBySig, 0 for no entry
  byKey,      \* l.openByInKey, 0 for no entry
  seen,       \* l.seenOrder: the event ids remembered, oldest first
  breaker,    \* breaker[scope]; "lapsed" is open past OpenUntil
  suppress,   \* suppress[sig]: a suppression window is open
  disk,       \* disk[id]: what the ledger's newest record of the incident says
  reply,      \* what the last call of Admit returned
  arrivals, moves

vars == <<incs, bySig, byKey, seen, breaker, suppress, disk, reply, arrivals, moves>>

NoInc == [state |-> "none"]
NoReply == [obs |-> "none", inc |-> 0, how |-> "none"]
Live == {"open", "suppressed"}

Known == {i \in Ids : incs[i] # NoInc}
Primary(i) == incs[i].sigs[1]
HasSig(i, s) == \E k \in 1..Len(incs[i].sigs) : incs[i].sigs[k] = s

Init ==
  /\ incs = [i \in Ids |-> NoInc]
  /\ bySig = [s \in Sigs |-> 0]
  /\ byKey = [k \in Keys |-> 0]
  /\ seen = <<>>
  /\ breaker = [sc \in Scopes |-> "closed"]
  /\ suppress = [s \in Sigs |-> FALSE]
  /\ disk = [i \in Ids |-> NoInc]
  /\ reply = NoReply
  /\ arrivals = 0 /\ moves = 0

Move(m) ==
  /\ m \in Moves /\ moves < MaxMoves
  /\ moves' = moves + 1
  /\ UNCHANGED <<seen, reply, arrivals>>

(* --------------------------- the tests of Admit ------------------------ *)

Seen(o) == \E k \in 1..Len(seen) : seen[k] = o.ev

(* noteEventLocked: remember the event, forget the oldest beyond the cap.  *)
Noted(o) == LET q == Append(seen, o.ev) IN IF Len(q) > MaxSeen THEN Tail(q) ELSE q

(* openBreakerLocked: the scopes in order; the first that is not closed    *)
(* decides.  One past its OpenUntil turns half-open and lets through.      *)
ScopesOf(o) == <<o.sig, o.rule, o.source, Global>>
Deciding(o) ==
  LET at == {k \in 1..4 : breaker[ScopesOf(o)[k]] # "closed"}
  IN  IF at = {} THEN 0 ELSE CHOOSE k \in at : \A j \in at : k <= j
Held(o) == Deciding(o) # 0 /\ breaker[ScopesOf(o)[Deciding(o)]] \in {"open", "half"}
BreakerLetThrough(o) ==
  IF Deciding(o) = 0 THEN breaker ELSE [breaker EXCEPT ![ScopesOf(o)[Deciding(o)]] = "half"]

(* Mutant: a finished incident of any sig and key will do.                 *)
Over_Any(o) == {i \in Known : incs[i].state \in {"resolved", "escalated"}}

(* resolvedLocked: any resolved or escalated incident of the sig or key.   *)
Over(o) == {i \in Known : /\ incs[i].state \in {"resolved", "escalated"}
                          /\ HasSig(i, o.sig) \/ incs[i].key = o.key}

Merges(o) == byKey[o.key] # 0 /\ ~HasSig(byKey[o.key], o.sig)

Free == {i \in Ids : incs[i] = NoInc /\ disk[i] = NoInc}
FreshId == CHOOSE i \in Free : TRUE

(* ------------------------------- Admit --------------------------------- *)

(* The record of incident i as the ledger has it after an append.          *)
OnDisk(i, x) == [disk EXCEPT ![i] = [state |-> x.state, sig |-> x.sigs[1]]]

(* Admission ends: the reply, the event noted, and what was appended.      *)
Ends(o, i, how, x, ok) ==
  /\ arrivals' = arrivals + 1
  /\ reply' = [obs |-> o, inc |-> i, how |-> how]
  /\ seen' = Noted(o)
  /\ disk' = IF ok /\ i # 0 THEN OnDisk(i, x) ELSE disk

(* An append may fail when faults are among the moves.                     *)
Append1(ok) ==
  \/ ok /\ UNCHANGED moves
  \/ ~ok /\ "fault" \in Moves /\ moves < MaxMoves /\ moves' = moves + 1

(* newIncidentLocked, with the state its record will end in.               *)
NewInc(o, state) ==
  [state |-> state, sigs |-> <<o.sig>>, key |-> o.key, rule |-> o.rule,
   paths |-> {o.source}, reopens |-> 0, folded |-> FALSE]

Replayed(o) ==
  /\ Seen(o)
  /\ arrivals' = arrivals + 1
  /\ reply' = [obs |-> o, inc |-> bySig[o.sig], how |-> "replayed"]
  /\ UNCHANGED <<incs, bySig, byKey, seen, breaker, suppress, disk, moves>>

(* Inside a suppression window a new incident opens in `suppressed` (T02); *)
(* the failure of its appends is ignored.                                  *)
Suppressed(o, ok) ==
  LET x == NewInc(o, "suppressed") IN
  /\ ~Seen(o) /\ suppress[o.sig]
  /\ Free # {} /\ Append1(ok)
  /\ incs' = [incs EXCEPT ![FreshId] = x]
  /\ bySig' = [bySig EXCEPT ![o.sig] = FreshId]
  /\ byKey' = [byKey EXCEPT ![o.key] = FreshId]
  /\ Ends(o, FreshId, "created", x, ok)
  /\ UNCHANGED <<breaker, suppress>>

(* foldLocked: a breaker holds the arrival; it folds into the incident the *)
(* indexes name, and into nothing when they name none.                     *)
FoldHeld(o, ok) ==
  LET i == IF bySig[o.sig] # 0 THEN bySig[o.sig] ELSE byKey[o.key]
      x == [incs[i] EXCEPT !.folded = TRUE, !.paths = @ \cup {o.source}]
  IN
  /\ ~Seen(o) /\ ~suppress[o.sig] /\ Held(o)
  /\ Append1(ok) /\ (i = 0 => ok)
  /\ incs' = IF i = 0 THEN incs ELSE [incs EXCEPT ![i] = x]
  /\ Ends(o, i, "held", x, ok)
  /\ UNCHANGED <<bySig, byKey, breaker, suppress>>

LetThrough(o) ==
  /\ ~Seen(o) /\ ~suppress[o.sig] /\ ~Held(o)
  /\ breaker' = BreakerLetThrough(o)
  /\ UNCHANGED suppress

(* The incident the sig index names collects the arrival, whatever state   *)
(* it is in.                                                               *)
Fold(o, ok) ==
  LET i == bySig[o.sig]
      x == [incs[i] EXCEPT !.paths = @ \cup {o.source}]
  IN
  /\ LetThrough(o) /\ i # 0
  /\ Append1(ok)
  /\ incs' = [incs EXCEPT ![i] = x]
  /\ Ends(o, i, IF ok THEN "folded" ELSE "error", x, ok)
  /\ UNCHANGED <<bySig, byKey>>

(* The incident the key index names takes the sig in.                      *)
Merge(o, ok) ==
  LET i == byKey[o.key]
      x == [incs[i] EXCEPT !.sigs = Append(@, o.sig), !.paths = @ \cup {o.source}]
  IN
  /\ LetThrough(o) /\ bySig[o.sig] = 0 /\ Merges(o)
  /\ Append1(ok)
  /\ incs' = [incs EXCEPT ![i] = x]
  /\ bySig' = [bySig EXCEPT ![o.sig] = i]
  /\ Ends(o, i, IF ok THEN "merged" ELSE "error", x, ok)
  /\ UNCHANGED byKey

(* A resolved or escalated incident of the sig, or of the key, reopens.    *)
Reopen(o, ok) ==
  /\ LetThrough(o) /\ bySig[o.sig] = 0 /\ ~Merges(o)
  /\ Append1(ok)
  /\ \E i \in Over(o) :
       LET x == [incs[i] EXCEPT !.state = "open", !.reopens = @ + 1] IN
       /\ incs[i].reopens < ReopenMax
       /\ incs' = [incs EXCEPT ![i] = x]
       /\ bySig' = [bySig EXCEPT ![o.sig] = i]
       /\ byKey' = [byKey EXCEPT ![o.key] = i]
       /\ Ends(o, i, IF ok THEN "reopened" ELSE "error", x, ok)

(* None, or the one found has spent its reopenings: a new incident (T01).  *)
(* The index check for a mismatched sig never finds one: the ledger's      *)
(* index answers with an incident of the very sig asked for.               *)
New(o, ok) ==
  LET x == NewInc(o, "open") IN
  /\ LetThrough(o) /\ bySig[o.sig] = 0 /\ ~Merges(o)
  /\ Over(o) = {} \/ \E i \in Over(o) : incs[i].reopens >= ReopenMax
  /\ Free # {} /\ Append1(ok)
  /\ incs' = [incs EXCEPT ![FreshId] = x]
  /\ bySig' = [bySig EXCEPT ![o.sig] = FreshId]
  /\ byKey' = [byKey EXCEPT ![o.key] = FreshId]
  /\ Ends(o, FreshId, "created", x, ok)

Admit(o) ==
  /\ arrivals < MaxArrivals
  /\ \/ Replayed(o)
     \/ \E ok \in BOOLEAN : \/ Suppressed(o, ok) \/ FoldHeld(o, ok) \/ Fold(o, ok)
                            \/ Merge(o, ok) \/ Reopen(o, ok) \/ New(o, ok)

(* --------------------- what else moves incidents ----------------------- *)

(* Advance's bookkeeping after an accepted row into resolved or escalated: *)
(* the primary sig and the key leave the indexes; resolving closes the     *)
(* half-open breakers of the sig, the rule and the arrival paths; a        *)
(* Cooldown opens the sig's breaker and suppression window.                *)
Closed(i) == {Primary(i), incs[i].rule} \cup incs[i].paths

(* Mutant: the finished incident stays in the sig index.                   *)
Finish_KeepsIndex(i, to) ==
  /\ incs' = [incs EXCEPT ![i].state = to]
  /\ disk' = OnDisk(i, [incs[i] EXCEPT !.state = to])
  /\ byKey' = [byKey EXCEPT ![incs[i].key] = 0]
  /\ UNCHANGED <<bySig, breaker>>

Finish(i, to) ==
  /\ incs' = [incs EXCEPT ![i].state = to]
  /\ disk' = OnDisk(i, [incs[i] EXCEPT !.state = to])
  /\ bySig' = [bySig EXCEPT ![Primary(i)] = 0]
  /\ byKey' = [byKey EXCEPT ![incs[i].key] = 0]
  /\ breaker' = [sc \in Scopes |->
                   IF Cooldown /\ sc = Primary(i) THEN "open"
                   ELSE IF to = "resolved" /\ breaker[sc] = "half" /\ sc \in Closed(i)
                   THEN "closed" ELSE breaker[sc]]

(* T38 and T50 resolve an open incident, T45 a suppressed one whose window *)
(* was quiet.                                                              *)
Resolve(i) ==
  /\ \/ incs[i].state = "open"
     \/ incs[i].state = "suppressed" /\ QuietClose /\ ~incs[i].folded
  /\ Finish(i, "resolved")
  /\ suppress' = [suppress EXCEPT ![Primary(i)] = Cooldown \/ (@ /\ incs[i].state = "open")]
  /\ moves < MaxMoves /\ moves' = moves + 1
  /\ UNCHANGED <<seen, reply, arrivals>>

Escalate(i) ==
  /\ incs[i].state = "open"
  /\ Move("escalate")
  /\ Finish(i, "escalated")
  /\ suppress' = [suppress EXCEPT ![Primary(i)] = Cooldown \/ @]

(* The rows that move an incident by Advance and leave the indexes alone:  *)
(* T42 and T43 reopen, T44 ends a suppression that was not quiet, T46      *)
(* declares one.                                                           *)
Row(i) ==
  LET to(st) == /\ incs' = [incs EXCEPT ![i].state = st]
                /\ disk' = OnDisk(i, [incs[i] EXCEPT !.state = st])
  IN
  /\ Move("rows")
  /\ \/ /\ \/ incs[i].state = "resolved" /\ incs[i].reopens < ReopenMax
           \/ incs[i].state = "escalated"
        /\ incs' = [incs EXCEPT ![i].state = "open", ![i].reopens = @ + 1]
        /\ disk' = OnDisk(i, [incs[i] EXCEPT !.state = "open"])
        /\ UNCHANGED suppress
     \/ /\ incs[i].state = "suppressed" /\ (incs[i].folded \/ ~QuietClose)
        /\ to("open") /\ suppress' = [suppress EXCEPT ![Primary(i)] = FALSE]
     \/ /\ incs[i].state = "open" /\ suppress[Primary(i)]
        /\ to("suppressed") /\ UNCHANGED suppress
  /\ UNCHANGED <<bySig, byKey, breaker>>

(* refuseLocked's third illegal transition: the indexes keep the incident. *)
Refuse(i) ==
  /\ incs[i].state \notin {"none", "quarantined"}
  /\ Move("refuse")
  /\ incs' = [incs EXCEPT ![i].state = "quarantined"]
  /\ disk' = OnDisk(i, [incs[i] EXCEPT !.state = "quarantined"])
  /\ UNCHANGED <<bySig, byKey, breaker, suppress>>

(* An operator's Quarantine takes the primary sig out, not the key.        *)
Quarantine(i) ==
  /\ incs[i].state \notin {"none", "quarantined"}
  /\ Move("quarantine")
  /\ incs' = [incs EXCEPT ![i].state = "quarantined"]
  /\ disk' = OnDisk(i, [incs[i] EXCEPT !.state = "quarantined"])
  /\ bySig' = [bySig EXCEPT ![Primary(i)] = 0]
  /\ UNCHANGED <<byKey, breaker, suppress>>

Unquarantine(i) ==
  /\ incs[i].state = "quarantined"
  /\ Move("unquarantine")
  /\ incs' = [incs EXCEPT ![i].state = "open"]
  /\ disk' = OnDisk(i, [incs[i] EXCEPT !.state = "open"])
  /\ bySig' = [bySig EXCEPT ![Primary(i)] = i]
  /\ byKey' = [byKey EXCEPT ![incs[i].key] = i]
  /\ UNCHANGED <<breaker, suppress>>

(* Suppress and TripBreaker.                                               *)
Suppress(s) ==
  /\ Move("suppress")
  /\ breaker' = [breaker EXCEPT ![s] = "open"]
  /\ suppress' = [suppress EXCEPT ![s] = TRUE]
  /\ UNCHANGED <<incs, bySig, byKey, disk>>

TripBreaker(sc) ==
  /\ Move("trip")
  /\ breaker' = [breaker EXCEPT ![sc] = "open"]
  /\ UNCHANGED <<incs, bySig, byKey, suppress, disk>>

(* Time: a suppression window ends no later than the breaker it opened.    *)
Lapse(sc) ==
  /\ breaker[sc] = "open" \/ (sc \in Sigs /\ suppress[sc])
  /\ IF sc \in Sigs /\ suppress[sc]
     THEN suppress' = [suppress EXCEPT ![sc] = FALSE] /\ UNCHANGED breaker
     ELSE breaker' = [breaker EXCEPT ![sc] = "lapsed"] /\ UNCHANGED suppress
  /\ UNCHANGED <<incs, bySig, byKey, seen, disk, reply, arrivals, moves>>

(* The daemon restarts: New builds empty maps and nothing fills them.      *)
Restart ==
  /\ "restart" \in Moves /\ moves < MaxMoves /\ moves' = moves + 1
  /\ incs' = [i \in Ids |-> NoInc]
  /\ bySig' = [s \in Sigs |-> 0]
  /\ byKey' = [k \in Keys |-> 0]
  /\ seen' = <<>>
  /\ breaker' = [sc \in Scopes |-> "closed"]
  /\ suppress' = [s \in Sigs |-> FALSE]
  /\ UNCHANGED <<disk, reply, arrivals>>

Next ==
  \/ \E o \in Obs : Admit(o)
  \/ \E i \in Known : \/ Resolve(i) \/ Escalate(i) \/ Row(i) \/ Refuse(i)
                       \/ Quarantine(i) \/ Unquarantine(i)
  \/ \E s \in Sigs : Suppress(s)
  \/ \E sc \in Scopes : TripBreaker(sc) \/ Lapse(sc)
  \/ Restart

Spec == Init /\ [][Next]_vars
-----------------------------------------------------------------------------
Incident ==
  [state : Live \cup {"resolved", "escalated", "quarantined"},
   sigs : UNION {[1..n -> Sigs] : n \in 1..Cardinality(Sigs)},
   key : Keys, rule : Scopes, paths : SUBSET Scopes, reopens : Nat, folded : BOOLEAN]

(* The type invariant of the admission maps (ladder.go's Ladder): no sig   *)
(* is listed twice, so an incident has at most one entry per sig.          *)
TypeOK ==
  /\ \A i \in Known : incs[i] \in Incident
  /\ bySig \in [Sigs -> {0} \cup Known]
  /\ byKey \in [Keys -> {0} \cup Known]
  /\ Len(seen) <= MaxSeen /\ \A k \in 1..Len(seen) : \E o \in Obs : seen[k] = o.ev
  /\ breaker \in [Scopes -> {"closed", "open", "lapsed", "half"}]
  /\ suppress \in [Sigs -> BOOLEAN]

(* SPEC-05 INV-1: at any time the ledger shows one open incident per sig.  *)
OneOpenPerSig ==
  \A i, j \in Ids : (disk[i].state \in Live /\ disk[j].state \in Live
                       /\ disk[i].sig = disk[j].sig) => i = j

(* The indexes and the incidents agree as long as no operator moves an     *)
(* incident and every sig has a key of its own: an incident with work      *)
(* ahead is the one its sig and its key lead to, and a finished one is     *)
(* led to by neither (newIncidentLocked, reopen, Advance's deletes).       *)
IndexExact ==
  \A i \in Known :
    /\ incs[i].state \in Live => bySig[Primary(i)] = i /\ byKey[incs[i].key] = i
    /\ incs[i].state \in {"resolved", "escalated"} => bySig[Primary(i)] # i /\ byKey[incs[i].key] # i

(* Whatever operators, restarts and failures do, the indexes never lead an *)
(* arrival to a stranger: what they name for a sig or key has that sig, or *)
(* the key the sig's observations carry (Admit's merge and reopen).        *)
EntriesHome ==
  /\ \A s \in Sigs : bySig[s] # 0 =>
        HasSig(bySig[s], s) \/ \E o \in Obs : o.sig = s /\ o.key = incs[bySig[s]].key
  /\ \A k \in Keys : byKey[k] # 0 => incs[byKey[k]].key = k

(* While neither breaker nor suppression window stands against it, an      *)
(* arrival leaves an incident of its sig or key open or quarantined: it is *)
(* never absorbed by a finished one (Admit, SPEC-05 3.9 "no open incident  *)
(* but a `resolved` one ... T42 ...; else T01").                           *)
ArrivalFindsWork ==
  [][arrivals' # arrivals /\ reply'.how \in {"folded", "merged", "reopened", "created"}
        => incs'[reply'.inc].state \notin {"resolved", "escalated"}]_vars
=============================================================================
