---------------------------- MODULE ResearchRuns ----------------------------
(* The research rung (internal/research): a Run asks the lab's cache, then *)
(* a local corpus, then submits the class and polls for an answer from a   *)
(* goroutine of its own; every outcome is a record.  The lab is external.  *)
EXTENDS Naturals, Sequences, FiniteSets

CONSTANTS
  Runs, KeyOf,       \* calls of Run, and the idempotency key each one has
  MaxInflight, MaxPolls, CooldownFailures, SubmitFuse, RequestsPerDay,
  Cadences,          \* rungs of the cadence ladder
  Codes,             \* the error codes the lab's failures show
  Fallbacks,         \* whether a run's class may be the fallback slug
  MaxFaults, MaxCrashes

VARIABLES
  rung,       \* run -> its rung
  inflight,   \* key -> the rung counted in flight, None for no entry
  submitted,  \* key -> the submission remembered, 0 for none
  svc,        \* [submits, fails, decoder, fence, cooling, full, killed, closed]
  subs,       \* the lab's submissions: [key, stage]
  answers,    \* keys the lab's cache answers
  log,        \* run -> its terminal records
  hist,       \* history: [raced, blind], per key
  spent

vars == <<rung, inflight, submitted, svc, subs, answers, log, hist, spent>>

None == "none"
Keys == {KeyOf[r] : r \in Runs}
Terminal == {"returned", "degraded", "skipped"}
NewRung == [pc |-> "idle", state |-> "requested", fin |-> FALSE, sid |-> 0, polls |-> 0,
            loop |-> None, cancelled |-> FALSE, parking |-> FALSE, parked |-> FALSE, fb |-> FALSE, tries |-> 0]
NewService == [submits |-> 0, fails |-> 0, decoder |-> 0, fence |-> FALSE, cooling |-> FALSE,
               full |-> TRUE, killed |-> FALSE, closed |-> FALSE]

Init ==
  /\ rung = [r \in Runs |-> NewRung]
  /\ inflight = [k \in Keys |-> None] /\ submitted = [k \in Keys |-> 0]
  /\ svc \in {NewService, [NewService EXCEPT !.full = FALSE]} /\ subs = <<>> /\ answers = {}
  /\ log = [r \in Runs |-> 0]
  /\ hist = [raced |-> [k \in Keys |-> 0], blind |-> [k \in Keys |-> 0]]
  /\ spent = [faults |-> 0, crashes |-> 0]

Fault == spent.faults < MaxFaults /\ spent' = [spent EXCEPT !.faults = @ + 1]
Inflight == {k \in Keys : inflight[k] # None}

(* ------------------------- outcomes and records ------------------------- *)

(* mark: the state; every state but `requested' is final.                  *)
Mark(g, state) == [g EXCEPT !.state = state, !.fin = @ \/ state \in Terminal]

(* record: the rung as it is now; a refused append is only counted.        *)
Logged(r, g) == [log EXCEPT ![r] = @ + IF g.state \in Terminal THEN 1 ELSE 0]
Record(r, g) ==
  \/ log' = Logged(r, g) /\ UNCHANGED spent
  \/ g.state \in Terminal /\ Fault /\ UNCHANGED log

(* finish and record, for a rung that leaves Run with an outcome.          *)
Ends(r, state) ==
  LET g == [Mark(rung[r], state) EXCEPT !.pc = "done"] IN
  rung' = [rung EXCEPT ![r] = g] /\ Record(r, g)

(* A record that a failing call cost has its fault already.                *)
EndsFailed(r) ==
  LET g == [Mark(rung[r], "degraded") EXCEPT !.pc = "done"] IN
  rung' = [rung EXCEPT ![r] = g] /\ log' = Logged(r, g)

(* noteFailure: consecutive failures start the cooldown.                   *)
NoteFailure(s) ==
  IF CooldownFailures > 0 /\ s.fails + 1 >= CooldownFailures
  THEN [s EXCEPT !.fails = 0, !.cooling = TRUE] ELSE [s EXCEPT !.fails = @ + 1]

(* noteDecoderReject: rejected bodies blow the submit fuse for good.       *)
NoteDecoderReject(s) ==
  [s EXCEPT !.decoder = @ + 1, !.fence = @ \/ (SubmitFuse > 0 /\ s.decoder + 1 >= SubmitFuse)]

(* failRun.                                                                *)
Failed(s, code) == IF code = "decoder" THEN NoteDecoderReject(s) ELSE NoteFailure(s)
FailRun(r) == Fault /\ EndsFailed(r) /\ \E code \in Codes : svc' = Failed(svc, code)

(* release: only the rung that holds the key's entry gives it back.        *)
Release(r) == [inflight EXCEPT ![KeyOf[r]] = IF @ = r THEN None ELSE @]

(* ------------------------------ one Run --------------------------------- *)

(* What Run finds, under the mutex, before it asks anybody.                *)
Refused ==
  CASE Cardinality(Inflight) >= MaxInflight -> "degraded"
    [] svc.killed -> "skipped"
    [] svc.cooling -> "degraded"
    [] RequestsPerDay > 0 /\ svc.submits >= RequestsPerDay -> "skipped"
    [] OTHER -> None

(* registerLocked: a rung that goes on is in flight under its key.         *)
Run(r) ==
  /\ rung[r].pc = "idle" /\ ~svc.closed
  /\ IF Refused # None THEN Ends(r, Refused) /\ UNCHANGED inflight
     ELSE /\ inflight' = [inflight EXCEPT ![KeyOf[r]] = r] /\ UNCHANGED <<log, spent>>
          /\ \E fb \in Fallbacks :
               rung' = [rung EXCEPT ![r].pc = IF fb THEN "corpus" ELSE "discover", ![r].fb = fb]
  /\ UNCHANGED <<submitted, svc, subs, answers, hist>>

(* The driver's Discover: an accepted answer is in the lab's cache.        *)
Found(k) == k \in answers

(* D1, and D2 when there is something to narrow by.                        *)
Discover(r) ==
  /\ rung[r].pc = "discover"
  /\ \/ Found(KeyOf[r]) /\ Ends(r, "returned") /\ UNCHANGED svc
     \/ /\ ~Found(KeyOf[r]) /\ rung' = [rung EXCEPT ![r].pc = "corpus"]
        /\ UNCHANGED <<svc, log, spent>>
     \/ FailRun(r)
  /\ UNCHANGED <<inflight, submitted, subs, answers, hist>>

NoHit(r) ==
  \/ (rung[r].fb \/ ~svc.full) /\ Ends(r, "skipped")
  \/ ~rung[r].fb /\ svc.full /\ svc.fence /\ Ends(r, "degraded")
  \/ /\ ~rung[r].fb /\ svc.full /\ ~svc.fence /\ UNCHANGED <<log, spent>>
     /\ rung' = [rung EXCEPT ![r].pc = "adopt"]

(* The files of the corpus hold an accepted answer of the class, or not.   *)
Grep == {TRUE, FALSE}

(* The corpus; then the capability, the fuse, and what was submitted.      *)
Corpus(r) ==
  /\ rung[r].pc = "corpus"
  /\ \E hit \in Grep : (hit /\ Ends(r, "returned")) \/ (~hit /\ NoHit(r))
  /\ UNCHANGED <<inflight, submitted, svc, subs, answers, hist>>

(* startPoller, startDuplicateRecheck: nothing starts in a closed service. *)
Looping(g, loop) == IF svc.closed THEN g ELSE [g EXCEPT !.loop = loop, !.polls = 0, !.cancelled = FALSE]

(* A submission remembered for the key is polled again; otherwise submit.  *)
Adopt(r) ==
  /\ rung[r].pc = "adopt"
  /\ IF submitted[KeyOf[r]] # 0
     THEN /\ rung' = [rung EXCEPT ![r] = Looping([@ EXCEPT !.pc = "done", !.sid = submitted[KeyOf[r]]], "wait")]
          /\ Record(r, rung'[r]) /\ UNCHANGED hist
     ELSE /\ rung' = [rung EXCEPT ![r].pc = "submit"]
          /\ hist' = IF \E q \in Runs \ {r} : KeyOf[q] = KeyOf[r] /\ rung[q].pc = "submit"
                     THEN [hist EXCEPT !.raced[KeyOf[r]] = @ + 1] ELSE hist
          /\ UNCHANGED <<log, spent>>
  /\ UNCHANGED <<inflight, submitted, svc, subs, answers>>

(* The lab has a submission of the key that is not over.                   *)
LabOpen(k) == {n \in DOMAIN subs : subs[n].key = k /\ subs[n].stage = "queued"}

Remember(k, n) == [submitted EXCEPT ![k] = n]

(* 201, or 409 with an id, is adopted; a 409 without one is rechecked.     *)
Accepted(r, n) ==
  /\ submitted' = Remember(KeyOf[r], n) /\ inflight' = [inflight EXCEPT ![KeyOf[r]] = r]
  /\ svc' = [svc EXCEPT !.submits = @ + 1]
  /\ rung' = [rung EXCEPT ![r] = Looping([@ EXCEPT !.pc = "done", !.sid = n], "wait")]
  /\ Record(r, rung'[r])

Duplicate(r) ==
  /\ svc' = [svc EXCEPT !.submits = @ + 1] /\ UNCHANGED <<submitted, inflight>>
  /\ rung' = [rung EXCEPT ![r] = Looping([@ EXCEPT !.pc = "done"], "recheck")]
  /\ Record(r, rung'[r])
  /\ hist' = [hist EXCEPT !.blind[KeyOf[r]] = @ + 1]

(* submitStage: an answer may be lost after the lab took the submission;   *)
(* a refused cadence is tried again with the next one.                     *)
Submit(r) ==
  LET k == KeyOf[r]
      taken == IF LabOpen(k) = {} THEN Append(subs, [key |-> k, stage |-> "queued"]) ELSE subs
  IN
  /\ rung[r].pc = "submit"
  /\ \/ LabOpen(k) = {} /\ subs' = taken /\ Accepted(r, Len(taken)) /\ UNCHANGED hist
     \/ \E n \in LabOpen(k) : Accepted(r, n) /\ UNCHANGED <<subs, hist>>
     \/ LabOpen(k) # {} /\ Duplicate(r) /\ UNCHANGED subs
     \/ /\ rung[r].tries + 1 < Cadences /\ rung' = [rung EXCEPT ![r].tries = @ + 1]
        /\ UNCHANGED <<inflight, submitted, svc, subs, log, hist, spent>>
     \/ /\ FailRun(r) /\ subs' \in {subs, taken} /\ UNCHANGED <<inflight, submitted>>
        /\ hist' = [hist EXCEPT !.blind[k] = @ + 1]
  /\ UNCHANGED answers

(* ------------------------------ its loops ------------------------------- *)

(* settle: mark, record, seal.                                             *)
Settled(r, state) ==
  LET g == [Mark(rung[r], state) EXCEPT !.loop = None] IN
  rung' = [rung EXCEPT ![r] = g] /\ Record(r, g)

(* pollState.exhausted.                                                    *)
Exhausted(r) == rung[r].polls >= MaxPolls

(* The top of a loop: out of budget, cancelled, or another request.        *)
LoopTop(r) ==
  /\ rung[r].loop \in {"wait", "recheck"}
  /\ \/ Exhausted(r) /\ Settled(r, "degraded") /\ inflight' = Release(r)
     \/ /\ ~Exhausted(r) /\ (rung[r].cancelled \/ svc.closed) /\ UNCHANGED inflight
        /\ IF rung[r].fin THEN rung' = [rung EXCEPT ![r].loop = None] /\ UNCHANGED <<log, spent>>
           ELSE Settled(r, "degraded")
     \/ /\ ~Exhausted(r) /\ ~rung[r].cancelled /\ ~svc.closed /\ UNCHANGED <<log, inflight, spent>>
        /\ rung' = [rung EXCEPT ![r].loop = IF @ = "wait" THEN "poll" ELSE "probe"]
  /\ UNCHANGED <<submitted, svc, subs, answers, hist>>

Waits(r) ==
  /\ rung' = [rung EXCEPT ![r].loop = IF @ = "poll" THEN "wait" ELSE "recheck", ![r].polls = @ + 1]
  /\ UNCHANGED <<log, inflight, spent>>

(* queue_not_found: the failure is recorded as the rung stands, the class  *)
(* asked once more, and the rung settled if that found nothing.            *)
NotFound(r) ==
  LET g == [Mark(rung[r], IF Found(KeyOf[r]) THEN "returned" ELSE "degraded") EXCEPT !.loop = None]
      seen == IF rung[r].state \in Terminal THEN 1 ELSE 0 IN
  rung' = [rung EXCEPT ![r] = g] /\ log' = [log EXCEPT ![r] = @ + seen + 1]

(* The driver's Poll: the stage, or the status, of a submission.           *)
Stage(n) == subs[n].stage

(* One poll: what the lab says of the submission, or a failing call, as    *)
(* that of a cancelled context is.                                         *)
PollAnswer(r) ==
  LET stage == Stage(rung[r].sid) IN
  /\ rung[r].loop = "poll"
  /\ \/ stage = "queued" /\ Waits(r)
     \/ stage = "solved" /\ Settled(r, "returned") /\ inflight' = Release(r)
     \/ stage = "unverified" /\ Settled(r, "skipped") /\ inflight' = Release(r)
     \/ stage = "failed" /\ Settled(r, "degraded") /\ inflight' = Release(r)
     \/ stage = "gone" /\ NotFound(r) /\ inflight' = Release(r) /\ UNCHANGED spent
     \/ /\ rung[r].cancelled \/ spent.faults < MaxFaults
        /\ spent' = [spent EXCEPT !.faults = IF rung[r].cancelled THEN @ ELSE @ + 1]
        /\ LET g == [Mark(rung[r], "degraded") EXCEPT !.loop = None] IN
           rung' = [rung EXCEPT ![r] = g] /\ log' = Logged(r, g)
        /\ inflight' = Release(r)
  /\ UNCHANGED <<submitted, svc, subs, answers, hist>>

(* One recheck of the class: only an answer ends it.                       *)
ProbeAnswer(r) ==
  /\ rung[r].loop = "probe"
  /\ \/ Found(KeyOf[r]) /\ Settled(r, "returned") /\ inflight' = Release(r)
     \/ Waits(r)
  /\ UNCHANGED <<submitted, svc, subs, answers, hist>>

(* ------------------------- the service as a whole ----------------------- *)

(* Park: cancel and look, then mark and record what it saw unfinished.     *)
Park(r) ==
  /\ rung[r].pc = "done" /\ ~rung[r].parked
  /\ IF ~rung[r].parking
     THEN rung' = [rung EXCEPT ![r].cancelled = TRUE, ![r].parking = ~rung[r].fin, ![r].parked = rung[r].fin]
          /\ UNCHANGED <<log, spent>>
     ELSE /\ rung' = [rung EXCEPT ![r] = [Mark(@, "skipped") EXCEPT !.parking = FALSE, !.parked = TRUE]]
          /\ Record(r, rung'[r])
  /\ UNCHANGED <<inflight, submitted, svc, subs, answers, hist>>

(* SetKillSwitch.                                                          *)
SetKillSwitch ==
  /\ spent.crashes < MaxCrashes /\ spent' = [spent EXCEPT !.crashes = @ + 1]
  /\ svc' = [svc EXCEPT !.killed = ~@]
  /\ UNCHANGED <<rung, inflight, submitted, subs, answers, log, hist>>

(* Close cancels every loop and refuses further runs.                      *)
Close ==
  /\ ~svc.closed /\ svc' = [svc EXCEPT !.closed = TRUE]
  /\ rung' = [r \in Runs |-> IF rung[r].loop # None THEN [rung[r] EXCEPT !.cancelled = TRUE] ELSE rung[r]]
  /\ UNCHANGED <<inflight, submitted, subs, answers, log, hist, spent>>

(* The process starts again.  Nothing comes back: the composition root     *)
(* does not call Replay.                                                   *)
Restart ==
  /\ spent.crashes < MaxCrashes /\ spent' = [spent EXCEPT !.crashes = @ + 1]
  /\ rung' = [r \in Runs |-> IF rung[r].pc = "idle" THEN rung[r]
                             ELSE [NewRung EXCEPT !.pc = "gone", !.state = rung[r].state, !.sid = rung[r].sid,
                                                  !.fin = rung[r].fin, !.parked = TRUE]]
  /\ inflight' = [k \in Keys |-> None] /\ submitted' = [k \in Keys |-> 0] /\ svc' = [NewService EXCEPT !.full = svc.full]
  /\ hist' = [hist EXCEPT !.blind = [k \in Keys |-> hist.blind[k] + 1]]
  /\ UNCHANGED <<subs, answers, log>>

(* Resume: a rung that was requested is polled again, or rechecked.        *)
Resume(r) ==
  /\ rung[r].pc = "gone" /\ rung[r].state = "requested" /\ ~svc.closed
  /\ rung' = [rung EXCEPT ![r].pc = "done",
                          ![r].loop = IF rung[r].sid # 0 THEN "wait" ELSE "recheck",
                          ![r].polls = 0, ![r].cancelled = FALSE]
  /\ UNCHANGED <<inflight, submitted, svc, subs, answers, log, hist, spent>>

CooldownEnds ==
  /\ svc.cooling /\ svc' = [svc EXCEPT !.cooling = FALSE]
  /\ UNCHANGED <<rung, inflight, submitted, subs, answers, log, hist, spent>>

(* The lab solves, gives up on, or forgets a submission.                   *)
LabWorks ==
  /\ \E n \in DOMAIN subs, stage \in {"solved", "unverified", "failed", "gone"} :
       /\ subs[n].stage = "queued" /\ subs' = [subs EXCEPT ![n].stage = stage]
       /\ answers' = IF stage = "solved" THEN answers \cup {subs[n].key} ELSE answers
  /\ UNCHANGED <<rung, inflight, submitted, svc, log, hist, spent>>

(* The steps of a Run under way, and of its loop.                          *)
RunStep(r) == Discover(r) \/ Corpus(r) \/ Adopt(r) \/ Submit(r)
LoopStep(r) == LoopTop(r) \/ PollAnswer(r) \/ ProbeAnswer(r)
-----------------------------------------------------------------------------
(* A run has one terminal record, unless it was parked: the loop then may  *)
(* write its own outcome before or after the parking's.                    *)
OneTerminalRecord == \A r \in Runs : rung[r].parked \/ rung[r].parking \/ log[r] <= 1

(* SPEC-07 3.10: the lab is asked once per key, except that runs between   *)
(* their look at `submitted' and their answer do not see each other, and   *)
(* that a lost answer, an id the lab keeps to itself and a restart leave   *)
(* nothing to remember.                                                    *)
SubmitsPriced ==
  \A k \in Keys : Len(SelectSeq(subs, LAMBDA s : s.key = k)) <= 1 + hist.raced[k] + hist.blind[k]

(* Every run that was let in comes to an outcome, whatever the lab does.   *)
Settles == \A r \in Runs : rung[r].pc \in {"idle", "gone"} \/ rung[r].fin \/ svc.closed

(* SPEC-07 4.2: "One research worker goroutine per incident, capped at     *)
(* max_inflight": what counts against the cap is at work.                  *)
InflightIsWorking ==
  \A k \in Inflight : LET g == rung[inflight[k]] IN g.pc \notin {"idle", "done", "gone"} \/ g.loop # None
=============================================================================
