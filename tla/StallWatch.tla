----------------------------- MODULE StallWatch -----------------------------
(* The watchdog of internal/lifecycle: the daemon's heartbeat loop, which   *)
(* writes heartbeat.json and an idle_tick record on a quiet ledger, and the *)
(* stall checker, a process of its own run by a timer, which reads the      *)
(* health surface or the heartbeat file, compares the ledger's watermark    *)
(* with the one of its previous run and escalates after ConfirmRuns         *)
(* breaches.  Time is a clock of ticks; nothing due is left behind by it.   *)
EXTENDS Naturals

CONSTANTS
  BeatInterval, IdleInterval, \* lifecycle.heartbeat_interval, .idle_heartbeat_interval
  MaxSeqAge,                  \* stall.max_seq_age
  Interval, ConfirmRuns,      \* checker.interval, checker.confirm_runs
  MaxTime, MaxRecords, MaxFaults

VARIABLES
  now,
  log,    \* the ledger: its last seq and the time of it, whether that is known, its writer
  dmn,    \* the daemon: up, its heartbeat loop, its dashboard, the next beat
  beat,   \* heartbeat.json: none or [seq, last]
  chk,    \* the checker's state file and its schedule
  out,    \* what the checker has said: its last exit, and an escalation
  made,   \* how many records other than idle ticks
  since,  \* when the ledger or what shows it last changed
  faults

vars == <<now, log, dmn, beat, chk, out, made, since, faults>>

NoBeat == [seq |-> 0, last |-> 0, there |-> FALSE]

(* LastRecordTS: the time of the newest record it knows, else the present. *)
Stamp(l) == IF l.known THEN l.last ELSE now
BeatOf(l) == [seq |-> l.seq, last |-> Stamp(l), there |-> TRUE]

Init ==
  /\ now = 0
  /\ \E k \in BOOLEAN : log = [seq |-> 1, last |-> 0, known |-> k, writer |-> "ok"]
  /\ dmn = [up |-> TRUE, loop |-> TRUE, dash |-> TRUE, next |-> BeatInterval]
  /\ beat = BeatOf(log)
  /\ chk = [seq |-> 0, breach |-> 0, next |-> Interval, readable |-> TRUE]
  /\ out = [exit |-> 0, escalated |-> FALSE]
  /\ made = 0 /\ since = 0 /\ faults = 0

BeatDue == dmn.up /\ dmn.loop /\ now = dmn.next
CheckDue == now = chk.next
Tick ==
  /\ ~BeatDue /\ ~CheckDue /\ now < MaxTime
  /\ now' = now + 1
  /\ UNCHANGED <<log, dmn, beat, chk, out, made, since, faults>>

(* Any record of the daemon: at most one a tick matters.                   *)
AppendRecord ==
  /\ dmn.up /\ log.writer = "ok" /\ log.last < now /\ made < MaxRecords
  /\ log' = [log EXCEPT !.seq = @ + 1, !.last = now, !.known = TRUE] /\ since' = now
  /\ made' = made + 1
  /\ UNCHANGED <<now, dmn, beat, chk, out, faults>>
-----------------------------------------------------------------------------
Quiet == now - Stamp(log) >= IdleInterval
Beat ==
  /\ BeatDue
  /\ \/ /\ Quiet /\ log.writer = "hung"
        /\ dmn' = [dmn EXCEPT !.loop = FALSE]
        /\ UNCHANGED <<log, beat, since>>
     \/ /\ ~(Quiet /\ log.writer = "hung")
        /\ log' = IF Quiet /\ log.writer = "ok" THEN [log EXCEPT !.seq = @ + 1, !.last = now] ELSE log
        /\ since' = IF log' # log THEN now ELSE since
        /\ beat' = BeatOf(log')
        /\ dmn' = [dmn EXCEPT !.next = now + BeatInterval]
  /\ UNCHANGED <<now, chk, out, made, faults>>

(* fetchHealth, and the heartbeat file when it fails.                      *)
Healthy == dmn.up /\ dmn.dash
Seen == IF Healthy THEN [seq |-> log.seq, last |-> Stamp(log)] ELSE [seq |-> beat.seq, last |-> beat.last]

(* A run that had to fall back exits 8, whether the heartbeat is stale or  *)
(* only the surface is gone.                                               *)
Exit8 == IF Healthy THEN 0 ELSE 8

(* A breach: the watermark is old and is the one of the previous run.      *)
Breached == now - Seen.last > MaxSeqAge /\ Seen.seq = chk.seq
Confirmed_Late(n) == n > ConfirmRuns
Confirmed(n) == n >= ConfirmRuns
Cleared_Not(n) == n
Cleared(n) == 0

Fault == faults < MaxFaults /\ faults' = faults + 1 /\ since' = now

(* stallCheck: an unreadable state file, or neither surface readable, ends *)
(* the run with its state as it was; a breach is counted, saved, alarmed   *)
(* and from ConfirmRuns on escalated; anything else clears the count.  A   *)
(* save or an alarm line that fails ends the run before it escalates, and  *)
(* an escalation that fails is only told in the verdict.                   *)
StallCheck ==
  LET readable == chk.readable /\ (Healthy \/ beat.there)
      ran == [chk EXCEPT !.next = now + Interval]
      counted == [ran EXCEPT !.breach = @ + 1]
      clear == [ran EXCEPT !.seq = Seen.seq, !.breach = Cleared(@)]
      Ends(c, o) == chk' = c /\ out' = o
  IN
  /\ CheckDue
  /\ \/ ~readable /\ Ends(ran, [out EXCEPT !.exit = 8]) /\ UNCHANGED <<since, faults>>
     \/ /\ readable /\ Breached
        /\ \/ /\ Ends(counted, [exit |-> 9, escalated |-> out.escalated \/ Confirmed(chk.breach + 1)])
              /\ UNCHANGED <<since, faults>>
           \/ Fault /\ \E c \in {ran, counted} : Ends(c, [out EXCEPT !.exit = 9])
     \/ /\ readable /\ ~Breached
        /\ \/ Ends(clear, [out EXCEPT !.exit = Exit8]) /\ UNCHANGED <<since, faults>>
           \/ Fault /\ Ends(ran, [out EXCEPT !.exit = IF Healthy THEN 13 ELSE 8])
  /\ UNCHANGED <<now, log, dmn, beat, made>>
-----------------------------------------------------------------------------
(* The writer refuses every append from here on, or never returns.         *)
WriterStops ==
  /\ log.writer = "ok" /\ Fault /\ \E w \in {"refuses", "hung"} : log' = [log EXCEPT !.writer = w]
  /\ UNCHANGED <<now, made, dmn, beat, chk, out>>

(* A failed heartbeat write ends the loop; nothing starts it again.        *)
BeatFails ==
  /\ dmn.up /\ dmn.loop /\ Fault /\ dmn' = [dmn EXCEPT !.loop = FALSE]
  /\ UNCHANGED <<now, made, log, beat, chk, out>>

DashboardFlips ==
  /\ dmn.up /\ Fault /\ dmn' = [dmn EXCEPT !.dash = ~@]
  /\ UNCHANGED <<now, made, log, beat, chk, out>>

(* The daemon is killed, or stops after a last heartbeat of stage shutdown,*)
(* which the checker reads like any other.                                 *)
Dies ==
  /\ dmn.up /\ Fault /\ dmn' = [dmn EXCEPT !.up = FALSE]
  /\ beat' \in {beat, BeatOf(log)}
  /\ UNCHANGED <<now, made, log, chk, out>>

(* The heartbeat is gone, or the checker's state is unreadable or gone.    *)
FilesLost ==
  /\ Fault
  /\ \/ beat.there /\ beat' = NoBeat /\ UNCHANGED chk
     \/ chk.readable /\ chk' = [chk EXCEPT !.readable = FALSE] /\ UNCHANGED beat
     \/ chk.readable /\ chk' = [chk EXCEPT !.seq = 0, !.breach = 0] /\ chk' # chk /\ UNCHANGED beat
  /\ UNCHANGED <<now, made, log, dmn, out>>

Next ==
  \/ Tick \/ AppendRecord \/ Beat \/ StallCheck
  \/ WriterStops \/ BeatFails \/ DashboardFlips \/ Dies \/ FilesLost
-----------------------------------------------------------------------------
(* A daemon with nothing wrong is never counted as stalled, however quiet  *)
(* the host: the idle tick keeps the watermark younger than max_seq_age.   *)
QuietHostIsHealthy == faults = 0 => out.exit = 0 /\ chk.breach = 0

(* The bound DetectionBound states: a ledger that stopped is escalated, or *)
(* the checker exits non-zero for want of anything to read, within         *)
(* max_seq_age and ConfirmRuns checks of the last thing that went wrong,   *)
(* the checker's own saves, alarms and escalations included.  A ledger of  *)
(* which no record is known reads as one that has just written.            *)
DetectionBound == MaxSeqAge + ConfirmRuns * Interval
DetectedInBound ==
  now > since + DetectionBound /\ log.known => out.escalated \/ out.exit = 8

(* An escalation is of a ledger older than max_seq_age by the whole of the *)
(* confirmation, as far as the surfaces the checker can read show it.      *)
EscalatesLate ==
  ~out.escalated /\ out'.escalated => now - Seen.last > MaxSeqAge + (ConfirmRuns - 1) * Interval
EscalatesOnStall == [][EscalatesLate]_vars
=============================================================================
