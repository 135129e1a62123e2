---------------------------- MODULE JournalFollow ----------------------------
(* One follower of the journald sensor: the journalctl child, the reader     *)
(* that parses its lines and queues the entries, and the handler that drains *)
(* the bounded queue into records.  The queue has no lock.  The cursor moves *)
(* when an entry is read, and is saved by whoever saves next.  An entry is   *)
(* its position in the journal, which stands for its cursor and its time.    *)
EXTENDS Naturals, Sequences, SequencesExt, FiniteSetsExt

CONSTANTS
  QueueCap,    \* sensors.journald.queue
  RingSize,    \* journalCursorRing
  SaveEvery,   \* journalSaveEveryN
  Overlap,     \* whether a push and a pop of the queue may overlap
  MaxEntries, MaxDeaths, MaxVacuums, MaxRefusals, MaxStops

VARIABLES
  journal,  \* how many entries were written, and the first one retained
  child,    \* journalctl: up, and the last entry it has delivered
  fol,      \* journalFollower: cursor, lastTS, ring, unsaved, overflowing
  q,        \* journalQueue
  rd, hd,   \* what the reader and the handler are at
  disk,     \* the cursor file
  life,     \* up, stopping, down
  gap,      \* whether a gap is recorded since the child was last up; the open overflow gap
  out,      \* how often each entry was handled; what became of the rest; rescans wider than the ring
  spent     \* deaths, vacuums, refusals, stops

vars == <<journal, child, fol, q, rd, hd, disk, life, gap, out, spent>>

Entries == 1..MaxEntries
Idle == [at |-> "idle", e |-> 0, snap |-> <<>>]
NewFollower(cursor) == [cursor |-> cursor, last |-> cursor, ring |-> <<>>, unsaved |-> 0, over |-> FALSE]
Down == [up |-> FALSE, pos |-> 0]

Init ==
  /\ journal = [n |-> 0, first |-> 1] /\ child = Down
  /\ fol = NewFollower(0) /\ q = <<>> /\ rd = Idle /\ hd = Idle
  /\ disk = 0 /\ life = "up"
  /\ gap = [noted |-> FALSE, overflow |-> FALSE]
  /\ out = [handled |-> [e \in Entries |-> 0], dropped |-> {}, reported |-> {}, noted |-> {}, late |-> {}, silent |-> {}, wide |-> 0]
  /\ spent = [deaths |-> 0, vacuums |-> 0, refusals |-> 0, stops |-> 0]
-----------------------------------------------------------------------------
(* The journal, which others write and vacuum.                               *)
Write ==
  /\ journal.n < MaxEntries
  /\ journal' = [journal EXCEPT !.n = @ + 1]
  /\ UNCHANGED <<child, fol, q, rd, hd, disk, life, gap, out, spent>>
Vacuum ==
  /\ journal.first <= journal.n /\ spent.vacuums < MaxVacuums
  /\ journal' = [journal EXCEPT !.first = @ + 1]
  /\ spent' = [spent EXCEPT !.vacuums = @ + 1]
  /\ UNCHANGED <<child, fol, q, rd, hd, disk, life, gap, out>>

(* followOnce.  A cursor that does not seek, because its entry is vacuumed   *)
(* or its file rotated away, is given up for --since, one second before the  *)
(* last entry read.  The time is formatted in UTC and names no zone, and     *)
(* journalctl takes it for local time: east of Greenwich the rescan begins   *)
(* hours before the last entry, west of it in the future, past entries that  *)
(* are yet to be written, and a second may hold any number of entries.  So   *)
(* it begins anywhere.  A follower that has no cursor starts at the tail,    *)
(* and owes nothing of what was there before it.                             *)
Gone == fol.cursor # 0 /\ fol.cursor < journal.first
SincePos == {Max({p, journal.first - 1}) : p \in 0..MaxEntries}
Position(bad) == IF bad THEN SincePos ELSE {IF fol.cursor = 0 THEN journal.n ELSE fol.cursor}
Unread(pos) == {e \in Entries : e <= pos /\ e > fol.last}
PastRing(pos) == \E e \in Entries : e > pos /\ e <= fol.last /\ e >= journal.first /\ e \notin ToSet(fol.ring)
Noted(bad) == gap.noted \/ bad
Follow(bad) ==
  \E pos \in Position(bad) :
    LET now == {e \in Unread(pos) : e <= journal.n} IN
    /\ life = "up" /\ ~child.up /\ rd = Idle
    /\ bad => fol.cursor # 0
    /\ bad = Gone \/ spent.vacuums < MaxVacuums
    /\ Gone => bad
    /\ spent' = IF bad = Gone THEN spent ELSE [spent EXCEPT !.vacuums = @ + 1]
    /\ child' = [up |-> TRUE, pos |-> pos]
    /\ fol' = IF bad THEN [fol EXCEPT !.cursor = 0] ELSE fol
    /\ out' = [out EXCEPT !.noted  = IF Noted(bad) \/ fol.last = 0 THEN @ \union now ELSE @,
                          !.silent = IF Noted(bad) \/ fol.last = 0 THEN @ ELSE @ \union now,
                          !.late   = @ \union (Unread(pos) \ now),
                          !.wide   = IF bad /\ PastRing(pos) THEN @ + 1 ELSE @]
    /\ gap' = [gap EXCEPT !.noted = FALSE]
    /\ UNCHANGED <<journal, q, rd, hd, disk, life>>

(* runJournalReader after followOnce: a gap, a forced save, and the backoff. *)
ChildDies ==
  /\ life = "up" /\ child.up /\ rd = Idle /\ spent.deaths < MaxDeaths
  /\ spent' = [spent EXCEPT !.deaths = @ + 1]
  /\ child' = Down
  /\ gap' = [gap EXCEPT !.noted = TRUE]
  /\ disk' = IF fol.cursor = 0 THEN disk ELSE fol.cursor
  /\ fol' = IF fol.cursor = 0 THEN fol ELSE [fol EXCEPT !.unsaved = 0]
  /\ UNCHANGED <<journal, q, rd, hd, life, out>>
-----------------------------------------------------------------------------
(* consumeJournal and parseJournalEntry: a cursor in the ring is a repeat;   *)
(* otherwise the cursor moves before the entry is queued.                   *)
Arriving == Max({child.pos + 1, journal.first})
Delivers == life = "up" /\ child.up /\ rd = Idle /\ Arriving <= journal.n
Repeat == Arriving \in ToSet(fol.ring)
RingOf(ring) == Append(IF Len(ring) >= RingSize THEN Tail(ring) ELSE ring, Arriving)
Reading == [fol EXCEPT !.cursor = Arriving, !.last = Arriving, !.ring = RingOf(@), !.unsaved = @ + 1]
(* Entries vacuumed before the child reached them are no one's loss.         *)
Vacuumed == {e \in Entries : e > child.pos /\ e < journal.first}

SkipRepeat ==
  /\ Delivers /\ Repeat
  /\ child' = [child EXCEPT !.pos = Arriving]
  /\ UNCHANGED <<journal, fol, q, rd, hd, disk, life, gap, out, spent>>
Read ==
  /\ Delivers /\ ~Repeat
  /\ child' = [child EXCEPT !.pos = Arriving]
  /\ fol' = Reading
  /\ rd' = [at |-> "read", e |-> Arriving, snap |-> <<>>]
  /\ out' = [out EXCEPT !.noted = @ \union Vacuumed]
  /\ UNCHANGED <<journal, q, hd, disk, life, gap, spent>>
(* The scrubber refuses the message: the entry is skipped, its cursor stays. *)
ReadRefused ==
  /\ Delivers /\ ~Repeat /\ spent.refusals < MaxRefusals
  /\ spent' = [spent EXCEPT !.refusals = @ + 1]
  /\ child' = [child EXCEPT !.pos = Arriving]
  /\ fol' = Reading
  /\ out' = [out EXCEPT !.silent = @ \union {Arriving}]
  /\ UNCHANGED <<journal, q, rd, hd, disk, life, gap>>

(* journalQueue.push reads the slice and writes it back, with nothing held   *)
(* between the two; so does pop.                                            *)
PushReads ==
  /\ rd.at = "read" /\ (Overlap \/ hd.at # "pop")
  /\ rd' = [rd EXCEPT !.at = "push", !.snap = q]
  /\ UNCHANGED <<journal, child, fol, q, hd, disk, life, gap, out, spent>>
Full == Len(rd.snap) >= QueueCap
Lost == IF Full THEN {Head(rd.snap)} ELSE {}
Counted(lost) == out.dropped \union lost
PushWrites ==
  /\ rd.at = "push"
  /\ q' = Append(IF Full THEN Tail(rd.snap) ELSE rd.snap, rd.e)
  /\ out' = [out EXCEPT !.dropped = Counted(Lost)]
  /\ rd' = IF Full THEN [rd EXCEPT !.at = "over", !.snap = <<>>] ELSE Idle
  /\ UNCHANGED <<journal, child, fol, hd, disk, life, gap, spent>>
(* queueJournal: the first drop opens the episode; a gap still open stays.   *)
Overflow ==
  /\ rd.at = "over"
  /\ rd' = Idle
  /\ fol' = [fol EXCEPT !.over = TRUE]
  /\ gap' = IF fol.over THEN gap ELSE [gap EXCEPT !.overflow = TRUE]
  /\ UNCHANGED <<journal, child, q, hd, disk, life, out, spent>>
-----------------------------------------------------------------------------
(* runJournalHandler drains the queue, then looks whether the episode is     *)
(* over, then waits.                                                        *)
PopReads ==
  /\ hd.at = "idle" /\ q # <<>> /\ life # "down" /\ (Overlap \/ rd.at # "push")
  /\ hd' = [at |-> "pop", e |-> Head(q), snap |-> q]
  /\ UNCHANGED <<journal, child, fol, q, rd, disk, life, gap, out, spent>>
PopWrites ==
  /\ hd.at = "pop"
  /\ q' = Tail(hd.snap)
  /\ hd' = [hd EXCEPT !.at = "handle", !.snap = <<>>]
  /\ UNCHANGED <<journal, child, fol, rd, disk, life, gap, out, spent>>

(* drainJournal: the cursor saved, every SaveEvery entries or when it is     *)
(* due, is the reader's, which may be past the entry in hand.               *)
Handle(due) ==
  /\ hd.at = "handle"
  /\ due \/ fol.unsaved < SaveEvery
  /\ IF due /\ fol.cursor # 0
     THEN disk' = fol.cursor /\ fol' = [fol EXCEPT !.unsaved = 0]
     ELSE UNCHANGED <<disk, fol>>
  /\ out' = [out EXCEPT !.handled[hd.e] = @ + 1]
  /\ hd' = [Idle EXCEPT !.at = IF q = <<>> THEN "check" ELSE "idle"]
  /\ UNCHANGED <<journal, child, q, rd, life, gap, spent>>
EpisodeEnds ==
  /\ hd.at = "check"
  /\ hd' = [Idle EXCEPT !.at = IF fol.over /\ Len(q) < QueueCap THEN "close" ELSE "idle"]
  /\ fol' = IF hd'.at = "close" THEN [fol EXCEPT !.over = FALSE] ELSE fol
  /\ UNCHANGED <<journal, child, q, rd, disk, life, gap, out, spent>>
GapCloses ==
  /\ hd.at = "close"
  /\ hd' = Idle
  /\ gap' = [gap EXCEPT !.overflow = FALSE]
  /\ out' = IF gap.overflow THEN [out EXCEPT !.reported = out.dropped] ELSE out
  /\ UNCHANGED <<journal, child, fol, q, rd, disk, life, spent>>
-----------------------------------------------------------------------------
(* Stop: stopJournald saves the cursor, the reader leaves, the handler       *)
(* leaves at its next wait; and a crash.                                    *)
Stop ==
  /\ life = "up" /\ spent.stops < MaxStops
  /\ spent' = [spent EXCEPT !.stops = @ + 1]
  /\ life' = "stopping"
  /\ disk' = IF fol.cursor = 0 THEN disk ELSE fol.cursor
  /\ UNCHANGED <<journal, child, fol, q, rd, hd, gap, out>>
Stopped ==
  /\ life = "stopping" /\ rd = Idle /\ hd.at = "idle"
  /\ life' = "down" /\ child' = Down
  /\ UNCHANGED <<journal, fol, q, rd, hd, disk, gap, out, spent>>
Crash ==
  /\ life # "down" /\ spent.stops < MaxStops
  /\ spent' = [spent EXCEPT !.stops = @ + 1]
  /\ life' = "down" /\ child' = Down
  /\ UNCHANGED <<journal, fol, q, rd, hd, disk, gap, out>>
(* startJournald: what was queued or in hand is gone.                        *)
Boot ==
  /\ life = "down"
  /\ life' = "up"
  /\ fol' = NewFollower(disk)
  /\ q' = <<>> /\ rd' = Idle /\ hd' = Idle
  /\ gap' = [noted |-> FALSE, overflow |-> FALSE]
  /\ out' = [out EXCEPT !.silent = @ \union {e \in Entries : e <= disk /\ out.handled[e] = 0
                /\ e \notin out.dropped \union out.noted}]
  /\ UNCHANGED <<journal, child, disk, spent>>

Reader == Follow(TRUE) \/ Follow(FALSE) \/ SkipRepeat \/ Read \/ PushReads \/ PushWrites \/ Overflow
Handler == PopReads \/ PopWrites \/ Handle(TRUE) \/ Handle(FALSE) \/ EpisodeEnds \/ GapCloses
Next ==
  \/ Write \/ Vacuum \/ ChildDies \/ ReadRefused
  \/ Reader \/ Handler
  \/ Stop \/ Stopped \/ Crash \/ Boot
(* The goroutines are scheduled, the child is restarted after its backoff.   *)
Fairness == WF_vars(Reader) /\ WF_vars(Handler) /\ WF_vars(Stopped) /\ WF_vars(Boot)
Spec == Init /\ [][Next]_vars /\ Fairness
-----------------------------------------------------------------------------
TypeOK ==
  /\ journal.n \in 0..MaxEntries /\ journal.first \in 1..MaxEntries + 1
  /\ q \in Seq(Entries) /\ Len(q) <= QueueCap /\ disk \in 0..MaxEntries

(* A rescan records an entry again only if it began before what the ring     *)
(* remembers, and then once (parseJournalEntry: dedupe by __CURSOR).         *)
AtMostOnce == \A e \in Entries : out.handled[e] <= 1 + out.wide

(* An entry that was read and is in nobody's hands is recorded, counted as   *)
(* dropped, or fell where a gap is recorded: drops are never silent          *)
(* (queueJournal, runJournalReader).  Only a --since in the future passes    *)
(* over entries that come after its gap.                                     *)
InHand == ToSet(q) \union (IF rd.at \in {"read", "push"} THEN {rd.e} ELSE {})
                   \union (IF hd.at \in {"pop", "handle"} THEN {hd.e} ELSE {})
Accounted == {e \in Entries : out.handled[e] > 0} \union out.dropped \union out.noted \union out.late
NeverSilent ==
  /\ out.silent = {}
  /\ \A e \in ToSet(fol.ring) : e \in InHand \union Accounted

(* Every dropped entry is in a gap record, once no episode is open.          *)
DropsReported == hd = Idle /\ rd = Idle /\ ~fol.over => out.dropped \subseteq out.reported

(* Every entry written while the follower runs is recorded or accounted for  *)
(* in the end, or a --since in the future passed over it, through deaths of  *)
(* the child and cursors that do not seek (followOnce, followSince).         *)
CaughtUp == child.up /\ \A e \in Entries : e > journal.n \/ e \in Accounted \/ e < journal.first
=============================================================================
