--------------------------- MODULE AutonomyGates ---------------------------
(***************************************************************************)
(* The autonomy gates: the ladder's copy of them (ladder/gates.go), the    *)
(* dashboard's POST /api/autonomy that changes them (dashboard/routes.go), *)
(* and the two ledger records a change leaves: SetAutonomy's, appended     *)
(* before the change (lifecycle/autonomy.go), and SetGates's own, appended *)
(* after the ladder's lock is released.  Handlers run in parallel; a       *)
(* handler computes the new gates from the ones it read first, and each    *)
(* append may fail.                                                        *)
(***************************************************************************)
EXTENDS Naturals, Sequences, FiniteSets, SequenceTheorems, TLAPS

CONSTANTS
  Posts,        \* handlers of POST /api/autonomy
  Bodies,       \* bodies they carry, [mode, kill, grants]; "" leaves a field
  AllowFull,    \* dashboard.allow_full
  AllowResume,  \* dashboard.allow_resume
  Configured,   \* the gates ladder.New starts with
  MaxPosts,     \* bound on the posts
  MaxFails,     \* bound on failing appends
  MaxBoots      \* bound on restarts

VARIABLES
  gate,     \* Ladder.gate, [mode, kill, grants]
  post,     \* the handlers
  ledger,   \* config records, [kind, gates]
  armed,    \* a post that set the kill switch was applied, and none allowed to clear it since
  clash,    \* a post changed the gates while another stood between its read and its change
  count     \* [posts, fails, boots]

vars == <<gate, post, ledger, armed, clash, count>>

Idle == [at |-> "idle", body |-> [mode |-> "", kill |-> "", grants |-> ""], cur |-> Configured,
         next |-> Configured, prev |-> Configured]

(* A mutant: a field the body leaves out is cleared.                       *)
Over_Zero(cur, b) == [mode |-> b.mode, kill |-> b.kill = "on", grants |-> b.grants]

(* The body's fields over the gates just read. *)
Over(cur, b) ==
  [mode |-> IF b.mode = "" THEN cur.mode ELSE b.mode,
   kill |-> IF b.kill = "" THEN cur.kill ELSE b.kill = "on",
   grants |-> IF b.grants = "" THEN cur.grants ELSE b.grants]

(* The body's refusals: 403 full_disabled, 403 resume_disabled. *)
Refused(cur, b) ==
  \/ b.mode = "full" /\ ~AllowFull
  \/ b.kill = "off" /\ cur.kill /\ ~AllowResume

(* actionAutonomy reads the gates and makes the new ones. *)
Read(p, b) ==
  /\ post[p].at = "idle"
  /\ count.posts < MaxPosts
  /\ count' = [count EXCEPT !.posts = @ + 1]
  /\ post' = IF Refused(gate, b) THEN post
             ELSE [post EXCEPT ![p] = [Idle EXCEPT !.at = "record", !.body = b, !.cur = gate, !.next = Over(gate, b)]]
  /\ UNCHANGED <<gate, ledger, armed, clash>>

(* lifecycle.SetAutonomy: the change is on record before it is made. *)
Record(p, ok) ==
  /\ post[p].at = "record"
  /\ ok \/ count.fails < MaxFails
  /\ ledger' = IF ok THEN Append(ledger, [kind |-> "autonomy", gates |-> post[p].next]) ELSE ledger
  /\ post' = [post EXCEPT ![p].at = IF ok THEN "apply" ELSE "idle"]
  /\ count' = [count EXCEPT !.fails = IF ok THEN @ ELSE @ + 1]
  /\ UNCHANGED <<gate, armed, clash>>

(* Ladder.SetGates, under the ladder's lock. *)
Apply(p) ==
  /\ post[p].at = "apply"
  /\ gate' = post[p].next
  /\ armed' = (post[p].body.kill = "on" \/ (armed /\ post[p].body.kill # "off"))
  /\ clash' = (clash \/ \E q \in Posts \ {p} : post[q].at \in {"record", "apply"})
  /\ post' = [post EXCEPT ![p].at = "note", ![p].prev = gate]
  /\ UNCHANGED <<ledger, count>>

(* SetGates's own record.  A failed append leaves the gates changed and answers an error. *)
Note(p, ok) ==
  /\ post[p].at = "note"
  /\ ok \/ count.fails < MaxFails
  /\ ledger' = IF ok THEN Append(ledger, [kind |-> "gates", gates |-> post[p].next]) ELSE ledger
  /\ post' = [post EXCEPT ![p] = Idle]
  /\ count' = [count EXCEPT !.fails = IF ok THEN @ ELSE @ + 1]
  /\ UNCHANGED <<gate, armed, clash>>

(* Ladder.New: the gates of the configuration; no record is read back. *)
Restart ==
  /\ count.boots < MaxBoots
  /\ count' = [count EXCEPT !.boots = @ + 1]
  /\ gate' = Configured
  /\ post' = [p \in Posts |-> Idle]
  /\ UNCHANGED <<ledger, armed, clash>>

Init ==
  /\ gate = Configured
  /\ post = [p \in Posts |-> Idle]
  /\ ledger = <<>>
  /\ armed = FALSE /\ clash = FALSE
  /\ count = [posts |-> 0, fails |-> 0, boots |-> 0]

Next ==
  \/ \E p \in Posts, b \in Bodies : Read(p, b)
  \/ \E p \in Posts, ok \in BOOLEAN : Record(p, ok) \/ Note(p, ok)
  \/ \E p \in Posts : Apply(p)
  \/ Restart

Spec == Init /\ [][Next]_vars

-----------------------------------------------------------------------------
(***************************************************************************)
(* GateRecorded: the gates in force are the configuration's or those of a  *)
(* config record, whichever append failed and whoever restarted            *)
(* (SetAutonomy before SetGates).                                          *)
(***************************************************************************)
GateRecorded == gate = Configured \/ \E i \in DOMAIN ledger : ledger[i].gates = gate

(***************************************************************************)
(* KillHolds: once set, the kill switch stays set until a post that may    *)
(* clear it does, as long as no two posts overlapped and the daemon did    *)
(* not restart (actionAutonomy).                                           *)
(***************************************************************************)
KillHolds == (armed /\ ~clash /\ count.boots = 0) => gate.kill

(***************************************************************************)
(* KillSurvives: the same over a restart.                                  *)
(***************************************************************************)
KillSurvives == (armed /\ ~clash) => gate.kill

(***************************************************************************)
(* LedgerAgrees: with no post under way and no failed append, the last     *)
(* autonomy record of the ledger is the gates in force, unless posts       *)
(* overlapped or the daemon restarted.  The last gates record need not be: *)
(* SetGates appends it after it released the lock.                         *)
(***************************************************************************)
Last(kind) == {i \in DOMAIN ledger : ledger[i].kind = kind /\ \A j \in (i + 1)..Len(ledger) : ledger[j].kind # kind}
LedgerAgrees ==
  ((\A p \in Posts : post[p].at = "idle") /\ ~clash /\ count.fails = 0 /\ count.boots = 0)
    => \A i \in Last("autonomy") : ledger[i].gates = gate

-----------------------------------------------------------------------------
(* Proofs *)

\* What a body may say of the kill switch: on, off or nothing.
Sane == \A b \in Bodies : b.kill \in {"", "on", "off"}

Changing(q) == post[q].at \in {"record", "apply"}
Alone(p) == \A q \in Posts \ {p} : ~Changing(q)
OnRecord(g) == g = Configured \/ \E i \in DOMAIN ledger : ledger[i].gates = g

Fields == {"at", "body", "cur", "next", "prev"}

\* The shapes of the handlers and the counters, and a ledger that is a sequence.
Shapes ==
  /\ post = [p \in Posts |-> post[p]]
  /\ \A p \in Posts : DOMAIN post[p] = Fields /\ post[p].at \in {"idle", "record", "apply", "note"}
  /\ DOMAIN count = {"posts", "fails", "boots"}
  /\ count.fails \in Nat /\ count.boots \in Nat
  /\ \E S : ledger \in Seq(S)

\* Gates are on record before they are in force.
Backed == OnRecord(gate) /\ \A p \in Posts : post[p].at = "apply" => OnRecord(post[p].next)

\* While no two posts overlapped, a post changes the gates it read.
Fresh ==
  \A p \in Posts : Changing(p) =>
    post[p].body \in Bodies /\ (~clash => post[p].next = Over(gate, post[p].body))

\* The last autonomy record is of the gates in force, or of those about to be.
Agrees ==
  ~clash /\ count.fails = 0 /\ count.boots = 0 =>
    /\ (\A p \in Posts : post[p].at # "apply") => \A i \in Last("autonomy") : ledger[i].gates = gate
    /\ \A p \in Posts : post[p].at = "apply" /\ Alone(p) =>
         \A i \in Last("autonomy") : ledger[i].gates = post[p].next

GInv == Shapes /\ Backed /\ Fresh /\ KillHolds /\ Agrees

\* A record at the end of the ledger, and what is last of its kind then.
LEMMA Appended ==
  ASSUME NEW S, NEW s \in Seq(S), NEW r
  PROVE  /\ \E T : Append(s, r) \in Seq(T)
         /\ Len(s) \in Nat /\ DOMAIN s = 1..Len(s)
         /\ Len(Append(s, r)) = Len(s) + 1 /\ DOMAIN Append(s, r) = 1..(Len(s) + 1)
         /\ \A i \in 1..Len(s) : Append(s, r)[i] = s[i]
         /\ Append(s, r)[Len(s) + 1] = r
<1>1. s \in Seq(S \cup {r}) /\ r \in S \cup {r}
  OBVIOUS
<1>2. Append(s, r) \in Seq(S \cup {r})
  BY <1>1, AppendProperties
<1>3. /\ Len(Append(s, r)) = Len(s) + 1
      /\ \A i \in 1..Len(s) : Append(s, r)[i] = s[i]
      /\ Append(s, r)[Len(s) + 1] = r
  BY <1>1, AppendProperties
<1>4. DOMAIN Append(s, r) = 1..Len(Append(s, r)) /\ Len(s) \in Nat /\ DOMAIN s = 1..Len(s)
  BY <1>2, LenProperties
<1> QED
  BY <1>2, <1>3, <1>4

\* What a handler becomes.
LEMMA Becomes ==
  ASSUME Shapes, NEW p \in Posts, NEW v, post' = [post EXCEPT ![p] = v]
  PROVE  post'[p] = v /\ (\A q \in Posts \ {p} : post'[q] = post[q]) /\ post' = [q \in Posts |-> post'[q]]
BY DEF Shapes

\* The kill switch of the gates a body makes.
LEMMA OverKill == \A c, b : Over(c, b).kill = IF b.kill = "" THEN c.kill ELSE b.kill = "on"
BY Zenon DEF Over

\* It starts in the invariant.
LEMMA InitGInv == Init => GInv
<1> SUFFICES ASSUME Init PROVE GInv
  OBVIOUS
<1>1. Shapes
  <2>1. ledger \in Seq({})
    BY DEF Init
  <2> QED
    BY <2>1 DEF Init, Shapes, Idle, Fields
<1>2. \A p \in Posts : post[p].at = "idle"
  BY DEF Init, Idle
<1>3. DOMAIN ledger = {}
  BY DEF Init
<1> QED
  BY <1>1, <1>2, <1>3 DEF Init, GInv, Backed, OnRecord, Fresh, Changing, KillHolds, Agrees, Last

\* actionAutonomy's read.
LEMMA ReadStep ==
  ASSUME GInv, NEW p \in Posts, NEW b \in Bodies, Read(p, b)
  PROVE  GInv'
<1> USE DEF GInv
<1>0. /\ gate' = gate /\ ledger' = ledger /\ armed' = armed /\ clash' = clash
      /\ count'.fails = count.fails /\ count'.boots = count.boots
      /\ DOMAIN count' = DOMAIN count
  BY DEF Read, Shapes
<1>1. CASE post' = post
  BY <1>0, <1>1 DEF Shapes, Backed, OnRecord, Fresh, Changing, KillHolds, Agrees, Alone, Last
<1>2. CASE post' # post
  <2> DEFINE v == [Idle EXCEPT !.at = "record", !.body = b, !.cur = gate, !.next = Over(gate, b)]
  <2>1. post' = [post EXCEPT ![p] = v] /\ post[p].at = "idle"
    BY <1>2 DEF Read
  <2>2. /\ v.at = "record" /\ v.body = b /\ v.next = Over(gate, b)
        /\ DOMAIN v = Fields
    BY DEF Idle, Fields
  <2> HIDE DEF v
  <2>3. post'[p] = v /\ (\A q \in Posts \ {p} : post'[q] = post[q]) /\ post' = [q \in Posts |-> post'[q]]
    BY <2>1, Becomes
  <2>4. Shapes'
    BY <1>0, <2>2, <2>3 DEF Shapes
  <2>5. Backed' /\ KillHolds'
    BY <1>0, <2>2, <2>3 DEF Backed, OnRecord, KillHolds
  <2>6. Fresh'
    BY <1>0, <2>2, <2>3 DEF Fresh, Changing
  <2>7. Agrees'
    <3>1. Last("autonomy")' = Last("autonomy")
      BY <1>0 DEF Last
    <3>2. \A q \in Posts : post'[q].at = "apply" => q # p /\ post[q].at = "apply" /\ post'[q] = post[q]
      BY <2>2, <2>3
    <3>3. \A q \in Posts : post'[q].at = "apply" => ~Alone(q)'
      BY <2>2, <2>3, <3>2 DEF Alone, Changing
    <3>4. (\A q \in Posts : post'[q].at # "apply") => \A q \in Posts : post[q].at # "apply"
      BY <2>1, <2>3
    <3> QED
      BY <1>0, <3>1, <3>3, <3>4 DEF Agrees
  <2> QED
    BY <2>4, <2>5, <2>6, <2>7
<1> QED
  BY <1>1, <1>2

\* SetAutonomy's record, or its failure.
LEMMA RecordStep ==
  ASSUME GInv, NEW p \in Posts, NEW ok \in BOOLEAN, Record(p, ok)
  PROVE  GInv'
<1> USE DEF GInv
<1> DEFINE a == IF ok THEN "apply" ELSE "idle"
           v == [post[p] EXCEPT !.at = a]
           r == [kind |-> "autonomy", gates |-> post[p].next]
<1>0. /\ gate' = gate /\ armed' = armed /\ clash' = clash /\ post[p].at = "record"
      /\ count'.boots = count.boots /\ count'.fails = (IF ok THEN count.fails ELSE count.fails + 1)
      /\ DOMAIN count' = DOMAIN count
      /\ post' = [post EXCEPT ![p] = v]
  BY DEF Record, Shapes
<1>1. /\ v.at = a /\ v.body = post[p].body /\ v.next = post[p].next
      /\ DOMAIN v = Fields
  BY DEF Shapes, Fields
<1> HIDE DEF v
<1>2. post'[p] = v /\ (\A q \in Posts \ {p} : post'[q] = post[q]) /\ post' = [q \in Posts |-> post'[q]]
  BY <1>0, Becomes
<1>3. PICK S : ledger \in Seq(S)
  BY DEF Shapes
<1>4. ledger' = IF ok THEN Append(ledger, r) ELSE ledger
  BY DEF Record
<1>5. r.gates = post[p].next /\ r.kind = "autonomy"
  OBVIOUS
<1> HIDE DEF r
<1>6. /\ \E T : ledger' \in Seq(T)
      /\ \A g : OnRecord(g) => g = Configured \/ \E i \in DOMAIN ledger' : ledger'[i].gates = g
  <2>1. CASE ok
    <3>1. ledger' = Append(ledger, r)
      BY <1>4, <2>1
    <3>0. \E T : ledger' \in Seq(T)
      BY <1>3, <3>1, Appended, Zenon
    <3>2. /\ DOMAIN ledger = 1..Len(ledger)
          /\ DOMAIN ledger' = 1..(Len(ledger) + 1) /\ Len(ledger) \in Nat
          /\ \A i \in 1..Len(ledger) : ledger'[i] = ledger[i]
      BY <1>3, <3>1, Appended
    <3> QED
      BY <3>0, <3>2 DEF OnRecord
  <2>2. CASE ~ok
    BY <1>3, <1>4, <2>2 DEF OnRecord
  <2> QED
    BY <2>1, <2>2
<1>7. Shapes'
  BY <1>0, <1>1, <1>2, <1>6 DEF Shapes
<1>8. Fresh' /\ KillHolds'
  BY <1>0, <1>1, <1>2 DEF Fresh, Changing, KillHolds
<1>9. CASE ok
  <2>1. /\ Len(ledger) \in Nat /\ DOMAIN ledger = 1..Len(ledger) /\ Len(ledger') = Len(ledger) + 1
        /\ DOMAIN ledger' = 1..(Len(ledger) + 1)
        /\ \A i \in 1..Len(ledger) : ledger'[i] = ledger[i]
        /\ ledger'[Len(ledger) + 1] = r
    BY <1>3, <1>4, <1>9, Appended
  <2>2. Backed'
    <3>1. \E i \in DOMAIN ledger' : ledger'[i].gates = post[p].next
      BY <2>1, <1>5
    <3> QED
      BY <1>0, <1>1, <1>2, <1>6, <3>1 DEF Backed, OnRecord
  <2>3. \A i \in Last("autonomy")' : i = Len(ledger) + 1
    BY <2>1, <1>5 DEF Last
  <2>4. Agrees'
    <3>1. post'[p].at = "apply"
      BY <1>1, <1>2, <1>9
    <3>2. \A q \in Posts \ {p} : ~Alone(q)'
      BY <3>1 DEF Alone, Changing
    <3>3. \A i \in Last("autonomy")' : ledger'[i].gates = post'[p].next
      BY <2>1, <2>3, <1>1, <1>2, <1>5
    <3> QED
      BY <3>1, <3>2, <3>3 DEF Agrees
  <2> QED
    BY <1>7, <1>8, <2>2, <2>4
<1>10. CASE ~ok
  <2>1. Backed'
    BY <1>0, <1>1, <1>2, <1>4, <1>10 DEF Backed, OnRecord
  <2>2. Agrees'
    BY <1>0, <1>10 DEF Agrees, Shapes
  <2> QED
    BY <1>7, <1>8, <2>1, <2>2
<1> QED
  BY <1>9, <1>10

\* SetGates's change.
LEMMA ApplyStep ==
  ASSUME Sane, GInv, NEW p \in Posts, Apply(p)
  PROVE  GInv'
<1> USE DEF GInv
<1> DEFINE v == [post[p] EXCEPT !.at = "note", !.prev = gate]
           k == post[p].body.kill
<1>0. /\ post[p].at = "apply" /\ gate' = post[p].next /\ ledger' = ledger /\ count' = count
      /\ armed' = (k = "on" \/ (armed /\ k # "off"))
      /\ clash' = (clash \/ \E q \in Posts \ {p} : Changing(q))
      /\ post' = [post EXCEPT ![p] = v]
  BY DEF Apply, Changing, Shapes
<1>1. /\ v.at = "note"
      /\ DOMAIN v = Fields
  BY DEF Shapes, Fields
<1> HIDE DEF v
<1>2. post'[p] = v /\ (\A q \in Posts \ {p} : post'[q] = post[q]) /\ post' = [q \in Posts |-> post'[q]]
  BY <1>0, Becomes
<1>3. Shapes'
  BY <1>0, <1>1, <1>2 DEF Shapes
<1>4. Backed'
  BY <1>0, <1>1, <1>2 DEF Backed, OnRecord
<1>5. ~clash' => ~clash /\ Alone(p)
  BY <1>0 DEF Alone
<1>6. ~clash' => \A q \in Posts : ~Changing(q)'
  BY <1>1, <1>2, <1>5 DEF Alone, Changing
<1>7. Fresh'
  <2>1. \A q \in Posts : Changing(q)' => q # p /\ Changing(q) /\ post'[q] = post[q]
    BY <1>1, <1>2 DEF Changing
  <2> QED
    BY <1>6, <2>1 DEF Fresh
<1>8. KillHolds'
  <2> SUFFICES ASSUME armed', ~clash', count.boots = 0 PROVE post[p].next.kill
    BY <1>0 DEF KillHolds
  <2>1. post[p].body \in Bodies /\ post[p].next = Over(gate, post[p].body)
    BY <1>0, <1>5 DEF Fresh, Changing
  <2>2. k \in {"", "on", "off"} /\ (k = "on" \/ (armed /\ k # "off"))
    BY <1>0, <2>1 DEF Sane
  <2>3. post[p].next.kill = IF k = "" THEN gate.kill ELSE k = "on"
    <3>1. Over(gate, post[p].body).kill = IF k = "" THEN gate.kill ELSE k = "on"
      BY OverKill, Zenon
    <3> QED
      BY <2>1, <3>1, Zenon
  <2>4. k = "" => armed /\ gate.kill
    BY <2>2, <1>5 DEF KillHolds
  <2> QED
    BY <2>2, <2>3, <2>4
<1>9. Agrees'
  <2> SUFFICES ASSUME ~clash', count.fails = 0, count.boots = 0
               PROVE  \A i \in Last("autonomy")' : ledger'[i].gates = gate'
    BY <1>0, <1>6 DEF Agrees, Changing
  <2>1. Last("autonomy")' = Last("autonomy")
    BY <1>0 DEF Last
  <2> QED
    BY <1>0, <1>5, <2>1 DEF Agrees
<1> QED
  BY <1>3, <1>4, <1>7, <1>8, <1>9

\* SetGates's own record, or its failure.
LEMMA NoteStep ==
  ASSUME GInv, NEW p \in Posts, NEW ok \in BOOLEAN, Note(p, ok)
  PROVE  GInv'
<1> USE DEF GInv
<1> DEFINE r == [kind |-> "gates", gates |-> post[p].next]
<1>0. /\ gate' = gate /\ armed' = armed /\ clash' = clash /\ post[p].at = "note"
      /\ count'.boots = count.boots /\ count'.fails = (IF ok THEN count.fails ELSE count.fails + 1)
      /\ DOMAIN count' = DOMAIN count
      /\ post' = [post EXCEPT ![p] = Idle]
  BY DEF Note, Shapes
<1>1. /\ Idle.at = "idle"
      /\ DOMAIN Idle = Fields
  BY DEF Idle, Fields
<1>2. post'[p] = Idle /\ (\A q \in Posts \ {p} : post'[q] = post[q]) /\ post' = [q \in Posts |-> post'[q]]
  BY <1>0, Becomes
<1>3. PICK S : ledger \in Seq(S)
  BY DEF Shapes
<1>4. ledger' = IF ok THEN Append(ledger, r) ELSE ledger
  BY DEF Note
<1>5. r.kind # "autonomy"
  OBVIOUS
<1> HIDE DEF r
<1>6. /\ \E T : ledger' \in Seq(T)
      /\ \A g : OnRecord(g) => g = Configured \/ \E i \in DOMAIN ledger' : ledger'[i].gates = g
      /\ \A i \in Last("autonomy")' : i \in Last("autonomy") /\ ledger'[i] = ledger[i]
  <2>1. CASE ok
    <3>1. ledger' = Append(ledger, r)
      BY <1>4, <2>1
    <3>0. \E T : ledger' \in Seq(T)
      BY <1>3, <3>1, Appended, Zenon
    <3>2. /\ Len(ledger) \in Nat /\ DOMAIN ledger = 1..Len(ledger) /\ Len(ledger') = Len(ledger) + 1
          /\ DOMAIN ledger' = 1..(Len(ledger) + 1)
          /\ \A i \in 1..Len(ledger) : ledger'[i] = ledger[i]
          /\ ledger'[Len(ledger) + 1] = r
      BY <1>3, <3>1, Appended
    <3>3. \A i \in Last("autonomy")' : i \in Last("autonomy") /\ ledger'[i] = ledger[i]
      BY <1>5, <3>2 DEF Last
    <3>4. \A g : OnRecord(g) => g = Configured \/ \E i \in DOMAIN ledger' : ledger'[i].gates = g
      BY <3>2 DEF OnRecord
    <3> QED
      BY <3>0, <3>3, <3>4
  <2>2. CASE ~ok
    BY <1>3, <1>4, <2>2 DEF OnRecord, Last
  <2> QED
    BY <2>1, <2>2
<1>7. Shapes'
  BY <1>0, <1>1, <1>2, <1>6 DEF Shapes
<1>8a. Backed'
  BY <1>0, <1>1, <1>2, <1>6 DEF Backed, OnRecord
<1>8. Fresh' /\ KillHolds'
  BY <1>0, <1>1, <1>2 DEF Fresh, Changing, KillHolds
<1>9. Agrees'
  <2>1. \A q \in Posts : post'[q].at = "apply" /\ Alone(q)' => post[q].at = "apply" /\ Alone(q) /\ post'[q] = post[q]
    BY <1>0, <1>1, <1>2 DEF Alone, Changing
  <2>2. (\A q \in Posts : post'[q].at # "apply") => \A q \in Posts : post[q].at # "apply"
    BY <1>0, <1>1, <1>2
  <2>3. count'.fails = 0 => count.fails = 0
    BY <1>0 DEF Shapes
  <2> QED
    BY <1>0, <1>6, <2>1, <2>2, <2>3 DEF Agrees
<1> QED
  BY <1>7, <1>8a, <1>8, <1>9

\* A restart.
LEMMA RestartStep ==
  ASSUME GInv, Restart
  PROVE  GInv'
<1> USE DEF GInv
<1>0. /\ gate' = Configured /\ ledger' = ledger
      /\ count'.boots = count.boots + 1 /\ count'.fails = count.fails
      /\ DOMAIN count' = DOMAIN count
      /\ post' = [p \in Posts |-> Idle]
  BY DEF Restart, Shapes
<1>1. /\ Idle.at = "idle"
      /\ DOMAIN Idle = Fields
  BY DEF Idle, Fields
<1>2. count'.boots \in Nat /\ count'.boots # 0
  BY <1>0 DEF Shapes
<1>3. Shapes'
  BY <1>0, <1>1, <1>2 DEF Shapes
<1>4. Backed' /\ Fresh' /\ KillHolds' /\ Agrees'
  BY <1>0, <1>1, <1>2 DEF Backed, OnRecord, Fresh, Changing, KillHolds, Agrees
<1> QED
  BY <1>3, <1>4

\* Every step keeps the invariant.
LEMMA StepGInv ==
  ASSUME Sane, GInv, [Next]_vars
  PROVE  GInv'
<1>1. CASE UNCHANGED vars
  BY <1>1 DEF vars, GInv, Shapes, Backed, OnRecord, Fresh, Changing, KillHolds, Agrees, Alone, Last
<1>2. CASE Next
  BY <1>2, ReadStep, RecordStep, ApplyStep, NoteStep, RestartStep DEF Next
<1> QED
  BY <1>1, <1>2

(***************************************************************************)
(* GatesStayTrue: for every number of handlers, bodies, failing appends    *)
(* and restarts, the gates in force are the configuration's or on record   *)
(* (GateRecorded); while no two posts overlapped and nothing restarted, a  *)
(* kill switch that was set stays set until a post clears it (KillHolds),  *)
(* and with no append failed the last autonomy record is of the gates in   *)
(* force (LedgerAgrees): actionAutonomy, SetAutonomy, SetGates.            *)
(***************************************************************************)
THEOREM GatesStayTrue == Sane => (Spec => [](GateRecorded /\ KillHolds /\ LedgerAgrees))
<1> SUFFICES ASSUME Sane PROVE Spec => [](GateRecorded /\ KillHolds /\ LedgerAgrees)
  OBVIOUS
<1>1. GInv => GateRecorded /\ KillHolds /\ LedgerAgrees
  BY DEF GInv, GateRecorded, Backed, OnRecord, LedgerAgrees, Agrees
<1> QED
  BY <1>1, InitGInv, StepGInv, PTL DEF Spec
=============================================================================
