----------------------------- MODULE DurableLog -----------------------------
(***************************************************************************)
(* What the ledger promises its producers, without queues, batches, files  *)
(* or recovery: one log of numbered records that only grows at its end, a  *)
(* prefix of it that no crash can touch, and callers who are told of a     *)
(* record only once it lies in that prefix.                                *)
(***************************************************************************)
EXTENDS Naturals, Sequences

VARIABLES
  log,      \* the records a reader sees, oldest first: [seq, rec]
  durable,  \* length of the prefix that survives anything
  told      \* the records whose producers were told they are durable

Init == log = <<>> /\ durable = 0 /\ told = {}

Safe(l, n) == {l[i].rec : i \in 1..n}

\* New records appear at the end, numbered above everything before them.
Grow ==
  /\ Len(log') > Len(log) /\ SubSeq(log', 1, Len(log)) = log
  /\ \A i, j \in 1..Len(log') : (i < j /\ j > Len(log)) => log'[i].seq < log'[j].seq
  /\ UNCHANGED <<durable, told>>

Settle == durable' \in (durable + 1)..Len(log) /\ UNCHANGED <<log, told>>

Tell ==
  /\ told \subseteq told' /\ told' \subseteq Safe(log, durable)
  /\ UNCHANGED <<log, durable>>

\* A crash drops records from the end, never a durable one.
Lose ==
  /\ Len(log') \in durable..Len(log) /\ log' = SubSeq(log, 1, Len(log'))
  /\ durable' \in durable..Len(log')
  /\ UNCHANGED told

Next == Grow \/ Settle \/ Tell \/ Lose

Step == Next \/ UNCHANGED <<log, durable, told>>

Spec == Init /\ [][Next]_<<log, durable, told>>
=============================================================================
