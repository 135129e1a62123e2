--------------------------- MODULE MCLedgerWriter ---------------------------
(* Instances of LedgerWriter for TLC. *)
EXTENDS LedgerWriter

\* A call in Batches carries two records, any other call one.
MCGroupSize == [c \in Calls |-> IF c \in Batches THEN 2 ELSE 1]

\* A fault and a crash with five lines on disk, or two crashes, or a degraded
\* index, with four; where Rotate is called, a fault and no crash.
Budget ==
  /\ faults + crashes <= 2 /\ (faults + crashes = 2 => Len(file) <= 5)
  /\ crashes = 2 \/ idx.ever => Len(file) <= 4
  /\ (\E r \in Rotators : rot[r] # "idle") => crashes = 0

\* Every step of the writer is a step of the durable log (DurableLog), from
\* files where a torn tail shows as one, under boots with a whole index.  (The
\* log is a function of the three variables: a step that leaves them alone
\* stutters.)
CoreImplementsDurableLog ==
  Promise!Init /\ [][UNCHANGED <<file, synced, off>> \/ BareTail \/ BareTail' \/ idx'.ever \/ Promise!Step]_vars
=============================================================================
