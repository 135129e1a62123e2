----------------------------- MODULE IssueDesk -----------------------------
(***************************************************************************)
(* The issue desk (internal/issues) of one signature at one driver: the    *)
(* ladder files or folds, reopens after a close and closes at resolution;  *)
(* the sweep closes what has stayed quiet; a failed call waits in the      *)
(* spool and replay loops run it again; probes suspend a failing driver;   *)
(* a restart rebuilds the anchor from the ledger.                          *)
(*                                                                         *)
(* A driver call is its HTTP requests, each of which may be answered, be   *)
(* refused, fail, or take effect and lose its answer; a search is answered *)
(* from an index that may lag.  Issue texts are their idempotency markers. *)
(* Waits, caps per hour and quiet periods elapse at any time.              *)
(***************************************************************************)
EXTENDS Naturals, Sequences, FiniteSets, SequencesExt

CONSTANTS
  Procs,        \* of "ladder", "closer", "sweep" and the replay loops "r1", "r2"
  Incs,         \* incidents of the signature
  MaxIssues,    \* bound: issues ever created
  MaxAttempts,  \* max_attempts of the driver
  MaxPerOp,     \* max_attempts_per_op of a spooled operation
  SpoolMax,     \* spool_max_entries
  MemMax,       \* the limit of a spool kept in memory
  Stores,       \* what a boot may find its spool to be: of "disk" and "memory"
  CapCreates,   \* per_sig_creates
  FailAfter,    \* fail_after_probes
  MaxCalls, MaxFaults, MaxCrashes   \* bounds; a lagging search is one of the faults

VARIABLES
  remote,   \* the driver's issues: [state, long, marks, page], see Marks
  memo,     \* markers the driver remembers having posted
  anchor,   \* the desk's anchor: [ext, state, reopens], ext 0 for none
  ledger,   \* the anchor that a rebuild from the ledger's records gives
  creates,  \* creations counted against the cap
  store,    \* where this process keeps its spool: "disk" or "memory"
  spool,    \* the entries of that store: [op, ext, key, tries, due]
  shelf,    \* entries on disk that a process with a spool in memory does not see
  list,     \* list[r]: the entries a replay loop listed and has not run
  job,      \* job[p]: the operation of p
  lock,     \* the holder of the signature's lock
  health,   \* [failed, bad]
  hist,     \* history: [done, owed, lost, forgot, blind, missed]
  calls, faults, crashes

vars == <<remote, memo, anchor, ledger, creates, store, spool, shelf, list, job, lock, health, hist, calls, faults, crashes>>

Loops == Procs \cap {"r1", "r2"}
NoAnchor == [ext |-> 0, state |-> "", reopens |-> 0]
Idle == [op |-> "none", ext |-> 0, inc |-> 0, key |-> <<>>, mark |-> <<>>, ph |-> "idle",
         try |-> 1, blind |-> FALSE, res |-> "", entry |-> <<>>, drops |-> {}]
(* remote[e].marks[m] counts the comments that carry marker m, page holds   *)
(* the markers a read-back of one page reaches, long says it is full.      *)
Marks(ext) == {<<k, ext>> : k \in {"adopt", "close", "shut", "note"}}
                \cup {<<k, ext, i>> : k \in {"fold", "reopen"}, i \in Incs}

Init ==
  /\ remote = <<>> /\ memo = {} /\ anchor = NoAnchor /\ ledger = NoAnchor /\ creates = 0
  /\ store \in Stores /\ spool = {} /\ shelf = {} /\ list = [r \in Loops |-> {}] /\ job = [p \in Procs |-> Idle] /\ lock = "free"
  /\ health = [failed |-> FALSE, bad |-> 0]
  /\ hist = [done |-> {}, owed |-> {}, lost |-> {}, forgot |-> {}, blind |-> <<>>, missed |-> 0]
  /\ calls = 0 /\ faults = 0 /\ crashes = 0

(* --------------------------- the driver's calls ------------------------- *)

First(op) == CASE op \in {"ensure", "supersede"} -> "search" [] OTHER -> "marks"

(* The call ends with a result the desk has yet to handle.                 *)
Answer(p, r, e) == job' = [job EXCEPT ![p].ph = "end", ![p].res = r, ![p].ext = e]

(* withRetry: a retryable failure starts the call over, or gives up at the *)
(* last attempt, at the deadline or at a long rate limit.                  *)
Retry(p) ==
  \/ /\ job[p].try < MaxAttempts
     /\ job' = [job EXCEPT ![p].try = @ + 1, ![p].ph = First(job[p].op)]
  \/ Answer(p, "retry", job[p].ext)

(* A request that the driver refuses for good, or that fails.              *)
Fails(p) ==
  /\ faults < MaxFaults /\ faults' = faults + 1
  /\ Retry(p) \/ Answer(p, "failed", job[p].ext)

Quiet == UNCHANGED <<anchor, ledger, creates, store, spool, shelf, list, lock, health, calls, crashes>>

(* searchBySig: an open issue is adopted with a comment, a closed one is   *)
(* handed back, and only an empty answer goes on to a create.  The index   *)
(* lags: an answer may leave an issue out, or show it as it was.           *)
Search(p) ==
  LET found == {e \in DOMAIN remote : remote[e].state # "gone"}
      Adopt(e) == job' = [job EXCEPT ![p].ext = e, ![p].mark = <<"adopt", e>>, ![p].ph = "marks"] /\ UNCHANGED hist
      HandBack(e) == Answer(p, "noop", e) /\ hist' = [hist EXCEPT !.done = @ \cup {job[p].key}]
  IN
  /\ job[p].ph = "search"
  /\ \/ /\ found = {} /\ job' = [job EXCEPT ![p].ph = "create"] /\ UNCHANGED <<faults, hist>>
     \/ /\ \E e \in found : IF remote[e].state = "open" THEN Adopt(e) ELSE HandBack(e)
        /\ UNCHANGED faults
     \/ /\ faults < MaxFaults /\ faults' = faults + 1
        /\ \/ /\ found # {} /\ job' = [job EXCEPT ![p].ph = "create"]
              /\ hist' = [hist EXCEPT !.missed = @ + 1]
           \/ \E e \in DOMAIN remote : Adopt(e) \/ HandBack(e)
     \/ Fails(p) /\ UNCHANGED hist
  /\ Quiet /\ UNCHANGED <<remote, memo>>

(* The create and its read-back; the answer of either may be lost.         *)
Create(p) ==
  /\ job[p].ph = "create"
  /\ \/ Fails(p) /\ UNCHANGED <<remote, hist>>
     \/ /\ Len(remote) < MaxIssues
        /\ remote' = Append(remote, [state |-> "open", long |-> FALSE, marks |-> [m \in Marks(Len(remote) + 1) |-> 0], page |-> {}])
        /\ hist' = [hist EXCEPT !.done = @ \cup {job[p].key}]
        /\ \/ Answer(p, "created", Len(remote) + 1) /\ UNCHANGED faults
           \/ faults < MaxFaults /\ faults' = faults + 1 /\ Retry(p)
  /\ Quiet /\ UNCHANGED memo

(* What follows a posted or already posted comment.                        *)
Effect(p) ==
  {k \in {job[p].key} : /\ job[p].op # "reopen"
                        /\ job[p].op = "close" => remote[job[p].ext].state # "open"}
Posted(p) ==
  IF job[p].op \in {"close", "reopen"}
  THEN IF job[p].op = "close" /\ remote[job[p].ext].state \in {"closed", "locked"}
       THEN Answer(p, "ok", job[p].ext)
       ELSE job' = [job EXCEPT ![p].ph = "patch"]
  ELSE Answer(p, IF job[p].op \in {"ensure", "supersede"} THEN "commented" ELSE "ok", job[p].ext)

(* The read-back of one page of the issue's comments; its failure is not   *)
(* an error, and a comment past the page is not seen.                      *)
ReadMarks(p) ==
  LET e == job[p].ext m == job[p].mark IN
  /\ job[p].ph = "marks"
  /\ \/ /\ m \in memo \cup remote[e].page
        /\ memo' = memo \cup {m} /\ Posted(p)
        /\ hist' = [hist EXCEPT !.done = @ \cup Effect(p)] /\ UNCHANGED faults
     \/ /\ m \notin memo \cup remote[e].page
        /\ job' = [job EXCEPT ![p].ph = "post", ![p].blind = remote[e].marks[m] > 0]
        /\ UNCHANGED <<memo, hist, faults>>
     \/ /\ m \notin memo /\ faults < MaxFaults /\ faults' = faults + 1
        /\ job' = [job EXCEPT ![p].ph = "post", ![p].blind = TRUE] /\ UNCHANGED <<memo, hist>>
  /\ Quiet /\ UNCHANGED remote

(* The comment itself.                                                     *)
Post(p) ==
  LET e == job[p].ext m == job[p].mark IN
  /\ job[p].ph = "post"
  /\ \/ remote[e].state = "gone" /\ Answer(p, "gone", e) /\ UNCHANGED <<remote, memo, hist, faults>>
     \/ Fails(p) /\ UNCHANGED <<remote, memo, hist>>
     \/ /\ remote[e].state # "gone"
        /\ remote' = [remote EXCEPT ![e].marks[m] = @ + 1,
                                    ![e].page = IF remote[e].long THEN @ ELSE @ \cup {m}]
        /\ hist' = [hist EXCEPT !.done = @ \cup Effect(p),
                                !.blind = IF job[p].blind THEN Append(@, m) ELSE @]
        /\ \/ memo' = memo \cup {m} /\ Posted(p) /\ UNCHANGED faults
           \/ faults < MaxFaults /\ faults' = faults + 1 /\ Retry(p) /\ UNCHANGED memo
  /\ Quiet

(* setState: the transition, refused by a locked issue, and its read-back. *)
Patch(p) ==
  LET e == job[p].ext to == IF job[p].op = "close" THEN "closed" ELSE "open" IN
  /\ job[p].ph = "patch"
  /\ \/ remote[e].state = "gone" /\ Answer(p, "gone", e) /\ UNCHANGED <<remote, faults>>
     \/ remote[e].state = "locked" /\ Answer(p, "refused", e) /\ UNCHANGED <<remote, faults>>
     \/ Fails(p) /\ UNCHANGED remote
     \/ /\ remote[e].state \in {"open", "closed"} /\ remote' = [remote EXCEPT ![e].state = to]
        /\ \/ Answer(p, "ok", e) /\ UNCHANGED faults
           \/ faults < MaxFaults /\ faults' = faults + 1 /\ Retry(p)
  /\ hist' = [hist EXCEPT !.done = IF remote'[e].state = to THEN @ \cup {job[p].key} ELSE @]
  /\ Quiet /\ UNCHANGED memo

Call(p) == Search(p) \/ Create(p) \/ ReadMarks(p) \/ Post(p) \/ Patch(p)

(* ----------------------------- operations ------------------------------- *)

Begin(p, op, ext, inc, mark, key) ==
  job' = [job EXCEPT ![p] = [Idle EXCEPT !.op = op, !.ext = ext, !.inc = inc,
                                         !.mark = mark, !.key = key, !.ph = First(op)]]

(* The creations of the window against the cap.                            *)
AllowCreate == creates < CapCreates

(* ensureAt: fold into an open anchor, reopen a closed one, else create    *)
(* inside the cap.  The lock is held to the end.                           *)
EnsureBySig(i) ==
  /\ "ladder" \in Procs /\ job["ladder"].ph = "idle" /\ lock = "free" /\ calls < MaxCalls
  /\ calls' = calls + 1
  /\ \/ anchor.ext # 0 /\ anchor.state # "closed"
        /\ Begin("ladder", "fold", anchor.ext, i, <<"fold", anchor.ext, i>>, <<"fold", anchor.ext, i>>)
     \/ anchor.ext # 0 /\ anchor.state = "closed"
        /\ Begin("ladder", "reopen", anchor.ext, i, <<"reopen", anchor.ext, i>>, <<"ensure", calls>>)
     \/ anchor.ext = 0 /\ AllowCreate
        /\ Begin("ladder", "ensure", 0, i, <<>>, <<"ensure", calls>>)
  /\ lock' = "ladder"
  /\ UNCHANGED <<remote, memo, anchor, ledger, creates, store, spool, shelf, list, health, hist, faults, crashes>>

(* Close and Comment as the ladder's outlet calls them, without the lock.  *)
Outlet(op) ==
  LET k == <<IF op = "close" THEN "shut" ELSE "note", anchor.ext>> IN
  /\ "closer" \in Procs /\ job["closer"].ph = "idle" /\ anchor.ext # 0 /\ calls < MaxCalls
  /\ op = "close" => anchor.state # "closed"
  /\ op = "note" => <<"note", anchor.ext>> \notin memo
  /\ calls' = calls + 1 /\ Begin("closer", op, anchor.ext, 0, k, k)
  /\ UNCHANGED <<remote, memo, anchor, ledger, creates, store, spool, shelf, list, lock, health, hist, faults, crashes>>

(* SweepQuietClose: an open anchor of a healthy driver whose gates hold;   *)
(* the lock is not taken.                                                  *)
SweepQuietClose ==
  /\ "sweep" \in Procs /\ job["sweep"].ph = "idle" /\ calls < MaxCalls /\ calls' = calls + 1
  /\ anchor.ext # 0 /\ anchor.state # "closed" /\ ~health.failed
  /\ Begin("sweep", "close", anchor.ext, 0, <<"close", anchor.ext>>, <<"close", anchor.ext>>)
  /\ UNCHANGED <<remote, memo, anchor, ledger, creates, store, spool, shelf, list, lock, health, hist, faults, crashes>>

(* ------------------------------- the spool ------------------------------ *)

(* spoolOp, Put and evictLocked: on disk, entries past their age or their  *)
(* attempts give way, else a full spool refuses the new one, as a spool in *)
(* memory does at its limit; a write may fail.  What is dropped here gets  *)
(* its records afterwards.                                                 *)
Evictable == IF store = "disk" THEN SUBSET spool ELSE {{}}
Fits(kept) == Cardinality(kept) < (IF store = "disk" THEN SpoolMax ELSE MemMax)
SpoolOp(p, op, ext) ==
  LET key == job[p].key
      Puts(kept, e, old) ==
        \/ /\ Fits(kept) /\ spool' = kept \cup {e} /\ UNCHANGED faults
           /\ job' = [job EXCEPT ![p].ph = "records", ![p].drops = old]
        \/ /\ IF Fits(kept) THEN store = "disk" /\ faults < MaxFaults /\ faults' = faults + 1 ELSE UNCHANGED faults
           /\ spool' = kept /\ job' = [job EXCEPT ![p].ph = "records", ![p].drops = old \cup {key}]
  IN
  /\ \E old \in Evictable :
       Puts(spool \ old, [op |-> op, ext |-> ext, key |-> key, tries |-> 0, due |-> FALSE], {x.key : x \in old})
  /\ hist' = [hist EXCEPT !.owed = @ \cup {key}]

Same(x, e) == x.key = e.key /\ x.op = e.op

(* ------------------- what the desk does with an answer ------------------ *)

Done(p) == job' = [job EXCEPT ![p] = Idle]
Unlock(p) == lock' = IF lock = p THEN "free" ELSE lock

(* The end of ensureAt.  Whatever the driver reported, the anchor is open; *)
(* the record keeps the reported state.  What can be retried is spooled    *)
(* before its own record.                                                  *)
EnsureEnds ==
  LET j == job["ladder"] r == j.res IN
  /\ "ladder" \in Procs /\ j.ph = "end" /\ j.op = "ensure"
  /\ \/ /\ r \in {"created", "commented", "noop"}
        /\ anchor' = [anchor EXCEPT !.ext = j.ext, !.state = "open"]
        /\ ledger' = [ledger EXCEPT !.ext = j.ext, !.state = IF r = "noop" THEN "closed" ELSE "open"]
        /\ creates' = creates + (IF r = "created" THEN 1 ELSE 0)
        /\ Done("ladder") /\ Unlock("ladder") /\ UNCHANGED <<spool, hist, faults>>
     \/ /\ r \notin {"created", "commented", "noop", "retry"}
        /\ ledger' = [ledger EXCEPT !.ext = 0]
        /\ Done("ladder") /\ Unlock("ladder") /\ UNCHANGED <<anchor, creates, spool, hist, faults>>
     \/ r = "retry" /\ SpoolOp("ladder", "ensure", 0) /\ UNCHANGED <<anchor, creates, ledger, lock>>
  /\ UNCHANGED <<remote, memo, store, shelf, list, health, calls, crashes>>

(* foldInto: a lost issue invalidates the anchor in memory only.           *)
FoldEnds ==
  LET j == job["ladder"] r == j.res IN
  /\ "ladder" \in Procs /\ j.ph = "end" /\ j.op = "fold"
  /\ anchor' = CASE r = "ok" -> [anchor EXCEPT !.ext = j.ext, !.state = "open"]
                 [] r = "gone" -> [anchor EXCEPT !.ext = 0, !.state = ""]
                 [] OTHER -> anchor
  /\ IF r = "retry" THEN SpoolOp("ladder", "comment", j.ext) /\ UNCHANGED lock
                    ELSE Done("ladder") /\ Unlock("ladder") /\ UNCHANGED <<spool, hist, faults>>
  /\ UNCHANGED <<remote, memo, ledger, creates, store, shelf, list, health, calls, crashes>>

(* reopen: refused, it goes on to a superseding issue under the same lock; *)
(* its record counts as a reopening whatever came of it.                   *)
ReopenEnds ==
  LET j == job["ladder"] r == j.res IN
  /\ "ladder" \in Procs /\ j.ph = "end" /\ j.op = "reopen"
  /\ ledger' = [ledger EXCEPT !.state = "open", !.reopens = @ + 1]
  /\ IF r = "refused"
     THEN job' = [job EXCEPT !["ladder"] = [j EXCEPT !.op = "supersede", !.ph = "search", !.try = 1]]
          /\ UNCHANGED <<anchor, lock>>
     ELSE /\ anchor' = IF r = "ok" THEN [ext |-> j.ext, state |-> "open", reopens |-> anchor.reopens + 1] ELSE anchor
          /\ Done("ladder") /\ Unlock("ladder")
  /\ UNCHANGED <<remote, memo, creates, store, spool, shelf, hist, list, health, calls, faults, crashes>>

(* supersede: what the driver hands back, found or created, is the anchor. *)
SupersedeEnds ==
  LET j == job["ladder"] r == j.res ok == r \in {"created", "commented", "noop"} IN
  /\ "ladder" \in Procs /\ j.ph = "end" /\ j.op = "supersede"
  /\ anchor' = IF ok THEN [ext |-> j.ext, state |-> "open", reopens |-> anchor.reopens + 1] ELSE anchor
  /\ ledger' = IF ok THEN [ledger EXCEPT !.state = "open", !.reopens = @ + 1] ELSE ledger
  /\ IF r = "retry" THEN SpoolOp("ladder", "ensure", 0) /\ UNCHANGED lock
                    ELSE Done("ladder") /\ Unlock("ladder") /\ UNCHANGED <<spool, hist, faults>>
  /\ UNCHANGED <<remote, memo, creates, store, shelf, list, health, calls, crashes>>

(* Close and Comment of the outlet: an error goes back to the caller; the  *)
(* records name no project and a rebuild does not apply them.              *)
OutletEnds ==
  LET j == job["closer"] IN
  /\ "closer" \in Procs /\ j.ph = "end"
  /\ anchor' = IF j.res # "ok" \/ anchor = NoAnchor THEN anchor
               ELSE [anchor EXCEPT !.ext = j.ext,
                       !.state = IF j.op = "close" \/ remote[j.ext].state # "open" THEN "closed" ELSE "open"]
  /\ Done("closer")
  /\ UNCHANGED <<remote, memo, ledger, creates, store, spool, shelf, hist, list, lock, health, calls, faults, crashes>>

(* closeQuiet: a rebuild takes its record for a close even if it failed.   *)
SweepEnds ==
  LET j == job["sweep"] IN
  /\ "sweep" \in Procs /\ j.ph = "end"
  /\ anchor' = IF j.res = "ok" THEN [anchor EXCEPT !.ext = j.ext, !.state = "closed"] ELSE anchor
  /\ IF j.res = "retry"
     THEN SpoolOp("sweep", "close", j.ext) /\ UNCHANGED ledger
     ELSE Done("sweep") /\ ledger' = [ledger EXCEPT !.state = "closed"] /\ UNCHANGED <<spool, hist, faults>>
  /\ UNCHANGED <<remote, memo, creates, store, shelf, list, lock, health, calls, crashes>>

(* dropRecords and dropEntry: the records of what is already out of the    *)
(* spool, then the spooled operation's own.                                *)
Records(p) ==
  /\ job[p].ph = "records"
  /\ hist' = [hist EXCEPT !.lost = @ \cup job[p].drops]
  /\ ledger' = CASE job[p].op = "ensure" -> [ledger EXCEPT !.ext = 0]
                 [] job[p].op = "close" -> [ledger EXCEPT !.state = "closed"]
                 [] OTHER -> ledger
  /\ Done(p) /\ Unlock(p)
  /\ UNCHANGED <<remote, memo, anchor, creates, store, spool, shelf, list, health, calls, faults, crashes>>

(* ------------------------------- replays -------------------------------- *)

Listed == {e \in spool : e.due}

(* Replay: the spool is listed once, while the driver is healthy.          *)
Replay(r) ==
  /\ r \in Loops /\ job[r].ph = "idle" /\ list[r] = {} /\ ~health.failed
  /\ Listed # {} /\ list' = [list EXCEPT ![r] = Listed]
  /\ UNCHANGED <<remote, memo, anchor, ledger, creates, store, spool, shelf, job, lock, health, hist, calls, faults, crashes>>

Running(e) == [Idle EXCEPT !.op = e.op, !.ext = e.ext, !.key = e.key, !.mark = e.key, !.ph = First(e.op), !.entry = e]

ReplayEntry_TakesOut(r) ==
  /\ r \in Loops /\ job[r].ph = "idle" /\ lock = "free" /\ lock' = r
  /\ \E e \in list[r] :
       /\ list' = [list EXCEPT ![r] = @ \ {e}] /\ job' = [job EXCEPT ![r] = Running(e)]
       /\ spool' = {x \in spool : ~Same(x, e)}
  /\ UNCHANGED <<remote, memo, anchor, ledger, creates, store, shelf, health, hist, calls, faults, crashes>>

(* One entry of the batch: run under the signature's lock, or passed over  *)
(* while another holds it.                                                 *)
ReplayEntry(r) ==
  /\ r \in Loops /\ job[r].ph = "idle"
  /\ \E e \in list[r] :
       /\ list' = [list EXCEPT ![r] = @ \ {e}]
       /\ IF lock = "free"
          THEN /\ lock' = r
               /\ job' = [job EXCEPT ![r] = Running(e)]
          ELSE UNCHANGED <<lock, job>>
  /\ UNCHANGED <<remote, memo, anchor, ledger, creates, store, spool, shelf, health, hist, calls, faults, crashes>>

(* dispatch: what a replayed operation does to the anchor and its records. *)
Dispatched(j) ==
  /\ anchor' = CASE j.op = "ensure" -> [anchor EXCEPT !.ext = j.ext, !.state = "open"]
                 [] anchor = NoAnchor -> anchor
                 [] j.op = "close" -> [anchor EXCEPT !.ext = j.ext, !.state = "closed"]
                 [] OTHER -> [anchor EXCEPT !.ext = j.ext, !.state = IF remote[j.ext].state = "open" THEN "open" ELSE "closed"]
  /\ ledger' = CASE j.op = "ensure" -> [ledger EXCEPT !.ext = j.ext, !.state = "open"]
                 [] j.op = "close" -> [ledger EXCEPT !.state = "closed"]
                 [] OTHER -> ledger
  /\ creates' = creates + (IF j.res = "created" THEN 1 ELSE 0)

(* The entry leaves the spool once its operation succeeded; its removal    *)
(* may fail and is not tried again.                                        *)
ReplayEnds(r) ==
  /\ r \in Loops /\ job[r].ph = "end" /\ job[r].res \in {"created", "commented", "noop", "ok"}
  /\ Dispatched(job[r])
  /\ \/ spool' = {x \in spool : ~Same(x, job[r].entry)} /\ UNCHANGED faults
     \/ store = "disk" /\ faults < MaxFaults /\ faults' = faults + 1 /\ UNCHANGED spool
  /\ Done(r) /\ Unlock(r)
  /\ UNCHANGED <<remote, memo, store, shelf, list, health, hist, calls, crashes>>

(* A failed one is written back with its next try, or taken out at its     *)
(* last and its drop recorded then; a rate limit ends the batch.           *)
ReplayFails(r) ==
  LET j == job[r]
      n == j.entry.tries + 1
      mine == {x \in spool : Same(x, j.entry)}
  IN
  /\ r \in Loops /\ j.ph = "end" /\ j.res \in {"retry", "failed", "refused", "gone"}
  /\ IF n >= MaxPerOp
     THEN spool' = spool \ mine /\ job' = [job EXCEPT ![r] = [Idle EXCEPT !.ph = "records", !.drops = {j.key}]]
     ELSE /\ spool' = (spool \ mine) \cup (IF store = "disk" \/ mine # {} THEN {[j.entry EXCEPT !.tries = n, !.due = FALSE]} ELSE {})
          /\ Done(r)
  /\ list' \in {list, [list EXCEPT ![r] = {}]} /\ (j.res # "retry" => list' = list)
  /\ Unlock(r)
  /\ UNCHANGED <<remote, memo, anchor, ledger, creates, store, shelf, health, hist, calls, faults, crashes>>

(* An entry's next try comes.                                              *)
Due ==
  /\ \E e \in spool : ~e.due /\ spool' = (spool \ {e}) \cup {[e EXCEPT !.due = TRUE]}
  /\ UNCHANGED <<remote, memo, anchor, ledger, creates, store, shelf, list, job, lock, health, hist, calls, faults, crashes>>

(* ------------------------- health and restarts -------------------------- *)

(* probe: enough failures in a row suspend replays and sweeps.             *)
ProbeFails ==
  /\ faults < MaxFaults /\ faults' = faults + 1
  /\ health' = [failed |-> health.failed \/ health.bad + 1 >= FailAfter, bad |-> health.bad + 1]
  /\ UNCHANGED <<remote, memo, anchor, ledger, creates, store, spool, shelf, list, job, lock, hist, calls, crashes>>

Probe ==
  /\ health # [failed |-> FALSE, bad |-> 0] /\ health' = [failed |-> FALSE, bad |-> 0]
  /\ UNCHANGED <<remote, memo, anchor, ledger, creates, store, spool, shelf, list, job, lock, hist, calls, faults, crashes>>

(* newSpoolStore: a boot that cannot write the spool's directory keeps its *)
(* spool in memory, and does not see what is on disk.                      *)
NewSpoolStore(st) ==
  LET files == IF store = "disk" THEN spool ELSE shelf IN
  /\ store' = st
  /\ spool' = (IF st = "disk" THEN files ELSE {}) /\ shelf' = (IF st = "disk" THEN {} ELSE files)

(* A crash loses what is in memory: a spool kept there, and the records    *)
(* still owed for what was dropped.  rebuild gives the ledger's anchor     *)
(* back, or none once its records are a day old; the boot's probe may      *)
(* fail.                                                                   *)
Rebuild(a) == a \in {ledger, NoAnchor}
Restart ==
  /\ crashes < MaxCrashes /\ crashes' = crashes + 1
  /\ Rebuild(anchor') /\ ledger' = anchor'
  /\ memo' = {} /\ list' = [r \in Loops |-> {}] /\ job' = [p \in Procs |-> Idle] /\ lock' = "free"
  /\ \E st \in Stores : NewSpoolStore(st)
  /\ hist' = [hist EXCEPT !.forgot = @ \cup UNION {job[p].drops : p \in Procs}
                                       \cup (IF store = "memory" THEN {x.key : x \in spool} ELSE {})]
  /\ \E f \in BOOLEAN : health' = [failed |-> f, bad |-> IF f THEN FailAfter ELSE 0]
  /\ UNCHANGED <<remote, creates, calls, faults>>

(* People at the driver: an issue is closed, locked or deleted, or is      *)
(* commented on until a page no longer holds its comments.                 *)
Person ==
  /\ calls < MaxCalls /\ calls' = calls + 1
  /\ \E e \in DOMAIN remote :
       /\ remote[e].state # "gone"
       /\ \/ \E s \in {"closed", "locked", "gone"} \ {remote[e].state} : remote' = [remote EXCEPT ![e].state = s]
          \/ ~remote[e].long /\ remote' = [remote EXCEPT ![e].long = TRUE]
  /\ UNCHANGED <<memo, anchor, ledger, creates, store, spool, shelf, list, job, lock, health, hist, faults, crashes>>

(* The desk's own steps that its goroutines go on taking.                  *)
LadderEnds == EnsureEnds \/ FoldEnds \/ ReopenEnds \/ SupersedeEnds
Loop(r) == Replay(r) \/ ReplayEntry(r) \/ ReplayEnds(r) \/ ReplayFails(r)
Work == (\E p \in Procs : Call(p) \/ Records(p)) \/ LadderEnds \/ OutletEnds \/ SweepEnds

(* ------------------------------ properties ------------------------------ *)

(* However creates lose their answers, replays and calls interleave, or    *)
(* the process restarts, the signature has a second issue at the driver    *)
(* only where the search before a create missed one (the search, under the *)
(* signature's lock).                                                      *)
OneIssue == Cardinality({e \in DOMAIN remote : remote[e].state # "gone"}) <= 1 + hist.missed

(* Replays, retries and restarts post a comment a second time only where   *)
(* it could not be read back first: the read failed, or its one page did   *)
(* not reach it.  (The sweep's close takes no lock, and its comment may    *)
(* race its own replay.)                                                   *)
CommentsPriced ==
  \A e \in DOMAIN remote : \A m \in Marks(e) \ {<<"close", e>>} :
    remote[e].marks[m] <= 1 + Len(SelectSeq(hist.blind, LAMBDA b : b = m))

(* An operation handed to the spool is in it until it took effect at the   *)
(* driver or was dropped with a record; a record may be under way, and a   *)
(* crash loses only a spool in memory and the drops not yet on record.     *)
SpooledNotLost ==
  \A k \in hist.owed : \/ k \in hist.done \cup hist.lost \cup hist.forgot
                       \/ \E x \in spool \cup shelf : x.key = k
                       \/ \E p \in Procs : k \in job[p].drops

(* The spool empties and the signature's lock is released for good.        *)
Drained == spool = {} /\ lock = "free"
=============================================================================
