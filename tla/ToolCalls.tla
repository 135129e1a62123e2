------------------------------ MODULE ToolCalls ------------------------------
(* The registry's six-stage call (internal/registry): authorize, validate   *)
(* and lock, dry-run, intent record, apply, verify, audit, under RunPlay's  *)
(* retries and on_fail.  The modules are config.set and file.patch over one *)
(* file with two names, and service.restart over one unit.                  *)
EXTENDS Naturals, Sequences, TLC

CONSTANTS
  Plays,     \* incident -> the play it runs: a sequence of tasks
  Modes,     \* the autonomy modes the operator switches between
  DoNotTouch, \* the protected canonical targets
  Granted,   \* the modules the incident's grants name
  Keep,      \* file.keep_backups
  MaxEdits, MaxFaults, MaxCrashes

VARIABLES
  call,     \* incident -> the call in progress of its play
  file,     \* name -> the content; "" under "link" while that is a link to the file
  edits,    \* how often somebody else changed a file
  backups,  \* the contents kept in file.backup_dir, oldest first
  pid,      \* the unit's MainPID
  before,   \* restartBefore: the MainPID remembered, 0 when none is
  lock,     \* canonical target -> the incident whose call holds it
  idem,     \* the replay guard: the keys of `once' calls made
  gates,    \* autonomy mode, or "kill"
  intents,  \* the calls whose intent record is in the ledger
  touched,  \* the calls that changed the host
  jobs,     \* key -> RestartUnit jobs systemd ran for it
  spent

vars == <<call, file, edits, backups, pid, before, lock, idem, gates, intents, touched, jobs, spent>>

Incs == DOMAIN Plays
None == "none"
(* A task: [tool, at, from, to, retries, onfail].                          *)
Task(c) == Plays[c][call[c].task]
Key(c) == <<c, call[c].task>>
CallId(c) == <<c, call[c].task, call[c].att>>
(* canonicalPath, normalizeUnit: "link" is a symbolic link to the file, as *)
(* long as nothing has been renamed over it.                               *)
Linked == file["link"] = ""
Canonical_Raw(at) == at
Canonical(at) == IF at = "link" /\ Linked THEN "file" ELSE at
(* Reading follows the link.                                               *)
Content(at) == IF at = "link" /\ Linked THEN file["file"] ELSE file[at]
Once(tool) == tool = "service.restart"
OnFile(c) == Task(c).at \in {"file", "link"}

Fresh == [pc |-> "call", task |-> 1, att |-> 0, mode |-> "apply", target |-> None, base |-> None, edits |-> 0,
          changed |-> FALSE, err |-> "", rolled |-> FALSE, outcome |-> ""]
Again(x) == [Fresh EXCEPT !.task = x.task, !.att = x.att + 1]

Init ==
  /\ call = [c \in Incs |-> Fresh] /\ file = [file |-> "a", link |-> ""] /\ edits = 0 /\ backups = <<>>
  /\ pid = 1 /\ before = 0 /\ lock = [t \in {"file", "link", "unit"} |-> None]
  /\ idem = {} /\ gates \in Modes /\ intents = {} /\ touched = {}
  /\ jobs = [k \in {<<c, i>> : c \in Incs, i \in 1..3} |-> 0]
  /\ spent = [faults |-> 0, crashes |-> 0, strayed |-> FALSE]

Fault == spent.faults < MaxFaults /\ spent' = [spent EXCEPT !.faults = @ + 1]
Host == <<file, edits, backups, pid, before, jobs, touched>>
Goes(c, pc) == call' = [call EXCEPT ![c].pc = pc]
Ends(c, e) == call' = [call EXCEPT ![c].pc = "audit", ![c].err = e]
-----------------------------------------------------------------------------
(* authorize: the kill switch, the do-not-touch set, then the autonomy     *)
(* gate and the grants.                                                    *)
CheckProtected(c) == Canonical(Task(c).at) \in DoNotTouch
Authorize(c) ==
  /\ call[c].pc = "call"
  /\ \/ (gates = "kill" \/ CheckProtected(c)) /\ Ends(c, "refused")
     \/ gates = "shadow" /\ ~CheckProtected(c) /\ call' = [call EXCEPT ![c].pc = "lock", ![c].mode = "check"]
     \/ gates = "full" /\ ~CheckProtected(c) /\ Task(c).tool \in Granted /\ Goes(c, "lock")
     \/ gates = "full" /\ ~CheckProtected(c) /\ Task(c).tool \notin Granted /\ Ends(c, "refused")
  /\ UNCHANGED <<Host, lock, idem, gates, intents, spent>>

(* lockTargets resolves the target before it waits for its lock, and gives *)
(* up past its budget.  What it resolved may no longer be the target by    *)
(* the time the lock is had: spent.strayed remembers that.                 *)
ResolveTarget(c) ==
  /\ call[c].pc = "lock"
  /\ call' = [call EXCEPT ![c].pc = "wait", ![c].target = Canonical(Task(c).at)]
  /\ UNCHANGED <<Host, lock, idem, gates, intents, spent>>
LockTargets(c) ==
  LET t == call[c].target IN
  /\ call[c].pc = "wait"
  /\ \/ /\ lock[t] = None /\ lock' = [lock EXCEPT ![t] = c] /\ Goes(c, "check")
        /\ spent' = [spent EXCEPT !.strayed = @ \/ t # Canonical(Task(c).at)]
     \/ lock[t] # None /\ Ends(c, "transient") /\ UNCHANGED <<lock, spent>>
  /\ UNCHANGED <<Host, idem, gates, intents>>

(* What a module's plan finds: nothing to do, a change, or a file that is  *)
(* neither side of the patch.  The unit of service.restart is active.      *)
PlanSet(c) == IF Content(Task(c).at) = Task(c).to THEN "settled" ELSE "change"
PlanPatch(c) ==
  LET found == Content(Task(c).at) IN
  IF found = Task(c).to THEN "settled" ELSE IF found = Task(c).from THEN "change" ELSE "permanent"
PlanRestart(c) == "change"
Plan(c) ==
  CASE Task(c).tool = "config.set" -> PlanSet(c)
    [] Task(c).tool = "file.patch" -> PlanPatch(c)
    [] Task(c).tool = "service.restart" -> PlanRestart(c)

(* Check; a call in check mode ends with it.                               *)
Check(c) ==
  /\ call[c].pc = "check"
  /\ \/ /\ Plan(c) # "permanent" /\ UNCHANGED spent
        /\ call' = [call EXCEPT ![c].pc = IF call[c].mode = "check" THEN "audit" ELSE "intent",
                                ![c].base = IF OnFile(c) THEN Content(Task(c).at) ELSE None,
                                ![c].edits = edits]
     \/ Plan(c) = "permanent" /\ Ends(c, "permanent") /\ UNCHANGED spent
     \/ Fault /\ Ends(c, "transient")
  /\ UNCHANGED <<Host, lock, idem, gates, intents>>

AppendIntent(c) ==
  \/ intents' = intents \cup {CallId(c)} /\ Goes(c, "apply") /\ UNCHANGED spent
  \/ Fault /\ Ends(c, "refused") /\ UNCHANGED intents
Intent(c) ==
  /\ call[c].pc = "intent" /\ AppendIntent(c)
  /\ UNCHANGED <<Host, lock, idem, gates>>

(* A replayed key, or an empty diff, never reaches the module; otherwise   *)
(* Apply plans again.                                                      *)
ApplyOrSkip(c) ==
  /\ call[c].pc = "apply"
  /\ \/ Once(Task(c).tool) /\ Key(c) \in idem /\ Goes(c, "verify")
     \/ ~Once(Task(c).tool) /\ call[c].base = Task(c).to /\ Goes(c, "verify")
     \/ /\ ~(Once(Task(c).tool) /\ Key(c) \in idem) /\ ~(OnFile(c) /\ call[c].base = Task(c).to)
        /\ \/ Plan(c) = "change" /\ Goes(c, "write")
           \/ Plan(c) = "settled" /\ Goes(c, "verify")
           \/ Plan(c) = "permanent" /\ Ends(c, "permanent")
  /\ UNCHANGED <<Host, lock, idem, gates, intents, spent>>

(* filePatchWriteBackup and its prune.                                     *)
WithBackup(bs, old) == LET all == Append(bs, old) IN
                  SubSeq(all, IF Len(all) > Keep THEN Len(all) - Keep + 1 ELSE 1, Len(all))
(* writeFileAtomic renames over the path it is given: a link is replaced   *)
(* by a file of its own, and the file it led to stays as it was.           *)
WriteFile(c) ==
  /\ OnFile(c) /\ file' = [file EXCEPT ![Task(c).at] = Task(c).to]
  /\ backups' = IF Task(c).tool = "file.patch" THEN WithBackup(backups, Content(Task(c).at)) ELSE backups
  /\ UNCHANGED <<pid, before, jobs>>
(* serviceVerb: the MainPID is remembered, the job runs.                   *)
RestartUnit(c) ==
  /\ Once(Task(c).tool) /\ before' = pid /\ pid' = pid + 1
  /\ jobs' = [jobs EXCEPT ![Key(c)] = @ + 1]
  /\ UNCHANGED <<file, backups>>

Noted(c, failed) == IF Once(Task(c).tool) THEN idem \cup {Key(c)} ELSE idem

(* Apply's write.  A failure may come before the change or, when the reply *)
(* of systemd is lost, after it.                                           *)
Apply(c) ==
  /\ call[c].pc = "write"
  /\ \/ /\ WriteFile(c) \/ RestartUnit(c)
        /\ touched' = touched \cup {CallId(c)} /\ idem' = Noted(c, FALSE)
        /\ call' = [call EXCEPT ![c].pc = "verify", ![c].changed = TRUE] /\ UNCHANGED spent
     \/ /\ Fault /\ Ends(c, "transient") /\ idem' = Noted(c, TRUE)
        /\ \/ UNCHANGED <<file, backups, pid, before, jobs, touched>>
           \/ Once(Task(c).tool) /\ before' = pid /\ UNCHANGED <<file, backups, pid, jobs, touched>>
           \/ RestartUnit(c) /\ touched' = touched \cup {CallId(c)}
  /\ UNCHANGED <<edits, lock, gates, intents>>

(* Verify; when it is not ok and the result carries a usable hint, Rollback *)
(* calls the registry again.  That call carries no grants and finds its     *)
(* target locked by this one, so it changes nothing; the record says        *)
(* rolled_back.                                                             *)
Rechecked(c) == Content(Task(c).at) = Task(c).to
Probed(c) == before = 0 \/ pid # before
Verified(c) == IF OnFile(c) THEN Rechecked(c) ELSE Probed(c)
Hinted(c) == OnFile(c) /\ call[c].changed
Verify(c) ==
  /\ call[c].pc = "verify"
  /\ \/ Verified(c) /\ Goes(c, "audit") /\ UNCHANGED spent
     \/ /\ \/ ~Verified(c) /\ UNCHANGED spent
           \/ Fault
        /\ call' = [call EXCEPT ![c].pc = "audit", ![c].err = "permanent",
                                ![c].rolled = Hinted(c)]
  /\ UNCHANGED <<Host, lock, idem, gates, intents>>
-----------------------------------------------------------------------------
(* finish, with the target unlocked on the way out; then RunPlay: a        *)
(* transient error is retried, a failed task ends the play or not.         *)
Unlocked(c) == [t \in DOMAIN lock |-> IF lock[t] = c THEN None ELSE lock[t]]
AfterTask(x, e) ==
  LET t == Plays[x.inc][x.task] IN
  IF e = "transient" /\ x.att < t.retries THEN Again(x)
  ELSE IF e # "" /\ t.onfail = "abort" THEN [Fresh EXCEPT !.pc = "ended", !.task = x.task, !.outcome = "failed"]
  ELSE IF e # "" /\ t.onfail = "rollback" THEN [Fresh EXCEPT !.pc = "ended", !.task = x.task, !.outcome = "rolled_back"]
  ELSE IF x.task < Len(Plays[x.inc]) THEN [Fresh EXCEPT !.task = x.task + 1]
  ELSE [Fresh EXCEPT !.pc = "ended", !.task = x.task, !.outcome = "done"]
Finish(c) ==
  /\ call[c].pc = "audit"
  /\ lock' = Unlocked(c)
  /\ LET x == [inc |-> c] @@ call[c] IN
     \/ call' = [call EXCEPT ![c] = AfterTask(x, call[c].err)] /\ UNCHANGED spent
     \/ Fault /\ call' = [call EXCEPT ![c] = AfterTask(x, "refused")]
  /\ UNCHANGED <<Host, idem, gates, intents>>

(* The daemon dies and starts again; the ladder resumes the play, with the *)
(* same keys.  Nothing seeds the replay guard (NoteExecuted).              *)
Restart ==
  /\ spent.crashes < MaxCrashes /\ spent' = [spent EXCEPT !.crashes = @ + 1]
  /\ call' = [c \in Incs |-> IF call[c].pc = "ended" THEN call[c] ELSE Fresh]
  /\ idem' = {} /\ before' = 0 /\ lock' = [t \in DOMAIN lock |-> None]
  /\ UNCHANGED <<file, edits, backups, pid, jobs, touched, gates, intents>>

(* The operator: another mode, an edit of a file by hand, in place.        *)
SetGates == gates' \in Modes /\ gates' # gates
            /\ UNCHANGED <<call, Host, lock, idem, intents, spent>>
EditFile ==
  /\ edits < MaxEdits /\ edits' = edits + 1
  /\ \E n \in {Canonical("link"), "file"}, v \in {"a", "b", "x"} : file' = [file EXCEPT ![n] = v] /\ file' # file
  /\ UNCHANGED <<call, backups, pid, before, jobs, touched, lock, idem, gates, intents, spent>>

Next ==
  \/ Restart \/ SetGates \/ EditFile
  \/ \E c \in Incs :
       \/ Authorize(c) \/ ResolveTarget(c) \/ LockTargets(c) \/ Check(c) \/ Intent(c) \/ ApplyOrSkip(c) \/ Apply(c)
       \/ Verify(c) \/ Finish(c)
-----------------------------------------------------------------------------
(* SPEC-06 6.8: between a call's dry run and its write no other call       *)
(* changes the target, by whatever name it is called, so the diff on the   *)
(* intent record is what the write does, unless somebody else edits, or a  *)
(* call waited for the lock of the file that its name led to before        *)
(* another call's write replaced the link.                                 *)
DiffIsCurrent ==
  \A c \in Incs : call[c].pc \in {"intent", "apply", "write"} /\ OnFile(c)
    => Content(Task(c).at) = call[c].base \/ edits # call[c].edits \/ spent.strayed

(* SPEC-06 4.2: no call changes the host before its intent record is in    *)
(* the ledger.                                                             *)
IntentFirst == touched \subseteq intents

(* SPEC-06 3.4: a `once' key executes once, retries after a failure whose  *)
(* effect is unknown included, for as long as the daemon lives.            *)
OncePerLife == \A k \in DOMAIN jobs : jobs[k] <= 1 + spent.crashes

(* The same across a restart: "the mechanism that makes daemon restart     *)
(* safe ... rebuilt at boot from play_run/tool_call records".              *)
OncePerKey == \A k \in DOMAIN jobs : jobs[k] <= 1

(* A record that says rolled_back leaves the file as it was before.        *)
RolledBackIsRestored ==
  \A c \in Incs : call[c].pc = "audit" /\ call[c].rolled => Content(Task(c).at) = call[c].base \/ edits # call[c].edits
=============================================================================
