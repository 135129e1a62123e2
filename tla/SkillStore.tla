----------------------------- MODULE SkillStore -----------------------------
(* The skill store (internal/skills) for one skill name: the local index,  *)
(* the artifact directories, the puller that installs what the release     *)
(* channel publishes, the operator's and the resolver's calls, and local   *)
(* promotion.  The channel and who edits the directories are external.     *)
EXTENDS Naturals, Sequences, FiniteSets, FiniteSetsExt

CONSTANTS
  Releases,          \* what each successive commit of the channel holds: [v, body]
  Defect,            \* body -> the gate it fails: "none", "unreadable", "bad", "floor"
  LocalBodies,       \* plays that incidents teach
  Approval,          \* skills.approve: "auto", "review" or "never"
  CanaryHost,        \* skills.canary_host_id: "off", "self" or "other"
  RetainVersions, DemoteAfter, MaxRuns,
  MaxFaults, MaxCrashes, MaxCalls

VARIABLES
  rows,    \* version -> its index row
  disk,    \* [index, last]: index.json and pull-state.json
  tree,    \* bucket -> version -> the artifact there
  pull,    \* [pc, sha, last, fails]
  head,    \* the channel's newest commit
  op,      \* the one operator call under way: [kind, v, body]
  cands,   \* candidates drafted and not yet promoted
  holds,   \* held versions
  recs,    \* <<version, body>> some record names
  late,    \* the index marshalled and not yet written, if any
  hist,    \* history: [overlap, unsaved, missed, called]
  spent

vars == <<rows, disk, tree, pull, head, op, cands, holds, recs, late, hist, spent>>

None == "none"
Versions == 0..(Max({Releases[n].v : n \in DOMAIN Releases}) + Cardinality(LocalBodies))
Buckets == {"installed", "pending", "quarantine"}
NoCanary == [result |-> "", host |-> ""]
NoRow == [state |-> "absent", origin |-> "", dir |-> "", canon |-> None,
          canary |-> NoCanary, failures |-> 0, rejected |-> {}, runs |-> 0]
NoOp == [kind |-> None, v |-> 0, body |-> None]
Idle == [pc |-> "idle", sha |-> 0, last |-> 0, fails |-> 0]

Init ==
  /\ rows = [v \in Versions |-> NoRow] /\ disk = [index |-> rows, last |-> 0]
  /\ tree = [b \in Buckets |-> [v \in Versions |-> None]]
  /\ pull = Idle /\ head = 1 /\ op = NoOp /\ cands = {} /\ holds = {} /\ recs = {}
  /\ late = <<>> /\ hist = [overlap |-> FALSE, unsaved |-> FALSE, missed |-> {}, called |-> 0]
  /\ spent = [faults |-> 0, crashes |-> 0]

Fault == spent.faults < MaxFaults /\ spent' = [spent EXCEPT !.faults = @ + 1]
Call == hist.called < MaxCalls /\ hist' = [hist EXCEPT !.called = @ + 1]

(* ------------------------------- the rows -------------------------------- *)

(* readArtifact of a row: what its directory holds, None if nothing.       *)
Artifact(r, v, t) == IF r.dir = "" THEN None ELSE t[r.dir][v]

(* putRow, and saveIndex: marshal under the lock, write outside of it.     *)
(* atomicWrite may fail, which most callers do not look at.                *)
PutRow(v, r) == [rows EXCEPT ![v] = r]
Saved(ok) ==
  IF ok THEN /\ disk' = [disk EXCEPT !.index = rows']
             /\ hist' = [hist EXCEPT !.overlap = @ \/ late # <<>>, !.unsaved = FALSE]
  ELSE hist' = [hist EXCEPT !.unsaved = TRUE] /\ UNCHANGED disk
SaveIndex == \/ Saved(TRUE) /\ UNCHANGED spent
             \/ Fault /\ Saved(FALSE)
SaveLater == late' = <<rows'>> /\ UNCHANGED disk

(* installRowFromSkill.                                                    *)
RowOf(a, state, bucket, origin, canary) ==
  [NoRow EXCEPT !.state = state, !.origin = origin, !.dir = bucket, !.canon = a.body, !.canary = canary]

(* recordRefusal: the row of the version, whatever it was, is refused.     *)
Refusal(v) == [rows[v] EXCEPT !.state = "refused"]

(* HighestInstalled, 0 for none; MaxVersion; NameOwnedByRelease.           *)
Counted == {"installed", "pending_review", "held", "canary_blocked", "floor_blocked", "quarantined", "conflict"}
HighestInstalled == Max({0} \cup {v \in Versions : rows[v].state \in Counted})
MaxVersion == Max({0} \cup {v \in Versions : rows[v].state # "absent"})
NameOwnedByRelease == \E v \in Versions : rows[v].state # "absent" /\ rows[v].origin = "pull"

(* CanaryGreen, for a canary result that has not gone stale.               *)
CanaryGreen(v) == rows[v].canary = [result |-> "green", host |-> CanaryHost]
CanaryResultFor ==
  [result |-> CASE CanaryHost = "off" -> "" [] CanaryHost = "self" -> "inconclusive" [] OTHER -> "green",
   host |-> "self"]

(* RejectedHash.                                                           *)
RejectedHash(body) == \E v \in Versions : body \in rows[v].rejected

(* quarantine: the directory is moved aside and the row follows it.        *)
Quarantined(v, r) == [r EXCEPT !.state = "quarantined", !.dir = "quarantine"]
MovedAside(t, v, r) ==
  IF Artifact(r, v, t) = None THEN [t EXCEPT !["quarantine"][v] = None]
  ELSE [t EXCEPT ![r.dir][v] = None, !["quarantine"][v] = Artifact(r, v, t)]

(* ------------------------------- one pull -------------------------------- *)

(* resolveRef: the newest commit of the branch, or of the highest tag; and *)
(* copyTree and installStaged, the artifact it holds.                      *)
Resolved == head
Staged == Releases[pull.sha]

(* fail: a clone, ls-remote, fetch, checkout or copy that did not work.    *)
PullFails == Fault /\ pull' = [pull EXCEPT !.fails = @ + 1]

(* PullOnce up to the staged tree: offline, nothing new, or a new commit.  *)
PullOnce ==
  /\ pull.pc = "idle"
  /\ \/ Resolved = pull.last /\ pull.fails > 0 /\ pull' = [pull EXCEPT !.fails = 0] /\ UNCHANGED spent
     \/ Resolved # pull.last /\ pull' = [pull EXCEPT !.pc = "gate", !.sha = Resolved] /\ UNCHANGED spent
     \/ PullFails
  /\ UNCHANGED <<rows, disk, tree, head, op, cands, holds, recs, late, hist>>

(* A row decided by a gate, and the index; the pull goes on though the    *)
(* index was not written.                                                  *)
Decided(v, state) == rows' = PutRow(v, [rows[v] EXCEPT !.state = state]) /\ pull' = [pull EXCEPT !.pc = "mark"]

(* refuse, refuseReason; GateFloor.                                        *)
Refuse(v) == Decided(v, "refused") /\ SaveIndex /\ UNCHANGED holds
FloorBlocked(v) == Decided(v, "floor_blocked") /\ SaveIndex /\ UNCHANGED holds

(* install failed: refuse, whose own saveIndex may fail too.               *)
InstallFails == Fault /\ Decided(Staged.v, "refused") /\ (\E ok \in BOOLEAN : Saved(ok)) /\ UNCHANGED holds

(* No green canary: held, unless the version's own canary failed.          *)
CanaryBlocked(v) ==
  IF rows[v].canary.result = "failed" THEN Refuse(v)
  ELSE Decided(v, "canary_blocked") /\ SaveIndex /\ holds' = holds \cup {v}

(* versionRules: a name promoted here, other bytes under the version, and  *)
(* a version below the highest are refused.                                *)
VersionRules(a) ==
  LET best == HighestInstalled  prior == rows[a.v]  was == Artifact(prior, a.v, tree) IN
  /\ ~(best # 0 /\ rows[best].origin = "local" /\ ~NameOwnedByRelease)
  /\ ~(prior.state # "absent" /\ was # None /\ was # a.body)
  /\ a.v >= best

(* readArtifact and gate: the first gate that fails decides.               *)
Gate ==
  LET a == Staged
      unproved == CanaryHost = "other" /\ ~CanaryGreen(a.v)
  IN
  /\ pull.pc = "gate"
  /\ CASE Defect[a.body] = "unreadable" -> Refuse(0)
       [] Defect[a.body] = "bad" -> Refuse(a.v)
       [] Defect[a.body] = "floor" -> FloorBlocked(a.v)
       [] unproved -> CanaryBlocked(a.v)
       [] ~unproved /\ Defect[a.body] = "none" /\ (Approval = "never" \/ ~VersionRules(a)) -> Refuse(a.v)
       [] OTHER -> pull' = [pull EXCEPT !.pc = "record"] /\ UNCHANGED <<rows, disk, holds, hist, spent>>
  /\ UNCHANGED <<tree, head, op, cands, recs, late>>

Bucket == IF Approval = "review" THEN "pending" ELSE "installed"

(* install: the record first; without it nothing is installed.             *)
InstallRecord ==
  /\ pull.pc = "record"
  /\ \/ /\ recs' = recs \cup {<<Staged.v, Staged.body>>} /\ pull' = [pull EXCEPT !.pc = "move"]
        /\ UNCHANGED <<rows, disk, holds, hist, spent>>
     \/ InstallFails /\ UNCHANGED recs
  /\ UNCHANGED <<tree, head, op, cands, late>>

(* The old directory is removed, then the staged one renamed or copied.    *)
InstallMove ==
  /\ pull.pc = "move"
  /\ \/ /\ tree' = [tree EXCEPT ![Bucket][Staged.v] = Staged.body]
        /\ pull' = [pull EXCEPT !.pc = "index"] /\ UNCHANGED <<rows, disk, holds, hist, spent>>
     \/ InstallFails /\ tree' = [tree EXCEPT ![Bucket][Staged.v] = None]
  /\ UNCHANGED <<head, op, cands, recs, late>>

(* A mutant: the pull is marked before the index is saved.                 *)
InstallIndex_MarkedFirst ==
  /\ pull.pc = "index"
  /\ rows' = PutRow(Staged.v, RowOf(Staged, "installed", Bucket, "pull", CanaryResultFor))
  /\ pull' = [pull EXCEPT !.pc = "prune", !.last = pull.sha]
  /\ disk' = [disk EXCEPT !.last = pull.sha]
  /\ UNCHANGED <<tree, head, op, cands, holds, recs, late, hist, spent>>

(* The row and the index; here a failing saveIndex refuses the version.    *)
InstallIndex ==
  LET r == RowOf(Staged, IF Approval = "review" THEN "pending_review" ELSE "installed", Bucket, "pull", CanaryResultFor)
  IN
  /\ pull.pc = "index"
  /\ \/ /\ rows' = PutRow(Staged.v, r) /\ pull' = [pull EXCEPT !.pc = "prune"]
        /\ Saved(TRUE) /\ UNCHANGED spent
     \/ /\ Fault
        /\ rows' = PutRow(Staged.v, [r EXCEPT !.state = "refused"]) /\ pull' = [pull EXCEPT !.pc = "mark"]
        /\ \E ok \in BOOLEAN : Saved(ok)
  /\ UNCHANGED <<tree, head, op, cands, holds, recs, late>>

(* retentionPrune: the lowest installed versions beyond the retained ones. *)
Installed == {v \in Versions : rows[v].state = "installed"}
Pruned == {v \in Installed : Cardinality({w \in Installed : w > v}) >= RetainVersions}

RetentionPrune ==
  /\ pull.pc = "prune"
  /\ rows' = [v \in Versions |-> IF v \in Pruned THEN NoRow ELSE rows[v]]
  /\ tree' = [tree EXCEPT !["installed"] = [v \in Versions |-> IF v \in Pruned THEN None ELSE @[v]]]
  /\ pull' = [pull EXCEPT !.pc = "mark"] /\ SaveIndex
  /\ UNCHANGED <<head, op, cands, holds, recs, late>>

(* markPull and saveState: the next pulls of this commit do nothing.  A    *)
(* failing saveState leaves the mark in memory alone.                      *)
MarkPull ==
  /\ pull.pc = "mark"
  /\ pull' = [pull EXCEPT !.pc = "idle", !.last = pull.sha, !.fails = 0]
  /\ \/ disk' = [disk EXCEPT !.last = pull.sha] /\ UNCHANGED spent
     \/ Fault /\ UNCHANGED disk
  /\ UNCHANGED <<rows, tree, head, op, cands, holds, recs, late, hist>>

(* -------------------------- the operator's calls ------------------------- *)

(* Approve, up to the directory: what it installs is removed before the    *)
(* pending one takes its place.                                            *)
Approve(v, downgrade, override) ==
  LET r == rows[v]
      cleared == [tree EXCEPT !["installed"][v] = None]
      artifact == Artifact(r, v, cleared)
  IN
  /\ op = NoOp /\ r.state # "absent" /\ Approval # "never" /\ Call
  /\ downgrade \/ HighestInstalled <= v \/ rows[HighestInstalled].state # "installed"
  /\ r.state = "canary_blocked" => override
  /\ IF artifact = None THEN tree' = cleared /\ UNCHANGED op
     ELSE /\ tree' = [cleared EXCEPT ![r.dir][v] = None, !["installed"][v] = artifact]
          /\ op' = [kind |-> "approve", v |-> v, body |-> artifact]
  /\ UNCHANGED <<rows, disk, pull, head, cands, holds, recs, late, spent>>

(* ... its row and index ...                                               *)
ApproveIndex ==
  /\ op.kind = "approve" /\ late = <<>>
  /\ rows' = PutRow(op.v, [rows[op.v] EXCEPT !.state = "installed", !.dir = "installed"]) /\ SaveLater
  /\ op' = [op EXCEPT !.kind = "record"]
  /\ UNCHANGED <<tree, pull, head, cands, holds, recs, hist, spent>>

(* ... and its record, if the index was written.                           *)
ApproveRecord ==
  /\ op.kind = "record" /\ late = <<>>
  /\ op' = NoOp
  /\ \/ recs' = recs \cup {<<op.v, op.body>>} /\ UNCHANGED spent
     \/ Fault /\ UNCHANGED recs
  /\ UNCHANGED <<rows, disk, tree, pull, head, cands, holds, late, hist>>

(* The bytes of an index marshalled before are written now, or are not.    *)
WriteLate ==
  /\ late # <<>> /\ late' = <<>>
  /\ \/ /\ disk' = [disk EXCEPT !.index = late[1]]
        /\ hist' = [hist EXCEPT !.overlap = @ \/ late[1] # rows, !.unsaved = FALSE]
        /\ UNCHANGED <<op, spent>>
     \/ /\ Fault /\ UNCHANGED disk /\ hist' = [hist EXCEPT !.unsaved = TRUE]
        /\ op' = IF op.kind = "record" THEN NoOp ELSE op
  /\ UNCHANGED <<rows, tree, pull, head, cands, holds, recs>>

Reject(v) ==
  /\ Call /\ late = <<>> /\ rows' = PutRow(v, Refusal(v)) /\ SaveLater
  /\ UNCHANGED <<tree, pull, head, op, cands, holds, recs, spent>>

(* ------------------------ matching and running --------------------------- *)

(* Authorize: an installed row whose directory holds what it recorded.     *)
Runs(r, v, t) == r.state = "installed" /\ Artifact(r, v, t) # None /\ Artifact(r, v, t) = r.canon
Runnable == {v \in Versions : Runs(rows[v], v, tree)}

(* Match picks the highest; AllowRun counts the runs of the day.           *)
Match == IF Runnable = {} THEN 0 ELSE Max(Runnable)
AllowRun(v) == v \in Runnable /\ rows[v].runs < MaxRuns

(* RecordRun: a failure counts against the version, which is demoted; a    *)
(* directory that cannot be moved aside keeps it as it was.                *)
RecordRun(success) ==
  LET v == Match
      ran == [rows[v] EXCEPT !.runs = @ + 1]
      failed == [ran EXCEPT !.failures = @ + 1]
  IN
  /\ v # 0 /\ AllowRun(v) /\ Call /\ late = <<>>
  /\ \/ /\ success /\ rows' = PutRow(v, ran) /\ holds' = holds \ {v}
        /\ UNCHANGED <<disk, tree, late, spent>>
     \/ /\ ~success /\ failed.failures < DemoteAfter
        /\ rows' = PutRow(v, failed) /\ SaveLater /\ UNCHANGED <<tree, holds, spent>>
     \/ /\ ~success /\ failed.failures >= DemoteAfter
        /\ rows' = PutRow(v, Quarantined(v, failed)) /\ tree' = MovedAside(tree, v, failed)
        /\ SaveLater /\ UNCHANGED <<holds, spent>>
     \/ /\ ~success /\ failed.failures >= DemoteAfter /\ Fault
        /\ rows' = PutRow(v, ran) /\ UNCHANGED <<disk, tree, holds, late>>
  /\ UNCHANGED <<pull, head, op, cands, recs>>

(* RecordCanary: this host's own result, for a row or a new held one.      *)
RecordCanary(v, result) ==
  LET r == IF rows[v].state = "absent" THEN [NoRow EXCEPT !.state = "held"] ELSE rows[v] IN
  /\ Call /\ late = <<>> /\ v # 0
  /\ rows' = PutRow(v, [r EXCEPT !.canary = [result |-> result, host |-> "self"]]) /\ SaveLater
  /\ UNCHANGED <<tree, pull, head, op, cands, holds, recs, spent>>

(* ExpireStaleCanaries.                                                    *)
ExpireStaleCanaries ==
  /\ late = <<>> /\ \E v \in Versions : rows[v].canary.result = "green"
  /\ rows' = [v \in Versions |-> IF rows[v].canary.result = "green"
                                 THEN [rows[v] EXCEPT !.canary.result = ""] ELSE rows[v]]
  /\ SaveLater
  /\ UNCHANGED <<tree, pull, head, op, cands, holds, recs, hist, spent>>

(* ExpireHolds: what was held too long is refused.                         *)
ExpireHolds ==
  /\ holds # {} /\ late = <<>>
  /\ rows' = [v \in Versions |-> IF v \in holds THEN Refusal(v) ELSE rows[v]] /\ SaveLater
  /\ holds' = {}
  /\ UNCHANGED <<tree, pull, head, op, cands, recs, hist, spent>>

(* ---------------------------- local promotion ---------------------------- *)

(* Draft: the next version over every row, and a record.                   *)
Draft(body) ==
  /\ ~NameOwnedByRelease /\ Call /\ ~(\E c \in cands : c.body = body)
  /\ MaxVersion + 1 \in Versions
  /\ cands' = cands \cup {[v |-> MaxVersion + 1, body |-> body, state |-> "drafted"]}
  /\ recs' = recs \cup {<<MaxVersion + 1, body>>}
  /\ UNCHANGED <<rows, disk, tree, pull, head, op, holds, late, spent>>

(* Review: a rejected play's content is remembered in the version's row.   *)
Review(c, decision) ==
  /\ c.state = "drafted" /\ late = <<>>
  /\ cands' = (cands \ {c}) \cup {[c EXCEPT !.state = IF decision THEN "reviewed" ELSE "rejected"]}
  /\ IF decision THEN UNCHANGED <<rows, disk, late>>
     ELSE /\ rows' = PutRow(c.v, [rows[c.v] EXCEPT !.rejected = {c.body},
                                  !.state = IF @ = "absent" THEN "blank" ELSE @])
          /\ SaveLater
  /\ UNCHANGED <<tree, pull, head, op, holds, recs, hist, spent>>

(* Promote: signed with the host's key, copied, and then its row.          *)
Promote(c) ==
  /\ op = NoOp /\ c.state = "reviewed" /\ ~RejectedHash(c.body)
  /\ tree' = [tree EXCEPT !["installed"][c.v] = c.body]
  /\ op' = [kind |-> "promote", v |-> c.v, body |-> c.body] /\ cands' = cands \ {c}
  /\ UNCHANGED <<rows, disk, pull, head, holds, recs, late, hist, spent>>

PromoteIndex ==
  /\ op.kind = "promote" /\ late = <<>>
  /\ rows' = PutRow(op.v, RowOf(op, "installed", "installed", "local", [result |-> "green", host |-> "self"]))
  /\ SaveLater /\ op' = NoOp
  /\ UNCHANGED <<tree, pull, head, cands, holds, recs, hist, spent>>

(* ------------------------------ the process ------------------------------ *)

(* New: load, and Reverify of what is installed or pending.  The report of *)
(* a quarantined row refuses it.  A directory that cannot be moved ends    *)
(* the pass before the index is saved, and the boot goes on.               *)
Mismatched ==
  {v \in Versions : LET r == disk.index[v] IN
     r.state \in {"installed", "pending_review"} /\ Artifact(r, v, tree) # r.canon}
Reverified(done) ==
  [v \in Versions |-> IF v \in done THEN [Quarantined(v, disk.index[v]) EXCEPT !.state = "refused"] ELSE disk.index[v]]

Restart ==
  \E done \in SUBSET Mismatched, saved \in BOOLEAN :
    LET clean == done = Mismatched /\ saved
        aside(b, v) == CASE b = "quarantine" -> Artifact(disk.index[v], v, tree)
                         [] b = disk.index[v].dir -> None
                         [] OTHER -> tree[b][v]
    IN
    /\ spent.crashes < MaxCrashes /\ (~clean => Mismatched # {} /\ spent.faults < MaxFaults)
    /\ done # Mismatched => ~saved
    /\ spent' = [crashes |-> spent.crashes + 1, faults |-> IF clean THEN spent.faults ELSE spent.faults + 1]
    /\ rows' = Reverified(done) /\ disk' = IF saved THEN [disk EXCEPT !.index = Reverified(done)] ELSE disk
    /\ tree' = [b \in Buckets |-> [v \in Versions |-> IF v \in done THEN aside(b, v) ELSE tree[b][v]]]
    /\ pull' = [Idle EXCEPT !.last = disk.last] /\ op' = NoOp /\ cands' = {} /\ holds' = {} /\ late' = <<>>
    /\ hist' = [hist EXCEPT !.unsaved = ~clean, !.missed = IF hist.unsaved THEN @ \cup {disk.last} ELSE @]
    /\ UNCHANGED <<head, recs>>

(* The channel publishes its next commit.                                  *)
Publish ==
  /\ head < Len(Releases) /\ head' = head + 1
  /\ UNCHANGED <<rows, disk, tree, pull, op, cands, holds, recs, late, hist, spent>>

(* Somebody changes an installed artifact.                                 *)
Tamper ==
  /\ Fault
  /\ \E v \in Versions : tree["installed"][v] # None /\ tree' = [tree EXCEPT !["installed"][v] = "tampered"]
  /\ UNCHANGED <<rows, disk, pull, head, op, cands, holds, recs, late, hist>>

(* What goes on by itself once it has begun.                               *)
Step == PullOnce \/ Gate \/ InstallRecord \/ InstallMove \/ InstallIndex \/ RetentionPrune \/ MarkPull
-----------------------------------------------------------------------------
(* SPEC-11 9: skills never exist without an audit record: what may run is  *)
(* named, with its bytes, by a record, across failed appends and crashes.  *)
NeverWithoutRecord == \A v \in Runnable : <<v, Artifact(rows[v], v, tree)>> \in recs

(* A commit that counts as pulled left a decision on its artifact, also in *)
(* the index a restart reads, unless index writes overlapped or the last   *)
(* one failed; it may have been pruned for a higher version.               *)
HeadDecided ==
  \A n \in DOMAIN Releases \ hist.missed :
    LET v == IF Defect[Releases[n].body] = "unreadable" THEN 0 ELSE Releases[n].v IN
    n = disk.last /\ ~hist.overlap /\ ~hist.unsaved => \E w \in Versions : w >= v /\ disk.index[w].state # "absent"

(* What may run still may after a restart, unless index writes overlapped  *)
(* or the last one failed.                                                 *)
SettledIsDurable ==
  late = <<>> /\ op = NoOp /\ pull.pc = "idle" /\ ~hist.overlap /\ ~hist.unsaved =>
    \A v \in Runnable : Runs(disk.index[v], v, tree)

(* The channel's newest commit is pulled in the end.                       *)
Pulled == pull.pc = "idle" /\ pull.last = head
=============================================================================
