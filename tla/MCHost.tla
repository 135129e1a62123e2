----------------------------- MODULE MCHost -----------------------------
(* The parts that keep the host and its files in order: compaction, the    *)
(* flow board, the sentinel's groups, upgrades, the stall checker, sensor  *)
(* folds, tool calls and the scrubber; and the operator's side: the        *)
(* configuration a boot resolves, the console's tokens, its door and the   *)
(* autonomy gates.  The scene is chosen at the start and only its          *)
(* component moves.                                                        *)
(* The scene's component keeps its variables in x1, x2, ...; the others   *)
(* stay 0.                                                                   *)
EXTENDS Naturals, Sequences, FiniteSets

VARIABLES scene, x1, x2, x3, x4, x5, x6, x7, x8, x9, x10, x11, x12, x13, x14, x15

vars == <<scene, x1, x2, x3, x4, x5, x6, x7, x8, x9, x10, x11, x12, x13, x14, x15>>

(* Two signatures filed on a board that another tool writes to as well,    *)
(* and an append that fails before, within or after its line.              *)
BoardFails == INSTANCE FlowBoard WITH
  Sigs <- {"a", "b"}, MaxFiles <- 3, MaxForeign <- 1, MaxFaults <- 1,
  MaxCrashes <- 0,
  tasks <- x1, events <- x2, heap <- x3, cur <- x4, file <- x5, proof <- x6,
  hist <- x7, files <- x8, foreign <- x9, faults <- x10, crashes <- x11
InBoardFails(A) == scene = "boardFails" /\ A /\ UNCHANGED <<scene, x12, x13, x14, x15>>
BoardFailsInit == scene = "boardFails" /\ BoardFails!Init
  /\ x12 = 0 /\ x13 = 0 /\ x14 = 0 /\ x15 = 0
BoardFailsNext ==
  \/ \E s \in {"a", "b"} : InBoardFails(BoardFails!SigRow(s))
  \/ \E s \in {"a", "b"} : InBoardFails(BoardFails!File(s))
  \/ InBoardFails(BoardFails!Other)

(* The same with a restart in place of the failure.                        *)
BoardStarts == INSTANCE FlowBoard WITH
  Sigs <- {"a", "b"}, MaxFiles <- 3, MaxForeign <- 1, MaxFaults <- 0,
  MaxCrashes <- 1,
  tasks <- x1, events <- x2, heap <- x3, cur <- x4, file <- x5, proof <- x6,
  hist <- x7, files <- x8, foreign <- x9, faults <- x10, crashes <- x11
InBoardStarts(A) == scene = "boardStarts" /\ A /\ UNCHANGED <<scene, x12, x13, x14, x15>>
BoardStartsInit == scene = "boardStarts" /\ BoardStarts!Init
  /\ x12 = 0 /\ x13 = 0 /\ x14 = 0 /\ x15 = 0
BoardStartsNext ==
  \/ \E s \in {"a", "b"} : InBoardStarts(BoardStarts!SigRow(s))
  \/ \E s \in {"a", "b"} : InBoardStarts(BoardStarts!File(s))
  \/ InBoardStarts(BoardStarts!Probe)
  \/ InBoardStarts(BoardStarts!Stale)
  \/ InBoardStarts(BoardStarts!Other)
  \/ InBoardStarts(BoardStarts!Restart)

(* Two requests on one group, sampled, and a restart.                      *)
SentGroups == INSTANCE SentinelIngest WITH
  Reqs <- {"r1", "r2"}, Envelopes <- {}, Stores <- {"e1"}, Policies <-
  {"sample"}, Rels <- {FALSE}, Quota <- 3, SpoolMax <- 1, MaxTries <- 2,
  MaxFaults <- 0, MaxCrashes <- 1,
  policy <- x1, log <- x2, grp <- x3, dups <- x4, fold <- x5, used <- x6,
  spool <- x7, torn <- x8, req <- x9, late <- x10, flush <- x11, hist <-
  x12, tries <- x13, faults <- x14, crashes <- x15
InSentGroups(A) == scene = "sentGroups" /\ A /\ UNCHANGED <<scene>>
SentGroupsInit == scene = "sentGroups" /\ SentGroups!Init
SentGroupsNext ==
  \/ \E p \in {"r1", "r2"} : InSentGroups(SentGroups!HandleStore(p))
  \/ \E p \in {"r1", "r2"} : InSentGroups(SentGroups!HandleGeneric(p))
  \/ \E p \in {"r1", "r2", "replay"} : InSentGroups(SentGroups!Admit(p))
  \/ \E p \in {"r1", "r2", "replay"} : InSentGroups(SentGroups!FoldGenericGroup(p))
  \/ \E p \in {"r1", "r2", "replay"} : InSentGroups(SentGroups!QuotaAdmit(p))
  \/ \E p \in {"r1", "r2", "replay"} : InSentGroups(SentGroups!Draft(p))
  \/ \E p \in {"r1", "r2", "replay"} : InSentGroups(SentGroups!AppendBatch(p))
  \/ \E p \in {"r1", "r2", "replay"} : InSentGroups(SentGroups!AfterBatch(p))
  \/ InSentGroups(SentGroups!Turn)
  \/ InSentGroups(SentGroups!Forget)
  \/ InSentGroups(SentGroups!Restart)

(* An envelope over quota whose project drops or samples, and a failing    *)
(* append.                                                                 *)
SentLoss == INSTANCE SentinelIngest WITH
  Reqs <- {"r1"}, Envelopes <- {<<"e1", "e2">>}, Stores <- {}, Policies <-
  {"drop", "sample"}, Rels <- {TRUE}, Quota <- 1, SpoolMax <- 1, MaxTries <-
  2, MaxFaults <- 1, MaxCrashes <- 0,
  policy <- x1, log <- x2, grp <- x3, dups <- x4, fold <- x5, used <- x6,
  spool <- x7, torn <- x8, req <- x9, late <- x10, flush <- x11, hist <-
  x12, tries <- x13, faults <- x14, crashes <- x15
InSentLoss(A) == scene = "sentLoss" /\ A /\ UNCHANGED <<scene>>
SentLossInit == scene = "sentLoss" /\ SentLoss!Init
SentLossNext ==
  \/ \E p \in {"r1"} : InSentLoss(SentLoss!HandleEnvelope(p))
  \/ \E p \in {"r1", "replay"} : InSentLoss(SentLoss!Admit(p))
  \/ \E p \in {"r1", "replay"} : InSentLoss(SentLoss!QuotaAdmit(p))
  \/ \E p \in {"r1", "replay"} : InSentLoss(SentLoss!RecordLoss(p))
  \/ \E p \in {"r1", "replay"} : InSentLoss(SentLoss!Draft(p))
  \/ \E p \in {"r1", "replay"} : InSentLoss(SentLoss!AppendBatch(p))
  \/ \E p \in {"r1", "replay"} : InSentLoss(SentLoss!AfterBatch(p))
  \/ InSentLoss(SentLoss!LandsLate)
  \/ InSentLoss(SentLoss!FlushGroups)
  \/ InSentLoss(SentLoss!Turn)
  \/ InSentLoss(SentLoss!Forget)

(* A day of three lines in two parts, compacted twice, with a crash or a   *)
(* failing call.                                                           *)
Compact == INSTANCE LedgerCompaction WITH
  Groups <- {"g1", "g2"}, MaxSeq <- 3, SnapCounts <- {}, MaxGen <- 2,
  MaxFaults <- 1,
  disk <- x1, pending <- x2, idx <- x3, comp <- x4, cut <- x5, day <- x6,
  expired <- x7, faults <- x8
InCompact(A) == scene = "compact" /\ A /\ UNCHANGED <<scene, x9, x10, x11, x12, x13, x14, x15>>
CompactInit == scene = "compact" /\ Compact!Init
  /\ x9 = 0 /\ x10 = 0 /\ x11 = 0 /\ x12 = 0 /\ x13 = 0 /\ x14 = 0 /\ x15 = 0
CompactNext ==
  \/ \E c \in 1..4 : InCompact(Compact!Age(c))
  \/ InCompact(\E f \in x4.left : Compact!Unlink(f))
  \/ InCompact(Compact!Start)
  \/ InCompact(Compact!StartFails)
  \/ InCompact(Compact!Rename)
  \/ InCompact(Compact!SyncDir)
  \/ InCompact(Compact!SyncDirFails)
  \/ InCompact(Compact!Replace)
  \/ InCompact(Compact!Expire)
  \/ InCompact(Compact!Crash)
  \/ InCompact(Compact!Recover)

(* Three runs of the upgrade recipe, one build of which never gets ready.  *)
Upgr == INSTANCE Upgrade WITH
  Builds <- {"v1", "v2", "v3"}, Bad <- {"v3"}, Requests <- {"v2", "v3"},
  RestartUnits <- {TRUE, FALSE}, RollbackDepth <- 2, MaxRuns <- 3, MaxFaults
  <- 2,
  live <- x1, staged <- x2, backups <- x3, unit <- x4, tool <- x5, runs <- x6,
  faults <- x7
InUpgr(A) == scene = "upgr" /\ A /\ UNCHANGED <<scene, x8, x9, x10, x11, x12, x13, x14, x15>>
UpgrInit == scene = "upgr" /\ Upgr!Init
  /\ x8 = 0 /\ x9 = 0 /\ x10 = 0 /\ x11 = 0 /\ x12 = 0 /\ x13 = 0 /\ x14 = 0 /\
  x15 = 0
UpgrNext ==
  \/ \E b \in {"v2", "v3"} : InUpgr(Upgr!RunUpgrade(b))
  \/ InUpgr(Upgr!Rollback)
  \/ InUpgr(Upgr!Stage)
  \/ InUpgr(Upgr!Park)
  \/ InUpgr(Upgr!WriteBackup)
  \/ InUpgr(Upgr!Rename)
  \/ InUpgr(Upgr!Restart)
  \/ InUpgr(Upgr!WaitForReady)
  \/ InUpgr(Upgr!Kill)
  \/ InUpgr(Upgr!Systemd)

(* The daemon's heartbeat and the stall checker over sixteen ticks, time   *)
(* enough for the whole bound after a check of its own that failed.        *)
Stall == INSTANCE StallWatch WITH
  BeatInterval <- 1, IdleInterval <- 2, MaxSeqAge <- 4, Interval <- 2,
  ConfirmRuns <- 2, MaxTime <- 13, MaxRecords <- 1, MaxFaults <- 2,
  now <- x1, log <- x2, dmn <- x3, beat <- x4, chk <- x5, out <- x6, made <-
  x7, since <- x8, faults <- x9
InStall(A) == scene = "stall" /\ A /\ UNCHANGED <<scene, x10, x11, x12, x13, x14, x15>>
StallInit == scene = "stall" /\ Stall!Init
  /\ x10 = 0 /\ x11 = 0 /\ x12 = 0 /\ x13 = 0 /\ x14 = 0 /\ x15 = 0
StallNext ==
  \/ InStall(Stall!Tick)
  \/ InStall(Stall!AppendRecord)
  \/ InStall(Stall!Beat)
  \/ InStall(Stall!StallCheck)
  \/ InStall(Stall!WriterStops)
  \/ InStall(Stall!BeatFails)
  \/ InStall(Stall!DashboardFlips)
  \/ InStall(Stall!Dies)
  \/ InStall(Stall!FilesLost)

(* Two sensors fold into a table of one.                                   *)
Fold == INSTANCE SensorFold WITH
  Procs <- {"psi", "disk"}, MaxFolds <- 1, Window <- 1, StaleAfter <- 0,
  MaxTime <- 1, MaxEvents <- 3, MaxFaults <- 1,
  now <- x1, open <- x2, proc <- x3, wrote <- x4, seen <- x5, lost <- x6,
  sensor <- x7, gaps <- x8, stopped <- x9, spent <- x10
InFold(A) == scene = "fold" /\ A /\ UNCHANGED <<scene, x11, x12, x13, x14, x15>>
FoldInit == scene = "fold" /\ Fold!Init
  /\ x11 = 0 /\ x12 = 0 /\ x13 = 0 /\ x14 = 0 /\ x15 = 0
FoldNext ==
  \/ InFold(Fold!Tick)
  \/ InFold(Fold!ClearReasons)
  \/ InFold(Fold!Stop)
  \/ \E p \in {"psi", "disk"} : InFold(Fold!HandleEvent(p))
  \/ \E p \in {"psi", "disk"} : InFold(Fold!Emit(p))
  \/ \E p \in {"psi", "disk"} : InFold(Fold!Observe(p))
  \/ \E p \in {"psi", "disk"} : InFold(Fold!Fires(p))
  \/ \E p \in {"psi", "disk"} : InFold(Fold!Done(p))
  \/ \E p \in {"psi", "disk"} : InFold(Fold!Source(p))
  \/ \E p \in {"psi", "disk"} : InFold(Fold!LivenessCheck(p))

(* Two incidents run plays on one file, under two names, and one unit; a   *)
(* call fails.                                                             *)
ToolsFail == INSTANCE ToolCalls WITH
  Plays <- [i1 |-> <<[tool |-> "config.set", at |-> "link", from |-> "", to
  |-> "b", retries |-> 0, onfail |-> "continue"], [tool |->
  "service.restart", at |-> "unit", from |-> "", to |-> "", retries |-> 1,
  onfail |-> "abort"]>>, i2 |-> <<[tool |-> "file.patch", at |-> "file",
  from |-> "a", to |-> "c", retries |-> 0, onfail |-> "rollback"]>>], Modes
  <- {"full", "shadow"}, DoNotTouch <- {}, Granted <- {"config.set",
  "file.patch", "service.restart"}, Keep <- 1, MaxEdits <- 1, MaxFaults <-
  1, MaxCrashes <- 0,
  call <- x1, file <- x2, edits <- x3, backups <- x4, pid <- x5, before <- x6,
  lock <- x7, idem <- x8, gates <- x9, intents <- x10, touched <- x11, jobs
  <- x12, spent <- x13
InToolsFail(A) == scene = "toolsFail" /\ A /\ UNCHANGED <<scene, x14, x15>>
ToolsFailInit == scene = "toolsFail" /\ ToolsFail!Init
  /\ x14 = 0 /\ x15 = 0
ToolsFailNext ==
  \/ InToolsFail(ToolsFail!SetGates)
  \/ InToolsFail(ToolsFail!EditFile)
  \/ \E c \in {"i1", "i2"} : InToolsFail(ToolsFail!Authorize(c))
  \/ \E c \in {"i1", "i2"} : InToolsFail(ToolsFail!ResolveTarget(c))
  \/ \E c \in {"i1", "i2"} : InToolsFail(ToolsFail!LockTargets(c))
  \/ \E c \in {"i1", "i2"} : InToolsFail(ToolsFail!Check(c))
  \/ \E c \in {"i1", "i2"} : InToolsFail(ToolsFail!Intent(c))
  \/ \E c \in {"i1", "i2"} : InToolsFail(ToolsFail!ApplyOrSkip(c))
  \/ \E c \in {"i1", "i2"} : InToolsFail(ToolsFail!Apply(c))
  \/ \E c \in {"i1", "i2"} : InToolsFail(ToolsFail!Verify(c))
  \/ \E c \in {"i1", "i2"} : InToolsFail(ToolsFail!Finish(c))

(* Two incidents write through the link, twice the second one; a restart   *)
(* in place of the failure.                                                *)
ToolsStart == INSTANCE ToolCalls WITH
  Plays <- [i1 |-> <<[tool |-> "config.set", at |-> "link", from |-> "", to
  |-> "b", retries |-> 0, onfail |-> "continue"], [tool |->
  "service.restart", at |-> "unit", from |-> "", to |-> "", retries |-> 1,
  onfail |-> "abort"]>>, i2 |-> <<[tool |-> "config.set", at |-> "link",
  from |-> "", to |-> "c", retries |-> 0, onfail |-> "continue"], [tool |->
  "file.patch", at |-> "link", from |-> "c", to |-> "d", retries |-> 0,
  onfail |-> "rollback"]>>], Modes <- {"full"}, DoNotTouch <- {}, Granted <-
  {"config.set", "file.patch", "service.restart"}, Keep <- 1, MaxEdits <- 0,
  MaxFaults <- 0, MaxCrashes <- 1,
  call <- x1, file <- x2, edits <- x3, backups <- x4, pid <- x5, before <- x6,
  lock <- x7, idem <- x8, gates <- x9, intents <- x10, touched <- x11, jobs
  <- x12, spent <- x13
InToolsStart(A) == scene = "toolsStart" /\ A /\ UNCHANGED <<scene, x14, x15>>
ToolsStartInit == scene = "toolsStart" /\ ToolsStart!Init
  /\ x14 = 0 /\ x15 = 0
ToolsStartNext ==
  \/ InToolsStart(ToolsStart!Restart)
  \/ \E c \in {"i1", "i2"} : InToolsStart(ToolsStart!Authorize(c))
  \/ \E c \in {"i1", "i2"} : InToolsStart(ToolsStart!ResolveTarget(c))
  \/ \E c \in {"i1", "i2"} : InToolsStart(ToolsStart!LockTargets(c))
  \/ \E c \in {"i1", "i2"} : InToolsStart(ToolsStart!Check(c))
  \/ \E c \in {"i1", "i2"} : InToolsStart(ToolsStart!Intent(c))
  \/ \E c \in {"i1", "i2"} : InToolsStart(ToolsStart!ApplyOrSkip(c))
  \/ \E c \in {"i1", "i2"} : InToolsStart(ToolsStart!Apply(c))
  \/ \E c \in {"i1", "i2"} : InToolsStart(ToolsStart!Verify(c))
  \/ \E c \in {"i1", "i2"} : InToolsStart(ToolsStart!Finish(c))

(* Two requests and a rotation on one file.                                *)
TokShared == INSTANCE TokenStore WITH
  Requests <- {"r1", "r2"}, Commands <- {"c1"}, NextLabel <- [l \in {"a", "b"}
  |-> IF l = "a" THEN "b" ELSE "c"], Initial <- <<"a", "b">>, MaxWrites <- 3,
  file <- x1, cur <- x2, refused <- x3, noted <- x4, req <- x5, cmd <- x6,
  minted <- x7, told <- x8, lost <- x9
InTokShared(A) == scene = "tokShared" /\ A /\ UNCHANGED <<scene, x10, x11, x12, x13, x14, x15>>
TokSharedInit == scene = "tokShared" /\ TokShared!Init
  /\ x10 = 0 /\ x11 = 0 /\ x12 = 0 /\ x13 = 0 /\ x14 = 0 /\ x15 = 0
TokSharedNext ==
  \/ \E r \in {"r1", "r2"}, h \in 1..2 : InTokShared(TokShared!Arrive(r, h))
  \/ \E r \in {"r1", "r2"} : InTokShared(TokShared!RefreshSeen(r))
  \/ \E r \in {"r1", "r2"} : InTokShared(TokShared!Lookup(r))
  \/ \E r \in {"r1", "r2"} : InTokShared(TokShared!MarkUsed(r))
  \/ \E r \in {"r1", "r2"} : InTokShared(TokShared!MarkStore(r))
  \/ \E r \in {"r1", "r2"} : InTokShared(TokShared!SaveLoad(r))
  \/ \E r \in {"r1", "r2"} : InTokShared(TokShared!SaveRead(r))
  \/ \E r \in {"r1", "r2"} : InTokShared(TokShared!Reject(r))
  \/ \E r \in {"r1", "r2"}, ok \in BOOLEAN : InTokShared(TokShared!SaveRename(r, ok))
  \/ \E c \in {"c1"} : InTokShared(TokShared!ReadBack(c))
  \/ \E c \in {"c1"} : InTokShared(TokShared!Rewrite(c))
  \/ \E c \in {"c1"} : InTokShared(TokShared!Reload(c))
  \/ \E c \in {"c1"} : InTokShared(TokShared!Conclude(c))
  \/ \E c \in {"c1"}, verb \in {"rotate"}, l \in {"a"} : InTokShared(TokShared!Begin(c, verb, l))

(* A daemon booted without a file, two token commands, an operator who     *)
(* removes the file.                                                       *)
TokBoot == INSTANCE TokenStore WITH
  Requests <- {"r1"}, Commands <- {"c1", "c2"}, NextLabel <- [l \in {"a", "b"}
  |-> IF l = "a" THEN "b" ELSE "c"], Initial <- <<>>, MaxWrites <- 3,
  file <- x1, cur <- x2, refused <- x3, noted <- x4, req <- x5, cmd <- x6,
  minted <- x7, told <- x8, lost <- x9
InTokBoot(A) == scene = "tokBoot" /\ A /\ UNCHANGED <<scene, x10, x11, x12, x13, x14, x15>>
TokBootInit == scene = "tokBoot" /\ TokBoot!Init
  /\ x10 = 0 /\ x11 = 0 /\ x12 = 0 /\ x13 = 0 /\ x14 = 0 /\ x15 = 0
TokBootNext ==
  \/ \E r \in {"r1"}, h \in 1..2 : InTokBoot(TokBoot!Arrive(r, h))
  \/ \E r \in {"r1"} : InTokBoot(TokBoot!RefreshGone(r))
  \/ \E r \in {"r1"} : InTokBoot(TokBoot!RefreshSeen(r))
  \/ \E r \in {"r1"} : InTokBoot(TokBoot!Lookup(r))
  \/ \E r \in {"r1"} : InTokBoot(TokBoot!MarkUsed(r))
  \/ \E r \in {"r1"} : InTokBoot(TokBoot!MarkStore(r))
  \/ \E r \in {"r1"} : InTokBoot(TokBoot!SaveLoad(r))
  \/ \E r \in {"r1"} : InTokBoot(TokBoot!SaveRead(r))
  \/ \E r \in {"r1"} : InTokBoot(TokBoot!Reject(r))
  \/ \E r \in {"r1"}, ok \in BOOLEAN : InTokBoot(TokBoot!SaveRename(r, ok))
  \/ InTokBoot(\E l \in x4 : TokBoot!Forget(l))
  \/ \E c \in {"c1", "c2"} : InTokBoot(TokBoot!ReadBack(c))
  \/ \E c \in {"c1", "c2"} : InTokBoot(TokBoot!Rewrite(c))
  \/ \E c \in {"c1", "c2"} : InTokBoot(TokBoot!Reload(c))
  \/ \E c \in {"c1", "c2"} : InTokBoot(TokBoot!Conclude(c))
  \/ \E c \in {"c1", "c2"}, verb \in {"create", "rotate", "revoke"}, l \in {"a"} : InTokBoot(TokBoot!Begin(c, verb, l))
  \/ InTokBoot(TokBoot!Delete)

(* Good and bad credentials behind one address, two requests at a time.    *)
AuthFails == INSTANCE ConsoleAuth WITH
  Requests <- {"q1", "q2"}, Creds <- {"good", "weak", "bad"}, Scopes <- [c \in
  {"good", "weak"} |-> IF c = "good" THEN {"read", "write"} ELSE {"read"}],
  Addresses <- {"p"}, Loopback <- TRUE, FailLimit <- 1, FailWindow <- 2,
  ReadRate <- 1, ReadBurst <- 1, WriteRate <- 1, WriteBurst <- 1, Idle <- 1,
  MaxTime <- 2, MaxRequests <- 4, MaxReaps <- 0,
  now <- x1, fails <- x2, block <- x3, buckets <- x4, req <- x5, touched <-
  x6, raced <- x7, spare <- x8, n <- x9, reaps <- x10, answers <- x11, last
  <- x12
InAuthFails(A) == scene = "authFails" /\ A /\ UNCHANGED <<scene, x13, x14, x15>>
AuthFailsInit == scene = "authFails" /\ AuthFails!Init
  /\ x13 = 0 /\ x14 = 0 /\ x15 = 0
AuthFailsNext ==
  \/ InAuthFails(AuthFails!Tick)
  \/ \E q \in {"q1", "q2"}, c \in {"bad"}, route \in {"page", "health"} : InAuthFails(AuthFails!Arrive(q, c, "p", route))
  \/ \E q \in {"q1", "q2"} : InAuthFails(AuthFails!Arrive(q, "weak", "p", "write"))
  \/ \E q \in {"q1", "q2"} : InAuthFails(AuthFails!Arrive(q, "none", "p", "page"))
  \/ \E q \in {"q1", "q2"} : InAuthFails(AuthFails!Ask(q))
  \/ \E q \in {"q1", "q2"} : InAuthFails(AuthFails!Fail(q))
  \/ \E q \in {"q1", "q2"} : InAuthFails(AuthFails!Succeed(q))

(* Two tokens that share an address, read and write, while buckets are     *)
(* made and reaped.                                                        *)
AuthPace == INSTANCE ConsoleAuth WITH
  Requests <- {"q1", "q2"}, Creds <- {"good", "weak"}, Scopes <- [c \in
  {"good", "weak"} |-> IF c = "good" THEN {"read", "write"} ELSE {"read"}],
  Addresses <- {"p"}, Loopback <- TRUE, FailLimit <- 1, FailWindow <- 2,
  ReadRate <- 1, ReadBurst <- 1, WriteRate <- 1, WriteBurst <- 1, Idle <- 1,
  MaxTime <- 2, MaxRequests <- 3, MaxReaps <- 1,
  now <- x1, fails <- x2, block <- x3, buckets <- x4, req <- x5, touched <-
  x6, raced <- x7, spare <- x8, n <- x9, reaps <- x10, answers <- x11, last
  <- x12
InAuthPace(A) == scene = "authPace" /\ A /\ UNCHANGED <<scene, x13, x14, x15>>
AuthPaceInit == scene = "authPace" /\ AuthPace!Init
  /\ x13 = 0 /\ x14 = 0 /\ x15 = 0
AuthPaceNext ==
  \/ InAuthPace(AuthPace!Tick)
  \/ \E q \in {"q1", "q2"}, c \in {"weak"}, route \in {"page"} : InAuthPace(AuthPace!Arrive(q, c, "p", route))
  \/ \E q \in {"q1", "q2"} : InAuthPace(AuthPace!Arrive(q, "good", "p", "write"))
  \/ \E q \in {"q1", "q2"} : InAuthPace(AuthPace!Ask(q))
  \/ \E q \in {"q1", "q2"} : InAuthPace(AuthPace!Succeed(q))
  \/ \E q \in {"q1", "q2"} : InAuthPace(AuthPace!Take(q))
  \/ \E q \in {"q1", "q2"}, reap \in BOOLEAN : InAuthPace(AuthPace!Look(q, reap))

(* Two posts at once; the kill switch may not be cleared.                  *)
GatesKept == INSTANCE AutonomyGates WITH
  Posts <- {"p", "q"}, Bodies <- {[mode |-> "full", kill |-> "", grants |->
  ""], [mode |-> "assisted", kill |-> "", grants |-> "g"], [mode |-> "",
  kill |-> "on", grants |-> ""], [mode |-> "", kill |-> "off", grants |->
  ""]}, AllowFull <- FALSE, AllowResume <- FALSE, Configured <- [mode |->
  "shadow", kill |-> FALSE, grants |-> "none"], MaxPosts <- 3, MaxFails <-
  1, MaxBoots <- 1,
  gate <- x1, post <- x2, ledger <- x3, armed <- x4, clash <- x5, count <- x6
InGatesKept(A) == scene = "gatesKept" /\ A /\ UNCHANGED <<scene, x7, x8, x9, x10, x11, x12, x13, x14, x15>>
GatesKeptInit == scene = "gatesKept" /\ GatesKept!Init
  /\ x7 = 0 /\ x8 = 0 /\ x9 = 0 /\ x10 = 0 /\ x11 = 0 /\ x12 = 0 /\ x13 = 0 /\
  x14 = 0 /\ x15 = 0
GatesKeptNext ==
  \/ \E p \in {"p", "q"}, b \in {[mode |-> "full", kill |-> "", grants |-> ""], [mode |-> "assisted", kill |-> "", grants |-> "g"], [mode |-> "", kill |-> "on", grants |-> ""], [mode |-> "", kill |-> "off", grants |-> ""]} : InGatesKept(GatesKept!Read(p, b))
  \/ \E p \in {"p", "q"}, ok \in BOOLEAN : InGatesKept(GatesKept!Record(p, ok))
  \/ \E p \in {"p", "q"} : InGatesKept(GatesKept!Apply(p))
  \/ \E p \in {"p", "q"}, ok \in BOOLEAN : InGatesKept(GatesKept!Note(p, ok))
  \/ InGatesKept(GatesKept!Restart)

(* Two posts at once; the kill switch may be cleared.                      *)
GatesResume == INSTANCE AutonomyGates WITH
  Posts <- {"p", "q"}, Bodies <- {[mode |-> "full", kill |-> "", grants |->
  ""], [mode |-> "assisted", kill |-> "", grants |-> "g"], [mode |-> "",
  kill |-> "on", grants |-> ""], [mode |-> "", kill |-> "off", grants |->
  ""]}, AllowFull <- FALSE, AllowResume <- TRUE, Configured <- [mode |->
  "shadow", kill |-> FALSE, grants |-> "none"], MaxPosts <- 3, MaxFails <-
  1, MaxBoots <- 1,
  gate <- x1, post <- x2, ledger <- x3, armed <- x4, clash <- x5, count <- x6
InGatesResume(A) == scene = "gatesResume" /\ A /\ UNCHANGED <<scene, x7, x8, x9, x10, x11, x12, x13, x14, x15>>
GatesResumeInit == scene = "gatesResume" /\ GatesResume!Init
  /\ x7 = 0 /\ x8 = 0 /\ x9 = 0 /\ x10 = 0 /\ x11 = 0 /\ x12 = 0 /\ x13 = 0 /\
  x14 = 0 /\ x15 = 0
GatesResumeNext ==
  \/ \E p \in {"p", "q"}, b \in {[mode |-> "full", kill |-> "", grants |-> ""], [mode |-> "assisted", kill |-> "", grants |-> "g"], [mode |-> "", kill |-> "on", grants |-> ""], [mode |-> "", kill |-> "off", grants |-> ""]} : InGatesResume(GatesResume!Read(p, b))
  \/ \E p \in {"p", "q"}, ok \in BOOLEAN : InGatesResume(GatesResume!Record(p, ok))
  \/ \E p \in {"p", "q"} : InGatesResume(GatesResume!Apply(p))
  \/ \E p \in {"p", "q"}, ok \in BOOLEAN : InGatesResume(GatesResume!Note(p, ok))
  \/ InGatesResume(GatesResume!Restart)

(* Three words of argv, one line and one variable.                         *)
CfgArgs == INSTANCE ConfigResolve WITH
  Kind <- [k \in {<<"state_root">>, <<"lifecycle", "heartbeat_path">>,
  <<"dashboard", "token_file">>, <<"sensors", "psi", "enabled">>,
  <<"issues">>, <<"projects">>} |-> CASE k = <<"issues">> -> "table" [] k =
  <<"projects">> -> "rows" [] k = <<"sensors", "psi", "enabled">> -> "bool"
  [] OTHER -> "path"], Default <- [k \in {<<"state_root">>, <<"lifecycle",
  "heartbeat_path">>, <<"dashboard", "token_file">>, <<"sensors", "psi",
  "enabled">>, <<"issues">>, <<"projects">>} |-> IF k = <<"sensors", "psi",
  "enabled">> THEN [t |-> "bool", s |-> "true"] ELSE [t |-> "str", s |-> IF
  k = <<"state_root">> THEN "/var" ELSE IF k = <<"dashboard", "token_file">>
  THEN "/tok" ELSE ""]], Undash <- [x \in {"a-b"} |-> "a.b"], AtHome <- [x
  \in {"~/x"} |-> "/home/x"], Words <- {[form |-> "pair", key |->
  <<"state_root">>, val |-> "a-b"], [form |-> "pair", key |->
  <<"state_root">>, val |-> "b"], [form |-> "bare", key |->
  <<"state_root">>, val |-> ""], [form |-> "plain", key |-> <<>>, val |->
  "b"], [form |-> "pair", key |-> <<"sensors", "psi", "enabled">>, val |->
  "1"], [form |-> "pair", key |-> <<"nope">>, val |-> "b"], [form |-> "own",
  key |-> <<>>, val |-> ""], [form |-> "wait", key |-> <<>>, val |-> ""],
  [form |-> "short", key |-> <<>>, val |-> ""]}, Lines <- {[form |-> "key",
  name |-> <<"state_root">>, val |-> "c", quoted |-> TRUE, list |-> FALSE],
  [form |-> "key", name |-> <<"lifecycle", "heartbeat_path">>, val |-> "h",
  quoted |-> TRUE, list |-> FALSE], [form |-> "key", name |-> <<"sensors",
  "psi", "enabled">>, val |-> "false", quoted |-> FALSE, list |-> FALSE]},
  Vars <- {[key |-> <<"state_root">>, val |-> "~/x"], [key |-> <<"sensors",
  "psi", "enabled">>, val |-> "junk"], [key |-> <<"nope">>, val |-> "b"]},
  MaxWords <- 3, MaxLines <- 1, MaxVars <- 1,
  stage <- x1, argv <- x2, wait <- x3, keys <- x4, text <- x5, toml <- x6, env
  <- x7, layers <- x8, config <- x9, explain <- x10, conflicts <- x11
InCfgArgs(A) == scene = "cfgArgs" /\ A /\ UNCHANGED <<scene, x12, x13, x14, x15>>
CfgArgsInit == scene = "cfgArgs" /\ CfgArgs!Init
  /\ x12 = 0 /\ x13 = 0 /\ x14 = 0 /\ x15 = 0
CfgArgsNext ==
  \/ \E w \in {[form |-> "pair", key |-> <<"state_root">>, val |-> "a-b"], [form |-> "pair", key |-> <<"state_root">>, val |-> "b"], [form |-> "bare", key |-> <<"state_root">>, val |-> ""], [form |-> "plain", key |-> <<>>, val |-> "b"], [form |-> "pair", key |-> <<"sensors", "psi", "enabled">>, val |-> "1"], [form |-> "pair", key |-> <<"nope">>, val |-> "b"], [form |-> "own", key |-> <<>>, val |-> ""], [form |-> "wait", key |-> <<>>, val |-> ""], [form |-> "short", key |-> <<>>, val |-> ""]} : InCfgArgs(CfgArgs!Word(w))
  \/ InCfgArgs(CfgArgs!EndArgv)
  \/ \E l \in {[form |-> "key", name |-> <<"state_root">>, val |-> "c", quoted |-> TRUE, list |-> FALSE], [form |-> "key", name |-> <<"lifecycle", "heartbeat_path">>, val |-> "h", quoted |-> TRUE, list |-> FALSE], [form |-> "key", name |-> <<"sensors", "psi", "enabled">>, val |-> "false", quoted |-> FALSE, list |-> FALSE]} : InCfgArgs(CfgArgs!ReadLine(l))
  \/ InCfgArgs(CfgArgs!EndFile)
  \/ \E e \in {[key |-> <<"state_root">>, val |-> "~/x"], [key |-> <<"sensors", "psi", "enabled">>, val |-> "junk"], [key |-> <<"nope">>, val |-> "b"]} : InCfgArgs(CfgArgs!ReadEnv(e))
  \/ InCfgArgs(CfgArgs!EndEnv)
  \/ InCfgArgs(CfgArgs!ParseArgs)
  \/ InCfgArgs(CfgArgs!Overlay)

(* A file of four lines, tables and lists of tables among them.            *)
CfgFile == INSTANCE ConfigResolve WITH
  Kind <- [k \in {<<"state_root">>, <<"lifecycle", "heartbeat_path">>,
  <<"dashboard", "token_file">>, <<"sensors", "psi", "enabled">>,
  <<"issues">>, <<"projects">>} |-> CASE k = <<"issues">> -> "table" [] k =
  <<"projects">> -> "rows" [] k = <<"sensors", "psi", "enabled">> -> "bool"
  [] OTHER -> "path"], Default <- [k \in {<<"state_root">>, <<"lifecycle",
  "heartbeat_path">>, <<"dashboard", "token_file">>, <<"sensors", "psi",
  "enabled">>, <<"issues">>, <<"projects">>} |-> IF k = <<"sensors", "psi",
  "enabled">> THEN [t |-> "bool", s |-> "true"] ELSE [t |-> "str", s |-> IF
  k = <<"state_root">> THEN "/var" ELSE IF k = <<"dashboard", "token_file">>
  THEN "/tok" ELSE ""]], Undash <- [x \in {"a-b"} |-> "a.b"], AtHome <- [x
  \in {"~/x"} |-> "/home/x"], Words <- {[form |-> "pair", key |->
  <<"state_root">>, val |-> "b"]}, Lines <- {[form |-> "key", name |->
  <<"state_root">>, val |-> "c", quoted |-> TRUE, list |-> FALSE], [form |->
  "key", name |-> <<"url">>, val |-> "c", quoted |-> TRUE, list |-> FALSE],
  [form |-> "key", name |-> <<"issues", "url">>, val |-> "c", quoted |->
  TRUE, list |-> FALSE], [form |-> "key", name |-> <<"enabled">>, val |->
  "false", quoted |-> FALSE, list |-> FALSE], [form |-> "table", name |->
  <<"issues">>, val |-> "", quoted |-> FALSE, list |-> FALSE], [form |->
  "table", name |-> <<"sensors", "psi">>, val |-> "", quoted |-> FALSE, list
  |-> FALSE], [form |-> "table", name |-> <<"sensors">>, val |-> "", quoted
  |-> FALSE, list |-> FALSE], [form |-> "rows", name |-> <<"projects">>, val
  |-> "", quoted |-> FALSE, list |-> FALSE], [form |-> "rows", name |->
  <<"issues", "routes">>, val |-> "", quoted |-> FALSE, list |-> FALSE]},
  Vars <- {[key |-> <<"state_root">>, val |-> "c"], [key |-> <<"issues">>,
  val |-> "on"]}, MaxWords <- 1, MaxLines <- 4, MaxVars <- 1,
  stage <- x1, argv <- x2, wait <- x3, keys <- x4, text <- x5, toml <- x6, env
  <- x7, layers <- x8, config <- x9, explain <- x10, conflicts <- x11
InCfgFile(A) == scene = "cfgFile" /\ A /\ UNCHANGED <<scene, x12, x13, x14, x15>>
CfgFileInit == scene = "cfgFile" /\ CfgFile!Init
  /\ x12 = 0 /\ x13 = 0 /\ x14 = 0 /\ x15 = 0
CfgFileNext ==
  \/ \E w \in {[form |-> "pair", key |-> <<"state_root">>, val |-> "b"]} : InCfgFile(CfgFile!Word(w))
  \/ InCfgFile(CfgFile!EndArgv)
  \/ \E l \in {[form |-> "key", name |-> <<"state_root">>, val |-> "c", quoted |-> TRUE, list |-> FALSE], [form |-> "key", name |-> <<"url">>, val |-> "c", quoted |-> TRUE, list |-> FALSE], [form |-> "key", name |-> <<"issues", "url">>, val |-> "c", quoted |-> TRUE, list |-> FALSE], [form |-> "key", name |-> <<"enabled">>, val |-> "false", quoted |-> FALSE, list |-> FALSE], [form |-> "table", name |-> <<"issues">>, val |-> "", quoted |-> FALSE, list |-> FALSE], [form |-> "table", name |-> <<"sensors", "psi">>, val |-> "", quoted |-> FALSE, list |-> FALSE], [form |-> "table", name |-> <<"sensors">>, val |-> "", quoted |-> FALSE, list |-> FALSE], [form |-> "rows", name |-> <<"projects">>, val |-> "", quoted |-> FALSE, list |-> FALSE], [form |-> "rows", name |-> <<"issues", "routes">>, val |-> "", quoted |-> FALSE, list |-> FALSE]} : InCfgFile(CfgFile!ReadLine(l))
  \/ InCfgFile(CfgFile!EndFile)
  \/ \E e \in {[key |-> <<"state_root">>, val |-> "c"], [key |-> <<"issues">>, val |-> "on"]} : InCfgFile(CfgFile!ReadEnv(e))
  \/ InCfgFile(CfgFile!EndEnv)
  \/ InCfgFile(CfgFile!ParseArgs)
  \/ InCfgFile(CfgFile!Overlay)

(* Two managers and a resync beside the sweep.                             *)
BootPaced == INSTANCE UnitWatch WITH
  Managers <- <<"system", "user">>, UnitsOf <- [m \in {"system", "user"} |->
  IF m = "system" THEN {"u"} ELSE {"w"}], Signals <- {}, Window <- 0,
  CrashWin <- 1, Absorb <- 1, Cooldown <- 1, BootWindow <- 1, DrainEvery <-
  2, AdmitPerSweep <- 1, HoldMax <- 2, Resyncs <- 1, MaxFaults <- 0,
  MaxFalls <- 1, MaxSignals <- 0,
  state <- x1, falls <- x2, said <- x3, inc <- x4, fails <- x5, cool <- x6,
  gate <- x7, turn <- x8, job <- x9, count <- x10, story <- x11, recent <-
  x12
InBootPaced(A) == scene = "bootPaced" /\ A /\ UNCHANGED <<scene, x13, x14, x15>>
BootPacedInit == scene = "bootPaced" /\ BootPaced!Init
  /\ x13 = 0 /\ x14 = 0 /\ x15 = 0
BootPacedNext ==
  \/ \E u \in {"u", "w"} : InBootPaced(BootPaced!Recover(u))
  \/ \E u \in {"u", "w"}, sent \in SUBSET {} : InBootPaced(BootPaced!Fall(u, sent))
  \/ InBootPaced(BootPaced!Tick)
  \/ InBootPaced(BootPaced!Visit)
  \/ InBootPaced(BootPaced!NextRound)
  \/ \E m \in {"system", "user"} : InBootPaced(BootPaced!Resync(m))
  \/ \E g \in {"sweep", "resync"}, u \in {"u", "w"} : InBootPaced(BootPaced!DecideHeld(g, u))
  \/ \E g \in {"sweep", "resync"}, u \in {"u", "w"} : InBootPaced(BootPaced!DecideSuppressed(g, u))
  \/ \E g \in {"sweep", "resync"}, u \in {"u", "w"} : InBootPaced(BootPaced!DecideFired(g, u))
  \/ \E g \in {"sweep", "resync"} : InBootPaced(BootPaced!Batch(g))
  \/ \E g \in {"sweep", "resync"} : InBootPaced(BootPaced!Landed(g))

(* Messages of up to three phrases, cut where they are too long.           *)
ScrubText == INSTANCE ScrubPass WITH
  Phrases <- {<<"env", "s">>, <<"env", "s", "s", "s", "s">>, <<"kv", "s">>,
  <<"flag", "s">>, <<"switch", "path">>, <<"hdr", "s", "x", "s", "x", "s">>,
  <<"hdr", "uri", "K1", "s">>, <<"uri", "K1", "s">>, <<"env", "uri", "K1">>,
  <<"begin", "x", "K1", "end">>, <<"wide", "s">>, <<"user", "lo">>,
  <<"user", "s">>, <<"kv", "token", "mail">>, <<"nl">>}, MaxPhrases <- 3,
  ShieldKeys <- {"K1"}, Target <- "message", Prefilter <- TRUE, PiiRedact <-
  TRUE, ProjectRule <- "none", MaxBytes <- 11, Truncate <- TRUE,
  val <- x1, raw <- x2, bundle <- x3, at <- x4, hits <- x5, drift <- x6
InScrubText(A) == scene = "scrubText" /\ A /\ UNCHANGED <<scene, x7, x8, x9, x10, x11, x12, x13, x14, x15>>
ScrubTextInit == scene = "scrubText" /\ ScrubText!Init
  /\ x7 = 0 /\ x8 = 0 /\ x9 = 0 /\ x10 = 0 /\ x11 = 0 /\ x12 = 0 /\ x13 = 0 /\
  x14 = 0 /\ x15 = 0
ScrubTextNext ==
  \/ InScrubText(ScrubText!Scrub)
  \/ InScrubText(ScrubText!FailClosed)
  \/ InScrubText(ScrubText!Persist)
  \/ InScrubText(ScrubText!Receive)

(* Headers of a project with a rule of its own, refused where they are too *)
(* long.                                                                   *)
ScrubOwn == INSTANCE ScrubPass WITH
  Phrases <- {<<"env", "s">>, <<"mine", "s">>, <<"mine", "uri", "K1", "s">>,
  <<"flag", "path">>, <<"uri", "K2", "s">>, <<"hdr", "s", "x", "s">>,
  <<"user", "s">>, <<"begin", "s">>, <<"token", "mail">>, <<"nl">>},
  MaxPhrases <- 3, ShieldKeys <- {"K1"}, Target <- "header", Prefilter <-
  TRUE, PiiRedact <- TRUE, ProjectRule <- "rescan", MaxBytes <- 9, Truncate
  <- FALSE,
  val <- x1, raw <- x2, bundle <- x3, at <- x4, hits <- x5, drift <- x6
InScrubOwn(A) == scene = "scrubOwn" /\ A /\ UNCHANGED <<scene, x7, x8, x9, x10, x11, x12, x13, x14, x15>>
ScrubOwnInit == scene = "scrubOwn" /\ ScrubOwn!Init
  /\ x7 = 0 /\ x8 = 0 /\ x9 = 0 /\ x10 = 0 /\ x11 = 0 /\ x12 = 0 /\ x13 = 0 /\
  x14 = 0 /\ x15 = 0
ScrubOwnNext ==
  \/ InScrubOwn(ScrubOwn!Scrub)
  \/ InScrubOwn(ScrubOwn!FailClosed)
  \/ InScrubOwn(ScrubOwn!Persist)
  \/ InScrubOwn(ScrubOwn!Receive)
  \/ InScrubOwn(ScrubOwn!RefuseLarge)

Init == BoardFailsInit \/ BoardStartsInit \/ SentGroupsInit \/ SentLossInit \/
        CompactInit \/ UpgrInit \/ StallInit \/ FoldInit \/ ToolsFailInit \/
        ToolsStartInit \/ TokSharedInit \/ TokBootInit \/ AuthFailsInit \/
        AuthPaceInit \/ GatesKeptInit \/ GatesResumeInit \/ CfgArgsInit \/
        CfgFileInit \/ BootPacedInit \/ ScrubTextInit \/ ScrubOwnInit
Next == BoardFailsNext \/ BoardStartsNext \/ SentGroupsNext \/ SentLossNext \/
        CompactNext \/ UpgrNext \/ StallNext \/ FoldNext \/ ToolsFailNext \/
        ToolsStartNext \/ TokSharedNext \/ TokBootNext \/ AuthFailsNext \/
        AuthPaceNext \/ GatesKeptNext \/ GatesResumeNext \/ CfgArgsNext \/
        CfgFileNext \/ BootPacedNext \/ ScrubTextNext \/ ScrubOwnNext
Spec == Init /\ [][Next]_vars

(* The console's door: tokens, throttle and pacing. A token taken away is  *)
(* not served again, unless two writers overlapped (lookup, markUsed). A   *)
(* token printed and not taken away stays in the file, unless two writers  *)
(* overlapped (Save). An entry no reader understands outlives every        *)
(* rewrite (tokenSet.skipped). A daemon booted without a file serves the   *)
(* token minted since (refusalCleared). No identity gets more 401 answers  *)
(* in a window than the limit, beyond what requests that raced each other  *)
(* through the throttle add (authThrottle). A good token is not throttled  *)
(* by failures it did not make (throttleKey). A token is served at most    *)
(* its burst and its rate, beyond what it takes from a bucket dropped in   *)
(* its hands (bucket.take, reap).                                          *)
DoorKept ==
  /\ scene = "tokShared" => TokShared!RevokedIsRefused /\ TokShared!TokensKept /\
                    TokShared!QuarantinedKept /\ TokShared!RefusalClears
  /\ scene = "tokBoot" => TokBoot!RevokedIsRefused /\ TokBoot!TokensKept /\ TokBoot!QuarantinedKept /\
                    TokBoot!RefusalClears
  /\ scene = "authFails" => AuthFails!RefusalsBounded /\ AuthFails!GoodNeverThrottled /\ AuthFails!Paced
  /\ scene = "authPace" => AuthPace!RefusalsBounded /\ AuthPace!GoodNeverThrottled /\ AuthPace!Paced

(* What a gate holds back stays back, and gates change on record. The      *)
(* gates in force are on record (SetAutonomy before SetGates). The kill    *)
(* switch stays set until it may be cleared (actionAutonomy). The last     *)
(* autonomy record is the gates in force. Admission fires keep             *)
(* bootDrainInterval's pace (drainReady).                                  *)
GatesHold ==
  /\ scene = "gatesKept" => GatesKept!GateRecorded /\ GatesKept!KillHolds /\ GatesKept!LedgerAgrees
  /\ scene = "gatesResume" => GatesResume!GateRecorded /\ GatesResume!KillHolds /\
                    GatesResume!LedgerAgrees
  /\ scene = "bootPaced" => BootPaced!Paced

(* The configuration a boot resolves and explains. The value in force is   *)
(* the one written last in the highest source, but for a flag whose text   *)
(* holds a dash (Resolve, parseArgs). The explain rows show the values in  *)
(* force (Resolve). Two sources that disagree about a scalar leave a       *)
(* conflict row (lowerSources, equalValues). A subsystem gets its table as *)
(* it was written (absorbTables).                                          *)
ConfigTrue ==
  /\ scene = "cfgArgs" => CfgArgs!HighestWins /\ CfgArgs!ExplainTrue /\ CfgArgs!DisagreementShown /\
                    CfgArgs!TableWhole
  /\ scene = "cfgFile" => CfgFile!HighestWins /\ CfgFile!ExplainTrue /\ CfgFile!DisagreementShown /\
                    CfgFile!TableWhole

(* The flow board's files and its index agree. A signature has one row on  *)
(* the board, but for the one more each start may cost (board.go sigRow).  *)
(* A filing reported as written can be read back, unless its row or event  *)
(* went behind a line a failed append left open (appendLine). Every row    *)
(* has one task_created event, and none only if an append failed, a crash  *)
(* came between or the event went behind an open line (appendEvent). Two   *)
(* readable events share an id only after work on a stale index or an      *)
(* append that failed to sync (writeEvent).                                *)
BoardSound ==
  /\ scene = "boardFails" => BoardFails!OneRowPerSig /\ BoardFails!WroteReadable /\
                    BoardFails!OneCreatedEvent /\ BoardFails!EventIdsUnique
  /\ scene = "boardStarts" => BoardStarts!OneRowPerSig /\ BoardStarts!WroteReadable /\
                    BoardStarts!OneCreatedEvent /\
                    BoardStarts!EventIdsUnique

(* What the sentinel and the sensors fold away is counted. A group rebuilt *)
(* from the ledger never counts fewer events than the ledger keeps, once   *)
(* no event came before its group (watermark, rebuild). An event answered  *)
(* with 200 is on record, unless an earlier attempt of the same id was     *)
(* refused after the id was claimed (dupeSeen, AppendBatch). Whoever       *)
(* closes a fold, every observation is in one record's count, an open      *)
(* fold, a goroutine's hand or a refused record (fold.go). The fold table  *)
(* holds its bound however many signatures are observed (foldMaxOpen). A   *)
(* sensor's gap episode is opened once, and filed, refused or still open   *)
(* (openGap, closeGap).                                                    *)
NothingUncounted ==
  /\ scene = "sentGroups" => SentGroups!NeverUndercounts
  /\ scene = "sentLoss" => SentLoss!AckedIsRecorded
  /\ scene = "fold" => Fold!CountsAddUp /\ Fold!FoldBound /\ Fold!EpisodesAccounted

(* A failure or a crash between two steps of replacing files. Until        *)
(* retention drops the day, the generation recovery would choose has every *)
(* audit record, verbatim (compact, recover). Per group the kept events    *)
(* and the aggregates' counters add up to what the writer wrote (compact). *)
(* The day verifies at every moment, after however many passes (Verify).   *)
(* An upgrade that reports failure leaves the build it found, or says that *)
(* it could not and has it in backups/bin (upgrade.go restoreBackup,       *)
(* pruneBackups). An upgrade killed at any point leaves the old build at   *)
(* the live path or in backups/bin (upgrade.go). An upgrade that restarts  *)
(* the unit and reports success leaves the unit on the build it installed  *)
(* (waitForReady).                                                         *)
CrashKeepsFiles ==
  /\ scene = "compact" => Compact!SpineKept /\ Compact!CountsKept /\ Compact!Verifies
  /\ scene = "upgr" => Upgr!FailureKeepsOld /\ Upgr!KilledIsRecoverable /\ Upgr!OkServes

(* The stall checker's verdicts. A daemon with nothing wrong is never      *)
(* counted as stalled, however quiet the host (heartbeat idle tick, stall  *)
(* check). A ledger that stopped is escalated, or the checker exits non-   *)
(* zero, within max_seq_age and the confirming checks of the last thing    *)
(* that went wrong (DetectionBound).                                       *)
StallSeen ==
  /\ scene = "stall" => Stall!QuietHostIsHealthy /\ Stall!DetectedInBound

(* The scrubber, its prefilter, its shield and the ledger's door agree. A  *)
(* value that passed the ledger's door, fits its budget, has no name the   *)
(* prefilter cannot fold and was scrubbed under reservations that held is  *)
(* left as it is by the hub's own scrub (scrubOne, pass). Where the        *)
(* reservations held it comes out the same alone and in a bundle           *)
(* (ScrubBytes, ScrubFields). The prefilter changes no outcome, unless a   *)
(* name is spelt with a letter it does not fold (fire, ruleGated,          *)
(* tableFor). A configured public key survives every rule that swallows    *)
(* it, and no placeholder is left (protect, applyRuleSpans, restore). The  *)
(* door refuses what was scrubbed only where a reservation drifted, a      *)
(* header's line had been redacted in part, an exempt path runs on into an *)
(* escaped newline or a name escaped the prefilter (boundaryHitFor).       *)
ScrubHolds ==
  /\ scene = "scrubText" => ScrubText!SettledIsFixed /\ ScrubText!AloneAsInBundle /\
                    ScrubText!GateNeutral /\ ScrubText!KeysKept /\
                    ScrubText!RefusedForCause
  /\ scene = "scrubOwn" => ScrubOwn!SettledIsFixed /\ ScrubOwn!AloneAsInBundle /\ ScrubOwn!GateNeutral
                    /\ ScrubOwn!KeysKept /\ ScrubOwn!RefusedForCause

(* Tool calls: what was diffed is what is applied, on record and once.     *)
(* Between a call's dry run and its write no other call changes the        *)
(* target, by whatever name it is called, unless the name led elsewhere    *)
(* when its lock was asked for (lockTargets, canonicalPath). No tool call  *)
(* changes the host before its intent record is in the ledger (registry    *)
(* Call). A once key executes once, retries of failures whose effect is    *)
(* unknown included, as long as the daemon lives (NoteExecuted).           *)
CallsTrue ==
  /\ scene = "toolsFail" => ToolsFail!DiffIsCurrent /\ ToolsFail!IntentFirst /\ ToolsFail!OncePerLife
  /\ scene = "toolsStart" => ToolsStart!DiffIsCurrent /\ ToolsStart!IntentFirst /\ ToolsStart!OncePerLife

(* An escalation is of a ledger older than max_seq_age by the whole of the *)
(* confirmation (StallCheck).                                              *)
EscalatesOnStall == [][scene = "stall" => Stall!EscalatesLate]_vars

=============================================================================
