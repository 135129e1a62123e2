----------------------------- MODULE MCUpkeep -----------------------------
(* What keeps a host's own material in order: the skills it installs and   *)
(* promotes, the pages and the index it serves, and the units that failed  *)
(* while it booted.  One scene per component, each with its own constants; *)
(* the scenes share nothing but the run.                                   *)
(* The scene's component keeps its variables in x1, x2, ...; the others   *)
(* stay 0.                                                                   *)
EXTENDS Naturals, Sequences, FiniteSets

VARIABLES scene, x1, x2, x3, x4, x5, x6, x7, x8, x9, x10, x11, x12, x13

vars == <<scene, x1, x2, x3, x4, x5, x6, x7, x8, x9, x10, x11, x12, x13>>

(* A host that installs what is published.                                 *)
SkAuto == INSTANCE SkillStore WITH
  Releases <- <<[v |-> 2, body |-> "b"], [v |-> 1, body |-> "c"]>>, Defect <-
  [b \in {"b", "c"} |-> "none"], LocalBodies <- {}, Approval <- "auto",
  CanaryHost <- "self", RetainVersions <- 1, DemoteAfter <- 1, MaxRuns <- 2,
  MaxFaults <- 1, MaxCrashes <- 1, MaxCalls <- 1,
  rows <- x1, disk <- x2, tree <- x3, pull <- x4, head <- x5, op <- x6, cands
  <- x7, holds <- x8, recs <- x9, late <- x10, hist <- x11, spent <- x12
InSkAuto(A) == scene = "skAuto" /\ A /\ UNCHANGED <<scene, x13>>
SkAutoInit == scene = "skAuto" /\ SkAuto!Init
  /\ x13 = 0
SkAutoNext ==
  \/ InSkAuto(SkAuto!PullOnce)
  \/ InSkAuto(SkAuto!Gate)
  \/ InSkAuto(SkAuto!InstallRecord)
  \/ InSkAuto(SkAuto!InstallMove)
  \/ InSkAuto(SkAuto!InstallIndex)
  \/ InSkAuto(SkAuto!RetentionPrune)
  \/ InSkAuto(SkAuto!MarkPull)
  \/ InSkAuto(SkAuto!WriteLate)
  \/ InSkAuto(SkAuto!Restart)
  \/ InSkAuto(SkAuto!Publish)
  \/ \E v \in 1..4 : InSkAuto(SkAuto!Reject(v))
  \/ \E s \in {TRUE, FALSE} : InSkAuto(SkAuto!RecordRun(s))
  \/ \E v \in 1..2, c \in {"green", "failed"} : InSkAuto(SkAuto!RecordCanary(v, c))
  \/ InSkAuto(SkAuto!Tamper)
  \/ InSkAuto(SkAuto!ExpireStaleCanaries)
(* The pull loop goes on, and the channel publishes what it has.           *)
SkAutoFairness ==
  /\ WF_vars(InSkAuto(SkAuto!Step))
  /\ WF_vars(InSkAuto(SkAuto!Publish))

(* A host that installs what its operator approves.                        *)
SkReview == INSTANCE SkillStore WITH
  Releases <- <<[v |-> 1, body |-> "a"], [v |-> 2, body |-> "b"], [v |-> 3,
  body |-> "f"]>>, Defect <- [b \in {"a", "b", "f"} |-> IF b = "f" THEN
  "floor" ELSE "none"], LocalBodies <- {}, Approval <- "review", CanaryHost
  <- "off", RetainVersions <- 1, DemoteAfter <- 1, MaxRuns <- 2, MaxFaults
  <- 1, MaxCrashes <- 1, MaxCalls <- 2,
  rows <- x1, disk <- x2, tree <- x3, pull <- x4, head <- x5, op <- x6, cands
  <- x7, holds <- x8, recs <- x9, late <- x10, hist <- x11, spent <- x12
InSkReview(A) == scene = "skReview" /\ A /\ UNCHANGED <<scene, x13>>
SkReviewInit == scene = "skReview" /\ SkReview!Init
  /\ x13 = 0
SkReviewNext ==
  \/ InSkReview(SkReview!PullOnce)
  \/ InSkReview(SkReview!Gate)
  \/ InSkReview(SkReview!InstallRecord)
  \/ InSkReview(SkReview!InstallMove)
  \/ InSkReview(SkReview!InstallIndex)
  \/ InSkReview(SkReview!RetentionPrune)
  \/ InSkReview(SkReview!MarkPull)
  \/ InSkReview(SkReview!WriteLate)
  \/ InSkReview(SkReview!Restart)
  \/ InSkReview(SkReview!Publish)
  \/ \E v \in 1..3, d \in {TRUE, FALSE}, o \in {TRUE} : InSkReview(SkReview!Approve(v, d, o))
  \/ InSkReview(SkReview!ApproveIndex)
  \/ InSkReview(SkReview!ApproveRecord)
  \/ \E s \in {TRUE, FALSE} : InSkReview(SkReview!RecordRun(s))
(* The pull loop goes on, and the channel publishes what it has.           *)
SkReviewFairness ==
  /\ WF_vars(InSkReview(SkReview!Step))
  /\ WF_vars(InSkReview(SkReview!Publish))

(* A host that waits for another one's canary.                             *)
SkCanary == INSTANCE SkillStore WITH
  Releases <- <<[v |-> 1, body |-> "a"], [v |-> 2, body |-> "x"], [v |-> 2,
  body |-> "u"]>>, Defect <- [b \in {"a", "x", "u"} |-> CASE b = "x" ->
  "bad" [] b = "u" -> "unreadable" [] OTHER -> "none"], LocalBodies <- {},
  Approval <- "auto", CanaryHost <- "other", RetainVersions <- 1,
  DemoteAfter <- 1, MaxRuns <- 2, MaxFaults <- 0, MaxCrashes <- 1, MaxCalls
  <- 2,
  rows <- x1, disk <- x2, tree <- x3, pull <- x4, head <- x5, op <- x6, cands
  <- x7, holds <- x8, recs <- x9, late <- x10, hist <- x11, spent <- x12
InSkCanary(A) == scene = "skCanary" /\ A /\ UNCHANGED <<scene, x13>>
SkCanaryInit == scene = "skCanary" /\ SkCanary!Init
  /\ x13 = 0
SkCanaryNext ==
  \/ InSkCanary(SkCanary!PullOnce)
  \/ InSkCanary(SkCanary!Gate)
  \/ InSkCanary(SkCanary!MarkPull)
  \/ InSkCanary(SkCanary!WriteLate)
  \/ InSkCanary(SkCanary!Restart)
  \/ InSkCanary(SkCanary!Publish)
  \/ \E v \in 1..2, c \in {"green", "failed"} : InSkCanary(SkCanary!RecordCanary(v, c))
  \/ InSkCanary(SkCanary!ExpireHolds)
  \/ \E v \in 1..2, d \in {TRUE, FALSE}, o \in {TRUE} : InSkCanary(SkCanary!Approve(v, d, o))
  \/ \E v \in 1..2 : InSkCanary(SkCanary!Reject(v))
(* The pull loop goes on, and the channel publishes what it has.           *)
SkCanaryFairness ==
  /\ WF_vars(InSkCanary(SkCanary!Step))
  /\ WF_vars(InSkCanary(SkCanary!Publish))

(* A host that promotes what its incidents taught it.                      *)
SkLocal == INSTANCE SkillStore WITH
  Releases <- <<[v |-> 2, body |-> "a"]>>, Defect <- [b \in {"a"} |-> "none"],
  LocalBodies <- {"l", "m"}, Approval <- "auto", CanaryHost <- "off",
  RetainVersions <- 1, DemoteAfter <- 1, MaxRuns <- 2, MaxFaults <- 0,
  MaxCrashes <- 1, MaxCalls <- 2,
  rows <- x1, disk <- x2, tree <- x3, pull <- x4, head <- x5, op <- x6, cands
  <- x7, holds <- x8, recs <- x9, late <- x10, hist <- x11, spent <- x12
InSkLocal(A) == scene = "skLocal" /\ A /\ UNCHANGED <<scene, x13>>
SkLocalInit == scene = "skLocal" /\ SkLocal!Init
  /\ x13 = 0
SkLocalNext ==
  \/ InSkLocal(SkLocal!PullOnce)
  \/ InSkLocal(SkLocal!Gate)
  \/ InSkLocal(SkLocal!InstallRecord)
  \/ InSkLocal(SkLocal!InstallMove)
  \/ InSkLocal(SkLocal!InstallIndex)
  \/ InSkLocal(SkLocal!RetentionPrune)
  \/ InSkLocal(SkLocal!MarkPull)
  \/ InSkLocal(SkLocal!WriteLate)
  \/ InSkLocal(SkLocal!Restart)
  \/ \E b \in {"l", "m"} : InSkLocal(SkLocal!Draft(b))
  \/ InSkLocal(\E c \in x7, d \in {TRUE, FALSE} : SkLocal!Review(c, d))
  \/ InSkLocal(\E c \in x7 : SkLocal!Promote(c))
  \/ InSkLocal(SkLocal!PromoteIndex)
  \/ \E s \in {TRUE, FALSE} : InSkLocal(SkLocal!RecordRun(s))
(* The pull loop goes on, and the channel publishes what it has.           *)
SkLocalFairness ==
  /\ WF_vars(InSkLocal(SkLocal!Step))
  /\ WF_vars(InSkLocal(SkLocal!Publish))

(* A walk over all kinds; boot samples and sidecar strides smaller than a  *)
(* file.                                                                   *)
PageAll == INSTANCE LedgerPages WITH
  Filters <- {"any"}, Sizes <- {1}, SizeDefault <- 2, SizeMax <- 3,
  SampleStride <- 2, OffsetStride <- 1, Batches <- {1}, MaxSeq <- 3, MaxDays
  <- 2, MaxParts <- 2, MaxMoves <- 1, MaxWalks <- 1,
  files <- x1, part <- x2, seq <- x3, lead <- x4, walk <- x5, pg <- x6, moves
  <- x7, walks <- x8
InPageAll(A) == scene = "pageAll" /\ A /\ UNCHANGED <<scene, x9, x10, x11, x12, x13>>
PageAllInit == scene = "pageAll" /\ PageAll!Init
  /\ x9 = 0 /\ x10 = 0 /\ x11 = 0 /\ x12 = 0 /\ x13 = 0
PageAllNext ==
  \/ \E k \in {<<"incident">>} : InPageAll(PageAll!AppendBatch(k))
  \/ \E b \in BOOLEAN : InPageAll(PageAll!Rotate(b))
  \/ \E b \in BOOLEAN : InPageAll(PageAll!Restart(b))
  \/ \E d \in 1..2 : InPageAll(PageAll!CompactDay(d))
  \/ InPageAll(PageAll!Expire)
  \/ InPageAll(PageAll!Page)
  \/ \E b \in BOOLEAN : InPageAll(PageAll!OpenFile(b))
  \/ InPageAll(PageAll!ReadChunk)
  \/ InPageAll(PageAll!CloseFile)
  \/ InPageAll(PageAll!RunOut)
  \/ \E f \in {"any"}, n \in {1} : InPageAll(PageAll!StartWalk(f, n))
(* The caller asks for the next page, and the page is read.                *)
PageAllFairness ==
  /\ WF_vars(InPageAll(PageAll!Page))
  /\ WF_vars(InPageAll(PageAll!OpenFile(TRUE)))
  /\ WF_vars(InPageAll(PageAll!ReadChunk \/ PageAll!CloseFile \/ PageAll!RunOut))

(* A walk over one kind, with the same tables.                             *)
PageKind == INSTANCE LedgerPages WITH
  Filters <- {"incident"}, Sizes <- {1}, SizeDefault <- 2, SizeMax <- 3,
  SampleStride <- 2, OffsetStride <- 1, Batches <- {1}, MaxSeq <- 3, MaxDays
  <- 2, MaxParts <- 1, MaxMoves <- 1, MaxWalks <- 1,
  files <- x1, part <- x2, seq <- x3, lead <- x4, walk <- x5, pg <- x6, moves
  <- x7, walks <- x8
InPageKind(A) == scene = "pageKind" /\ A /\ UNCHANGED <<scene, x9, x10, x11, x12, x13>>
PageKindInit == scene = "pageKind" /\ PageKind!Init
  /\ x9 = 0 /\ x10 = 0 /\ x11 = 0 /\ x12 = 0 /\ x13 = 0
PageKindNext ==
  \/ \E k \in {<<"event">>, <<"incident">>} : InPageKind(PageKind!AppendBatch(k))
  \/ \E b \in BOOLEAN : InPageKind(PageKind!Rotate(b))
  \/ \E b \in BOOLEAN : InPageKind(PageKind!Restart(b))
  \/ \E d \in 1..2 : InPageKind(PageKind!CompactDay(d))
  \/ InPageKind(PageKind!Expire)
  \/ InPageKind(PageKind!Page)
  \/ \E b \in BOOLEAN : InPageKind(PageKind!OpenFile(b))
  \/ InPageKind(PageKind!ReadChunk)
  \/ InPageKind(PageKind!CloseFile)
  \/ InPageKind(PageKind!RunOut)
  \/ \E f \in {"incident"}, n \in {1} : InPageKind(PageKind!StartWalk(f, n))
(* The caller asks for the next page, and the page is read.                *)
PageKindFairness ==
  /\ WF_vars(InPageKind(PageKind!Page))
  /\ WF_vars(InPageKind(PageKind!OpenFile(TRUE)))
  /\ WF_vars(InPageKind(PageKind!ReadChunk \/ PageKind!CloseFile \/ PageKind!RunOut))

(* A walk over one kind, in files smaller than a stride.                   *)
PageWide == INSTANCE LedgerPages WITH
  Filters <- {"incident"}, Sizes <- {0}, SizeDefault <- 2, SizeMax <- 3,
  SampleStride <- 9, OffsetStride <- 9, Batches <- {1}, MaxSeq <- 3, MaxDays
  <- 2, MaxParts <- 1, MaxMoves <- 1, MaxWalks <- 1,
  files <- x1, part <- x2, seq <- x3, lead <- x4, walk <- x5, pg <- x6, moves
  <- x7, walks <- x8
InPageWide(A) == scene = "pageWide" /\ A /\ UNCHANGED <<scene, x9, x10, x11, x12, x13>>
PageWideInit == scene = "pageWide" /\ PageWide!Init
  /\ x9 = 0 /\ x10 = 0 /\ x11 = 0 /\ x12 = 0 /\ x13 = 0
PageWideNext ==
  \/ \E k \in {<<"event">>, <<"incident">>} : InPageWide(PageWide!AppendBatch(k))
  \/ \E b \in BOOLEAN : InPageWide(PageWide!Rotate(b))
  \/ \E b \in BOOLEAN : InPageWide(PageWide!Restart(b))
  \/ \E d \in 1..2 : InPageWide(PageWide!CompactDay(d))
  \/ InPageWide(PageWide!Expire)
  \/ InPageWide(PageWide!Page)
  \/ \E b \in BOOLEAN : InPageWide(PageWide!OpenFile(b))
  \/ InPageWide(PageWide!ReadChunk)
  \/ InPageWide(PageWide!CloseFile)
  \/ InPageWide(PageWide!RunOut)
  \/ \E f \in {"incident"}, n \in {0} : InPageWide(PageWide!StartWalk(f, n))
(* The caller asks for the next page, and the page is read.                *)
PageWideFairness ==
  /\ WF_vars(InPageWide(PageWide!Page))
  /\ WF_vars(InPageWide(PageWide!OpenFile(TRUE)))
  /\ WF_vars(InPageWide(PageWide!ReadChunk \/ PageWide!CloseFile \/ PageWide!RunOut))

(* Look-ups by seq: boot samples smaller than a file, batches of one and   *)
(* of two.                                                                 *)
Lookup == INSTANCE LedgerPages WITH
  Filters <- {"any"}, Sizes <- {1}, SizeDefault <- 2, SizeMax <- 3,
  SampleStride <- 2, OffsetStride <- 9, Batches <- {1, 2}, MaxSeq <- 4,
  MaxDays <- 2, MaxParts <- 2, MaxMoves <- 1, MaxWalks <- 0,
  files <- x1, part <- x2, seq <- x3, lead <- x4, walk <- x5, pg <- x6, moves
  <- x7, walks <- x8
InLookup(A) == scene = "lookup" /\ A /\ UNCHANGED <<scene, x9, x10, x11, x12, x13>>
LookupInit == scene = "lookup" /\ Lookup!Init
  /\ x9 = 0 /\ x10 = 0 /\ x11 = 0 /\ x12 = 0 /\ x13 = 0
LookupNext ==
  \/ \E k \in {<<"event">>, <<"incident">>, <<"event", "incident">>} : InLookup(Lookup!AppendBatch(k))
  \/ \E b \in BOOLEAN : InLookup(Lookup!Rotate(b))
  \/ \E b \in BOOLEAN : InLookup(Lookup!Restart(b))
  \/ \E d \in 1..2 : InLookup(Lookup!CompactDay(d))
  \/ InLookup(Lookup!Expire)

(* Groups at the bound of the index.                                       *)
IdxGroups == INSTANCE LedgerIndex WITH
  Events <- {[key |-> "a", sig |-> "s", mk |-> "m", inc |-> "none"], [key |->
  "b", sig |-> "t", mk |-> "none", inc |-> "none"], [key |-> "c", sig |->
  "u", mk |-> "m", inc |-> "none"]}, Incs <- [i \in {} |-> 0], MaxGroups <-
  1, MaxIncidents <- 1, IncPerIncident <- 2, IncidentRing <- 3, MaxRecs <-
  6, MaxBoots <- 1,
  log <- x1, ix <- x2, boots <- x3
InIdxGroups(A) == scene = "idxGroups" /\ A /\ UNCHANGED <<scene, x4, x5, x6, x7, x8, x9, x10, x11, x12, x13>>
IdxGroupsInit == scene = "idxGroups" /\ IdxGroups!Init
  /\ x4 = 0 /\ x5 = 0 /\ x6 = 0 /\ x7 = 0 /\ x8 = 0 /\ x9 = 0 /\ x10 = 0 /\ x11 =
  0 /\ x12 = 0 /\ x13 = 0
IdxGroupsNext ==
  \/ \E e \in {[key |-> "a", sig |-> "s", mk |-> "m", inc |-> "none"], [key |-> "b", sig |-> "t", mk |-> "none", inc |-> "none"], [key |-> "c", sig |-> "u", mk |-> "m", inc |-> "none"]} : InIdxGroups(IdxGroups!AppendEvent(e))
  \/ \E e \in {[key |-> "a", sig |-> "s", mk |-> "m", inc |-> "none"], [key |-> "b", sig |-> "t", mk |-> "none", inc |-> "none"], [key |-> "c", sig |-> "u", mk |-> "m", inc |-> "none"]} : InIdxGroups(IdxGroups!AppendGroup(e))
  \/ \E b \in BOOLEAN : InIdxGroups(IdxGroups!Restart(b))

(* Incidents at the bound of the index.                                    *)
IdxIncs == INSTANCE LedgerIndex WITH
  Events <- {[key |-> "a", sig |-> "s", mk |-> "m", inc |-> "i"], [key |->
  "b", sig |-> "t", mk |-> "m", inc |-> "none"]}, Incs <- [i \in {"i", "j",
  "k"} |-> IF i = "k" THEN "t" ELSE "s"], MaxGroups <- 1, MaxIncidents <- 1,
  IncPerIncident <- 2, IncidentRing <- 3, MaxRecs <- 5, MaxBoots <- 1,
  log <- x1, ix <- x2, boots <- x3
InIdxIncs(A) == scene = "idxIncs" /\ A /\ UNCHANGED <<scene, x4, x5, x6, x7, x8, x9, x10, x11, x12, x13>>
IdxIncsInit == scene = "idxIncs" /\ IdxIncs!Init
  /\ x4 = 0 /\ x5 = 0 /\ x6 = 0 /\ x7 = 0 /\ x8 = 0 /\ x9 = 0 /\ x10 = 0 /\ x11 =
  0 /\ x12 = 0 /\ x13 = 0
IdxIncsNext ==
  \/ \E e \in {[key |-> "a", sig |-> "s", mk |-> "m", inc |-> "i"], [key |-> "b", sig |-> "t", mk |-> "m", inc |-> "none"]} : InIdxIncs(IdxIncs!AppendEvent(e))
  \/ \E i \in {"i", "j", "k"}, s \in {"diagnosing", "resolved"} : InIdxIncs(IdxIncs!AppendIncident(i, s))
  \/ \E i \in {"i", "j", "k"} : InIdxIncs(IdxIncs!AppendChained(i))
  \/ \E b \in BOOLEAN : InIdxIncs(IdxIncs!Restart(b))

(* Two managers, refused batches, one later failure.                       *)
BootHolds == INSTANCE UnitWatch WITH
  Managers <- <<"system", "user">>, UnitsOf <- [m \in {"system", "user"} |->
  IF m = "system" THEN {"u", "v"} ELSE {"w"}], Signals <- {"failed"}, Window
  <- 0, CrashWin <- 1, Absorb <- 2, Cooldown <- 1, BootWindow <- 1,
  DrainEvery <- 1, AdmitPerSweep <- 1, HoldMax <- 2, Resyncs <- 0, MaxFaults
  <- 1, MaxFalls <- 1, MaxSignals <- 1,
  state <- x1, falls <- x2, said <- x3, inc <- x4, fails <- x5, cool <- x6,
  gate <- x7, turn <- x8, job <- x9, count <- x10, story <- x11, recent <-
  x12
InBootHolds(A) == scene = "bootHolds" /\ A /\ UNCHANGED <<scene, x13>>
BootHoldsInit == scene = "bootHolds" /\ BootHolds!Init
  /\ x13 = 0
BootHoldsNext ==
  \/ \E u \in {"u", "v", "w"} : InBootHolds(BootHolds!Recover(u))
  \/ \E u \in {"u", "v", "w"}, sent \in SUBSET {"failed"} : InBootHolds(BootHolds!Fall(u, sent))
  \/ InBootHolds(BootHolds!Tick)
  \/ InBootHolds(BootHolds!Visit)
  \/ InBootHolds(BootHolds!NextRound)
  \/ \E u \in {"u", "v", "w"}, s \in {"failed"} : InBootHolds(BootHolds!Signal(u, s))
  \/ \E g \in {"sweep", "resync"}, u \in {"u", "v", "w"} : InBootHolds(BootHolds!DecideHeld(g, u))
  \/ \E g \in {"sweep", "resync"}, u \in {"u", "v", "w"} : InBootHolds(BootHolds!DecideSuppressed(g, u))
  \/ \E g \in {"sweep", "resync"}, u \in {"u", "v", "w"} : InBootHolds(BootHolds!DecideFired(g, u))
  \/ \E g \in {"sweep", "resync"} : InBootHolds(BootHolds!Batch(g))
  \/ \E g \in {"sweep", "resync"} : InBootHolds(BootHolds!Landed(g))
  \/ \E g \in {"sweep", "resync"} : InBootHolds(BootHolds!Refused(g))
BootHoldsFairness ==
  /\ WF_vars(InBootHolds(BootHolds!Tick))
  /\ WF_vars(InBootHolds(BootHolds!Visit))
  /\ WF_vars(InBootHolds(BootHolds!NextRound))
  /\ WF_vars(InBootHolds(BootHolds!Reconciles("sweep")))
  /\ WF_vars(InBootHolds(BootHolds!Reconciles("resync")))

(* Two mounts and a refused device node, under load.                       *)
HealthDisk == INSTANCE SensorHealth WITH
  Kinds <- {"disk"}, Mounts <- <<"a", "dev", "b">>, DeviceNodes <- {"dev"},
  Timers <- {}, Period <- 1, Interval <- [disk |-> 1], StaleAfter <- [disk
  |-> 2], ErrorWindow <- 3, Faulty <- {"backed"}, MaxTime <- 5, MaxFaults <-
  3, MaxReloads <- 1,
  now <- x1, rt <- x2, gapOpen <- x3, lastErr <- x4, due <- x5, sweep <- x6,
  tm <- x7, checked <- x8, world <- x9, left <- x10, hist <- x11
InHealthDisk(A) == scene = "healthDisk" /\ A /\ UNCHANGED <<scene, x12, x13>>
HealthDiskInit == scene = "healthDisk" /\ HealthDisk!Init
  /\ x12 = 0 /\ x13 = 0
HealthDiskNext ==
  \/ InHealthDisk(HealthDisk!Tick)
  \/ InHealthDisk(HealthDisk!Fault)
  \/ InHealthDisk(HealthDisk!Reload)
  \/ InHealthDisk(HealthDisk!NoteRuleFailure)
  \/ InHealthDisk(HealthDisk!BeginSweep)
  \/ InHealthDisk(HealthDisk!Mark)
  \/ InHealthDisk(HealthDisk!EndSweep)
  \/ \E m \in {"a", "b"} : InHealthDisk(HealthDisk!Answers(m))
  \/ \E m \in {"a", "b"} : InHealthDisk(HealthDisk!Quiet(m))
  \/ \E m \in {"a", "b"} : InHealthDisk(HealthDisk!Fails(m))
  \/ \E k \in {"disk"} : InHealthDisk(HealthDisk!CallStale(k))
  \/ \E k \in {"disk"} : InHealthDisk(HealthDisk!CallFresh(k))
  \/ \E k \in {"disk"} : InHealthDisk(HealthDisk!PassOver(k))

(* A bus that goes and comes.                                              *)
HealthTimers == INSTANCE SensorHealth WITH
  Kinds <- {"timers"}, Mounts <- <<>>, DeviceNodes <- {}, Timers <- {"t"},
  Period <- 1, Interval <- [timers |-> 1], StaleAfter <- [timers |-> 2],
  ErrorWindow <- 3, Faulty <- {"bus", "lists"}, MaxTime <- 7, MaxFaults <-
  3, MaxReloads <- 1,
  now <- x1, rt <- x2, gapOpen <- x3, lastErr <- x4, due <- x5, sweep <- x6,
  tm <- x7, checked <- x8, world <- x9, left <- x10, hist <- x11
InHealthTimers(A) == scene = "healthTimers" /\ A /\ UNCHANGED <<scene, x12, x13>>
HealthTimersInit == scene = "healthTimers" /\ HealthTimers!Init
  /\ x12 = 0 /\ x13 = 0
HealthTimersNext ==
  \/ InHealthTimers(HealthTimers!Tick)
  \/ InHealthTimers(HealthTimers!Fault)
  \/ InHealthTimers(HealthTimers!Reload)
  \/ InHealthTimers(HealthTimers!NoteRuleFailure)
  \/ InHealthTimers(HealthTimers!TimersBlind)
  \/ InHealthTimers(HealthTimers!TimersListed)
  \/ \E k \in {"timers"} : InHealthTimers(HealthTimers!CallStale(k))
  \/ \E k \in {"timers"} : InHealthTimers(HealthTimers!CallFresh(k))
  \/ \E k \in {"timers"} : InHealthTimers(HealthTimers!PassOver(k))

(* A timer that sticks, goes on and sticks again.                          *)
HealthLate == INSTANCE SensorHealth WITH
  Kinds <- {"timers"}, Mounts <- <<>>, DeviceNodes <- {}, Timers <- {"t"},
  Period <- 1, Interval <- [timers |-> 2], StaleAfter <- [timers |-> 6],
  ErrorWindow <- 3, Faulty <- {"backed"}, MaxTime <- 18, MaxFaults <- 4,
  MaxReloads <- 0,
  now <- x1, rt <- x2, gapOpen <- x3, lastErr <- x4, due <- x5, sweep <- x6,
  tm <- x7, checked <- x8, world <- x9, left <- x10, hist <- x11
InHealthLate(A) == scene = "healthLate" /\ A /\ UNCHANGED <<scene, x12, x13>>
HealthLateInit == scene = "healthLate" /\ HealthLate!Init
  /\ x12 = 0 /\ x13 = 0
HealthLateNext ==
  \/ InHealthLate(HealthLate!Tick)
  \/ InHealthLate(HealthLate!Fault)
  \/ InHealthLate(HealthLate!TimersListed)
  \/ \E k \in {"timers"} : InHealthLate(HealthLate!PassOver(k))

(* Pressure files that cannot be read for a while.                         *)
HealthPsi == INSTANCE SensorHealth WITH
  Kinds <- {"psi"}, Mounts <- <<>>, DeviceNodes <- {}, Timers <- {}, Period <-
  1, Interval <- [psi |-> 1], StaleAfter <- [psi |-> 2], ErrorWindow <- 3,
  Faulty <- {"psi"}, MaxTime <- 9, MaxFaults <- 4, MaxReloads <- 1,
  now <- x1, rt <- x2, gapOpen <- x3, lastErr <- x4, due <- x5, sweep <- x6,
  tm <- x7, checked <- x8, world <- x9, left <- x10, hist <- x11
InHealthPsi(A) == scene = "healthPsi" /\ A /\ UNCHANGED <<scene, x12, x13>>
HealthPsiInit == scene = "healthPsi" /\ HealthPsi!Init
  /\ x12 = 0 /\ x13 = 0
HealthPsiNext ==
  \/ InHealthPsi(HealthPsi!Tick)
  \/ InHealthPsi(HealthPsi!Fault)
  \/ InHealthPsi(HealthPsi!Reload)
  \/ InHealthPsi(HealthPsi!NoteRuleFailure)
  \/ InHealthPsi(HealthPsi!Stop)
  \/ InHealthPsi(HealthPsi!Sample)
  \/ \E k \in {"psi"} : InHealthPsi(HealthPsi!CallStale(k))
  \/ \E k \in {"psi"} : InHealthPsi(HealthPsi!CallFresh(k))
  \/ \E k \in {"psi"} : InHealthPsi(HealthPsi!PassOver(k))

(* Hosts with and without triggers, arms that fail, sources that go away.  *)
PsiTriggers == INSTANCE PressureWatch WITH
  Resources <- <<"cpu", "io">>, Hosts <- {[old |-> FALSE, read |-> TRUE, arm
  |-> "ok", max |-> 8, root |-> FALSE, window |-> 12], [old |-> FALSE, read
  |-> TRUE, arm |-> "ok", max |-> 10, root |-> FALSE, window |-> 12], [old
  |-> FALSE, read |-> TRUE, arm |-> "ok", max |-> 20, root |-> FALSE, window
  |-> 3], [old |-> FALSE, read |-> TRUE, arm |-> "EBUSY", max |-> 10, root
  |-> FALSE, window |-> 12], [old |-> FALSE, read |-> TRUE, arm |-> "ok",
  max |-> 0, root |-> TRUE, window |-> 2], [old |-> FALSE, read |-> FALSE,
  arm |-> "ok", max |-> 10, root |-> FALSE, window |-> 2], [old |-> TRUE,
  read |-> TRUE, arm |-> "ok", max |-> 10, root |-> FALSE, window |-> 2]},
  MaxTime <- 3, MaxFaults <- 2,
  now <- x1, kernel <- x2, probe <- x3, phase <- x4, mode <- x5, sensor <- x6,
  trig <- x7, fds <- x8, count <- x9, wake <- x10, faults <- x11, cause <-
  x12, seen <- x13
InPsiTriggers(A) == scene = "psiTriggers" /\ A /\ UNCHANGED <<scene>>
PsiTriggersInit == scene = "psiTriggers" /\ PsiTriggers!Init
PsiTriggersNext ==
  \/ InPsiTriggers(PsiTriggers!Probe)
  \/ InPsiTriggers(PsiTriggers!Busy)
  \/ InPsiTriggers(PsiTriggers!StartPSI)
  \/ InPsiTriggers(PsiTriggers!AllArmed)
  \/ InPsiTriggers(PsiTriggers!ClearReason)
  \/ InPsiTriggers(PsiTriggers!Stop)
  \/ InPsiTriggers(PsiTriggers!Joined)
  \/ InPsiTriggers(PsiTriggers!GiveUp)
  \/ InPsiTriggers(PsiTriggers!Tick)
  \/ \E r \in {"cpu", "io"} : InPsiTriggers(PsiTriggers!Armed(r))
  \/ \E r \in {"cpu", "io"} : InPsiTriggers(PsiTriggers!ArmRefused(r))
  \/ \E r \in {"cpu", "io"} : InPsiTriggers(PsiTriggers!ArmBroke(r))
  \/ \E r \in {"cpu", "io"} : InPsiTriggers(PsiTriggers!PollErr(r))
  \/ \E r \in {"cpu", "io"} : InPsiTriggers(PsiTriggers!SeeStop(r))
  \/ \E r \in {"cpu", "io"} : InPsiTriggers(PsiTriggers!Uncount(r))
  \/ \E r \in {"cpu", "io"} : InPsiTriggers(PsiTriggers!Close(r))
  \/ \E r \in {"cpu", "io"}, crossed \in BOOLEAN : InPsiTriggers(PsiTriggers!HandleWake(r, crossed))
PsiTriggersFairness ==
  /\ WF_vars(InPsiTriggers(PsiTriggers!Joined))
  /\ \A r \in {"cpu", "io"} : WF_vars(InPsiTriggers(PsiTriggers!SeeStop(r)))
  /\ \A r \in {"cpu", "io"} : WF_vars(InPsiTriggers(PsiTriggers!Uncount(r)))
  /\ \A r \in {"cpu", "io"} : WF_vars(InPsiTriggers(PsiTriggers!Close(r)))

Init == SkAutoInit \/ SkReviewInit \/ SkCanaryInit \/ SkLocalInit \/ PageAllInit \/
        PageKindInit \/ PageWideInit \/ LookupInit \/ IdxGroupsInit \/
        IdxIncsInit \/ BootHoldsInit \/ HealthDiskInit \/ HealthTimersInit
        \/ HealthLateInit \/ HealthPsiInit \/ PsiTriggersInit
Next == SkAutoNext \/ SkReviewNext \/ SkCanaryNext \/ SkLocalNext \/ PageAllNext \/
        PageKindNext \/ PageWideNext \/ LookupNext \/ IdxGroupsNext \/
        IdxIncsNext \/ BootHoldsNext \/ HealthDiskNext \/ HealthTimersNext
        \/ HealthLateNext \/ HealthPsiNext \/ PsiTriggersNext
Spec == Init /\ [][Next]_vars /\ SkAutoFairness /\ SkReviewFairness /\ SkCanaryFairness /\ SkLocalFairness /\
        PageAllFairness /\ PageKindFairness /\ PageWideFairness /\
        BootHoldsFairness /\ PsiTriggersFairness

(* The ledger as it is read: walks over its pages, and the index the       *)
(* console answers from. A page walk returns records newest first and none *)
(* twice (Page). An empty next_page_token means every matching record was  *)
(* returned (Page). Every record on disk is found by its seq (Resolve,     *)
(* recordAt). Every live and every cold group stands in a slot of its own, *)
(* so a ranking never meets an empty one (topGroups). A group shows the    *)
(* events it had, never more, and all of them unless it went cold or the   *)
(* boot skipped events. The open incident of a sig is found by the sig and *)
(* listed as open, through evictions and any boot (incidentForSig). What   *)
(* an incident's evidence names and what it leaves out make the records it *)
(* has (addRefLocked).                                                     *)
IndexSound ==
  /\ scene = "pageAll" => PageAll!Descends /\ PageAll!WalkComplete
  /\ scene = "pageKind" => PageKind!Descends /\ PageKind!WalkComplete
  /\ scene = "pageWide" => PageWide!Descends /\ PageWide!WalkComplete
  /\ scene = "lookup" => Lookup!ResolveFinds
  /\ scene = "idxGroups" => IdxGroups!SlotsSound /\ IdxGroups!CountsExact
  /\ scene = "idxIncs" => IdxIncs!CountsExact /\ IdxIncs!OpenFound /\ IdxIncs!EvidenceAccounted

(* The skill store's index, records and files agree. A skill version that  *)
(* may run is named, with its bytes, by a ledger record (dist.go install,  *)
(* promote.go). A commit counted as pulled left a decision in the index a  *)
(* restart reads (markPull after saveIndex). What may run still may after  *)
(* a restart, unless two index writes overlapped (saveIndex).              *)
SkillsDecided ==
  /\ scene = "skAuto" => SkAuto!NeverWithoutRecord /\ SkAuto!HeadDecided /\ SkAuto!SettledIsDurable
  /\ scene = "skReview" => SkReview!NeverWithoutRecord /\ SkReview!HeadDecided /\
                    SkReview!SettledIsDurable
  /\ scene = "skCanary" => SkCanary!NeverWithoutRecord /\ SkCanary!HeadDecided /\
                    SkCanary!SettledIsDurable
  /\ scene = "skLocal" => SkLocal!NeverWithoutRecord /\ SkLocal!HeadDecided /\
                    SkLocal!SettledIsDurable

(* What the sensors hold, show and call stale. The boot gate's hold table  *)
(* and its order agree (classify, drainReady, reholdPending). A unit       *)
(* failed since boot is fired at most once by the sweeps                   *)
(* (runBootInventoryGate). An open gap shows in the degraded flag unless a *)
(* reload, another scope's recovery or the timers' own sweep cleared it    *)
(* (openGapFunc, closeGap, Reload). A degraded sensor says why, but for a  *)
(* flag cleared between diskError's two writes (setSensor, recError). A    *)
(* sensor is called stale only after a failed read, a missing bus or a     *)
(* sweep put off by load (livenessCheck, diskInterval). A mount has a gap  *)
(* open exactly while it fails (diskSweep, diskError). Its failure is      *)
(* recorded once an hour unless it answered in between (diskErrorWindow).  *)
(* A timer seen late twice has a missed run, unless it stopped at the      *)
(* first elapse after a recovery (emitTimer). The trigger counters and     *)
(* descriptors are those of the goroutines that run, and none is left      *)
(* after the join (armTrigger, close, Stop). A sensor that is not degraded *)
(* hears every resource, until a reload or a recovered heartbeat clears    *)
(* the flag (startPSI, runTrigger, recError). The clamped window is one    *)
(* the kernel takes, unless it is odd or no ceiling was found              *)
(* (probeCapabilities). Wakes are handled once in a window (runTrigger).   *)
SensorsTrue ==
  /\ scene = "bootHolds" => BootHolds!HoldsOrdered /\ BootHolds!FiredOnce
  /\ scene = "healthDisk" => HealthDisk!GapsShow /\ HealthDisk!DegradedSaysWhy /\
                    HealthDisk!StaleForCause /\ HealthDisk!MountsGapped /\
                    HealthDisk!RecordsSpaced
  /\ scene = "healthTimers" => HealthTimers!GapsShow /\ HealthTimers!DegradedSaysWhy /\
                    HealthTimers!StaleForCause /\ HealthTimers!LateIsMissed
  /\ scene = "healthPsi" => HealthPsi!GapsShow /\ HealthPsi!DegradedSaysWhy /\ HealthPsi!StaleForCause
  /\ scene = "healthLate" => HealthLate!StaleForCause /\ HealthLate!LateIsMissed
  /\ scene = "psiTriggers" => PsiTriggers!FdsAccounted /\ PsiTriggers!DeafShows /\
                    PsiTriggers!ClampIsLegal /\ PsiTriggers!WakesPaced

(* What is offered, walked or held gets done. The channel's newest commit  *)
(* is pulled in the end (Puller.Run). A page walk ends, though the writer  *)
(* goes on (Page). A unit failed from boot on is fired in the end          *)
(* (drainReady, reholdPending). A stop of the pressure triggers comes back *)
(* (Stop, runTrigger).                                                     *)
UpkeepSettles ==
  /\ <>[](
       /\ scene = "skAuto" => SkAuto!Pulled
       /\ scene = "skReview" => SkReview!Pulled
       /\ scene = "skCanary" => SkCanary!Pulled
       /\ scene = "skLocal" => SkLocal!Pulled
       /\ scene = "pageAll" => PageAll!Rests
       /\ scene = "pageKind" => PageKind!Rests
       /\ scene = "pageWide" => PageWide!Rests
       /\ scene = "bootHolds" => BootHolds!HeldOut
       /\ scene = "psiTriggers" => PsiTriggers!StopReturns)

=============================================================================
