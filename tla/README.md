# trouble: a TLA+ verification project

`trouble` is an incident agent that runs on the host it watches. Sensors and SDK
envelopes become records in one append-only ledger. The ladder groups arrivals
into incidents and takes each through recording, plays, research, agent runs and
verification, under a kill-switch, budgets, a host lease, circuit breakers and
suppression windows. A registry executes the host operations. Issues, flows,
skills, a hub and a dashboard are built around the ladder.

The project models the parts that keep or move state: the ledger, the ladder, and
the queues, stores and loops around them. Each part has a module of its own,
written from its Go source. TLC checks small instances, and TLAPS proves the
central facts about the ledger's writer, the ladder, admission and the hub for
every value of their constants.

## 1. Inventory

| Component | State | Operations | Interacts with | What is hard | What makes it correct |
|---|---|---|---|---|---|
| `ledger` writer | queue, batch, counters, holes, day files, HEAD | Append, AppendBatch, Rotate, Close, Open | every component appends | one goroutine against many producers; failing and short writes; power loss; recovery of damaged files; shutdown | acknowledged means durable and readable; numbers ascend, or the boot says why they may not; every caller is answered |
| `ledger` index, queries | in-memory index of the files | scan, query, page | dashboard, ladder | built while a writer appends | returns what is on disk |
| `ledger` compaction | generations of a day, sidecars | Compact, ApplyRetention, ExpireDays | writer, index, hub archive | crash between rename and unlink | counts are kept, no generation lost |
| `ladder` state machine | incidents, gates, pending entries, lease, budgets, breakers, suppressions | Advance (50 rows), Drive, ResumePending, Verify, RunAgentStage, Quarantine | ledger, registry, research, llm, dashboard | passes that read, unlock and act; guards with effects; time | kill-switch freezes work; strikes, budgets and lease hold; nothing is forgotten |
| `ladder` admission | incident map, sig and key index, event memory | Admit | sensors, sentinel | two indexes maintained by nine operations; restart | one open incident per sig; arrivals reach work |
| `ladder` park | park records | Park, ReAdopt, AdoptIncident | lifecycle | stop in the middle of a run | every run is finished or taken up again |
| `registry` | modules, policies | Check, Apply, Rollback, plays | ladder, skills | failure between apply and rollback | nothing mutates without authorisation |
| `hub` | stream, dedup gate, archive queue | door, consume, reclaim, archive | ledger of many hosts | redelivery, two-phase claims, outages | no entry lost, none appended twice |
| `issues` desk | anchors, spool, caps | ensure, comment, close, replay | ladder, GitHub | unknown outcomes, replay beside live calls | one issue per sig, order per sig |
| `flow` | dispatch queue, leases | dispatch, replay, hotfix | ladder, router | single flight, crash before delete | one delivery per task |
| `sentinel` | projects, quotas, groups, spool | envelope admission, replay | ladder, ledger | quota spool drained before admission | accepted events are counted once |
| `sensors` | sources, breakers, fold windows, health flags, gaps, pressure triggers | observe, fold, sweep, arm, reload, stop | ladder | rate windows, evictions; several writers of one flag; a descriptor closed beside a poll | no storm, no silence; a sensor that is deaf shows it |
| `scrub` | rule table, reservations, shield, budget | scrub one value or a bundle, re-scan at the ledger's door, scrub again at the hub | every record and every envelope | rules that rewrite the text under another rule's reservation | a scrubbed value is a fixed point; alone as in a bundle |
| `research`, `llm` | submissions, costs | submit, poll, complete | ladder | deadlines, late answers, parking | one outcome per run, every run let in has one |
| `skills` | library, candidates | draft, review, promote | ladder, registry | partial promotion | only reviewed, signed skills run |
| `lifecycle` | forward spool, binaries, heartbeats | upgrade, forward, trim | everything | crash in an upgrade; acknowledgement against trim | no gap without a gap record |
| `dashboard` | tokens, throttles, gates in flight | Ack, Close, autonomy, tokens, reads | ladder, ledger | a click on a stale page; two processes on one token file | a click never harms an incident; a revoked token is refused |
| `app`, `cmd` | boot phase, subsystems, the resolved configuration | boot, drain, resolve | everything | a refusal half-way through boot; SIGTERM while incidents are at work | refusals are on record, fired events are admitted, work is parked |
| `types`, parsers | none | pure functions | all | patterns | out of a model checker's reach |

`PROJECT.json` lists every component with its files and the reason where it is
not modelled.

## 2. Modules

A name in the first column is a module; the proof modules are in section 6.
`AutonomyGates` ends with its own proofs.

| Module | Stands for |
|---|---|
| `DurableLog` | the ledger's promise: a log that grows at its end, a durable prefix, callers told only about that prefix |
| `LedgerWriter` | `ledger/writer.go`, `recover.go`, the open, close and rotate parts of `ledger.go`, the scan of `index.go` |
| `LedgerCompaction` | `ledger/compact.go`: one day's generations, expiry, recovery's choice, the verifying walk |
| `LedgerPages` | `ledger/page.go`, `sidecar.go`, `rotate.go`, `query.go`: the newest-first walk and the look-up by seq beside a live writer |
| `LedgerIndex` | `ledger/index.go`: groups, cold shadow, aliases, incidents, refs and the ring, live and rebuilt |
| `LadderTable` | the fifty rows of `ladder/statemachine.go` as data: sources, target, whether the row enters a stage; the rows of the dashboard's Ack and Close |
| `LadderRun` | `Advance` and its refusals, the driver, the resume pass, the agent call, verification, lease, budgets, sig breaker, suppression, dashboard clicks |
| `LadderAdmission` | `Admit` with its two indexes, event memory, breakers of all scopes, suppression, operator moves, restart |
| `HubIngest` | `hub` door, dedup gate, Redis stream, consumer, reclaim, supervisor |
| `HubArchive` | `hub/archive.go`, `markers.go`: plan, put, read back, mark, sweep |
| `IssueDesk` | `issues`: ensure-by-sig, fold, reopen, close, spool, replay, probes, rebuild |
| `FlowSpawn`, `FlowBoard` | `flow`: hot-fix dispatch with lease, queue and replay; filing on a project's board |
| `SentinelIngest` | `sentinel`: duplicate window, quota, loss policies, spool and replay, group counters |
| `SensorGate`, `SensorFold` | `sensors`: rule pipeline with timers, cooldowns, breakers and reload; count-preserving folds and gap episodes |
| `UnitWatch`, `JournalFollow` | the D-Bus source with its merge tracker and boot gate; the journald follower with its bounded queue |
| `SensorHealth` | `sensors/sensors.go`'s flags, reasons, gaps, liveness check, reload and stop; the disk, timer and pressure sweeps of `disk.go` and `psi.go` |
| `PressureWatch` | `sensors/psi.go`, `psi_trigger_linux.go`: probe, arming, the poll loop, wakes, shutdown |
| `ScrubPass` | `scrub`: the ordered pass, prefilter, reservations, shield, budgets, door and hub |
| `ToolCalls` | `registry`: the six-stage call, locks, intent records, retries, rollback, once keys |
| `ResearchRuns` | `research`: cache, corpus, submission, polling, parking, restart |
| `SkillStore` | `skills`: pull, review, canary, local promotion, quarantine, index and directories |
| `TokenStore`, `ConsoleAuth`, `AutonomyGates` | `dashboard`: the token file and its writers, the door in front of the handlers, the gates and their two records |
| `ConfigResolve` | `lifecycle/config.go`: argv, file, environment and flags laid over the defaults |
| `DaemonLife` | `app`: twenty-five boot phases, subsystems, SIGTERM, drain, Park |
| `Upgrade`, `StallWatch` | `lifecycle`: the upgrade recipe and its rollback; heartbeat and stall checker |
| `MC...` | the instances TLC checks |

`LadderRun` and `LadderAdmission` share the incident but look at it from two
sides: the first has all states of a few incidents and reduces an arrival to its
effect on them, the second has few states and all of the arrival's ways.

State follows the code: a VARIABLE for each structure or file, records with the
code's field names, an action for each step the code takes without letting go of
its lock (or for each system call, where a crash can fall between two). A handler
that reads, unlocks and acts is at least two actions. Time shows as the steps by
which something lapses, or as a counter with a named bound. `map` in
`PROJECT.json` gives the definitions the lines they stand for; a branch or a
helper whose lines lie within those of another definition of its module is
found there.

### LedgerWriter and the code

A call goes `idle` → `send` (past the closing check) → `wait` (queued) or
`blocked` (queue full) → `ok`, `err` or `refused`. The writer goroutine is `pc`:
`select`, the batch being housed and flushed (`Write`, `Fsync`, `Ack` as separate
steps, because crashes fall between them), draining after the channel is closed,
and exit. `beforeBatch` puts hole records, the refusal fold and the disk note in
front of a batch; `flushBatch`'s failures go through `Nack`. The day files are one
sequence of items. A write is cut after any whole item, leaving nothing of the
next one or a piece of it; a piece either fails to parse (`frag`) or is a whole
record without its newline (`bare`). Appending after either glues two lines
together, as `O_APPEND` does. `Open` is the recovery: scan, counter from the scan
and HEAD, heal, and the boot records it owes. The scan may leave out a part it
cannot read, the lines of a newer schema and, where the build is bounded, event
and canary lines; the heal may fail at any of its writes. Each makes the index
degraded (`idx.degraded`, `idx.ever` for a boot in the past) and the boot goes on,
as `recover` does. A process crash keeps what was written, a power loss keeps at
least the synced prefix.

### LadderRun and the code

`Advance` holds the lock from its legality test to its record, so it is one step:
`Outcome` follows its tests in their order (row legal from the state, kill-switch
for stage rows, guard, apply, append). What is not one step is what the code does
without the lock: the resume pass's snapshot, its reading of the kill-switch and
its advance; the driver's read and up to three rungs; the dashboard's read and
its row; the model call. `resolveEdge` evaluates guards before `Advance` does, and
a guard that acquires the lease does so both times: `ResumeStep` has both
evaluations.

In the daemon the callers of `Advance` are the driver, the resume pass and the
dashboard. `Caller` stands for the package's exported API, which the tests use
and the specification documents describe: any legal row may be attempted. The same
is true of `Verify`, `RunAgentStage`, `Quarantine`, `Unquarantine` and
`TripBreaker`. Facts which guards read and nothing in the package writes (the
invalid count, agent mutations, out-of-scope tools, rollback failures, an
unevaluable window) are constant, which makes T17, T30, T36 and T41 unreachable;
`RowGuard` has them as FALSE.

### LadderAdmission and the code

`Admit` holds the lock throughout; its branches are tested in the code's order
(`Replayed`, `Suppressed`, `FoldHeld`, then `Fold`, `Merge`, `Reopen`, `New`). A
failing append leaves what was changed before it. `Finish` is `Advance`'s
bookkeeping after resolved and escalated; `Refuse`, `Quarantine`, `Unquarantine`
and `Row` differ in which index entries they touch, and that is the point.
`resolvedLocked` takes the first match of a map iteration and ignores the reopen
window: `Reopen` chooses any. The check for an index entry with a mismatched sig
never finds one and is left out. `Restart` empties the maps, as `New` does.

### The other modules and the code

* `HubIngest`: `offer[s]` is a call of `Offer` (claimed, added, waiting); `redis`
  is the server with the stream behind the group's cursor (`todo`), the pending
  list and its idle entries (`old`); `cons.pc` walks `handleEntry` (decide, append,
  mark, complete) and `runBatch`'s acknowledgement. An entry is one record. Redis
  itself is external.
* `IssueDesk`: a driver call is its HTTP requests, each answered, refused, failed
  or effective with its answer lost. A search may miss an issue made shortly before
  and a read-back sees one page of comments. The spool is on disk or, where its
  directory cannot be used, in memory; an entry leaves it before its drop record is
  appended. The spool's `next_try` order is left open.
* `FlowSpawn`, `FlowBoard`: the router takes a key once and answers a repeat with
  409, a success; a decision may come for any dispatched spawn, also one that has
  not arrived. The board's files are sequences of lines that another tool also
  writes; a failed append leaves nothing, a piece, a line without its newline, or the
  whole line unsynced, and the next line is glued to an open one.
* `SentinelIngest`: a request goes admit → quota → draft → batch → after, with the
  flusher and the replay beside it; an append may land after it was given up.
* `SensorGate`, `SensorFold`, `UnitWatch`, `JournalFollow`: each sensor is a
  goroutine of its own, and tables are locked call by call. The journal's queue has
  no lock, so a push and a pop each read and write it in two steps. Where a rescan
  begins is any place, since the time it is given is read in another zone than it
  was written in. The boot gate has as many managers as the sweep visits, in order.
* `SensorHealth`: a sweep writes the flag, the reason and the gap table in separate
  locked steps, and so do the liveness check and a reload; each is an action. Time
  is in ticks; what is due in a tick, the liveness check included, is done before
  the tick ends.
* `PressureWatch`: each trigger is a goroutine with a descriptor of its own, the
  shutdown eventfd is shared, and arming, polling, waking and closing interleave.
* `ScrubPass`: a value is a sequence of cells (a name a rule knows, a piece of a
  value, a marker, other text) with widths; a rule rewrites the cells it reaches.
  The rule table is the code's, reduced to what sets its rules apart. The prefilter
  knows the spellings its ASCII folding reaches and the patterns know more; the door
  scans the value as it is serialised, with its line ends escaped (`Serialised`).
* `ToolCalls`: the stages of `Call` are actions, because the host changes between
  the dry run and the write; modules are `config.set`, `file.patch` and
  `service.restart`. A file has a link as its second name; a write renames over
  whichever name it was given, and a lock is asked for under the name resolved
  before the wait.
* `LedgerPages`: a part has the boot's samples, its sidecar's offsets and the lines;
  the walk reads from a floor and probes one window below what it found, as
  `readPageFromFile` does, and `fileAppended` sets the first seq of a new part.
* `Upgrade`, `StallWatch`: every write of the recipe, of its rollback and of the
  checker may fail where the code returns early; a time stamp may be unknown.
* `ConsoleAuth`: a request reads the clock and the throttle (`blocked`), is judged,
  and counts its failure (`fail`) in separate steps, two requests at a time; a bucket
  may be dropped from its map between its making and its use.
* `SkillStore`, `ResearchRuns`, `LedgerCompaction`, `HubArchive`: every file
  operation and every call of a foreign service is a step, failures and
  crashes between them.
* `TokenStore`: the daemon and each `trouble dashboard token` command are processes
  without a common lock; a load and the rename it leads to are two steps.
* `DaemonLife`: each boot phase is an action that may refuse; `Park` has a budget
  and runs beside an `Advance` under way.

## 3. Runs

All runs allow the system to stop (`CHECK_DEADLOCK FALSE`): environment steps are
bounded, and a closed ledger, a resolved incident or an empty queue has nothing
left to do.

Four runs (`Delivery`, `Handover`, `Host`, `Upkeep`) are suites. A suite's MC module instantiates several components, each
with constants of its own; the variable `scene` is chosen at the start and only
that scene's component moves, so a suite is the union of its scenes' state
spaces. A suite's property is the conjunction of what its scenes owe.

| Run | Scenes and bounds | Properties |
|---|---|---|
| `LedgerCore` | two calls, one of them a two-record batch over a batch limit of two and a queue of one; a Rotate; one I/O failure of any kind, those of the boot's reads and heals among them, and a crash of either kind, or two crashes | `TypeOK`, `AckedReadable`, `SeqsAscend`, `TailClosed`, `RefusalsAccounted`, `CoreImplementsDurableLog`, `AppendsNeverPanic` |
| `LadderAgent` | two incidents (for the lease), two runs a day, two calls, two flips of the kill-switch, a new day | `TypeOK`, `TwoStrikes`, `RunnerHoldsLease`, `AgentBudget`, `KillFreezesWork` |
| `LadderPlay` | `play`: one incident with plays, briefs and a dashboard click; `human`: operator moves in the click's place; `world`: agent runs among trips, suppressions, arrivals, cooldowns and ageing strikes | `PlayCap`, `TwoStrikes`, `AckHasTwoExits` |
| `Admit` | `apart`: two sigs with keys of their own, a memory of one event, four arrivals, three other moves; `mixed`: three sigs, two sharing a key, every move | `ApartIndexExact`, `ApartArrivalFindsWork`, `MixedEntriesHome` |
| `Delivery` | `hub`: two senders of one key, any one of six faults; `archive`: three files, two faults; `lifeRefusals`: every phase and subsystem may refuse; `lifeDrain`: two events through boot, service and drain; `journal`: entries through a queue and a ring of a few, a dead child, vacuums, rescans from any place; `driver`: two incidents, two flips, failing appends | `NothingLost`, `NothingTwice`, `LifeOnRecord`, `DeliverySettles` |
| `Handover` | `deskA`, `deskB`: the issue desk; `spawn`: hot-fix dispatch; `sentSpool`: the quota spool; `gate`: a rule edit; `labFails`, `labStops`: two research runs of one class; `closing`: two appends, a full queue, a Rotate and a failing write racing Close | `HandedOnKept`, `HandedOnOnce`, `HandoverSettles`, `CleanClose` |
| `Host` | `boardFails`, `boardStarts`: two sigs and another tool, with a failing append or a restart; `sentGroups`, `sentLoss`: group counters and loss; `compact`: three lines in two parts, two generations, one fault (`SpineKept` is proved for any number); `upgr`: three runs, one bad build, two faults; `stall`: thirteen ticks, a stamp that may be unknown, two faults, the checker's own writes among them; `fold`: two sensors, a table of one; `toolsFail`: two plays on one file under two names, with a failing call; `toolsStart`: two plays through the link, with a restart; `tokShared`, `tokBoot`: the token file; `authFails`, `authPace`: two requests at a time at the door, buckets made and reaped; `gatesKept`, `gatesResume`: two autonomy posts at once; `cfgArgs`, `cfgFile`: argv, file, environment; `bootPaced`: two managers and a resync; `scrubText`, `scrubOwn`: values of a few phrases through the built-in table and a project's own rule | `DoorKept`, `GatesHold`, `ConfigTrue`, `BoardSound`, `NothingUncounted`, `CrashKeepsFiles`, `StallSeen`, `ScrubHolds`, `CallsTrue`, `EscalatesOnStall` |
| `Upkeep` | `skAuto`, `skReview`, `skCanary`, `skLocal`: one skill under each policy; `pageAll`, `pageKind`, `pageWide`: a walk beside the writer, rotation, restart, compaction, expiry, with samples and offsets every line or two, a filter by kind, and strides wider than a file; `lookup`, `idxGroups`, `idxIncs`: the look-up and the index at its bounds; `bootHolds`: two failed units of the first manager and one of the second; `healthDisk`, `healthTimers`, `healthLate`, `healthPsi`: one sensor with its sweep, the liveness check, up to four faults and a reload; `psiTriggers`: two resources on seven kinds of kernel, two lost triggers, a stop | `IndexSound`, `SkillsDecided`, `SensorsTrue`, `UpkeepSettles` |
| `LedgerBatchClose` | a batch beside Close | `NoPanic`, violated |
| `LadderResumeAgent` | one incident, two flips | `ResumeRunsAgent`, violated |
| `AdmitRestart` | one restart | `OneOpenPerSig`, violated |
| `ScrubTwice` | a header and an identity in one value | `FixedPoint`, violated |

Bounds are the smallest at which the case a property is about happens: a queue of
one is full with two callers, a memory of one forgets with two events, a table of
one evicts with two keys, one fault lands at every step, and a second crash or
fault is there where the first one's repair is what is checked. A stride or a batch
is small enough that samples, floors and batches of more than one occur. Where a
property holds but for a case the code gets wrong, the model has a history variable
for the case and the property names it as its exception; each exception was checked
to be needed by a run without it, and section 5 says what the code does there. Each property
of a passing run has a mutant in `PROJECT.json`: a plausible slip in one
definition with which TLC finds the property violated.

### Fairness

Only goroutines that wait on nothing but the scheduler, the clock or a call that
returns are fair; callers, operators, crashes, faults and arrivals never are.

* Ledger (`closing`): the writer, a producer past its closing check, Open, Close.
* Ladder (`driver`): `Worker`, because `ladderDriveLoop` is a ticker goroutine
  that runs a resume pass and a drive pass each tick, and `Lapse`, because the
  clock passes.
* Hub: the consumer's and supervisor's loops, a call under way, the ledger's
  writer, the clock; and Redis comes back, without which nothing can drain.
* Archive: the archive loop's tick. Daemon: boot, drain and the end of an advance
  go on (phases have time-outs). Journal: reader and handler.
* Desk, spawn, spool, research: the replay loops tick, a job and a foreign call
  return. Gate: sweep, inotify and a reload under way.
* Skills: the puller ticks. Pages: a caller that began a walk goes on. Boot gate:
  the clock, the sweeps and the resync. Pressure: a poll that is woken goes on, and
  so does a stop.

## 4. What the violated runs show

* `LedgerBatchClose`: `stop` waits for producers before it closes the channel, but
  the batch path does not count itself among them; its send panics the daemon.
  `AppendsNeverPanic`, checked by `LedgerCore` and proved, is the other half: the
  channel is never closed under an `Append`.
* `LadderResumeAgent`: an agent entry refused under the kill-switch is retried
  without a row id. `resolveEdge` evaluates the guard and takes the lease, then
  `Advance` evaluates it again and finds the lease taken. The entry never runs,
  and the lease stays with an incident that does not know its id.
* `AdmitRestart`: after a restart the maps are empty and nothing fills them from
  the ledger; the next arrival opens a second incident beside the first.
* `ScrubTwice`: `pass` computes the header rule's byte ranges once and uses them for
  `pii_identity_kv` after `auth_header` has rewritten the text, so an identity that
  has moved under the stale range is left to the second scrub. The `Host` scenes
  check the fixed point where no range went stale (`SettledIsFixed`), and that a
  bundle, which computes the ranges afresh, agrees with single values.

## 5. Where the checks stop

Some properties hold only inside a limit, and the limit is where the code does
something else. Most of these were seen as counterexamples while the bounds and
the wording of the properties were chosen; the rest were met while reading.

### Ledger

* Numbers may be given out twice, against `SPEC-01-ledger.md:246` ("seq allocated
  here, strictly increasing, never reused"). `recover` takes its counter from HEAD,
  which is refreshed at intervals, and from `LastSeq` of the parts it scanned
  (`recover.go:253`); `scanFile` returns before it sets `LastSeq` for a line of a
  newer schema and, in a bounded build, for a skipped event or canary
  (`index.go:662-668`), and an unreadable part is left out (`index.go:603-606`).
  `SeqsAscend` and `SeqsAlwaysAscend` are about behaviours in which no boot was
  degraded in one of these ways (`idx.ever`); `RecoveryIsAbove` says that each `Open`
  is above what is readable or degraded.
* `healTorn` and `healInteriorTorn` may fail; `recover` marks the index degraded and
  goes on (`recover.go:292-301`, `:347-357`), and the next record is glued to the open
  tail. `TailClosed` has that as its exception. What was acknowledged before stays
  readable all the same, and `AckedReadable` is checked and proved through it.
* `AckedReadable` with two failures, a short write and a lost file: `beforeBatch`
  empties `w.holes` into a batch that `flushBatch` then refuses because the file
  could not be reopened, and the reopened file's first record is glued to the open
  tail. The theorem excludes the pair (`OneKindOfLoss`).
* `CoreImplementsDurableLog` excuses `bare` tails: a whole record without its
  newline is not torn to `scanFile`, so nothing ends it, and the next record is
  glued to it (`recover.go:281` says otherwise). No acknowledged record is lost
  that way.
* A fold record goes down with a failed batch and its count is not given back; a
  hole record in a failing batch is lost in the same way
  (`SPEC-01-ledger.md:436`).
* An `AppendBatch` answered with an error may have left records in the file
  (`ledger.go:553`). With `AppendBatch` callers `CleanClose` fails: a batch call
  may still be under way, or be refused after the last fold.
* `Rotate` called while the writer leaves its loop is never answered
  (`writer.go:762`); no run checks that it returns.
* Compaction: `verifyContinuity` starts at 1 on each day; an unlinked part leaves
  its `.idx`; `ExpireDays` does not sync the directory; a day of aggregates alone is
  compacted again; a live `aggregate:true` record (`group.go:602`) is folded as if
  compaction had made it. Nothing in the daemon calls `ApplyRetention` or
  `ExpireDays`.
* A walk may end with records unread although its last token is empty
  (`page.go:162-163` says it is then finished). The floor of a page is the newest
  boot sample at or below the token's seq (`page.go:417-441`, `:490-500`), so older
  records of the file are skipped; and the probe for more looks at one window, so a
  filter by kind may find nothing there while there is more below (`page.go:456-484`,
  whose comment, "nothing between the window and the floor either", holds without a
  filter). `WalkComplete` excepts what these two hid (`walk.hid`).
* `fileAppended` takes the last seq of a part's first batch as its first
  (`index.go:354-366`), so until a restart `Resolve` does not find the batch's other
  records; `ResolveFinds` excepts them (`lead`). Bounded builds and newer-schema lines
  are left out of `LedgerPages`.
* Pages and index: a token of a dropped day is `token_foreign`; a group evicted
  again leaks its slot; `applyGroupLocked` skips `rankKeys`; aliases dangle;
  closing the newer of two open incidents hides the older; refs are never freed and
  rates never decay; cold reads go oldest first.

### Ladder

* `RunnerHoldsLease` when a lease runs out: `acquire` hands it to another incident
  while the first goes on running (`lease.go:55`, `SPEC-05-ladder.md:548`), and with
  a failing append: the row's effects stay though its state does not move.
  `TwoStrikes` shares the second limit: an unrecorded T28 raises the strikes while
  the incident stays at `agent:running`.
* `PlayCap` does not bound plays across T43 and the folds T44 and T48, and T48 takes
  an acknowledged incident back to `recorded`. With a failing append a run counts
  twice. With both extras at 0 a retried play passes it, which `Config.WithDefaults`
  (called by `ladder.New`) excludes: an unset `verify_reopens` becomes 1.
* `PlayCap` and `AckHasTwoExits` under the kill-switch: the resume pass advances
  from the state in its snapshot, and `resolveEdge` compares rows with that state
  and not with the incident's. An acknowledged incident is so driven into a play.
* `Settled` leaves out entries into the agent stage (see above), and allows
  quarantine: a resume pass that finds the guard closed is counted as an illegal
  transition, and the third one quarantines (`SPEC-05-ladder.md:487`, `:570`). The
  driver's rungs on an incident acknowledged since it was read count in the same
  way (`drive.go:205`), and so does a dashboard click on a state that has moved on
  (`dashbridge.go:198`).
* `Moved` excuses an incident whose breaker is open, for good: the guard reads the
  breaker's state and not its end, so only an arrival releases it
  (`statemachine.go:1389`, `SPEC-05-ladder.md:645`).
* `KillFreezesWork` is about states in which something runs. T22 drafts a play
  under the kill-switch (`SPEC-05-ladder.md:368`).
* `AgentBudget` bounds the entries. `RunAgentStage` tests the budget once more
  after the entry has been charged, so the last run of the day is entered and
  refused (`agent.go:102`). T03 does not test the play budget
  (`SPEC-05-ladder.md:575`), and T16 lets an incident with a research ceiling
  reach the agent (`SPEC-05-ladder.md:334`).
* Reopening keeps the evidence of the window before, and T38 accepts it
  (`verify.go:43`). Two invalid windows open neither T40 nor T41, because nothing
  counts them (`SPEC-05-ladder.md:746`).
* `Advance` takes a transition whose `Seq` is not above the incident's last one for a
  repeat (`statemachine.go:1002-1004`), which the model leaves out. The numbers come
  from the ledger's `LastSeq` (`dashbridge.go:208`, `:249`, `:268-273`) and from the
  driver's maximum of that and the index (`drive.go:163-172`), so an Ack that read its
  number before the driver's row was accepted is answered as done and changes
  nothing. The incident is then as if the click had not come, which the model has.
* Admission: one open incident per sig and exact indexes are about sigs with keys
  of their own and nothing that goes around the indexes. With a shared key a
  reopened incident is missing under its own sig, and a merged sig keeps naming a
  resolved incident. `Unquarantine` does not look for a successor. Each arrival
  inside a suppression window opens an incident (`SPEC-05-ladder.md:653`).
* Breakers: the first scope that is not closed decides, so an elapsed one lets an
  arrival past an open one (`budget.go:228`); a probe that escalates leaves its
  breaker half-open with nothing to decide it (`budget.go:246`).
* An event is remembered before its record is appended; if the append fails its
  replay is dropped (`SPEC-05-ladder.md:669`).

### Hub, issues, flow, research, skills

* Hub: redelivery may add a record after a new wiring or a fault, which
  `DuplicatesPriced` prices; `SPEC-13:290-293` has "exactly-once" and "zero new
  records". An entry of several records whose second append fails is redelivered
  with its first (`consume.go:264-290`); the model's entries are single records. Archive: a failed read-back is
  never retried, the boot's live file is taken for live until the next boot, and
  `Queue.Depth` never shrinks.
* Issue desk: the tracker's search lags behind its creates (`SPEC-09:554-557`), so a
  create whose answer was lost may be followed by a second one, and `OneIssue` counts
  the searches that missed. `readbackMarkers` reads the first hundred comments
  (`github.go:460`), so one beyond them is posted again; `CommentsPriced` counts those
  reads. `dropEntry` and eviction delete an entry before its drop record is appended
  (`replay.go:241` against `:247-255`, `spool.go:186` against `retry.go:260-261`), and a
  spool whose directory cannot be used lives in memory (`spool.go:57-101`): a crash
  loses both, which `SpooledNotLost` has as `hist.forgot`.
* Issue desk: a supersede after a refused reopen adopts the same closed issue
  (`quietclose.go:22`); the rebuild takes a failed close or a refused reopen as
  effective (`desk.go:275`); a failed read-back leads to a second comment
  (`replay.go:12`); spooled operations reorder by `next_try` (`SPEC-09:433`,
  `replay.go:63`); two replay loops may bring a delivered entry back; the sweep's
  close takes no lock.
* Flow: `Promote` and `Rollback` free the signature's lease whoever holds it, also for
  a dispatch that has not arrived yet (`spawn.go:94-110`, `:156`, `:163-189`), so a second
  fix may be let in beside the first (`SPEC-08` §3.10, one fix per sig); `OneFixPerSig`
  and `OneFixHolds` are about behaviours without that (`broken`). A replay writes an
  entry back that a put has evicted meanwhile (`replay.go:357`), so the queue may
  exceed `spool_max_entries` (`SPEC-08` AC-33) by as many, until the next put;
  `QueueBound` says no more than that.
* Board: a failed `appendLine` (`boardjsonl.go:379-389`) may leave a piece of a line, or
  a line without its newline, to which the next line is glued: a filing reported as
  written cannot be read back, and a row has no event. A line whose sync failed is
  there in full while its id is taken back (`maxEventID--`, `:313`), so the next event
  has the same id; a row of this kind has no event. `WroteReadable`,
  `OneCreatedEvent` and `EventIdsUnique` name these cases (`hist.glued`, `hist.cut`,
  `hist.failed`).
* Flow: the production `DispatchSpawn` never returns a worktree, so every accepted
  spawn is pending and dispatched again, and `max_concurrent` never binds; a failed
  dispatch is queued twice; `releaseLease` frees whoever's lease it is; an empty
  `TaskID` mints a new key; `Update` can bring an evicted entry back. On the board,
  `probeProject` sets `LastProbeTS` when unreachable (`SPEC-08-flow.md:243`),
  `sigRow` misses an existing row after a restart, and `Reconcile` never appends
  the missing event.
* Research: in-flight slots leak and may exceed the cap; two concurrent Runs both
  submit (`SPEC-07:476`); Park's `skipped` is overwritten; a failing lab skips the
  corpus; `Replay` adds the cost once per record.
* Skills: the error of `saveIndex` is discarded (`dist.go:470`, `:499`, `:606`, `:721`,
  `:730`, `:797`, `store.go:391`, `:779`) and the commit is marked as pulled afterwards
  (`dist.go:190-196`), so a restart may find no decision on a pulled commit, and what
  ran before may not run. `HeadDecided` and `SettledIsDurable` except an index whose
  last write failed (`hist.unsaved`) and the releases passed over (`hist.missed`).
* Skills: a quarantined version is installed again (`SPEC-11:469`); Reverify turns
  quarantined into refused; Approve deletes its directory; two drafts may get one
  version (`SPEC-11:433`); `saveIndex` writes outside the lock; a failed install is
  not retried; `AllowRun` races `RecordRun`. Only `New`, `Authorize` and `Match`
  are wired.

### Sentinel, sensors, registry

* Sentinel: with a spool of one, evictions are not noted; an id is claimed before
  its admission, so a retry within ten minutes is swallowed; `Peek` and `Drain` race
  (`spool.go:398`); a torn tail wedges `replaySpool`; a refused create batch leaves
  events without their group; `stormed` never resets (`SPEC-04:912`).
* Rule pipeline: a half-open probe never settles (`SPEC-03:658`); `rate1m` sums
  sixty of 180 buckets from the ring's start; sig breakers never reopen; a reload
  that times out skips `afterReloadFailure`; an edit between `New` and the first
  sweep is missed. Folds: `clearReason` leaves its episode open, a refused fold
  counts one drop, and `closeGap` ends degradation though another episode is open.
* Boot gate, two managers: `drainReady` sets `lastDrain` for a manager without holds
  too (`dbus_boot.go:164-187`), and the sweep visits the system manager first
  (`dbus.go:1106-1112`), so the first takes every drain and the units the others hold
  are never admitted, against `dbus_boot.go:22-27`. `HeldOut` is about the first
  manager's units. A hold dropped at `bootHoldMax` is not held again once the window
  is over, as the comment has it, but goes the usual way, and where its batch is
  refused it is never fired, its cooldown spent and its story open (`story.cut`).
* Units: `reholdPending` resets the pacing clock; a concurrent resync clears
  another's pending slice; a refused live emit leaves a held unit admitted without
  a fire; the class is derived twice, which makes two sigs; at most 256 matches a
  sweep; no reconnect.
* Journal: `followSince` formats its time in UTC without a zone (`journald.go:593`,
  `:732`), and `journalctl` reads it as local time. East of Greenwich a rescan begins
  hours early and records again what the ring has forgotten, once for each such
  rescan (`AtMostOnce` counts them, `out.wide`); west of it it begins hours ahead, and
  entries are passed over until then, in a gap that is on record.
* Journal: the unlocked queue may lose or repeat an entry; a stop or crash loses
  queued entries; `est_lost` accumulates; the backoff never resets.
* Health: `openGapFunc` returns before it sets the flag when the key is already
  open; `livenessCheck` closes a heartbeat gap only while the flag stands, so after
  a reload (`sensors.go:513`), or after the timers' own sweep cleared the reason
  (`disk.go:298`), the gap stays open and unfiled until something degrades the
  sensor again (`SPEC-03:748`). One mount's recovery clears the flag while
  another's gap is open, and a flag cleared between `diskError`'s writes leaves a
  degraded sensor without a reason.
* Disk and timers: a shed sweep comes every 240 s against a `staleAfter` of 180 s,
  so load shedding makes the disk sensor stale; `diskSweep` notes success when every
  mount failed; one record an hour (`disk.go:18`) does not bound a flapping mount. A
  failing `ListTimers` is cleared by the sweep that reports it; `missed_runs` counts
  sweeps; a timer stuck at its first elapse after a recovery is never counted. A
  sensor that never succeeded is never stale.
* Pressure: a trigger lost to POLLERR is not armed again and the mode stays
  `triggers+sampling` (`SPEC-03:863`); later losses are deduplicated before the flag
  is set; the reading after a wake does not count as a success (`SPEC-03:730`);
  `signalShutdown` reads the eventfd beside its close.
* Scrubber: the prefilter folds ASCII only (`prefilter.go:191-211`) and the patterns
  all of Unicode's case pairs, so a name spelt with such a letter is not redacted,
  unless another rule is let in by the same value; `GateNeutral` is about the other
  texts (`OnlyPatternsSee`). The door scans the payload as it is serialised
  (`ledger.go:600`, `:633-636`): a flag's path, exempt in the text, runs on into the
  escape of the line's end and is refused. The door's header pattern wants a backslash
  right before the name (`mandatory.go:28-36`), where an escaped line end is a backslash
  and an `n`, so it does not see a header on a later line.
* Scrubber: a value over its budget is cut again by a second scrub, and the fixed
  point leaves such values out; a header line redacted in part is skipped by
  `auth_header` and may be refused at the door; `enabled = false` in a rule's table
  has an effect for `entropy_token` alone. `dsn_any`, entropy, path rules, the scrub
  note and the counters are left out.
* inotify: the overflow event's descriptor is not handled
  (`inotify_linux.go:310`, `SPEC-03:341`), new subdirectories are unwatched.
* Tool calls: `writeFileAtomic` renames over the path it is given
  (`modules_file.go:970`), and `normalizePathArgs` only cleans that path
  (`modules_common.go:25-48`): a write through a link leaves the file it led to as it
  was, and the two names come apart (`SPEC-06:146`, `:622`). The lock's key is resolved
  before the wait (`registry.go:726`), so after such a write two calls on one name hold
  different locks; `DiffIsCurrent` excepts them (`spent.strayed`).
* Tool calls: a once key is forgotten by a restart (`SPEC-06:364`); a rollback may
  restore over an edit made since (`SPEC-06:825`); `PlayEngine.Run` passes no
  grants; a failed once apply is noted as executed; backups are pruned by base name.

### Lifecycle, dashboard, daemon

* Upgrade: a resume record that fails after READY ends the run with an error and the
  new build live (`upgrade.go:172-173`); a restore that fails leaves the new build live
  (`:151-154`, `:164-167`, `:274-304`), and the error of the second restart is discarded.
  `FailureKeepsOld` says which build each of these leaves, and that the old one is in
  `backups/bin`.
* Upgrade: readiness is not checked against the installed version
  (`upgrade.go:157`); a failed park leaves the daemon stopped (`SPEC-12:1330`); the
  failed-restart branch does not restart; two backups of a second share a name.
* Stall checker: a state or an alarm that cannot be written ends the run before the
  escalation (`stallcheck.go:143-148`), and a failed escalation counts as done; so the
  bound of `SPEC-12:731` is counted from the last thing that went wrong, the checker's
  own failures included (`since`). A ledger whose last stamp is unknown
  (`dashread.go:280-285`) has age 0 (`stallcheck.go:117-123`) and its stall is never
  seen; `DetectedInBound` leaves it out.
* Stall checker: `HeartbeatLoop` ends on one failed write; the idle tick blocks on a
  hung writer; the bound needs `Interval <= MaxSeqAge`; flapping resets the count.
* Console's door: a bucket just made has no time of its last use, and the next reap
  drops it from its map (`ratelimit.go:97-121`), so the request that holds it is served
  from it and the next one has a full burst again; `Paced` counts these (`spare`).
  `blocked` and `fail` are separate sections (`auth.go:48`, `:72`), so requests under way
  when an identity is blocked pass, and one with an old clock wipes the count;
  `RefusalsBounded` counts these (`raced`).
* Console: overlapping writers lose token updates; a second rotation on one day
  drops the first's replacement; `block` entries are never deleted (`SPEC-10:374`);
  overlapping autonomy posts lose a change; gates are lost on a restart
  (`SPEC-05:481`); Ack and Close read the state again after their check.
* Configuration: `parseArgs` replaces the dashes of the whole `--key=value` by dots
  (`config.go:2377-2382`), the value's too, where `SPEC-12:120`, `:139` and `:185` have the
  value given win. `HighestWins` compares with what the operator wrote, and a pair
  whose value has a dash is its one exception (`Dashed`).
* Configuration: a flag the daemon's split drops, ignored words and equal values
  reported as conflicts; `coerceEnvValue` turns what it cannot parse into false or
  0; a value beginning with `-` is taken as "true"; a scalar `issues=` is
  overwritten.
* Daemon: subsystems built after their consumers are not wired into them
  (`subsystems.go:457`, `:521`); a SIGTERM during boot is not seen; the exits at
  `config_record` and the missing listener leave no `boot_refused`; the hub's
  runtime is not closed on a boot failure; `ReAdopt` and `BeginDrain` have no
  caller.

## 6. Proofs

Every theorem is about a module's `Spec`, for every value of its constants that
meets the hypotheses shown.

| Module | Theorem | Says | Under |
|---|---|---|---|
| `LedgerWriterProofs` | `TypeCorrect`, `SeqsAlwaysAscend` | `TypeOK`; numbers ascend through failures, crashes and recoveries while no boot was degraded | `LedgerAssumption` |
| | `RecoveryIsAbove` | every `Open` leaves the counter at or above every readable record, or the index degraded, whatever earlier boots were | |
| `LedgerCommitProofs` | `OnlyBatchesPanic` | the channel is never closed under an `Append` | |
| | `CloseIsSafe`, `CloseIsClean` | without batch callers nobody panics, and a clean Close leaves queue, batch and fold written | no batch calls |
| | `RefusalsAlwaysAccounted` | the refusal fold is exact as long as no write fails | |
| | `AckedStaysReadable` | an acknowledged record stays a whole, readable line below the synced mark | `OneKindOfLoss` |
| | `RecoveryClosesTail` | recovery leaves no open tail that shows as one, or the index degraded | |
| `LedgerCompactionProofs` | `SpineStays` | the generation recovery would choose has exactly the day's audit records | `MaxSeq` a number |
| | `NumbersStayAccounted` | it has a line or an aggregate for every number of the day | `MaxSeq` a number |
| `LadderRunProofs` | `TypeCorrect`, `BudgetHolds`, `KillFreezes` | types; the agent budget; nothing enters a running stage under the kill-switch | `ConstAssumption` |
| | `TwoStrikesHold` | the two-strike rule | no failing append |
| | `OneRunPerHost` | who runs holds the lease | no failing append, no expiring lease |
| | `PlayCapHolds` | an incident's play runs stay within caps, reopenings and operator moves | `PlaysCounted`: an extra above 0, no failing append, kill-switch at rest, no T43, T44, T48 by callers |
| | `AckExits` | an acknowledged incident leaves by two rows only | no T48 by callers, kill-switch at rest |
| `LadderAdmissionProofs` | `EntriesStayHome` | an index never leads an arrival to a stranger | one key per sig |
| | `IndexesStayExact`, `OneOpenIncident`, `ArrivalsFindWork` | the indexes are exact; one open incident per sig; no arrival is absorbed by a finished one | sigs and keys correspond, nothing goes around the indexes |
| `HubIngestProofs` | `AckedStaysRecorded` | what the consumer acknowledged is in the ledger or on the dead-letter stream | `Sane`: senders have keys, batches are not empty |
| | `NoAnswerLost` | a waiter on the present wiring of an answered entry has its answer | `Sane` |
| `FlowSpawnProofs` | `QueueAccounted` | a queued dispatch is queued, delivered, on record as dropped, about to be, or cut off by a restart | `Sane`: incidents are not the model's own words, `SpoolMax` a number |
| | `QueueExcessBounded` | the whole queue is over its limit by no more than what was written back since the last put | `Sane` |
| | `OneFixHolds` | one signature has one fix, while no lease lapses, nothing restarts and no decision frees a lease that is not its own | `Sane` |
| `AutonomyGates` | `GatesStayTrue` | the gates in force are configured or on record; without overlap or restart a set kill switch holds and the last record is of the gates in force | `Sane`: a post's kill switch is on, off or absent |

The hypotheses are the limits of section 5, met as failed proof attempts or as
counterexamples; each is satisfied by the instances the runs check.

The inductive invariants, and why they are needed:

* `IInv` (writer): `SeqsAscend` alone is not inductive, since a counter behind the
  file would write a number twice. It adds `SeqBound` (the counter is not behind
  any number on disk; like `SeqsAscend`, while no boot was degraded), `BatchNumbered`
  (a rollback cannot go below zero), `RotatePending` and `BootOnce`. A restart that
  reads every line re-establishes `SeqBound` from the disk alone. The module opens with the facts about the file operators: appending,
  gluing, cutting and healing keep numbers ascending and add none.
* `PInv` (close): which phases of the process, of the writer and of the producers go
  together: a producer under way keeps the channel open, the writer leaves its loop
  with queue, batch and fold written, Close returns after it. `RInv`: a batch has at
  most one fold record and the writer loses its file only by a failure, so refusals
  are in the counter, in the fold under way or on disk.
* `BInv`, `QInv`, `DInv` (commit): what recovery leaves and who writes while the ledger
  opens; a call's records are queued once and are in the batch that answers it; an
  acknowledged record is a whole line below the synced mark, a written batch lies
  whole between the mark and the end, and an open tail is guarded by a hole or a
  note that comes before the next call's record.
* `CInv` (compaction): `SpineKept` looks at the generation recovery would choose, and
  a crash changes which that is. While the process is up (`UpInv`) the index has one
  whole generation, the directory has it, older ones and at most one whole file of
  the next, a crash can undo only the coming of the next or the going of what is no
  newer than the index, and the old one goes only behind the new; after a crash
  (`DownInv`) what recovery finds is whole.
* Ladder: `EveryRow` states what the groups of rows have in common, `Stays` and
  `Carries` what an attempt does, `Moves` that a step is calm, touches the lease
  alone, or carries one row of one incident; the theorems argue about `Moves`.
  `PlayCap` is not inductive, since the row that ends a play does not test the cap:
  `PlayInv` adds that in the states on the way to a play's end there is room for one
  more run.
* Admission: every operation writes one incident and moves index entries to it or
  to nothing (`Writes`). `HInv` (maps, leads, home) needs one key per sig; `AInv` adds
  exactness, agreement with the ledger and the absence of windows.
* Hub: `RInv` says that whatever claims `appended` (Redis, the LRU, the trust window,
  the index) speaks of a record (`Backed`), and what the consumer is done with is
  filed (`Work`). `NInv` says that ids are given out once (`Ids`, `Own`), so an answer
  parked for an entry is there until its own sender registers (`Parked`).
* Flow: `EInv` says that ids are given out once and who owes which drop record, and
  `back` counts the entries a replay put back after an eviction, by which the queue may
  pass its bound; `LInv` who holds the signature's lease from the gate to
  the answer, in the queue and during the fix.
* Gates: `GInv` adds to the three properties what a handler between its read, its
  record and its apply may assume (`Backed`, `Fresh`, `Agrees`).

Only model-checked: all liveness and everything under fairness; the refinement of
`DurableLog` (its mapping selects from a sequence, which needs induction over
data); `CountsKept` and the declared counts of `Verifies` (sums over sets need the
same); the cardinality part of admission's `TypeOK`; `DuplicatesPriced` (a claim
lost, a release and a failed acknowledgement each reopen an entry, and pricing them
needs a count of entries and claims together that no invariant here states);
`CleanClose` beside a batch (it fails); and the modules without a proof module.

## 7. Not modelled, and the plan

Left out inside the modelled components: source liveness, canaries, grants and the
spawn budget of verification and agent runs; fold comments and flap escalation;
quota arithmetic; `psi.enabled = false` and the probe's payload; the text of
anything.

Not modelled: parsers, fingerprints, slugs and schemas (pure text
functions over large input spaces); the model client and the drivers of external
services beyond what their callers see; rendering and the command line; the
forward spool of `lifecycle` (no production caller; its `Seal` reads back a file it
opened write-only); test kits.

Next: `DuplicatesPriced` from an accounting of wirings and faults; invariants of the
tool calls, the issue desk and the skill store; the step simulation of `DurableLog`.
