# claude-pilot in TLA+

claude-pilot is a command line program, written in Rust, that carries out *missions*:
descriptions of work on a repository, planned into tasks that language-model agents
execute, verify and merge. Every invocation is a process of its own; processes meet in
files under `.claude/pilot` (mission files, lock files, worktrees) and in two SQLite
databases (`events.db`, `snapshots.db`). Inside a process, tokio tasks, one writer thread
per event store and parallel agents share memory.

This directory specifies that machinery. What the agents say is an input; what the program
does with it, in which order, with which copy of the state, next to which other process,
is what is modelled. Paths below are relative to `src/` of the crate unless they start
with `skills/` or are a `README`.

## 1. Inventory

| Component (source) | State | Operations | What makes it correct |
|---|---|---|---|
| Event store (`state/event_store.rs`, `state/writer.rs`) | tables `events`, `archived_events`; bounded channel; `SequenceAllocator`; open transaction | append, append_with_version, append_batch, archive_events_through, compact, open, drop | one totally ordered history, unique numbers, atomic batches, optimistic locking, durable acknowledgements, every call answered |
| Snapshots and replay (`state/replay.rs`, `state/snapshots.rs`, `Projection` in `state/projections.rs`) | `snapshots.db`, projections in memory | rebuild_projection, replay_from_checkpoint, maybe_snapshot, save/clean-up, auto-archive | a snapshot plus the rest equals the whole: nothing lost, nothing twice, despite corruption and restarts |
| Mission state machine (`state/machine.rs`) | `MissionState` | can_transition_to | terminal is terminal; every command has the transition it needs |
| Process lock (`orchestrator/lifecycle.rs`) | `locks/<id>.lock`, `LockGuard`, heartbeat task | acquire, release, drop, heartbeat, is_orphan_state | one executor at a time, no lock-out by the dead, no orphaning of the living |
| Mission commands (`main.rs`, `orchestrator/engine/{mod,lifecycle}.rs`, `orchestrator/signal.rs`, `mission/store.rs`) | mission file, in-memory copies, signal handlers | mission, resume, pause, cancel, retry, start-up sweep, Ctrl-C | a command's effect lasts; suspended work is kept; commands end |
| Execution loop and tasks (`orchestrator/engine/{execution,recovery,verification,phases}.rs`, `mission/{types,task,status}.rs`) | tasks, retry counts, iteration, failure histories | execute, execute_loop, apply results, handle failure, finalize | tasks run after their dependencies, the loop ends, failure and success are told apart |
| Recovery (`recovery/*`) | checkpoint files, failure histories, escalation | create and restore checkpoints, choose strategies | restore never loses finished work |
| Worktree isolation (`isolation/*`, `git/*`) | worktree directories, branches | setup, cleanup, cleanup_orphaned, merge | agents work in a tree that exists; suspended work keeps its tree |
| File ownership (`agent/multi/ownership/*`, `conflict_resolver.rs`, `message_store.rs`) | leases, waiting queues, deferred tasks | acquire, release, drop of the guards | one writer per file, nothing leased by nobody |
| Message bus (`agent/multi/messaging/*`) | broadcast channel, subscribers | send, receive, lag | messages for an agent are seen or known to be lost |
| Coordinator (`agent/multi/coordinator/*`) | phase, results | research, planning, implementation, verification, session recovery | dependencies first, one result per task, success only for reviewed code, an end |
| Orchestration session (`agent/multi/session/*`) | participants, task graph, notification log, checkpoints | register, order, assign, complete, fail, retry, notify, checkpoint | no circle of tasks, loads follow the graph, a checkpoint and what follows it is the state |
| Consensus (`agent/multi/consensus/*`, `adaptive_consensus/*`, `convergence.rs`) | rounds, proposals, conflicts, results of tiers | run rounds, time out, compare, backtrack | it ends; an agreement was heard; results rest on results that count |
| Pool and health (`agent/multi/pool/*`, `health.rs`) | agents, load counters, scores | select, execute, check, shut down | load counters return to zero |
| Hierarchy and workspaces (`agent/multi/hierarchy/*`, `workspace*`) | manifest data | select strategy and participants | pure functions |
| Convergent verification (`verification/convergent/*`, `history.rs`, `issue.rs`, `pattern_bank.rs`) | clean rounds, issues, fixes tried | verify until convergent, fix, extend, give up | success only for code nobody touched since; bounded fixing; an end |
| Context, planning, quality, learning, search, symora, summarization, notification, configuration, output | texts, scores, settings | | scoring and formatting, no protocol |

How they interact: the commands call the engine; the engine loads a mission, holds a
*copy* of it, and writes the whole copy back at every change (`transition_state`,
`store.save`); it appends to the event store on the side, where an error is only logged.
`Orchestrator::init`, run by *every* command, removes worktrees. Ctrl-C and the engine's
own `pause`/`cancel` reach the loop through an atomic signal, but only in the process that
created the mission; another process writes the mission file directly. The event store's
callers are async tasks that wait, with a timeout, for a thread that works off a queue.

The hard behaviours are therefore: processes that interleave at the level of single file
operations; stale copies; crashes between two file operations; a writer that still carries
out what its caller gave up on; several allocators for one unique column; snapshots read
at another moment than the events they are combined with; results of parallel agents and
tasks applied in some order; deferrals, retries, backtracks and extensions that must still
end; clean rounds counted across fixes. `PROJECT.json` lists the most important of these at
their line with the property that covers them; section 6 lists the others.

## 2. Modules

| Module | What it is |
|---|---|
| `EventLog` | the rows of `events.db` as sets and the SQL statements over them as operators; used by both components below |
| `EventStream` | abstract specification of the event store: one history that grows by whole calls; each event takes the next place in the stream of its aggregate |
| `EventStore` | the event store: processes, writer threads, channel, allocators, SQLite transactions, callers, timeouts, crashes; ends with the refinement mapping to `EventStream` |
| `EventStoreMC` | instances of `EventStore` for TLC |
| `EventReplay`, `EventReplayMC` | snapshots, replay, archiving by several async tasks |
| `ProcessLock` | the lock file, its guard, heartbeat and staleness |
| `MissionControl`, `MissionControlMC` | a mission and the commands that act on it; extends `ProcessLock` |
| `TaskPlan` | how a planning model's answers become a mission's tasks |
| `MissionTasks`, `MissionTasksMC` | the tasks of a mission in the execution loop, with checkpoints, crashes and resumption; extends `TaskPlan` |
| `FileOwnership` | exclusive leases on files, with module boundaries |
| `Implementation` | a coordinator's implementation phase; extends `FileOwnership` |
| `CleanRounds` | a coordinator's verification rounds |
| `Coordinator`, `CoordinatorMC` | a multi-agent mission; composes `Implementation` and `CleanRounds` |
| `ConsensusTiers` | participants, strategy and tiers of a consensus, as operators |
| `ConsensusRounds` | the units of a tier, side by side; extends `ConsensusTiers` |
| `HierarchicalConsensus`, `HierarchicalConsensusMC` | direct, flat and tiered consensus with backtracking; extends `ConsensusRounds` |
| `ConvergentVerification`, `ConvergentVerificationMC` | the loop of checks, reviews and fixes |
| `TaskDAG` | the graph of a session's tasks, as operators |
| `OrchestrationSession`, `OrchestrationSessionMC` | a session's graph, participants, notifications and checkpoints together; extends `TaskDAG` |
| `Selection` | what a filter or a retain leaves of a list, as a recursive function; used by `Implementation` and `OrchestrationSession` |
| `ProofLemmas` | lemmas about sets, sequences, maxima and recursive functions that several proofs need |
| `EventStoreProofs`, `EventReplayProofs`, `CoordinatorProofs`, `ConsensusProofs`, `SessionProofs`, `ConvergentProofs` | theorems about one component each |
| `MissionProofs` | theorems about `MissionTasks` and `MissionControl`; extends both, which have no name in common |

`Fault...` operators stand next to the definition they are a broken version of. They are
never used by a specification; `PROJECT.json` ("mutants") pairs each with the property
that notices it.

### EventStore

A process has one writer thread (`writer`: down, up, closing), a queue of at most
`QueueCapacity` commands, an allocator `nextSeq` and at most one open transaction `tx`.
A caller goes idle -> sending -> waiting -> idle; `issued[n]` is the n-th call, and an event
carries the number of the call that wrote it. The correspondence with the code:

- `Open` seeds the allocator with `MAX(global_seq) + 1` of the live table, once.
- `Call`/`Send`/`Timeout` are `send_write`: the blocking send on the channel, which the
  timeout does not cover, and the wait for the answer, which it does. After a timeout the
  command stays where it is.
- `BeginAppend`, then `CommitAppend`, `AbortStale` or `AbortCollision`, are `append_event`
  and `append_batch`: the transaction is deferred, so its snapshot is dated by the first
  SELECT and another process may commit before the first INSERT. SQLite (external, WAL
  mode) then refuses the write. A number that is taken violates `idx_global_seq`; the
  numbers drawn so far are spent, in both cases. Within one connection nothing else can
  happen between begin and commit, and after its first INSERT a transaction holds the
  write lock, so the INSERTs and the commit are one step. The busy timeout only delays.
- `Conflict` is a failed version check, `AppendNothing` the empty batch.
- `ArchiveThrough` moves the rows of *all* aggregates; it starts by writing, so nothing
  can come in between. `Compact` keeps the rows and makes other snapshots stale.
- `Close`/`Joined` are `Drop for EventWriter`: the queue is worked off first. `Crash` loses
  the queue and the transaction, keeps the tables.

Abstracted: payloads, timestamps, correlation and causation ids, the read pool, migrations.

### EventReplay

A task loads a snapshot (`Load`), awaits the query (`Fold`), may save a snapshot (`Save`,
with `CrashInSave` between insert and clean-up) and may archive (`AutoArchive`); between
any two of these steps other tasks append, save and archive. A projection is represented
by its `last_applied_seq`, the set of events folded into it and how many times `apply` was
called, which is what exactly-once needs and nothing a projection type adds could change.
Which of several snapshots with one `global_seq` a LIMIT keeps is left open. The store is
seen as one process sees it: appends atomic and in order, which is what `store_single`
shows of `EventStore`. `Settings` are the sizes of an instance; a behaviour keeps the one
it starts with. With archiving the setting is one task, one aggregate, one type, no faults:
outside these bounds `RebuildComplete` is false in the code (section 6).

### ProcessLock and MissionControl

A process of the model is one run of the program: it starts, executes one command and
ends, and its number is its pid. `where[p]` is where it stands in the code, `copy[p]` the copy
of the mission it loaded, `disk` the mission file, `tree` the worktree. Each step is
between two file operations of the code: a load, a save (`Becomes` = `transition_state`), a
rename of the lock file, a `git worktree` command. `MayBecome` is the FSM's answer about the
copy, which may be out of date. The engine's error paths are steps too: `GiveUp`, `ErrorInLoop`,
`DirectFails`, `CompleteFails`. `ForceQuit` is the second Ctrl-C, which drops the future
and so runs `Drop for LockGuard`; `ProcCrash` does not. The heartbeat is a read and a rename,
which may straddle the release of the lock. `Lapse` lets the file pass the stale threshold
at any time (a suspended laptop, a blocked runtime).

Abstracted: tasks (an iteration may go on, finish, fail or escalate), the coordinator (one
way to execute directly), commits and merges, several missions, branch isolation, plain
`retry` (the orphan check only runs with `-f`).

### TaskPlan and MissionTasks

`plan` is `mission.tasks`, `mem` the copy of the mission the executing process works on,
`file` the mission file, `cp` the last recovery checkpoint. A round is the code's: the ready
tasks are started (`StartTasks`), or those that never can start are skipped
(`SkipBlocked`); the mission is saved (`Save`); results are applied one by one in the order
of the tasks (`Verified`, `Rejected`, `GivenUp`, `Errored`), whatever the order in which
the parallel agents answered, because the code waits for all; the mission is saved again
(`EndRound`) and a checkpoint is written when one is due (`Checkpoint`). `Pause` and
`Timeout` suspend at the loop's head, `Crash` strikes anywhere, `Orphaned` is the `retry -f`
of another process, `Resume` restores the checkpoint over the file and `Recover` sends
interrupted tasks back to Pending. `Home` is the quirk of `Mission::task_mut`: an update
goes to the *first* task with the id.

The plan is what `TaskPlan` lets through of a planning model's answers (`Outlines`); chains,
forks and joins become plans, a cycle or a dependency on nothing is refused. Left out: the
outcomes of a task no error can lead to (rollback, skip, escalation by the recovery
executor), the two branches of the loop that only sleep (never taken with a validated
plan), a task status Verifying (never saved), and what a failing task is told. A save that
fails during clean-up leaves the same files as a crash before it.

### FileOwnership, Implementation, CleanRounds and Coordinator

`Coordinator` is `execute_mission`: health, research, then planning or consensus with
escalation, then the implementation phase, then verification, with a timeout (`Timeout`)
that drops the future in the middle of any of it, which releases the leases (`DropWork`
= `Drop` of the guards). The consensus is an outcome and a task list here.

A task is its place in the list, with dependencies, paths and a module. The independent
tasks that share no file (`Independent` = `partition_tasks`) ask for their leases
(`Acquire`), those that got them run in one batch with at most `Permits` agents (`Start`,
`Finish`), the others one by one after it, and the dependent ones one by one in one of the
`TopologicalOrders` (the sort starts from a hash map). A deferring agent sends its task
into the next round (`RetryRound`), up to `MaxDeferred` rounds. Paths are names and
`Resolved` says which file each is, so two names of one file are part of the instance. A
file of `NewFiles` may not exist when the tasks are partitioned (`missing`): its paths are
then compared as they are spelled (`FilesOf`), because `fs::canonicalize` finds nothing.

In `CleanRounds` each reviewer of a round passes, names issues, fails without naming any,
or breaks down; `Judge` counts a round without *named* issues as clean; `Fix` charges an
attempt per report. `passed`, `unanimous` and `unchanged` are history variables.

### ConsensusTiers, ConsensusRounds and HierarchicalConsensus

`Select` picks the affected modules of a workspace and applies `StrategySelector`. A tier's
units run side by side (`UnitStep`): ordinary units ask, count their answers
(`Collect`), synthesise (`Synthesize`, which may let further agents join) and go round
again; collective ones exchange proposals and compare them (`Exchange`, `Compare`). A unit
may miss its deadline between any two steps (`Deadline`, `GiveUp`), and a tier drops units
that take too long (`TimeOut`). `Advance` files the results of the tier; `Backtrack` drops
those from an earlier tier on, a bounded number of times. `attempts` and the `below` of a
result are history: which run of which unit a result was made from.

Answers, scores and the wording of conflicts are free choices. What the pool knows
(`Pool`) is a constant, because in the code coordinators of groups are named as
participants and never registered.

### ConvergentVerification

`Round` is one pass of checks, diagnostics and review through `record_round`, with the
registry of issues, the oscillation count and the drift history; `Stop`, `Clean` and
`Dirty` judge it; `Skip`, `Fix` and `EndBatch` are `fix_issues_batched`; `GiveUp`/`GoOn` are
the early termination; `Proceed` grants more rounds (`Extends`). An issue is its signature.
The review is always part of a round (`config/settings/recovery.rs:322` refuses a
configuration without it). `maxFix` is `max_fix_attempts_per_issue`, chosen from
`FixAttempts`; a strategy is taken only while it is untried, so their number bounds the
fixes of an issue too. `streak`, `critics`, `spent` and `worse` are history variables,
explained at `Init`: `spent` starts again only where a registry that holds too many forgets
an issue that was not reported in two rounds running (`MayForget`).

### TaskDAG and OrchestrationSession

One step per operation of the session, which is behind a lock. The log keeps the newest
`MaxEntries` notifications, fewer when old ones age out (`young` in `Add`); checkpoints are
capped the way `cleanup_old_checkpoints` does it. Nothing but tests calls most of these
operations yet (the coordinator starts, notifies and completes a session), so the client is
the one the tests are: it registers an agent and adds a task once, orders a task before it
runs, and reports a task's outcome in the name of the agent it was assigned to.

## 3. Runs

Twelve runs, nine that pass and three that show a disagreement. The longest take one to
two minutes with two workers.

| Run | Shows | Instance, and why it is enough |
|---|---|---|
| `store_single` | `OnlyConflictsFail`; `CallOrder`; the store implements `EventStream` (`ImplementsStream`); `EveryCallReturns` | one process, two callers, queue of 2, three calls out of five kinds, two openings. Three calls let one time out, one fill the queue and one overtake; a batch `m1, m2, m1` meets the repeated-aggregate and the interleaved case; the second opening follows a crash or a close. No archiving: once an aggregate's rows are archived its versions start at 1 again, so the refinement would not hold |
| `store_shared` | `UniqueRows`, `AckedDurable`, `AllOrNothing`, `OptimisticLock` | two processes, one caller each, four calls: expected version 0, a batch over two aggregates, archiving. Stale snapshots, collisions, lost version races, archiving below a running append and a second winner after archiving all occur |
| `replay` | `SnapshotsExact`, `RebuildComplete`, `CheckpointExact`, `NewestNeverRegresses` | two tasks, one aggregate and type, interval and number of snapshots 2, four events, four replays, two faults: snapshots are taken, evicted and corrupted, and the process restarts. Or one task that archives, six events |
| `mission` | `WorkHasTree`, `RefusedOnlyByLiving`, `TerminalIsFinal`, `SignalHonoured`, `CommandsEnd` | three runs of the program one after the other, any commands, crash and forced quit anywhere, one lapse of the lock: the first creates the mission, the second leaves a second kind of wreck, the third has to cope with it |
| `tasks` | `OrderKept`, `CheckpointBehindFile`, `NothingLeftOut`, `TerminalStays`, `LoopEnds` | three tasks in a chain, a fork or a join, one retry, five iterations, a checkpoint every second round, the time limit, one restart: a task fails for good with another still to run, a checkpoint is older than the file, and the iterations run out |
| `coordinator` | `ExclusiveFiles`, `DependenciesFirst`, `SettledOnce`, `NoLeaseLeft`, `ReviewedFinalCode`, `MissionEnds` | three tasks over four paths, two of them one file, which may be a new one, and one owned by another module: aliases, known and unknown to the partition, a refused lease, a path named twice, a chain listed against its order, a cycle, a dependency on nothing; two permits, two rounds of deferral; three reviewers, one issue, two clean rounds of at most five |
| `consensus` | `ResultsCurrent`, `TableComplete`, `AgreementHeard`, `ConsensusEnds` | three workspaces: two modules without a group, two in one group, three in two groups of a domain (three tiers); coordinators nobody registered; two rounds, two participants needed, two backtracks; module and workspace tiers collective |
| `verification` | `ConvergedOnReviewedCode`, `FixBudget`, `OscillationReal`, `VerificationEnds` | two issues, one unsolvable, five rounds and up to two grants of two more, a registry of one entry, so that it forgets; one or three attempts against two strategies, so that either bound of the budget is reached, and an issue can be fixed, be resolved and come back; thresholds small enough for each way to end |
| `session` | `SomeTaskCanRun`, `LoadsMatchTasks`, `RecoveryExact` | three tasks, two agents, one retry, a log of two entries of five added, two checkpoints: a circle needs three tasks, and a task can fail under one agent and be completed by the other |
| `mission_exclusion` | violated: `MutualExclusion` | two runs of the program at the same time |
| `tasks_chunked` | violated: `TerminalStays` | a plan of two phases, each with one task |
| `coordinator_clean` | violated: `CleanMeansPassed` | as `coordinator`, with at most four rounds |

The `mission` run has one process alive at a time on purpose: with two, some of its
properties are false (section 6). Deadlock is not checked where a system stops
legitimately (bounds are used up, all processes have ended); that nothing gets stuck
before is said by `EveryCallReturns`, `CommandsEnd`, `LoopEnds`, `MissionEnds` and
`ConsensusEnds`. `verification` has a step for being over and is checked for deadlock. The
`session` run is safety only, and uses symmetry of tasks and of agents.

Each module states a type invariant. The runs leave it out; it is proved instead (in
`EventReplay` and `OrchestrationSession` as a part of the inductive invariant).

Bounds are CONSTANTS and stand in the guards: `MaxOps`, `MaxOpens` (calls, openings), the
sizes in `Settings`, `MaxLapses`, `MaxAlive`, `MaxRestarts`, `MaxReports`, `MaxNotices`. All
others (`MaxRetries`, `MaxIterations`, `MaxDeferred`, `MaxRounds`, ...) are limits of the
code.

### Fairness

- `EventStore`: weak fairness of each writer thread's step: it is an OS thread that runs
  while its process does; and strong fairness of `Send`: a thread blocked in
  `SyncSender::send` is woken when there is room, however often others fill it.
  Callers, timeouts, crashes and opening are never forced.
- `MissionControl`: weak fairness of a process's step. Signals, heartbeats, lapses, crashes
  and starting a run are never forced. `CommandsEnd` assumes `LoopsEnd` besides: the loop
  left to itself ends, which is what `LoopEnds` of `MissionTasks` shows. `SignalHonoured`
  does without.
- `MissionTasks`: weak fairness of the executing process (`Execution`): one async function
  that goes on while nothing stops it. Pauses, the time limit, errors and crashes are never
  forced.
- `Coordinator`: weak fairness of `Progress`: every call of an agent has a timeout of its
  own and comes back. The mission's timeout is never forced.
- `HierarchicalConsensus`: weak fairness of the steps of units (`per_agent_timeout_secs`)
  and tiers. Neither the consensus nor the tier timeout has to come.
- `ConvergentVerification`: weak fairness of `Next`: check commands, reviews and fixes have
  timeouts.

### Findings

1. **Two executors** (`mission_exclusion`): the lock is a read followed by a rename.
   `execution.rs:75`: "prevents concurrent execution".
2. **A completed task goes back to InProgress** (`tasks_chunked`). A plan made phase by
   phase repeats task ids, and `task_mut` finds the first of an id, so the second task is
   never started; its progress and result are written to the first.
3. **A failed review counts as a clean round** (`coordinator_clean`). A round is clean when
   its list of findings is empty, and a review or check that fails without naming a
   finding, or breaks down, adds none.

The definitions and quotes are in `PROJECT.json`.

## 4. Proofs

Eight of the modules have their theorems in a module of proofs. For each an invariant is
proved inductive, for every value of the constants the ASSUMEs of the module admit, and the
properties of the runs are read off it. Where a theorem needs more than that, the
hypothesis is in its statement:

| Theorems | Hypothesis | Why it is there |
|---|---|---|
| `AloneOnlyConflictsFail` | `OneProcess` | the allocators of two processes collide (section 6) |
| `AloneKeepsCallOrder`, `AloneImplementsStream` | `OneProcess`, `NothingArchived` | the same; and an aggregate whose rows were archived starts at version 1 again |
| `SnapshotsAreExact`, `RebuildsAreComplete` | `~setting.archive` | snapshots do not see rows that were moved; `archive_after_snapshot` is off by default (`config/settings/state.rs:48`). For the run's archiving instance TLC checks them |
| `SavesLoseNoGround` | `~setting.archive`, `SmallTables` | a clean-up that a crash cut off leaves more rows than the limit ("Only model-checked" below); `TablesStaySmall`: the hypothesis holds until the first fault |
| those of `MissionProofs` about tasks | `UniqueIds` | the ids of the tasks of a plan differ. `OneDecompositionHasUniqueIds` proves it of a plan made in one decomposition; `tasks_chunked` is what happens otherwise |
| `OneExecutes` | `Undisturbed`, `Timely` | two runs at once both execute the mission otherwise (`mission_exclusion`); see "Commands and the lock" |
| `WorkIsSheltered`, `OverIsOver` | `MaxAlive = 1` | runs of the program follow one another. Of two at once one can remove the other's worktree and save over its end |

Two of the provers' limits shaped the modules. A theorem over an operator parameter cannot
be instantiated, so `ProofLemmas` states induction over sets (`InductionUpTo`) and says
once when a recursive function unfolds (`RecursionExists`); folds that had to be reasoned
about are recursive functions (`Selection`, `Implementation`, `ConsensusTiers`). `MaxExists`
gives every finite set of integers its maximum, by the well-foundedness of strict inclusion.

### The event store

`EventStoreProofs`, for any processes, callers, calls, queue capacity and bounds that
satisfy the four ASSUMEs (callers live in a process; the bounds are numbers; an append has
one event and only it an expected version; the value for "no transaction" is none).

- `Invariance`, `TypeCorrect`, `RowsAreUnique` (`UniqueRows`), `AcknowledgedIsDurable`
  (`AckedDurable`). A commit adds rows; their sequence numbers are free because the unique
  index was consulted (`Collisions = {}`), and distinct because they are consecutive. Their
  versions are free for another reason, since the code relies on the transaction and not on
  the allocator: a transaction whose snapshot is still the latest read the version that is
  the latest *now* (`TxVersionFresh`), each later event of a batch adds the number of
  earlier events of its aggregate (`Earlier`, lemma `EarlierCounts`), and everything in the
  table is at most the latest version (`LatestVersionBounds`). That last step needs the
  table to be finite, which is why `IsFiniteSet(live)` is in `IInv`. Every step that commits
  makes all other snapshots stale; lemma `TxKept` says so once for all actions. Durability
  is inductive alone: the rows deleted by archiving are the rows copied.
- `ExpectationHoldsWhenWritten` (`OptimisticLock`): when an event is written, the version
  its caller expected is still the latest, and no live row is of a call that expected the
  same. From `ExpectedInv`: a transaction goes on only with the version its call expects, and
  a live row has the version after the one its call expected. Over archived rows it does not
  hold that one call at most wins (section 6).
- `CallsAreAtomic` (`AllOrNothing`), from `AtomicInv`. `PlaceInv`: a call is in one place,
  with its sender, in the queue or in the transaction, of the process of its caller, once;
  `LedgerInv`: a call that is in one of them has no rows and no error yet. Without these a
  call could be written twice. Atomicity then follows from a commit adding all rows of one
  call.
- `AloneOnlyConflictsFail` (`OnlyConflictsFail`), from `AloneInv`: the allocator of the only
  writer is past every row of the table, so nothing collides, and a snapshot is never
  stale. `AloneKeepsCallOrder` (`CallOrder`), from `OrderInv`: what a caller has in the log
  is older than what it still waits for; a commit takes the head of a queue that is in the
  order of the calls.
- `AloneImplementsStream` (`ImplementsStream`): every step of the store is a step of
  `EventStream` or leaves its history alone. `HistoryInv`: the rows are numbered from 1
  without gaps, and the version of a row is the number of rows of its aggregate up to it. The
  history is the table read in this order; lemma `LogGrows` shows that a commit only extends
  it, `BatchCounts` that a batch counts its versions on. A gap would be left by a call whose
  numbers are spent and not written, and for one process there is none
  (`AloneOnlyConflictsFail`).

### Snapshots and replay

`EventReplayProofs`: `SnapshotsAreExact`, `RebuildsAreComplete`, `CheckpointsAreExact`, for
any aggregates, types, tasks and settings. `Plain`, which holds where nothing is archived,
says that the rows of the log differ in sequence number and call, that every valid snapshot
is exact as of its own sequence number, and of each task what it knows: its projection is exact as
of where it starts, and once it has folded, nothing it was owed is missing. A row that is
appended while a task waits has a number beyond the snapshot's, so both stay exact.
`CheckpointsAreExact` has no hypothesis; the property speaks of settings that do not archive.

`SavesLoseNoGround` is an action property, the part of `NewestNeverRegresses` that holds
for any number of faults before: without archiving, no step but a fault makes
`load_latest` go back. A save adds one valid row and removes the oldest ones beyond the
limit. If the table had at most as many rows as the limit, at most one goes (`CleanUpIs`): an
old row, and then the new one that stays is at least as new; or the new row itself, and then
all old ones stay, the newest valid one among them (`SaveGains`). Corrupt rows count, but
cannot push out a valid one that is newer.

### Tasks of a mission

`MissionProofs`, first half: `Types`, `OrderIsKept`, `CheckpointsStayBehind`, `NothingIsLeftOut`,
and the action property `SettledStay` (`TerminalStays`). The program has up to three
versions of a mission: the file, the working copy and the checkpoint. `Follows` sums up what
any action may do to the working copy (start what can start, skip what never can, decide
about what runs, count up); the invariant is that the checkpoint is behind both others
(`CopiesAt`), that they agree on every task that is settled in the file, that they are equal
at the places of the loop where the code has just saved (`PlaceAt`), and that a file says
Completed only of a mission with all tasks completed (`CompleteAt`). A crash leaves the
file and the checkpoint, which are behind in the same way.

### Commands and the lock

`MissionProofs`, second half, for any processes, commands and number of lapses; that a
process name, a lock and "no lock" are different things is assumed (`LockAssumption`). The
forty-odd actions are first classified: what a step of a process may do to its place and the
lock (`Moved`), to the mission it has loaded and the file (`Files`: it reads, keeps, changes
or saves), and to the worktree (`Housed`). Everything else is proved of these.

- `ControlInvariance`, `ControlTypes` and `RefusalsAreByOthers` (`RefusedOnlyByLiving`) hold
  however many processes run. The invariant is `Unnamed`: neither the lock file nor any
  heartbeat names a process that has not taken the lock yet. So a run that finds a valid
  lock found somebody else's, and `is_process_alive` has seen that one alive.
- `OneExecutes` (`MutualExclusion`, and that the lock file names the executor) holds for any
  number of processes under two assumptions. `Undisturbed`: while one run is between a look at
  the lock file and the act that follows (`Look` and `Take`, `OrphanCheck` and
  `RecoverUnlock`, the read and the rename of a heartbeat) no other run takes the lock. The
  code does nothing to make this so. `Timely`: the lock of a run that executes is renewed
  before it counts as stale; a heartbeat comes every 30 s and the threshold is 300 s
  (`config/settings/orchestrator.rs:33-36`). So finding 1 and what is like it are the only
  gaps of the lock: leftovers of dead runs, heartbeats that land after a release, refusals,
  recoveries and retries next to a run that executes are none. The invariant is `Exclusive`:
  whoever executes is named (`Named`), a heartbeat in flight carries its sender's name
  (`Beats`), and while a process is about to act on a look nobody else executes
  (`NobodyBetween`). A look that finds no valid lock finds nobody executing
  (`OrphanedIsIdle`: who executes is named, alive and not stale), and `Undisturbed` keeps it
  so until the act. Hence a lock is taken or removed only when nobody works under it, and
  dropping a guard removes one's own file. No run checks this theorem's assumptions or
  conclusion on an instance: it stands by its proof.
- `WorkIsSheltered` (`WorkHasTree`) and the action property `OverIsOver` (`TerminalIsFinal`)
  hold if one process is alive at a time (`AloneInvariance`). `Current` says that a copy that
  was loaded still has the status of the file, which makes a save through the state machine a
  legal step *of the file*, and that it is not over in the places where a status is written
  without asking the state machine; a mission that is over is therefore left alone.
  `Founding` is the exception `mission` needs, which writes without reading: it only comes
  first. `Sheltered`: who works has found or made its worktree, and only sweeps and
  clean-ups of other runs could remove it.

### Coordinator

`CoordinatorProofs`, for any lists of tasks, paths, permits, rounds and reviewers.

- `Types`: `Spec => []TypeOK`, for every variable, the history included. `Counted` is the part
  no safety property needs: while reviewers are asked the round is counted already and not
  yet among the clean ones, and a mission goes on escalating only below the last level.
- `FilesAreExclusive`: agents that work at one time share no path, and no file under two
  paths unless it was `missing`. What runs together is from the batch, and the tasks of
  `Independent` share no file the partition can tell: it is a recursive function of the
  list, and what it returns is proved for every list.
- `DependenciesComeFirst`: in the first round of the dependent tasks a task runs after those
  it depends on, unless the dependencies are cyclic. The sort is proved topological for
  every acyclic list, from which `FirstPass` says what the queue is at each moment.
- `TasksSettledOnce` from `SettledSoFar` (which tasks have their final result at each
  stage); `NoLeaseStays`: a lease is held only by a task of the round.
- `FinalCodeReviewed` from `CleanCounted`: the clean rounds in a row are at most the rounds
  since the last change, since the counter is 0 whenever something is fixed.

### Consensus

`ConsensusProofs`, for any workspaces, agents, tiers and bounds: `ResultsStayCurrent`,
`TableIsComplete`, `AgreementIsHeard`. The table has exactly the units below the current
tier, each with its last attempt (`TableInv`); it is complete at the end because no
unit is in two tiers (`StrategyInv`, proved of the strategies the code chooses). A
unit runs at most once more than the consensus went back (`AttemptsInv`). A unit that agrees
has had a synthesis over enough of the proposals of its members (`UnitsInv`, `VoicesInv`).

### Session

`SessionProofs`, for any tasks, agents, retries and bounds: `SomeTaskRuns`,
`LoadsAreTasks`, `RecoveryIsExact`. `Acyclic` says that every nonempty set of tasks has one
that depends on none of the set, and `add_dependency` keeps it because it refuses an edge
whose end reaches its start; with it, of the tasks that are not completed one can run.
`LoadOK` relates a participant's list to the tasks in progress under its name. `LogInv` (the
log has the latest notifications, numbered without gaps) is what lets a checkpoint be
completed from the log (`CheckpointInv`).

### Convergent verification

`ConvergentProofs` proves about `ConvergentVerification`, for any finite set of issues and
any thresholds and limits that `ConvergentAssumption` admits:

- `TypeCorrect`: `Spec => []TypeInv`, for each of the 18 variables: the round is within the
  limit, the limit what the extensions granted, every count of rounds within the round;
- `ConvergesOnReviewedCode`: `Spec => []ConvergedOnReviewedCode`. The invariant is
  `CleanInv`: the code's counter of clean rounds *is* the number of clean rounds since an
  agent last touched the code, because fixes only follow a dirty round, which has set the
  counter to 0; and all of these but the first were adversarial reviews.
- `FixesWithinBudget`: `Spec => []FixBudget`. `BudgetInv`: what was spent on an issue stands
  on its entry in the registry, whatever became of the issue since. The entry is kept while
  the registry has room, and while rounds go on reporting the issue, since it is then open
  and never pruned; who comes back finds it with its attempts (lemma `RegistryRound`).
- `OscillationsAreReal`: `Spec => []OscillationReal`. `WorseInv`: the count never exceeds
  the rounds that brought issues and resolved none, since it only grows in those.
- `NothingComesBack`: `Spec => []SameIssues`: the two sets of signatures `record_round`
  compares are always the same, so its branch for issues that come back is never taken
  (`verification/history.rs:687`).

### Only model-checked

- All liveness (`EveryCallReturns`, `SignalHonoured`, `CommandsEnd`, `LoopEnds`,
  `MissionEnds`, `ConsensusEnds`, `VerificationEnds`): fairness and ENABLED are out of the
  prover's reach.
- `NewestNeverRegresses` beyond `SavesLoseNoGround`: it is not a theorem for every number of
  faults. Crashes inside `save` leave more rows than the limit, of which several can have one
  sequence number and one of those be corrupted; which of them the database then keeps is
  open (`state/snapshots.rs:204`, an ORDER BY without a tie-break). The run has two faults.
- What is false of two processes (finding 1) is proved of one at a time and checked of one
  at a time.
- The folds of `TaskPlan` and the normalisation of a plan's tasks.

## 5. Plan

1. `TaskPlan`: one plan made in one decomposition is acyclic after normalisation.
2. The part of `CallOrder` that survives archiving, as far as there is any.

The lemmas can join the modules of proofs there are.

## 6. Not modelled, or modelled and not stated

`PROJECT.json` maps about 9000 lines of the implementation, an eighth of it. The rest is
of these kinds.

*Inputs.* Prompts, language-model calls and everything that scores their text (evidence,
quality, coherence, learning, context compaction, summarization, complexity, retry
analysis, solvability signals): their results are chosen freely, in every order the code
allows. *Input and output.* Configuration, command-line parsing, output, notification,
search, the symora client. *Git.* Commits, merges and branches; branch isolation differs
from worktrees only in git commands. *Time.* Durations are "may happen at any time".

*Code that nothing reaches* in the program as it is built: resuming a consensus or a
coordinator's session from its checkpoint (`coordinator/recovery.rs:27` has no caller), and
starting a consensus at a later round (`consensus/rounds.rs:81`: the engine is built without
an event store, `agent/multi/mod.rs:355`); shared leases, lease expiry, waiting queues, the conflict resolver
and the message store (used in tests only); auto-fix in an isolated session; the rollback
and sleeping branches of the execution loop; the projections other than progress, whose
snapshots would lose their order and limit (`state/projections.rs:395`). Modelling these
would describe a program nobody runs. The message bus is reached, but an agent looks at it
once, when it starts (`agent/multi/coder.rs:81`), and its reaction (to defer) is a free
choice in `Finish` already. Continuation and invocation records and the health adapter of a
session only hold data.

*Left out of what is modelled*, because no property depends on it: how the participants
of a consensus are looked up in the pool (`enrich_from_pool`: the agents of a unit are
names, and `Pool` says which of them answer), and `notify` of a session, by which a caller
logs what it likes (the one caller sends a text, `coordinator/execution.rs:120`).

### Disagreements met that no run shows

A later property may take these up; each is in the model unless it says otherwise.

- A second process makes appends fail: the allocator is per process, the index per
  database; the engine only logs it (`orchestrator/engine/mod.rs:374-381`), so the event is
  lost. `state/event_store.rs:1` says "Concurrency-safe event store". In `store_shared` the
  refusal is a behaviour (`AbortCollision`), and `OnlyConflictsFail` is checked for one process.
- `cancel` given next to a run that executes the mission is undone by that run's next save;
  `skills/pilot/SKILL.md:93` says "Permanent cancel".
- `retry` of a failed or cancelled mission asks the state machine to leave a terminal state
  and is always refused; `cli/commands.rs:107` says "Retry a failed or cancelled mission".
- Paused and escalated missions lose their worktree to the start-up sweep of any command;
  `orchestrator/engine/execution.rs:284-285` says it is preserved.
- A pause writes no recovery checkpoint (`skills/pilot/SKILL.md:140` says it does): the
  resumed execution restores the last periodic one and runs again what was completed since.
- The consensus prompt asks for "yes", "partial" or "no" (`agent/multi/consensus/engine.rs:189`)
  and `is_agreed` compares with "agreed" (`consensus/types.rs:394`).
- Agreement is looked at before blocking conflicts (`consensus/rounds.rs:222`).
- After a failed consensus the first level of escalation implements an empty list and the
  mission can succeed (`coordinator/execution.rs:266`, `escalation.rs:218`); so can one whose
  planning failed (`coordinator/phases.rs:138`).
- A task that a module boundary keeps from a lease runs after the batch without one
  (`coordinator/implementation.rs:138`); a dependency that failed does not stop its
  dependents (`:209`); an issue reported by several reviewers uses up several attempts
  (`coordinator/verification.rs:121`).
- `config/settings/recovery.rs:360` says "Strategies cycle if this exceeds available count",
  and start-up logs it (`orchestrator/engine/mod.rs:116-127`); `fix_batch` gives an issue up
  once every strategy was tried (`verification/convergent/fixes.rs:86-94`), which the second
  part of `FixBudget` says and the run shows with three attempts against two strategies.
- An issue that an over-full registry forgot gets its attempts and strategies again
  (`verification/history.rs:252`), which `FixBudget` permits and says.
- `partition_tasks` compares a file that does not exist yet by its path as written
  (`coordinator/module_helpers.rs:224-242`): tasks that create one new file under two
  spellings count as independent, get a lease each (leases are keyed by the path,
  `ownership/lease.rs:16`) and run together. `ExclusiveFiles` excepts just this case; the run
  has it.
- Recovery's `max_rounds` is not checked against the clean rounds required
  (`orchestrator/engine/recovery.rs:375`); `max_issues_per_batch` may be 0, and `chunks(0)`
  panics (`verification/convergent/fixes.rs:32`; excluded by assumption).
- The signature of an issue contains its line (`verification/issue.rs:102`), so a fix above
  it starts a new budget; a line 404 looks like an HTTP error. (Not in the model: an issue
  is a signature.)
- A session's `add_task` makes a task Ready at once and `add_dependency` does not take it
  back, so `ready_tasks` lists tasks that cannot start. `retry_task` leaves the dependents it
  had blocked blocked (`session/task_graph.rs:328`), which is why `SomeTaskCanRun` speaks of
  graphs in which nothing failed. A checkpoint made for the context budget lists no tasks.
  A manual checkpoint is dropped at once when all older ones mark
  phases (`session/checkpoint.rs:402`). `start` announces planning and stays in setup.
- `resume` writes Running before it asks for the lock; `cancel` removes the worktree before
  it asks the state machine; a crash in Pending, Planning or Verifying leaves a mission only
  `cancel` applies to (`orchestrator/engine/lifecycle.rs:169,299,324`).
- `maybe_snapshot` subtracts unsigned numbers that may be in the wrong order
  (`state/replay.rs:150`); auto-archiving moves other aggregates' and types' rows too (`:165`);
  after everything is archived, numbers start at 1 again (`state/writer.rs:96`), and so do the
  versions of an aggregate whose rows were all archived (`:268`): a second
  `append_with_version` that expects 0 then succeeds, which `OptimisticLock` permits and says;
  the timeout does not cover the blocking send (`state/event_store.rs:170`).
- The last permitted iteration fails the mission even if it finished every task
  (`orchestrator/engine/execution.rs:666`); a Retry decision ignores the retry count
  (`engine/recovery.rs:352`); a skipped task counts as a satisfied dependency
  (`mission/types.rs:161`, on purpose).
- Not in the model, because it has one mission and one isolation mode: two `mission` commands
  started together get one id (`mission/store.rs:131`), `MissionStore::init` removes temporary
  files of others (`:59`), `apply_to_mission` overwrites the isolation field
  (`planning/orchestrator.rs:320`).
- Load counters of the pool stay raised when a mission is timed out
  (`agent/multi/pool/operations.rs:83`), and the session stays open
  (`coordinator/execution.rs:91`); both only weigh on choices that are free in the model.
