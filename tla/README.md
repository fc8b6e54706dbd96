# Formal models of claude-org

This directory holds TLA+ models of the parts of claude-org that carry state:
the database and its writer, the CI-watch outbox, the PR watcher, the
completion of merged PRs, the register of pending decisions, and the
delegation of tasks to workers; and the tools around that core, from the
watcher of the secretary's messages to the migration of the worker
directories. TLC checks each model on small instances, and TLAPS proves the
safety properties of the six modules of the core, and of thirteen of the fourteen
tools, alone and side by side, for every value of the constants. The models are translated from the
code; where a document and the code differ, the model follows the code and the
difference is a finding.

## 1. The system

claude-org runs a small organisation of AI agents in terminal panes. A
*secretary* talks to the human and owns the work, a *dispatcher* spawns worker
panes and watches them, *workers* do one task each. The agents are external to
the code; what ties them together is a set of command-line tools, one SQLite
database (`.state/state.db`) and a few files. Every tool is a process of its
own, agents run several of them at the same time, and any of them can be
killed between two statements.

### Components

| Component | State it keeps | Operations | Modelled by |
|---|---|---|---|
| Run registry writer (`tools/state_db/writer.py`, `snapshotter.py`, `dashboard/org_state_converter.py`) | tables `runs`, `worker_dirs`, `events`; archive queue; `org-state.md`, `org-state.json`, worker notes | transactions, `upsert_run`, `update_run_status`, post-commit rendering and archiving | `StateWriter` |
| CI-watch outbox (`tools/relay_scan.py`, ledger part of `writer.py`) | `events`, `event_deliveries` | append, list with attempts, send, mark delivered or failed | `Outbox`, `RelayPromise` |
| PR watcher (`tools/pr_watch.py`, `peer_notify.py`) | a process's phase; events; the `runs` row | rounds of checks, verdict, push, merge-watch | `PrWatch` |
| Merge completion (`tools/run_complete_on_merge.py`, `set_run_pr_open.py`) | `runs.pr_url`, `pr_state`, `branch`, `pr_merged` events, the brief in the repository root | resolve, check, write, clean up; back-fill of an open PR | `MergeCompletion` |
| Pending decisions (`tools/pending_decisions.py`) | a JSON register | append, resolve, note a reply, overdue and stale judgements | `PendingDecisions` |
| Delegation (`tools/resolve_worker_layout.py`, `gen_delegate_payload.py`) | `runs`, `worker_dirs`, worktrees, briefs, manifest | plan, clone, add worktree, reserve, write, compensate | `Delegation` |
| Message watcher (`tools/secretary_queue_watcher.py`) | accounts of the broker's journal in memory; a pid file | start-up scan, tail, alarm, `--stop` | `QueueWatcher`, `Sidecar` |
| Retro gate (`tools/dispatcher_retro_gate.py`) | none of its own: the dispatcher carries it from attempt to attempt | one attempt | `RetroGate` |
| Message sending (`tools/peer_notify.py`) | the phase of one handshake | start, initialize, call, give up | `PeerSend` |
| Pane inspection (`tools/inspect_pane_state.py`, `inspect_anomaly_scan.py`) | idle record of a worker, spinner keys | one inspection per cycle | `StallDetection` |
| Work discovery (`tools/work_discovery_scan.py`) | none that outlives a scan | fetches, triage, ranking, effort model | `WorkDiscovery`, `EffortModel` |
| Worker directories (`tools/state_db/migrate_workers.py`, `curator_archive.py`) | the tree, manifests, `worker_dirs` | plan, apply, roll back; archive, purge | `Migration`, `ColdArchive` |
| Importer and drift check (`tools/state_db/importer.py`, `drift_check.py`) | the whole database | reset, import, compare | `Rebuild` |
| Notes of workers (`tools/check_state_drift.py`, `sweep_stale_workers.py`) | worker notes | scan for drift, sweep | `Upkeep` |
| Settings pruning (`tools/org_setup_prune.py`) | settings files and their back-ups | rewrite the roles, merge two user-level blocks | `SetupPrune` |
| Database discovery (`tools/state_db/discover.py`, `__init__.py`, `tools/journal_append.py`) | the database file and its tables | find, create, verify, open, append | `DbDiscovery` |
| Dashboard (`dashboard/server.py`, `tools/stop_dashboard.py`) | last seen times, queues of subscribers; a pid file | watch, build, broadcast, subscribe, stop | `Dashboard`, `Sidecar` |
| Rendering, parsing, compatibility and release tools, hooks, installers, reports | none that outlives a command | | not modelled |

`PROJECT.json` lists every component with its sources and the reason when it is
not modelled.

### How they interact

- The secretary delegates: `gen_delegate_payload apply` reserves a `queued` run
  and writes the brief; the dispatcher spawns the worker and writes `in_use`.
- A worker opens a PR; `set_run_pr_open` stores its url; `pr_watch` watches its
  checks and, when asked to, its merge, and calls `complete_on_merge`.
- `pr_watch` records each terminal event in `events` and pushes it to the
  secretary; the push may be lost. The dispatcher's loop runs `relay_scan`,
  which relays what the ledger does not show as delivered.
- The secretary's questions to the human go through the pending-decision
  register, which the dispatcher reads on every round to find gaps.
- Messages between agents go through an external broker, which journals what
  it does; the queue watcher follows that journal and wakes the secretary.
  `peer_notify` is how a tool sends one. Before a worker is retired, the retro
  gate waits for the secretary's answer.
- The dispatcher inspects every pane once per cycle for workers that stand
  still, and a scan of the repositories proposes the next work.
- Every write commits through `StateWriter`, whose hooks then render the
  snapshot files and archive the notes of completed runs.

- The dashboard, the drift checks, the sweep and the curator read the files and
  rows that the core writes, at times of their own; the importer rebuilds the
  database from `org-state.md`, and the migration and the archive move the
  directories that `worker_dirs` names.

The database serialises transactions, never whole commands: a command that
reads, decides and writes can be overtaken in between. The files have no lock
at all.

### What is hard, and what must hold

| Component | Hard behaviour | What makes it correct |
|---|---|---|
| Writer | renderings of two commits overlap; a run is completed, rolled back or re-opened while its note waits in a queue; death between commit and hook | a note is archived for completed runs only and never forgotten; a commit that runs alone repairs the files |
| Outbox | death between send and mark, overlapping scans, late failure reports, the age floor | nothing is closed unheard, nothing due is lost, history stays quiet, duplicates are accounted for |
| PR watcher | pushes during a round, merge between two polls, two pollers handing over | the verdict belongs to the head it names; a clean merge was confirmed; nothing is announced without a record; it goes on |
| Merge completion | overlapping completers, deaths, branches used twice | row and event agree; the right run is completed; repeats record nothing |
| Pending decisions | reopened questions, ties, kills during a write | questions only advance; replies keep their order; gaps are reported |
| Delegation | stale plan, failure after the reservation, retry, leftovers | one run per base directory; no worker with another's brief; no leaked reservation |
| Message watcher | the journal is written out of order and around the start of the watcher; the broker restarts, reaps and hands messages back | an alarm is true; a message that waits too long raises it |
| Pid files | a process dies without cleaning up and its pid goes to another; two start at once | only the program that was meant is stopped; the newest can be found |
| Sending, retro gate | late, foreign or missing answers; old replies; lost state | "sent" means delivered; a verdict is the secretary's |
| Pane inspection | lost and stale records, spinners beside errors | standing still is counted; an error is only suppressed by a spinner that moved |
| Work discovery | lists fetched one by one while issues close and blockers appear | what the report says was so throughout the scan is true |
| Migration, archive | kills between a rename, its record, the links and the gitlinks; two projects that swap names; a copy that fails | a roll-back restores; row and directory stay together |
| Rebuild | the reset is committed before the import reads | every run of the file is back with its status |
| Drift, sweep | rows and files read one after the other while both change | lasting drift is reported; visible notes are spared |
| Settings | writing in place, kills, edits in between | what is written over can be had back |
| Database discovery | overlapping creation, kills, damaged worktree pointers | one database; none is refused unless a tool was killed |
| Dashboard | subscription between a broadcast and the first state | a client shows the latest state once nothing changes |

The `hazards` of `PROJECT.json` name each place in the code with the
properties aimed at it, and say why where there is none.

## 2. Modules

Every component has one module with its variables, `Init`, one action per step
of the code, `Next`, the specification and its properties. An `MC...` module
adds what TLC needs (symmetry, scenarios), a `.cfg` file fixes the constants,
and a `..._proofs` module holds the theorems; the proofs about the modules of the
tools share two of them. Operators whose comment starts
with *Mistake* are plausible bugs; nothing uses them except the mutation test
of the property they are listed with.

A step of a model is what the code does between two points at which another
process can see the difference: a transaction, a read, a `rename`, a `git` or
`gh` call. History variables (marked as such) record what the code does not
store and a property needs.

### StateWriter

A writer begins a deferred transaction, reads the database at its first
statement (`snap`, `view`), takes the write lock at its first change, and may
only do so when no commit came in between (`CanWrite`: SQLite's
`BUSY_SNAPSHOT`). Commit publishes the view. Then the hooks run in the code's
order: for each file, the session and the runs are read by two statements and
the file replaced; then the queue of completed runs is drained, asking the
committed status of each one before the move. Each hook may fail softly, and
the process may die anywhere. A snapshot file is reduced to the pair of
versions its two parts were read at, so that staleness and mixtures show.

### Outbox and RelayPromise

`RecordTerminal` and the two push actions are `pr_watch`; `ListRead` is the
select of `cmd_list` and `ListCommit` the transaction that writes the attempts
of what it selected; `Send` is the dispatcher's message, which can reach the
secretary without being confirmed; `MarkDelivered` and `MarkFailed` are the
upserts of the ledger. Rows from before the ledger, the floor and `--limit`
are parameters of a scan. `RelayPromise` says what all of it is for in three
sets: a delivery is owed until it is settled, and settled only once heard.
`Outbox` implements it under `owed <- Owed, heard <- Heard, settled <-
Settled` (`KeepsPromise`), and the implementation is proved.

### PrWatch

The pull request (live head, checks of each head, merge) changes on its own.
A watcher's `pc` follows the phases of `_watch_round`: head read, start-up
probe, self poll, resolver, head read, record, push, and `_merge_watch`.
`complete_on_merge` is one step here. `Relay` lets the outbox relay recorded
events. `faults` selects, once per behaviour, whether head reads fail, force
pushes bring old heads back, or a step raises.

### MergeCompletion

The four steps of `complete_on_merge` (resolve the run, look for the event,
write row and event in one transaction, clean the root) run interleaved by
several callers, with the lives of runs and PRs and `set_run_pr_open` around
them.

### PendingDecisions

A command loads the register, changes it in memory (`Change` is the command,
with its own guards), opens the temporary of fixed name, writes and renames.
`fd` keeps which file an open handle points at, so that two commands that
share the temporary tear the register as a file system would: a file that was
just opened for writing is empty and reads as an empty register (`Emptied`), one
that has a part of a text reads as none (`Torn`). `Scan` is the dispatcher's
round.

### Delegation

`BuildPlan` computes pattern, directory and base from the registry row, the
database and the disk as `resolve` and `build_delegate_plan` do, and refuses
what `ResolveError` and the blocking warning refuse. The steps of
`apply_delegate_plan` follow in order, each with its failure;
`AbandonQueuedRun` is the compensation. Spawn, review, close, retries and
cleaning by hand are external. A clone of another origin is one of the things
that may stand in the project's directory, and a plan to clone there is refused.
The claude-org mirror clone behaves as a `url`
row whose clone exists; the row kind `mirror` is `mirror_of` in the registry.

### The tools around the core

Fourteen more modules model the tools that work beside the core. They share no
variable with it or with one another (what they read of each other is the
database and the files, which each module reduces to what its tool tells apart).
The module `Tools` puts them side by side, so that one run checks all of them
and one set of theorems speaks of all of them: it declares the variables of
every module and one more, `chosen`, which says whose behaviour this is and never
changes; the variables of the other programs are `Off`. Names that two modules
use for different things are given apart there (`moving` is the `pc` of
`Migration`, `MaxCuts` its `MaxKills`, `Openers` are the `Tools` of
`DbDiscovery`, `StaleSec` and `HomeRepository` the constants `Stale` and `Home`).
`MCTools` gives values to constants that a configuration cannot write down;
`Tools_proofs` and `Maintenance_proofs` extend `Tools`.

**QueueWatcher.** The broker (external) moves a message from `undelivered` over
`claimed` to `delivered` and journals each change after it has released its
lock; `unlogged` holds the records that are not written yet, and `Journal`
writes any of them next. Since a record changes the accounts the same way
whenever it is read, the journal is kept as the result of reading it: `scan` is
what the start-up scan has seen, `acct` the accounts of the tail. `StartWatch`
judges what the scan left (`Opening`), `Poll` is one round with its time check.
`orderly` is a history variable: every record was written in the order of the
changes.

**Sidecar.** `proc` says which program has which pid, `file` holds the two pid
files. Starting, ending, dying and the reuse of a pid are steps, and the stop
command is taken apart into its read, its identity check, its signal and the
removal of the file.

**PeerSend.** The tool's phases (start, initialize, call) read the server's
lines one by one; the server adds noise, answers, or ends, and the deadline may
pass at any wait. `result` is what the caller is told.

**RetroGate.** `Attempt` is one call of the tool with the messages since the
last one and the state it printed then; the dispatcher may lose that state. A
call with bad arguments or a payload that is none ends in `Error`, without a
verdict on the worker. `heard` is a history: what each message said, and in which attempt.

**StallDetection.** A cycle is one inspection: `Check` computes the content
hash, what fires, what is suppressed and the next idle record. In between the
worker prints and its spinner counts, stands still or ends.

**WorkDiscovery and EffortModel.** Each list of each repository is fetched by a
step of its own while issues close, re-open and name new blockers; the step
after the last fetch is the triage with its `Ranking`, the one list of the
candidates in the order of `Better`; ties fall to the repositories' names,
whose order is the constant `ByName` and not that of the command line.
`EffortModel` holds the
pairing of merged pull requests with issue lengths, the rank correlation and
the cut points, over scaled integers.

**Migration.** One directory of each kind (a rename, the two projects that swap
names by way of a third, a run that moves), with the compatibility links and
the gitlinks of worktrees. `Apply` and roll-back are taken one operation at a
time: announce, rename, repair, link, record. A kill may come between any two.
`Stage` saves a plan whole or cut to one of its tiers, as the runbook has it; a
saved plan is replayed against a tree that may have changed since. Whether a
project has worktrees is read when it is moved, where the code keeps what it saw
when the plan was made: the two differ only for a plan that is saved over a
half-done swap and replayed after that swap was rolled back.

**ColdArchive.** One directory after the other: the move (a rename, or a copy
and a deletion across devices), then the row, then the way back when the row
cannot be written; the deletions of marked directories likewise. The way back
may fail too (`RollBackFails`), and then the directory is where its row does not
say or in two parts: it counts as a kill, which the property leaves out. A
deletion that raises half-way (`RemoveTreeFails`) leaves the row marked and the
rest of the directory for the next purge. `Commit` updates the row of the
candidate, where the code names it by its path: no two rows have the same path
(`worker_dirs.abs_path` is unique), and only this update changes one.

**Rebuild.** Writers commit and render, the importer resets, commits, reads and
imports, and `Drift` is the comparison of `drift_check`. `Reset` is one step: a
writer that comes between the committed drop and `apply_schema`, which follows,
would meet no tables and fail, which loses nothing that the reset has not lost.

**Upkeep.** The scan reads the rows of one class, then looks at the files of
that class; the sweep reads the listed items, then takes note after note. What
the sweep reads of `org-state.md` is taken as it was meant: the code takes ids of
letters, digits, `_` and `-` and the first word in brackets of any line, so that
an id with a dot, or a title with `[COMPLETED]` in it, reads otherwise.

**SetupPrune.** Read, refuse, back up, truncate, write; edits and kills between
the steps; a clock that may stand still between two commands. `replaced` is the
history of what the file held when it was truncated by a command that keeps
back-ups.

**DbDiscovery.** A tool resolves the path from where it was started, looks,
connects, and creates the tables one by one or verifies them.

**Dashboard.** The watcher thread compares times, builds from the database and
then from the files, and puts the state into every queue; a client subscribes,
is sent a state of its own, and then what its queue brings.

## 3. Runs

All of them finish within five minutes with two workers.

| Run | Instance | Properties | Shows |
|---|---|---|---|
| `outbox_safety` | 2 events, 2 dispatchers, 1 watcher, floors before, at and after the epoch, limits that cut and that do not, 1 death; 0.6M states | `ClosedOnlyAfterRelay`, `CopiesAccounted`, `DeliveredIsFinal`, `KeepsPromise` | overlap and death lose nothing; the abstract promise is kept |
| `outbox_live` | 3 events of which one is never accepted, one dispatcher, default floor, no cut, 1 death; 84k states | `QuietHistory`, `EventuallyDelivered` | every due event arrives; history does not flood |
| `prwatch_safety` | 1 watcher, 2 heads, 2 probes, reliable or all faults, a second completer; 4M states | `TypeOK`, `VerdictMatchesHead`, `CleanMergeWasConfirmed`, `EventBeforePush`, `VerdictWaitsForAllChecks` | no interleaving of pushes, merges and polls yields a verdict for another head |
| `prwatch_live` | the same without faults; 55k states | `NewHeadGetsVerdict`, `RoundEnds` | merge-watch leaves an old verdict; rounds end |
| `mergecompletion` | 2 runs on one branch, 1 PR, 2 callers; 0.2M states | `MergedIffEvent`, `BriefGoneAfterMerge`, `RecordedOncePerCaller`, `BackfilledGoesToOwner` | repeats, overlaps and deaths are harmless up to one event per overlapping caller |
| `pending` | 2 tasks, 2 entries, 4 minutes, commands one at a time; 67k states | `StaleTraceIsClosed`, `RepliesInOrder`, `QuestionsOnlyAdvance`, `GapsAreReported` | a forgotten question or answer surfaces |
| `statewriter` | 2 writers, 1 run, 3 commits; 0.7M states | `ArchivedWasCompleted`, `NothingLeftBehind`, `SoloCommitCatchesUp` | hooks that interleave, fail and die keep notes and repair files |
| `delegation` | 2 tasks, 2 applies, eight scenarios of row and misuse; 2.2M states | `TypeOK`, `OneReservationPerBase`, `WorkerFindsItsBrief`, `NoReservationLeaks`, `WorktreeBeforeRun` | failures, deaths and retries of apply leave nothing that misleads the next |
| `tools` | the fourteen modules of the tools, one at a time; 2.2M states | `TypeOK`, `MessagesAreTrue`, `OwnProgramIsStopped`, `StateIsFound`, `MovesAreWhole`, `DiscoveryIsTrue`, `EffortsAreLearned`, `UpkeepIsSafe`, `SecretaryIsAlarmed`, `RebuildKeepsRuns`, `WorkersAreWatched` | see below |
| `prwatch_unconfirmed` | expects a violation | `UnconfirmedNotReportedClean` | finding 1 |
| `mergecompletion_twice` | expects a violation | `NoDoubleEventRow` | finding 2 |
| `pending_torn` | expects a violation | `StoreIsWhole` | finding 3 |

The type invariant of every module of the core is a theorem (`TypeCorrect`);
those of `Outbox`, `StateWriter`, `PendingDecisions` and `MergeCompletion` are
not repeated in the runs.

A property of `tools` joins those of the components it names:

| Property | Parts, by module | Instance |
|---|---|---|
| `SecretaryIsAlarmed` | `QueueWatcher`: `AlarmIsTrue`, `OverdueIsReported`, `AccountsBalance` | 2 messages, threshold 1, clock to 2, 2 unwritten records, a reap and a restart of the broker |
| `MessagesAreTrue` | `PeerSend`: `TrueMeansDelivered`; `RetroGate`: `VerdictIsHers` | 4 lines of the server; 3 attempts, 2 messages each, state lost once |
| `OwnProgramIsStopped` | `Sidecar`: `OnlyOwnProgramStopped`, `NewestIsFindable` | 2 pids, 2 brokers, 4 starts |
| `StateIsFound` | `Dashboard`: `QuietClientIsCurrent`; `DbDiscovery`: `EventsAreTogether`, `UnusableOnlyAfterKill` | 2 clients, 3 versions, a failed build; 2 tools, a kill |
| `MovesAreWhole` | `Migration`: `SwapIsNeverMixed`, `RollbackRestores`; `ColdArchive`: `RowFindsDirectory` | 2 applies, 2 roll-backs, 2 kills; 3 directories of which 2 share a base, 2 commands, 2 changes |
| `DiscoveryIsTrue` | `WorkDiscovery`: `TriageIsTrue` | 2 repositories with an issue each, a pull request, a blocker outside, a change during the scan |
| `EffortsAreLearned` | `EffortModel`: `EffortIsLearnedFromHome` | 3 merges, 4 lengths, 2 efforts |
| `UpkeepIsSafe` | `SetupPrune`: `PruneLosesNothing`; `Upkeep`: `LastingDriftIsReported`, `SweepSparesVisible` | 2 commands, 2 seconds, an edit, a kill; 1 run, 3 commits |
| `RebuildKeepsRuns` | `Rebuild` | 1 task, 2 writers, 2 commits, a rebuild |
| `WorkersAreWatched` | `StallDetection`: `QuietIsCounted`, `CutoffBeforeOutput`, `SuppressionIsEarned`, `RetryIsReported` | 2 verbs, threshold and cap 2, 4 cycles, a fault |

The listed mutant of such a property breaks one of its parts. The modules hold
mistakes for other parts as well, which the run finds in the same way:
`AnswerWithoutDropped` (PeerSend), `PidAlive` in place of `IdentityOk`
(Sidecar), `BroadcastToStreaming` (Dashboard), `CommitFailsInPlace`
(ColdArchive), `RefusedForRoles` (SetupPrune), `ThisCycle` in place of
`StartOfActivity` (StallDetection) and `SwapDoneEarly` (Migration).

**Bounds.** The instances are the smallest at which each hazard occurs: two
processes for every race, a second head, run, task or entry for everything that
can be mixed up, one death, one event that is never accepted next to one that
is, three commits so that a run can be completed, re-opened and completed
again. Counters saturate (`AttemptCap`, `EventCap`) instead of stopping the
system. `AttemptCap` and `EventCap` exceed what the properties compare with.
The properties quantify over pairs at most, and the actors are
interchangeable, so a third one adds interleavings of the same kinds. For the
properties that are theorems the bounds do not matter at all. Symmetry is used
only in runs without liveness, over sets whose members no definition tells
apart.

**Deadlock** is checked wherever the system goes on for ever (`pending`,
`mergecompletion`, `statewriter`). It is switched off in `outbox_*` (ids run
out), `prwatch_*` (every watcher has exited), `delegation` (every task is
completed) and `tools` (every command ends, and the bounds on changes of the
world run out), where stopping is what should happen.

**Fairness.** `outbox_live` assumes that the dispatcher's loop comes back (it is
woken every three minutes by its runbook), works through its list, and that a
send repeated for ever is confirmed once in a while, except for
`Undeliverable` events. Nothing is assumed of `pr_watch`, of pushes, or of
deaths, which are bounded by `MaxCrashes`. `prwatch_live` assumes that a
watcher that is not killed goes on polling, that the polls see the checks, and
that CI decides a head that stays live; it assumes nothing of pushes and
merges. `pending` assumes that the dispatcher's rounds and the clock go on,
nothing of the secretary. `tools` checks no liveness and assumes no fairness.

## 4. Findings

1. `prwatch_unconfirmed`: the comment at `tools/pr_watch.py:1131` says that a
   merge at an unconfirmed head must not be reported as a clean `PR_MERGED`.
   `complete_on_merge` has already committed a `pr_merged` event by then, and
   `relay_scan` relays that event as a clean merge.
2. `mergecompletion_twice`: the docstring of `run_complete_on_merge.py` says
   that a second call writes no double event row; the check is read outside
   the transaction that writes, so two overlapping calls write two.
3. `pending_torn`: the docstring of `pending_decisions.py` calls the write
   atomic; the temporary has a fixed name, so that overlapping commands can
   rename a file another one is still writing. Until the text is in it such a
   file even reads as an empty register.

Noted while modelling, without a run of their own:

- The rendering of an older commit can replace the file of a newer one and
  stays until the next commit, against `snapshotter.py:3` and contract I6.
  `SoloCommitCatchesUp` states what does hold.
- A writer that dies after its commit loses its archive queue; only completing
  the run again repairs it (`left` in `NothingLeftBehind`).
- Contract I5 says that the UNIQUE constraint forbids running a task id again;
  `upsert_run` updates the row, and the retry that the compensation of
  `apply_delegate_plan` is meant for takes an `abandoned` row back to `queued`.
- Contract I2 (one active Pattern A run per project) rests on the secretary
  running one apply at a time: nothing validates again at the reservation,
  although the comment at `resolve_worker_layout.py:642` says that apply does.
  A database that cannot be read, or `--pattern A`, breaks it as well; in these
  cases the blocking warning still keeps the second task out of the first
  one's directory (`WorkerFindsItsBrief`).
- A reservation whose apply died makes its own retry see an active run, so the
  retry is planned as Pattern B, which fails without a base.
- Two Pattern C runs on gitignored targets share the repository root and with
  it the brief.
- `complete_on_merge` answers "already" for a second PR of a run, and raises in
  merge-watch without a record (exit status 9). A call that dies between its
  commit and the cleanup leaves the brief in the repository root, and the call
  that repeats it answers "already" before it gets there: `BriefGoneAfterMerge`
  is about calls that return merged.
- `runs.status` is left alone by `run_complete_on_merge.py`, although its line
  8 says otherwise; the contract's T5 describes what the code does.

And of the tools around the core, where the properties above state what does
hold and name their exceptions:

- Message watcher: a drain passes over a message that is claimed, so that the
  accounts take a younger one for the oldest; records of a claim, a reap and a
  second claim in another order, or enqueues that straddle the start, leave the
  balance off. The alarm takes it that a record is written within one poll.
- Pid files: the stop command removes a file it finds stale without looking
  again, a server removes or overwrites its file whoever wrote it, and a server
  that finds no free port exits and leaves the file. A pid that went to a watcher
  of another checkout's broker passes the identity check. The model takes it
  that a pid is not reused between that check and the signal.
- Pane inspection: the comment in `inspect_anomaly_scan.py` (305 to 343) says
  that a bad state file never hides a detection; a key left over because the
  file could not be written can hide the one detection of a live spinner. A
  spinner of the new form that gives way to one of the old form hashes the
  same, and one that starts again below its last value is not suppressed.
- Retro gate: the pattern of an acknowledgement does not look at the task, and
  a lost state turns a reply that came earlier into a time-out.
- Work discovery: issues that block each other, or themselves, are excluded for
  ever; a blocker that is named after its repository was fetched is missed,
  which is why `TriageIsTrue` speaks of what was so throughout.
- Migration: a kill between the compatibility link and the record of the move
  lets a roll-back take the move for one that was never made; one between the
  move back and the repair is not made good by a second roll-back, which also
  picks the same manifest again and cannot resume an interrupted one; a kill
  between the last rename of the swap and the repair leaves gitlinks stale.
  `--keep-compat` with the swap fails at its second step, and a plan after
  `--keep-compat` is refused. Staging the renames before the projects blocks
  the swap; when the swap was already cut short after its second step, the
  `claude-org-ja` that is made for the run passes for its result
  (`swap_already_done`), and the next whole apply reports success while the
  content of that project stays at `claude-org-ja-tmp`. A saved plan that is cut
  inside the swap, against the runbook, can move one project to the place of the
  other when it is replayed after a kill. A manifest that is rolled back before a
  later one does not restore. When the quarter changes, a plan made again misses
  its sources.
- Cold archive: a copy that fails leaves a part at the target, which blocks
  later directories; two flat directories of one name clash within a quarter; a
  row that is revived between the listing and the deletion loses its
  directory; only the time of the top directory counts; a kill between the
  move and the update leaves the row pointing nowhere.
- Settings: two back-ups of one second overwrite each other (`clash`), an edit
  between the read and the truncation is lost, and is in no back-up if it came
  after that was made (`raced`), and a kill during the write
  leaves a file that later commands refuse. The roles are written and backed
  up even when nothing changes.
- Rebuild: the note on the outcome stands in the status cell, so that after a
  rebuild a later change of status does not show and the next rebuild takes it
  back. Runs without a directory, events and deliveries are lost. A writer that
  opens between reset and import makes the import fail, after which every run is
  gone (`RebuildKeepsRuns` speaks of imports that end), and one that committed
  before the reset and renders after it empties `org-state.md`.
- Drift and sweep: a report may describe a state that never was; drift that passes
  from one class to another between their reads may be missed by both
  (`LastingDriftIsReported` is about drift that stays in its class); the sweep can
  archive nothing without `--include-orphans`, since ended runs are never
  rendered, and with it takes the old note of a run that is queued or
  suspended. It raises when a listed note has gone, and a rename overwrites an
  archived note of the same name.
- Database discovery: a damaged worktree pointer with no database yet makes a
  tool create a second one without a word; a tool killed between connect and
  schema leaves a file that every later one refuses; a tool that opens a
  half-made database makes its creator fail, whose event is lost.
- Dashboard: a build that fails is not tried again before the next change
  (`missed`).

## 5. Proofs

The theorems hold for all constants that satisfy the modules' assumptions
(`OutboxAssumption`, `PendingDecisionsAssumption`, `StateWriterAssumption`,
`MergeCompletionAssumption`, `NoPRAssumption`, `PrWatchAssumption`,
`DelegationAssumption`). The constants of the fourteen tools stand together in
`Tools`, and a theorem there assumes no more than its own tool needs, for which
reason these assumptions are hypotheses: `WorldOK` (references are a repository
and a number, there are finitely many, `ByName` lists each repository, and
`--top-n` is at least 1, as `main` demands), `DirsOK` (finitely many directories, none of which is a value that
stands for none), `NoRunIsNone` (no run is not a run), `AttemptsOK` (there is an
attempt to make: the program refuses every other number), `QueueBounds` (the
number of messages and the threshold of the watcher are naturals) and `PaneBounds`
(naturals, and a threshold above one: a cycle of the dispatcher is shorter than
the time after which a spinner counts as a retry, so that a turn that has just
begun has not reached it). What an inductive invariant needs to know of types is its
first conjunct: `TypeOK` of the module, or a definition that says more
(`PaneTyped`, `ScanTypes`, `RebuildTyped`). The bounds of a module (`Max...`) only appear in guards, and nothing
but `PaneBounds`, `AttemptsOK` and `QueueBounds` says anything of them.

**Outbox_proofs.** `ClosedOnlyAfterRelay` and `QuietHistory` are not inductive:
they say nothing of the events a dispatcher has listed and not yet written, or
sent and not yet marked. The invariant adds `Allocated` (a fresh id is clear of
the ledger), `RowsListed` (what a dispatcher holds was listed from terminal
events under its floor, and has a row once the attempts are committed) and
`MarkReady` (a confirmed send that waits for its mark has reached the
recipient). `DeliveredWasRelayed` and `HistoryStaysQuiet` follow.
`NeverUndelivered` is the action property, from the effect of each step on the
ledger. `DuplicatesAreBounded` counts per delivery: the copies that were sent and
the cycles that hold it (`InHand`) together are at most the attempts, unless the
attempts have reached the cap (`Counted`). `CountedWithLess`, `CountedWithMore`
and `CountedWithCopy` say how that sum moves when a cycle lets go of a delivery,
takes it up, or sends it. `OutboxImplementsPromise` shows that `Init` maps to the promise's
`Init`, and that every step under the invariant is one of its steps or a
stutter.

**PendingDecisions_proofs.** The invariant says the same (`Version`) of every
version of the register that exists at one moment: the file, the temporary,
what each command holds. Entries are in the order of the clock; of one task
only the last may be pending, the resolved ones come first, and so do the ones
with a reply. A command takes one version to another. Overlapping commands may
lose each other's entries, but never leave these versions, for which reason
`NoFalseStale` and `RepliesKeepOrder` need no assumption on `Writers`. They
rest on a clock that does not step back. The two claims that overlap does break
are proved for commands that do not overlap, in any number and killed anywhere
(`[]OneAtATime` is a hypothesis of the theorem): while a command is at work the
register is whole and what the command holds goes beyond it (`Advances`), so that
the rename only ever moves questions on (`QuestionsAdvance`), and whoever reads
finds a register that parses (`AloneStoreIsWhole`). Finding 3 is thereby about
overlap alone.

**StateWriter_proofs.** `PhaseInv` ties the variables of a writer to where it
is, and `LockInv` says that the holder of the write lock, of which there is one,
has seen the newest commit. With it `ViewInv` is inductive: a completion that a
current transaction sees is committed, or is its own and then in its queue.
Commit therefore cannot publish a completed run that nobody is going to
archive (`NoNoteForgotten`). `ArchiveInv` gives `ArchiveIsSound`: what a writer
is about to move was committed as completed. `SoloInv` follows the versions
that a lone writer reads from the first statement of its hooks to the second
file, and gives `CatchesUp`.

**MergeCompletion_proofs.** What a call may rely on is in `KnownInv` (runs that
rows and pull requests point at were dispatched, and only opened ones merge) and
`CallInv` (a call has a merged pull request, and a run from its check on).
`UrlInv` is the heart of `MergeGoesToOwner`: the url of a pull request that was
back-filled in time stays in the row of its owner and in no other, so that a
call resolves to the owner by url and never reaches the branch; before the merge
there is no event that could already belong to another run. `BriefInv` says
that the brief in the root is that of a run which has its directory there, which
is why the cleanup finds it (`BriefStaysGone`). `RecordedOnce` adds to the
events of a merge the calls that have found none and are about to write
(`Bounded`): the check lets a call through only when there is no event, so that
the sum never exceeds the number of calls. With one caller this is the claim
that finding 2 refutes for two.

**PrWatch_proofs.** The properties speak of what is in the journal and of what
was heard; the invariant speaks of what a watcher is about to say (`SayInv`): it
was read from the checks, and from `push` on it is in the journal. With reliable
reads `RoundInv` adds the sandwich that the two head reads of a round are for: the
head read before is at most the one whose checks were read, and that one at most
the live head; when the second read shows the first head again, the checks were of
that head. A merge-watch is entered only after such a verdict was recorded as
passed, so that it announces a clean merge of that head alone. `say` of a watcher
is untouched by the others, which makes the argument one of a single watcher and
the journal, for any number of them.

**Delegation_proofs.** `TaskInv` and `PlanInv` hold whatever overlaps: a plan is
the only one for its task; before its reservation nobody runs the task, and the
worktree it has made stays; after it the run is queued and in the planned directory
unless a close took that away. `NoReservationLeaks` and `WorktreeBeforeRun` follow.
When applies do not overlap (`AloneInv`), `BriefInv` follows a brief from the write
to the end of the run, and says that `workers/<slug>` is free for the plan that is
about to use it (`WorkerFindsItsBrief`). `BaseInv` says that a plan in Pattern A
meets no active run until its reservation; there is then one run in the base
(`OneReservationPerBase`).

**Tools_proofs** holds the proofs of ten modules, each with an invariant of its
own. At its end, and at the end of `Maintenance_proofs`, are the properties of
the run `tools` for the specification of `Tools`: a behaviour is all of the chosen
program's or has none of it (`SidecarsAlone`, `DashboardAlone` and so on), so that
the theorems about the programs carry over (`StopsAreSafe`,
`ReadersFindTheState`, `WordsAreTrue`, `ReportsAreTrue`, `PanesAreWatched`,
`CommandsDoNoHarm`, `MessagesAreWatched`; `MovesKeepAll`, `RunsSurviveRebuilds`).

- *Sidecar.* A process that was verified is of the tool that is to be stopped
  until it is gone (`StopInv`), since the pid it was verified under is not given
  away in that instant. `NewestInv` and `StopOfNewestInv` follow the watcher that
  wrote the file last: a stop command that removes the file has either been
  signalling that very watcher, or was at work when the watcher wrote.
- *Dashboard.* `QuietClientIsCurrent` speaks of the moment when everything is at
  rest. `LastInv` says it of every moment at which the thread is not building: the
  last state that a client has queued, has been sent or is about to be sent is at
  least as new as what the thread last saw. A client subscribes before it reads,
  so that what is broadcast in between is in its queue.
- *DbDiscovery.* `RunInv` says which tables a
  tool can rely on at each of its steps. `LeaderInv` carries
  `UnusableOnlyAfterKill`: while a database lacks tables, some tool has made
  exactly the ones there are, and is about to make the rest or was killed. Two
  tools that are equally far both lead, and the one that comes second to a
  table fails without taking the lead from the other.
- *PeerSend.* The property relates the answer that was read to the message that
  was delivered; between the two lie lines of noise and answers in the pipe.
  `AnswersInv` says that there is at most one answer before the initialization is
  over, and that an accepting one after it means that the message was
  delivered.
- *StallDetection.* `PaneRecordInv` says what the record and the screen still have
  in common when the worker has not printed, counted or changed a line since;
  `CutoffInv` orders the cutoff, the last cycle and the first output; `KeysInv`
  says what the keys hold when all of them were kept. The four properties of
  `WorkersAreWatched` follow.
- *RetroGate.* The verdict is read off what the dispatcher carried from attempt to
  attempt. `PollingInv` says what that is: while the gate polls, the secretary has
  not acknowledged, and what is carried is her last word, unless it was lost. That
  the words of an attempt have a last one follows from the naturals being well
  founded (`GreatestOfSome`).
- *WorkDiscovery.* The lists are read at different moments, so that no state of the
  repositories need ever have been what the triage sees. What bridges the moments are
  the histories (`HistoryInv`): an issue was read with every blocker that it kept
  (`LinksInv`), nothing that was read as open was closed all through (`SeenInv`), and
  every list that has been read has what stayed open, unless it reached its limit
  (`WholeInv`); that a list below the limit is whole is `NewestIsAll`. The count of
  what was cut off needs the ranking to have each candidate once. It does
  (`RankingIs`): the key of `_sort_key` is a total order on the candidates, since it
  ends in the repository and the number, and a finite set in such an order has a
  list (`Listing`).
- *Upkeep.* `ScanInv` divides the classes into those that are done, whose lasting
  drift is in the report, the one at hand, whose lasting drift is in its rows, and
  the ones to come; `SweepInv` says that what has been visible throughout is among
  the items that were read.
- *SetupPrune.* `BackupInv` says that what was written over is in a back-up unless
  its name was taken in the same second or the file was edited since it was read;
  it rests on `HeldInv`, which says so of the file that a command is about to write
  over. An edit only adds, so a file that was edited never again holds what was
  read. `FileInv` and `TargetInv` that what is
  backed up parses and that what is written has nothing forbidden; `EditInv` follows
  the user's own entry through the command's copy.

- *QueueWatcher.* Records are written after the changes and in any order, so that
  the watcher's accounts match no present state of the queue. Three invariants
  stand for what they do match (`QueueAgrees`). `SumsAgree`: they never count more
  than what waits, less what the unwritten records are worth (`Worth`, summed by
  `Sums`). `AgesAgree`: they list the messages of the session by age, and what else
  waits, and whose record has been written, is no younger than the first of them.
  Together these make an alarm true (`ReportIsTrue`): were none of the waiting
  messages old, all would be of the session and behind the one reported, fewer than
  the accounts count. `PastAgrees` needs the records in the order of the changes:
  there is then a line of states of the queue (`LineOf`), from the one that the
  accounts describe exactly to the present one, each a change away from the next
  (`Moves`). Of that first state it says what the code relies on without saying it
  (`Covers`): the messages of before the watch are a first part of the queue, and
  since a claim takes the oldest first (`OldGoFirst`), those that the accounts take
  for old ones are. `AccountsBalance` and `OverdueIsReported` follow.
  A journal record counts for one or for as many as it drained, so no sum over a
  sequence is ever computed: that partial sums exist is enough, and one is added or
  taken out with each record (`SumsGrow`, `SumsDrop`).

**Maintenance_proofs** holds those of three more.

- *ColdArchive.* Between two steps of a command one directory may be away from
  where its row says; `HalfInv` says which and where it is instead, `TodoInv` that
  the rest of the candidates are still where they were selected, and `PlaceInv`
  that every other row is right (`DirectoriesAreFound`). Kills are excluded with the
  property: after two of them, a purge can meet another directory at the path of
  a row whose own has gone.
- *Rebuild.* `RebuildKeepsRuns` relates the runs before the reset to those after the
  import. `CalmInv` bridges the two transactions: in between the tables are empty,
  nobody writes, and the file holds what the import needs (`Holds`).
  `RenderedHolds` says so of the file when it is in step, and `ImportedIsARun` what a
  row of it is imported as.
- *Migration.* `TreeInv` says where each directory can be: whatever was cut short,
  replayed or rolled back, the content of the first project is at one of three
  names and that of the second at one of two. `SwapInv` says what is still true of
  the two because of the operations that are pending: as long as the first step of
  the swap is, the first project has its old name, and so on (`Order`). It is
  inductive only for plans whose swap is whole (`Shape`), which every plan that the
  code makes, or a cut between tiers, is (`Shapes`), and which preflight lets begin
  only where no step of the swap has been made (`SwapIsWhole`). `LinkInv` says that
  with `--keep-compat` the swap stops at its second step, where the link is in
  the way.

  `RollbackRestores` speaks of the end of a roll-back only, and of the tree as it was
  before the apply. What is true all along is that a manifest *fits* the tree
  (`Fits`): undoing its entries from the last one on, with those passed over that
  were never made or are already undone, leads back to that tree. Every step
  of an apply keeps the manifest fitting, wherever it is cut short (`FitsForth`,
  `FitsGrows`); every step of a roll-back takes one entry off (`LastEntry`,
  `FitsBack`), so that at the end the manifest fits with no entry left, which says
  that the trees are equal. `RecordInv` says what that needs of a manifest: it is a
  beginning of its plan, completed but for the entry at hand. `ChainInv` says it of
  the earlier manifests: each fits the tree that the next one began with, so that
  after a roll-back the next newest fits again. What `RestoreInv` assumes, that the
  newest apply is always the one that is rolled back (`inOrder`) and that no kill
  fell in one of the two blind places, is what the property itself excludes; the
  rest of the invariant holds without it. TLC found the whole invariant true on a
  small instance before it was proved.

**Model-checked only.** Liveness (`EventuallyDelivered`, `NewHeadGetsVerdict`,
`RoundEnds`, `GapsAreReported`), which the prover has no rules for here, and
`EffortsAreLearned` of `EffortModel`: its rank correlation is a recursive
definition, whose results for every history would need induction over data. With
it, the conjunction `TypeOK` of `Tools` is left to TLC.

## 6. Conventions

Names follow the code where TLA+ allows it: an action is named after its
function, a variable after its column. `"absent"`, `"none"` and the `No...`
constants stand for a missing row or value. Times are versions or minutes, ids
are small numbers, texts are left out. `PROJECT.json` maps each definition to
the lines it models; definitions marked external model agents, git, GitHub and
the death of processes from the way the code uses them.

## 7. Running the checks

    tlc -workers 2 -config statewriter.cfg MCStateWriter.tla
    tlapm StateWriter_proofs.tla

## 8. Plan

The order is by how much the system depends on the part and how little a test
reaches it.

1. *Built:* the core (StateWriter, Outbox with RelayPromise, PrWatch,
   MergeCompletion, PendingDecisions, Delegation) with proofs of all its safety
   properties, and the fourteen modules of the tools around it, with proofs for
   Sidecar, Dashboard, DbDiscovery, PeerSend, StallDetection, RetroGate, WorkDiscovery,
   QueueWatcher, ColdArchive, Upkeep, SetupPrune, Rebuild and Migration, alone and
   side by side.
2. Proofs: type correctness of EffortModel, and of `Tools` as a whole.
3. A composition of Delegation and MergeCompletion over one `runs` table: from
   the reservation to the merge; one of PendingDecisions, QueueWatcher and
   RetroGate as the dispatcher's loop sees them.
4. The reading of references out of prose (`extract_blocking_refs` and its neighbours of
   `work_discovery_scan.py`) and the roll-up buckets of `pr_watch`, as functions
   checked against reference definitions.

## 9. Not modelled

- *Queries* (`queries.py`) only read; the ones that decide something are part
  of the action that asks them.
- *Rendering and parsing* (`gen_worker_brief.py`, `gen_skill_prose.py`,
  `registry_parser.py`, `transport.py`, `extract_freetext.py`): text to text,
  without state, and wording is not modelled.
- *Checks that only report* (`check_role_configs.py`, the compatibility checks,
  `check_runtime_schema_drift.py`, `org_metrics_report.py`,
  `check_curate_threshold.py`): one pass over files nobody changes meanwhile.
- *`state_migrate.py`* has no migration registered, so nothing to check yet.
- *Maintenance and release tools, hooks, installers*: decisions on one command
  line, or chores no running part depends on.
- *Agents, the broker, git and GitHub* are external; their actions are modelled
  from the way the code uses them.
- Within modelled parts: truncation and rotation of the journal, the offline
  bundles of work discovery, the choice of its repositories, the import of
  `projects.md` and of the inventory.
