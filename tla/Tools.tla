------------------------------- MODULE Tools --------------------------------
(***************************************************************************)
(* The programs that work beside the registry.  They share no state with   *)
(* one another, so a behaviour is of one of them, the one that is chosen;  *)
(* the variables of the others are off.  Names that two modules use for    *)
(* different things are given apart.                                       *)
(***************************************************************************)
EXTENDS Naturals, Sequences, FiniteSets

CONSTANTS
    MaxMessage, StaleSec, MaxClock, MaxUnlogged, MaxReaps, MaxRestarts, MaxLines,
    Pids, Brokers, NoRecord, MaxStarts, Clients, MaxVersion, MaxFailures,
    Openers, MaxKills, MaxApplies, MaxRollbacks, MaxCuts, Dirs, Base,
    MaxCommands, MaxTouches, Scanned, ByName, Issues, Pulls, Outside, Attributes,
    TopN, FreePanes, OpenLimit, RecentMerges, MaxBlockers, MaxChanges,
    HomeRepository, HomeIssues, Abroad, Lengths, Efforts, MaxMerged, MinSamples, Short, Long,
    MaxPrunings, MaxSeconds, MaxEdits, Tasks, Writers, NoRun, NoFile,
    MaxImportCommits, MaxRebuilds, MaxCommits, Verbs, NoVerb, Threshold, Cap,
    MaxCycles, MaxFaults, MaxAttempts, MaxInbox, MaxLosses

VARIABLES
    chosen,
    place, sent, unlogged, journal, orderly, clock, reaps, restarts, watch,    \* QueueWatcher
    polled, acct,
    transport, pc, result, lines, written, server, delivered,    \* PeerSend
    proc, file, stop, starts, newest, raced, hit,    \* Sidecar
    version, mtimes, building, subscribed, queue, phase, first, shown,    \* Dashboard
    failures, missed,
    tables, tool,    \* DbDiscovery
    at, link, runsIn, runIn, gitAt, staged, manifest, moving, job, cuts,    \* Migration
    rollbacks, before, undone, inOrder, blind,
    disk, row, untouched, cmd, commands, touches, killed, marked,    \* ColdArchive
    open, blockers, held, merges, stage, repo, bundles, truncated, report,    \* WorkDiscovery
    exit, changes, stayed, stayedShut, linked,
    merged, body, model,    \* EffortModel
    settings, override, asked, backup, second, pruning, prunings, edits,    \* SetupPrune
    kills, replaced, clash, overtaken,
    run, session, md, writer, importer, dropped, calm, recorded, rebuilds,    \* Rebuild
    status, waited, note, old, items, scan, sweep, commits, lasting, steady,    \* Upkeep
    swept,
    screen, record, keys, decision, cycle, seen, faults,    \* StallDetection
    inbox, attempt, carried, verdict, heard, losses    \* RetroGate

QW == INSTANCE QueueWatcher WITH
    Stale <- StaleSec, scan <- journal, pc <- watch
PS == INSTANCE PeerSend
SC == INSTANCE Sidecar
DB == INSTANCE Dashboard
DD == INSTANCE DbDiscovery WITH
    Tools <- Openers
MG == INSTANCE Migration WITH
    MaxKills <- MaxCuts, pc <- moving, kills <- cuts
CA == INSTANCE ColdArchive WITH
    MaxChanges <- MaxTouches, changes <- touches
WD == INSTANCE WorkDiscovery WITH
    pc <- stage, at <- repo, result <- report
EM == INSTANCE EffortModel WITH
    Home <- HomeRepository
SP == INSTANCE SetupPrune WITH
    MaxCommands <- MaxPrunings, file <- settings, transport <- asked,
    cmd <- pruning, commands <- prunings, raced <- overtaken
RB == INSTANCE Rebuild WITH
    MaxCommits <- MaxImportCommits, before <- dropped, commits <- recorded
UK == INSTANCE Upkeep
SD == INSTANCE StallDetection
RG == INSTANCE RetroGate

varQueueWatcher == <<place, sent, unlogged, journal, orderly, clock, reaps,
                  restarts, watch, polled, acct>>
varPeerSend == <<transport, pc, result, lines, written, server, delivered>>
varSidecar == <<proc, file, stop, starts, newest, raced, hit>>
varDashboard == <<version, mtimes, building, subscribed, queue, phase, first,
               shown, failures, missed>>
varDbDiscovery == <<tables, tool>>
varMigration == <<at, link, runsIn, runIn, gitAt, staged, manifest, moving,
               job, cuts, rollbacks, before, undone, inOrder, blind>>
varColdArchive == <<disk, row, untouched, cmd, commands, touches, killed,
                 marked>>
varWorkDiscovery == <<open, blockers, held, merges, stage, repo, bundles,
                   truncated, report, exit, changes, stayed, stayedShut,
                   linked>>
varEffortModel == <<merged, body, model>>
varSetupPrune == <<settings, override, asked, backup, second, pruning,
                prunings, edits, kills, replaced, clash, overtaken>>
varRebuild == <<run, session, md, writer, importer, dropped, calm, recorded,
             rebuilds>>
varUpkeep == <<status, waited, note, old, items, scan, sweep, commits, lasting,
            steady, swept>>
varStallDetection == <<screen, record, keys, decision, cycle, seen, faults>>
varRetroGate == <<inbox, attempt, carried, verdict, heard, losses>>

vars ==
    <<chosen, varQueueWatcher, varPeerSend, varSidecar, varDashboard, varDbDiscovery,
      varMigration, varColdArchive, varWorkDiscovery, varEffortModel,
      varSetupPrune, varRebuild, varUpkeep, varStallDetection, varRetroGate>>

Programs ==
    {"messages", "sending", "sidecars", "dashboard", "opening", "migration",
     "archive", "discovery", "effort", "settings", "rebuild", "upkeep",
     "panes", "gate"}

Off == "off"

NoQueueWatcher ==
    /\ place = Off /\ sent = Off /\ unlogged = Off /\ journal = Off
    /\ orderly = Off /\ clock = Off /\ reaps = Off
    /\ restarts = Off /\ watch = Off /\ polled = Off /\ acct = Off
NoPeerSend ==
    /\ transport = Off /\ pc = Off /\ result = Off /\ lines = Off
    /\ written = Off /\ server = Off /\ delivered = Off
NoSidecar ==
    /\ proc = Off /\ file = Off /\ stop = Off /\ starts = Off
    /\ newest = Off /\ raced = Off /\ hit = Off
NoDashboard ==
    /\ version = Off /\ mtimes = Off /\ building = Off
    /\ subscribed = Off /\ queue = Off /\ phase = Off
    /\ first = Off /\ shown = Off /\ failures = Off /\ missed = Off
NoDbDiscovery ==
    /\ tables = Off /\ tool = Off
NoMigration ==
    /\ at = Off /\ link = Off /\ runsIn = Off /\ runIn = Off
    /\ gitAt = Off /\ staged = Off /\ manifest = Off
    /\ moving = Off /\ job = Off /\ cuts = Off /\ rollbacks = Off
    /\ before = Off /\ undone = Off /\ inOrder = Off /\ blind = Off
NoColdArchive ==
    /\ disk = Off /\ row = Off /\ untouched = Off /\ cmd = Off
    /\ commands = Off /\ touches = Off /\ killed = Off /\ marked = Off
NoWorkDiscovery ==
    /\ open = Off /\ blockers = Off /\ held = Off /\ merges = Off
    /\ stage = Off /\ repo = Off /\ bundles = Off
    /\ truncated = Off /\ report = Off /\ exit = Off
    /\ changes = Off /\ stayed = Off /\ stayedShut = Off
    /\ linked = Off
NoEffortModel ==
    /\ merged = Off /\ body = Off /\ model = Off
NoSetupPrune ==
    /\ settings = Off /\ override = Off /\ asked = Off
    /\ backup = Off /\ second = Off /\ pruning = Off
    /\ prunings = Off /\ edits = Off /\ kills = Off
    /\ replaced = Off /\ clash = Off /\ overtaken = Off
NoRebuild ==
    /\ run = Off /\ session = Off /\ md = Off /\ writer = Off
    /\ importer = Off /\ dropped = Off /\ calm = Off
    /\ recorded = Off /\ rebuilds = Off
NoUpkeep ==
    /\ status = Off /\ waited = Off /\ note = Off /\ old = Off
    /\ items = Off /\ scan = Off /\ sweep = Off /\ commits = Off
    /\ lasting = Off /\ steady = Off /\ swept = Off
NoStallDetection ==
    /\ screen = Off /\ record = Off /\ keys = Off /\ decision = Off
    /\ cycle = Off /\ seen = Off /\ faults = Off
NoRetroGate ==
    /\ inbox = Off /\ attempt = Off /\ carried = Off
    /\ verdict = Off /\ heard = Off /\ losses = Off
------------------------------------------------------------------------------
Init ==
    /\ chosen \in Programs
    /\ IF chosen = "messages" THEN QW!Init ELSE NoQueueWatcher
    /\ IF chosen = "sending" THEN PS!Init ELSE NoPeerSend
    /\ IF chosen = "sidecars" THEN SC!Init ELSE NoSidecar
    /\ IF chosen = "dashboard" THEN DB!Init ELSE NoDashboard
    /\ IF chosen = "opening" THEN DD!Init ELSE NoDbDiscovery
    /\ IF chosen = "migration" THEN MG!Init ELSE NoMigration
    /\ IF chosen = "archive" THEN CA!Init ELSE NoColdArchive
    /\ IF chosen = "discovery" THEN WD!Init ELSE NoWorkDiscovery
    /\ IF chosen = "effort" THEN EM!Init ELSE NoEffortModel
    /\ IF chosen = "settings" THEN SP!Init ELSE NoSetupPrune
    /\ IF chosen = "rebuild" THEN RB!Init ELSE NoRebuild
    /\ IF chosen = "upkeep" THEN UK!Init ELSE NoUpkeep
    /\ IF chosen = "panes" THEN SD!Init ELSE NoStallDetection
    /\ IF chosen = "gate" THEN RG!Init ELSE NoRetroGate

Next ==
    /\ UNCHANGED chosen
    /\ IF chosen = "messages" THEN QW!Next ELSE UNCHANGED varQueueWatcher
    /\ IF chosen = "sending" THEN PS!Next ELSE UNCHANGED varPeerSend
    /\ IF chosen = "sidecars" THEN SC!Next ELSE UNCHANGED varSidecar
    /\ IF chosen = "dashboard" THEN DB!Next ELSE UNCHANGED varDashboard
    /\ IF chosen = "opening" THEN DD!Next ELSE UNCHANGED varDbDiscovery
    /\ IF chosen = "migration" THEN MG!Next ELSE UNCHANGED varMigration
    /\ IF chosen = "archive" THEN CA!Next ELSE UNCHANGED varColdArchive
    /\ IF chosen = "discovery" THEN WD!Next ELSE UNCHANGED varWorkDiscovery
    /\ IF chosen = "effort" THEN EM!Next ELSE UNCHANGED varEffortModel
    /\ IF chosen = "settings" THEN SP!Next ELSE UNCHANGED varSetupPrune
    /\ IF chosen = "rebuild" THEN RB!Next ELSE UNCHANGED varRebuild
    /\ IF chosen = "upkeep" THEN UK!Next ELSE UNCHANGED varUpkeep
    /\ IF chosen = "panes" THEN SD!Next ELSE UNCHANGED varStallDetection
    /\ IF chosen = "gate" THEN RG!Next ELSE UNCHANGED varRetroGate

Spec == Init /\ [][Next]_vars
------------------------------------------------------------------------------
(* Each component's variables have their types. *)
TypeOK ==
    /\ chosen = "messages" => QW!TypeOK
    /\ chosen = "sending" => PS!TypeOK
    /\ chosen = "sidecars" => SC!TypeOK
    /\ chosen = "dashboard" => DB!TypeOK
    /\ chosen = "opening" => DD!TypeOK
    /\ chosen = "migration" => MG!TypeOK
    /\ chosen = "archive" => CA!TypeOK
    /\ chosen = "discovery" => WD!TypeOK
    /\ chosen = "effort" => EM!TypeOK
    /\ chosen = "settings" => SP!TypeOK
    /\ chosen = "rebuild" => RB!TypeOK
    /\ chosen = "upkeep" => UK!TypeOK
    /\ chosen = "panes" => SD!TypeOK
    /\ chosen = "gate" => RG!TypeOK

(* The watcher's alarm is true, and a message that stays too long raises it *)
(* (secretary_queue_watcher.py).                                            *)
SecretaryIsAlarmed ==
    /\ [](chosen = "messages" => QW!AccountsBalance)
    /\ [][chosen = "messages" => QW!AlarmIsTrue /\ QW!OverdueIsReported]_vars

(* What the tools say of messages is true: a send that succeeded was        *)
(* delivered (peer_notify.py), a verdict is the secretary's                 *)
(* (dispatcher_retro_gate.py).                                              *)
MessagesAreTrue ==
    /\ chosen = "sending" => PS!TrueMeansDelivered
    /\ chosen = "gate" => RG!VerdictIsHers

(* Stopping a background program stops only that one, and the newest one    *)
(* can still be found (secretary_queue_watcher.py, stop_dashboard.py).      *)
OwnProgramIsStopped ==
    /\ chosen = "sidecars" => SC!OnlyOwnProgramStopped
    /\ chosen = "sidecars" => SC!NewestIsFindable

(* Readers and writers of the state find the same one: a quiet client shows *)
(* it (dashboard/server.py), the recording tools open it (discover.py).     *)
StateIsFound ==
    /\ chosen = "dashboard" => DB!QuietClientIsCurrent
    /\ chosen = "opening" => DD!EventsAreTogether
    /\ chosen = "opening" => DD!UnusableOnlyAfterKill

(* Directories are moved as a whole and found again: the swap and the roll  *)
(* back of migrate_workers.py, the archive of curator_archive.py.           *)
MovesAreWhole ==
    /\ chosen = "migration" => MG!SwapIsNeverMixed
    /\ chosen = "migration" => MG!RollbackRestores
    /\ chosen = "archive" => CA!RowFindsDirectory

(* The report of a scan is true of what was so throughout                   *)
(* (work_discovery_scan.py).                                                *)
DiscoveryIsTrue == chosen = "discovery" => WD!TriageIsTrue

(* The sizes it gives to issues are learned from the home repository        *)
(* (build_effort_model of work_discovery_scan.py).                          *)
EffortsAreLearned == chosen = "effort" => EM!EffortIsLearnedFromHome

(* A rebuild keeps the runs (importer.py).                                  *)
RebuildKeepsRuns == [][chosen = "rebuild" => RB!RebuildKeepsRuns]_vars

(* The commands that look after settings and notes do no harm: what pruning *)
(* writes over can be had back (org_setup_prune.py), drift that lasts is    *)
(* reported (check_state_drift.py), and the sweep spares what is visible    *)
(* (sweep_stale_workers.py).                                                *)
UpkeepIsSafe ==
    /\ chosen = "settings" => SP!PruneLosesNothing
    /\ chosen = "upkeep" => UK!LastingDriftIsReported
    /\ chosen = "upkeep" => UK!SweepSparesVisible

(* A worker that stands still is noticed and one that works is left alone   *)
(* (inspect_pane_state.py, inspect_anomaly_scan.py).                        *)
WorkersAreWatched ==
    /\ [](chosen = "panes" => SD!QuietIsCounted /\ SD!CutoffBeforeOutput)
    /\ [][chosen = "panes" => SD!SuppressionIsEarned /\ SD!RetryIsReported]_vars
=============================================================================
