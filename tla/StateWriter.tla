---------------------------- MODULE StateWriter ----------------------------
(***************************************************************************)
(* tools/state_db/writer.py: the only writer of the run registry. Several  *)
(* processes (secretary, dispatcher, pr_watch) hold a StateWriter on the   *)
(* same SQLite file. A transaction reads from the snapshot of its first    *)
(* statement, takes the write lock with its first write and fails if       *)
(* somebody committed in between. After the commit the writer renders      *)
(* org-state.md, then org-state.json, and then archives the notes of the   *)
(* runs it completed; none of this is protected by the lock, any of it may *)
(* fail and be skipped, and the process may die anywhere.                  *)
(***************************************************************************)
EXTENDS Naturals, FiniteSets

CONSTANTS
    Writers,    \* processes that hold a StateWriter
    Runs,       \* task ids
    Written,    \* statuses that the callers write
    MaxCommit   \* bound: transactions that change something

Files    == {"md", "json"}    \* the files rendered after a commit
Statuses == {"queued", "in_use", "review", "completed", "failed", "suspended",
             "abandoned"}
Live     == {"in_use", "review"}
NoSnap   == MaxCommit + 1     \* the transaction has run no statement yet

ASSUME StateWriterAssumption == MaxCommit \in Nat /\ Written \subseteq Statuses

VARIABLES
    status,    \* runs.status as committed, "absent" before the row
    commits,   \* version of the database: commits that changed it
    shown,     \* for each file, the versions its two parts were read at
    note,      \* runs with a .state/workers/worker-<task>.md
    archive,   \* runs with such a file in .state/workers/archive
    pc,        \* where each writer is
    snap,      \* the version its transaction reads
    view,      \* the statuses its transaction sees, its own writes included
    wrote,     \* whether its transaction holds the write lock
    queue,     \* its _pending_worker_archives
    moving,    \* the run whose note it is about to archive, as a set
    file,      \* the file it renders
    shot,      \* the versions read for that file
    completed, \* history: runs that a commit left completed
    left,      \* history: runs whose archive move failed or died
    excuse     \* history: since the last commit hooks overlapped or failed

db   == <<status, commits, completed>>
fs   == <<note, archive, left>>
tx   == <<snap, view, wrote>>
hook == <<file, shot>>
vars == <<status, commits, completed, note, archive, left, snap, view, wrote,
          file, shot, shown, pc, queue, moving, excuse>>

FileHooks == {"session", "runs", "replace"}
Hooks     == FileHooks \cup {"drain", "move"}
Shots == [session : 0..MaxCommit, runs : 0..MaxCommit]

TypeOK ==
    /\ status \in [Runs -> Statuses \cup {"absent"}]
    /\ commits \in 0..MaxCommit
    /\ shown \in [Files -> Shots]
    /\ note \subseteq Runs /\ archive \subseteq Runs
    /\ pc \in [Writers -> Hooks \cup {"idle", "open"}]
    /\ snap \in [Writers -> 0..NoSnap]
    /\ view \in [Writers -> [Runs -> Statuses \cup {"absent"}]]
    /\ wrote \in [Writers -> BOOLEAN]
    /\ queue \in [Writers -> SUBSET Runs]
    /\ moving \in [Writers -> SUBSET Runs]
    /\ file \in [Writers -> Files]
    /\ shot \in [Writers -> Shots]
    /\ completed \subseteq Runs /\ left \subseteq Runs
    /\ excuse \in BOOLEAN

Nothing == [session |-> 0, runs |-> 0]
Empty   == [t \in Runs |-> "absent"]

Init ==
    /\ status = Empty
    /\ commits = 0
    /\ shown = [f \in Files |-> Nothing]
    /\ note = {} /\ archive = {}
    /\ pc = [w \in Writers |-> "idle"]
    /\ snap = [w \in Writers |-> NoSnap]
    /\ view = [w \in Writers |-> Empty]
    /\ wrote = [w \in Writers |-> FALSE]
    /\ queue = [w \in Writers |-> {}]
    /\ moving = [w \in Writers |-> {}]
    /\ file = [w \in Writers |-> "md"]
    /\ shot = [w \in Writers |-> Nothing]
    /\ completed = {} /\ left = {}
    /\ excuse = FALSE

Goto(w, p) == pc' = [pc EXCEPT ![w] = p]
-----------------------------------------------------------------------------
(* The transaction                                                         *)

(* BEGIN is deferred: neither a snapshot nor a lock yet.                   *)
Begin(w) ==
    /\ pc[w] = "idle"
    /\ Goto(w, "open")
    /\ UNCHANGED <<db, fs, tx, hook, shown, queue, excuse, moving>>

(* A statement that only reads (the look-ups of register_worker_dir and    *)
(* upsert_run) fixes the snapshot.                                         *)
Select(w) ==
    /\ pc[w] = "open"
    /\ snap[w] = NoSnap
    /\ snap' = [snap EXCEPT ![w] = commits]
    /\ view' = [view EXCEPT ![w] = status]
    /\ UNCHANGED <<db, fs, wrote, hook, shown, pc, queue, excuse, moving>>

(* The first write needs the lock and the newest snapshot; else SQLite     *)
(* raises and the caller rolls back.                                       *)
CanWrite(w) ==
    /\ pc[w] = "open"
    /\ snap[w] \in {NoSnap, commits}
    /\ commits < MaxCommit
    /\ \A u \in Writers \ {w} : ~wrote[u]

Seen(w) == IF snap[w] = NoSnap THEN status ELSE view[w]

(* The transaction sees the statuses v from now on.                        *)
Put(w, v) ==
    /\ wrote' = [wrote EXCEPT ![w] = TRUE]
    /\ snap' = [snap EXCEPT ![w] = commits]
    /\ view' = [view EXCEPT ![w] = v]

(* register_worker_dir, remove_worker_dir, update_session, set_run_pr and  *)
(* append_event: tables and columns this module does not look into.        *)
WriteElsewhere(w) ==
    /\ CanWrite(w)
    /\ Put(w, Seen(w))
    /\ UNCHANGED <<db, fs, hook, shown, pc, queue, excuse, moving>>

(* upsert_run inserts or updates; its callers reserve or dispatch a run.   *)
UpsertRun(w, t, s) ==
    /\ CanWrite(w)
    /\ s \in {"queued", "in_use"}
    /\ Put(w, [Seen(w) EXCEPT ![t] = s])
    /\ UNCHANGED <<db, fs, hook, shown, pc, queue, excuse, moving>>

(* Mistake: only a run that was not completed yet is queued (by the status *)
(* of the last commit).                                                    *)
UpdateRunStatusOnce(w, t, s) ==
    /\ CanWrite(w)
    /\ Put(w, [Seen(w) EXCEPT ![t] = IF @ = "absent" THEN @ ELSE s])
    /\ queue' = [queue EXCEPT ![w] = IF s = "completed" /\ t \notin completed
                                     THEN @ \cup {t} ELSE @]
    /\ UNCHANGED <<db, fs, hook, shown, pc, excuse, moving>>

(* update_run_status: a run that has no row is left alone and not queued.  *)
UpdateRunStatus(w, t, s) ==
    LET found == Seen(w)[t] # "absent" IN
    /\ CanWrite(w)
    /\ Put(w, IF found THEN [Seen(w) EXCEPT ![t] = s] ELSE Seen(w))
    /\ queue' = [queue EXCEPT ![w] = IF found /\ s = "completed" THEN @ \cup {t} ELSE @]
    /\ UNCHANGED <<db, fs, hook, shown, pc, excuse, moving>>

EndTransaction(w) ==
    /\ wrote' = [wrote EXCEPT ![w] = FALSE]
    /\ snap' = [snap EXCEPT ![w] = NoSnap]
    /\ view' = [view EXCEPT ![w] = Empty]

(* An exception in the block, the busy database among them.                *)
Rollback(w) ==
    /\ pc[w] = "open"
    /\ EndTransaction(w)
    /\ queue' = [queue EXCEPT ![w] = {}]
    /\ Goto(w, "idle")
    /\ UNCHANGED <<db, fs, hook, shown, excuse, moving>>

(* commit: the hooks run even when the transaction wrote nothing.          *)
Commit(w) ==
    /\ pc[w] = "open"
    /\ status' = IF wrote[w] THEN view[w] ELSE status
    /\ commits' = IF wrote[w] THEN commits + 1 ELSE commits
    /\ completed' = completed \cup {t \in Runs : status'[t] = "completed"}
    /\ excuse' = \E u \in Writers \ {w} : pc[u] \in FileHooks
    /\ EndTransaction(w)
    /\ file' = [file EXCEPT ![w] = "md"]
    /\ Goto(w, "session")
    /\ UNCHANGED <<fs, shot, shown, queue, moving>>
-----------------------------------------------------------------------------
(* The hooks, in this order: org-state.md, org-state.json, archive         *)

(* Both renderers read the session and then the runs, each statement on    *)
(* the newest commit.                                                      *)
ReadSession(w) ==
    /\ pc[w] = "session"
    /\ shot' = [shot EXCEPT ![w] = [session |-> commits, runs |-> 0]]
    /\ Goto(w, "runs")
    /\ UNCHANGED <<db, fs, tx, file, shown, queue, excuse, moving>>

ReadRuns(w) ==
    /\ pc[w] = "runs"
    /\ shot' = [shot EXCEPT ![w].runs = commits]
    /\ Goto(w, "replace")
    /\ UNCHANGED <<db, fs, tx, file, shown, queue, excuse, moving>>

NextFile(w) ==
    IF file[w] = "md" THEN file' = [file EXCEPT ![w] = "json"] /\ Goto(w, "session")
                      ELSE file' = [file EXCEPT ![w] = "md"] /\ Goto(w, "drain")

(* Mistake: a file that is there already is not replaced.                  *)
ReplaceFileOnce(w) ==
    /\ pc[w] = "replace"
    /\ shown' = [shown EXCEPT ![file[w]] = IF @ = Nothing THEN shot[w] ELSE @]
    /\ shot' = [shot EXCEPT ![w] = Nothing]
    /\ NextFile(w)
    /\ UNCHANGED <<db, fs, tx, queue, excuse, moving>>

(* The file is written aside and renamed.                                  *)
ReplaceFile(w) ==
    /\ pc[w] = "replace"
    /\ shown' = [shown EXCEPT ![file[w]] = shot[w]]
    /\ shot' = [shot EXCEPT ![w] = Nothing]
    /\ NextFile(w)
    /\ UNCHANGED <<db, fs, tx, queue, excuse, moving>>

(* A renderer raises; the message goes to stderr and the next hook runs.   *)
HookFails(w) ==
    /\ pc[w] \in {"session", "runs", "replace"}
    /\ shot' = [shot EXCEPT ![w] = Nothing]
    /\ excuse' = TRUE
    /\ NextFile(w)
    /\ UNCHANGED <<db, fs, tx, shown, queue, moving>>

(* Mistake: the queue is trusted and the committed status not asked.       *)
DueAll(w) == queue[w]

(* Runs of the queue whose committed status is completed.                  *)
Due(w) == {t \in queue[w] : status[t] = "completed"}

(* _drain_pending_worker_archives takes the runs of the queue one by one;  *)
(* a run that is not due or has no note is skipped.                        *)
Drain(w) ==
    /\ pc[w] = "drain"
    /\ \E t \in queue[w] :
          /\ queue' = [queue EXCEPT ![w] = @ \ {t}]
          /\ IF t \in Due(w) \cap note
             THEN moving' = [moving EXCEPT ![w] = {t}] /\ Goto(w, "move")
             ELSE UNCHANGED <<moving, pc>>
    /\ UNCHANGED <<db, fs, tx, hook, shown, excuse>>

Drained(w) ==
    /\ pc[w] = "drain"
    /\ queue[w] = {}
    /\ Goto(w, "idle")
    /\ UNCHANGED <<db, fs, tx, hook, shown, queue, moving, excuse>>

(* os.replace; when it raises (another writer moved the note first, or the *)
(* disk is full) the note stays where it is.                               *)
Move(w) ==
    /\ pc[w] = "move"
    /\ \/ /\ moving[w] \subseteq note
          /\ note' = note \ moving[w]
          /\ archive' = archive \cup moving[w]
          /\ left' = left \ moving[w]
       \/ /\ left' = left \cup moving[w]
          /\ UNCHANGED <<note, archive>>
    /\ moving' = [moving EXCEPT ![w] = {}]
    /\ Goto(w, "drain")
    /\ UNCHANGED <<db, tx, hook, shown, queue, excuse>>
-----------------------------------------------------------------------------
(* The process dies: SQLite rolls an open transaction back, hooks that did *)
(* not run are lost with the queue.                                        *)
Die(w) ==
    /\ pc[w] # "idle"
    /\ EndTransaction(w)
    /\ left' = IF pc[w] \in Hooks THEN left \cup queue[w] \cup moving[w] ELSE left
    /\ excuse' = (excuse \/ pc[w] \in FileHooks)
    /\ queue' = [queue EXCEPT ![w] = {}]
    /\ moving' = [moving EXCEPT ![w] = {}]
    /\ file' = [file EXCEPT ![w] = "md"]
    /\ shot' = [shot EXCEPT ![w] = Nothing]
    /\ Goto(w, "idle")
    /\ UNCHANGED <<db, note, archive, shown>>

(* The dispatcher creates the note of a live run, the secretary adds to it.*)
WriteNote(t) ==
    /\ status[t] \in Live
    /\ t \notin note
    /\ note' = note \cup {t}
    /\ UNCHANGED <<db, archive, left, tx, hook, shown, pc, queue, moving, excuse>>

Next ==
    \/ \E w \in Writers :
          \/ Begin(w) \/ Select(w) \/ WriteElsewhere(w) \/ Rollback(w) \/ Commit(w)
          \/ \E t \in Runs, s \in Written : UpsertRun(w, t, s) \/ UpdateRunStatus(w, t, s)
          \/ ReadSession(w) \/ ReadRuns(w) \/ ReplaceFile(w) \/ HookFails(w)
          \/ Drain(w) \/ Drained(w) \/ Move(w) \/ Die(w)
    \/ \E t \in Runs : WriteNote(t)

Spec == Init /\ [][Next]_vars
-----------------------------------------------------------------------------
(* Properties                                                              *)

(* A note is archived only for a run that some commit left completed: a    *)
(* completion that was rolled back, or taken back in its own transaction,  *)
(* archives nothing, whichever commit drains the queue.                    *)
ArchivedWasCompleted == archive \subseteq completed

(* The note of a completed run is archived, or some writer is still about  *)
(* to do it, or it tried and failed or died: no order of completions,      *)
(* re-openings and commits of several writers forgets one.                 *)
NothingLeftBehind ==
    \A t \in note \ left :
        status[t] = "completed" => \E w \in Writers : /\ pc[w] \in Hooks
                                                      /\ t \in queue[w] \cup moving[w]

(* After a commit whose hooks ran alone and without failure both files     *)
(* show the database as it is, whatever an earlier overlap or failure had  *)
(* left in them: "will catch up on the next StateWriter commit".           *)
SoloCommitCatchesUp ==
    (~excuse /\ \A w \in Writers : pc[w] \notin FileHooks)
        => \A f \in Files : shown[f] = [session |-> commits, runs |-> commits]
=============================================================================
