------------------------------ MODULE Rebuild -------------------------------
(***************************************************************************)
(* The database and .state/org-state.md, each made from the other: after a  *)
(* commit the snapshotter renders the file from the database, the importer  *)
(* rebuilds the database from the file, and drift_check compares the two.   *)
(* The importer drops every table and commits that before it reads the     *)
(* file, so that a writer may get in between; one that does so makes the    *)
(* import fail, because it gives the session the row that the importer     *)
(* inserts.                                                                *)
(*                                                                         *)
(* A task has at most one run.  Names, times and the inventory are left    *)
(* out; a table that no file holds (events, deliveries) is simply empty     *)
(* after a rebuild.                                                        *)
(***************************************************************************)
EXTENDS Naturals, FiniteSets

CONSTANTS Tasks, Writers, NoRun, NoFile, MaxCommits, MaxRebuilds

Statuses == {"queued", "in_use", "review", "suspended", "completed", "failed", "abandoned"}
Visible == {"in_use", "review"}                 \* USER_VISIBLE_STATUSES
Notes == {"none", "compensated", "remark"}      \* what update_run_status is given for outcome_note
NoRow == "none"                                 \* org_sessions has no row yet

VARIABLES
    run,        \* runs, with their project and worker directory
    session,    \* org_sessions.status
    md,         \* org-state.md
    writer,     \* writer[w]: idle, open, committed, or rendered, and the text to put in place
    importer,   \* off, or between the reset and the import
    before,     \* history: the runs that the reset dropped
    calm,       \* history: the file was in step and no writer was at work at the reset
    commits, rebuilds

vars == <<run, session, md, writer, importer, before, calm, commits, rebuilds>>
history == <<before, calm>>

Run(status, dir, title) == [status |-> status, dir |-> dir, note |-> "none", title |-> title]
NoRuns == [t \in Tasks |-> NoRun]
Registered(t) == run[t] # NoRun
Idle == [phase |-> "idle", text |-> NoFile]

-----------------------------------------------------------------------------
(* The snapshotter. *)

(* A row of the registry shows the note in place of the status. *)
Cell(r) == IF r.note = "none" THEN r.status ELSE r.note

(* render_structured_markdown: the header, the runs that have a directory, *)
(* and the titles of those that a user sees.                               *)
Rendered ==
    [session |-> IF session = NoRow THEN "IDLE" ELSE session,
     rows |-> [t \in {t \in Tasks : Registered(t) /\ run[t].dir} |-> Cell(run[t])],
     active |-> [t \in {t \in Tasks : Registered(t) /\ run[t].status \in Visible} |-> run[t].title]]

(* drift_check: the file is not what the database renders to. *)
Drift == md # Rendered

-----------------------------------------------------------------------------
(* The importer. *)

(* Mistake: the cell of a run under review is not known. *)
StatusWithoutReview(cell) ==
    CASE cell = "compensated" -> "failed"
      [] cell \in Statuses \ {"review"} -> cell
      [] OTHER -> "in_use"

(* _map_status: the first keyword in the cell, "in_use" when there is none. *)
(* The note of a compensated delegation says that it failed.               *)
MapStatus(cell) ==
    CASE cell = "compensated" -> "failed"
      [] cell \in Statuses -> cell
      [] OTHER -> "in_use"

(* A row becomes a run named after its task; the title comes from the      *)
(* active items, which make no run of their own.                           *)
Imported(t) ==
    IF t \in DOMAIN md.rows
    THEN [status |-> MapStatus(md.rows[t]), dir |-> TRUE, note |-> md.rows[t],
          title |-> IF t \in DOMAIN md.active THEN md.active[t] ELSE "task id"]
    ELSE NoRun

Init ==
    /\ run = NoRuns /\ session = "IDLE"
    /\ md = NoFile
    /\ writer = [w \in Writers |-> Idle]
    /\ importer = "off"
    /\ before = NoRuns /\ calm = FALSE
    /\ commits = 0 /\ rebuilds = 0

(* _reset_schema: the tables are dropped and made again, in a transaction  *)
(* of its own.  A strict rebuild is refused without the file.              *)
Reset(strict) ==
    /\ importer = "off" /\ rebuilds < MaxRebuilds
    /\ strict => md # NoFile
    /\ rebuilds' = rebuilds + 1
    /\ importer' = "reset"
    /\ before' = run
    /\ calm' = (md # NoFile /\ ~Drift /\ \A w \in Writers : writer[w] = Idle)
    /\ run' = NoRuns /\ session' = NoRow
    /\ UNCHANGED <<md, writer, commits>>

(* The file is read and the rows are committed together; without a file    *)
(* there is only a session.  The row of a task that a writer has registered *)
(* since the reset is kept as unparsed.                                    *)
Import ==
    /\ importer = "reset" /\ session = NoRow
    /\ importer' = "off"
    /\ IF md = NoFile
       THEN session' = "IDLE" /\ UNCHANGED run
       ELSE /\ session' = md.session
            /\ run' = [t \in Tasks |-> IF Registered(t) THEN run[t] ELSE Imported(t)]
    /\ UNCHANGED <<md, writer, history, commits, rebuilds>>

(* The importer is killed, or finds a session: nothing is brought back. *)
ImportFails ==
    /\ importer = "reset"
    /\ importer' = "off"
    /\ UNCHANGED <<run, session, md, writer, history, commits, rebuilds>>
-----------------------------------------------------------------------------
(* The writers. *)

(* StateWriter.__init__ inserts the session if there is none. *)
Open(w) ==
    /\ writer[w] = Idle
    /\ writer' = [writer EXCEPT ![w].phase = "open"]
    /\ session' = IF session = NoRow THEN "IDLE" ELSE session
    /\ UNCHANGED <<run, md, importer, history, commits, rebuilds>>

Commit(w) ==
    /\ writer[w].phase = "open" /\ commits < MaxCommits
    /\ commits' = commits + 1
    /\ writer' = [writer EXCEPT ![w].phase = "committed"]
    /\ UNCHANGED <<md, importer, history, rebuilds>>

Register(w, t) ==
    /\ ~Registered(t)
    /\ \E dir \in BOOLEAN, title \in {"task id", "own"} :
           run' = [run EXCEPT ![t] = Run("queued", dir, title)]
    /\ UNCHANGED session
    /\ Commit(w)

(* update_run_status: a note is written over only by another one. *)
SetStatus(w, t) ==
    /\ Registered(t)
    /\ \E status \in Statuses \ {run[t].status}, note \in Notes :
           run' = [run EXCEPT ![t].status = status,
                              ![t].note = IF note = "none" THEN @ ELSE note]
    /\ UNCHANGED session
    /\ Commit(w)

SetSession(w) ==
    /\ session # NoRow
    /\ session' \in {"ACTIVE", "SUSPENDED"} \ {session}
    /\ UNCHANGED run
    /\ Commit(w)

(* post_commit_regenerate: the text is rendered, and renamed into place. *)
Render(w) ==
    /\ writer[w].phase = "committed"
    /\ writer' = [writer EXCEPT ![w] = [phase |-> "rendered", text |-> Rendered]]
    /\ UNCHANGED <<run, session, md, importer, history, commits, rebuilds>>

Replace(w) ==
    /\ writer[w].phase = "rendered"
    /\ md' = writer[w].text
    /\ writer' = [writer EXCEPT ![w] = Idle]
    /\ UNCHANGED <<run, session, importer, history, commits, rebuilds>>

(* The rendering fails, or the writer is killed before the rename. *)
RenderFails(w) ==
    /\ writer[w] # Idle
    /\ writer' = [writer EXCEPT ![w] = Idle]
    /\ UNCHANGED <<run, session, md, importer, history, commits, rebuilds>>

Next ==
    \/ \E strict \in BOOLEAN : Reset(strict)
    \/ Import \/ ImportFails
    \/ \E w \in Writers :
           \/ \E t \in Tasks : Register(w, t) \/ SetStatus(w, t)
           \/ Open(w) \/ SetSession(w) \/ Render(w) \/ Replace(w) \/ RenderFails(w)

Spec == Init /\ [][Next]_vars
-----------------------------------------------------------------------------
TypeOK ==
    /\ \A t \in Tasks : Registered(t) => run[t].status \in Statuses /\ run[t].dir \in BOOLEAN
    /\ session \in {NoRow, "IDLE", "ACTIVE", "SUSPENDED"} /\ importer \in {"off", "reset"}
    /\ commits \in 0 .. MaxCommits /\ rebuilds \in 0 .. MaxRebuilds

(* A rebuild whose file was in step and that no writer got in the way of   *)
(* brings back every run that had a directory: with its status if it had   *)
(* no note, and with its title if a user could see it.  Every other kind   *)
(* of loss needs one of: drift, a writer at work, a note, no directory.    *)
RebuildKeepsRuns ==
    Import /\ calm =>
     \A t \in Tasks : before[t] # NoRun /\ before[t].dir =>
         /\ run'[t] # NoRun
         /\ before[t].note = "none" => run'[t].status = before[t].status
         /\ before[t].status \in Visible => run'[t].title = before[t].title
=============================================================================
