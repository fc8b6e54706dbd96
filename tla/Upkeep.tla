------------------------------- MODULE Upkeep -------------------------------
(***************************************************************************)
(* Two commands that look after the notes of the workers while the system   *)
(* runs: check_state_drift reports runs whose note is not where it should   *)
(* be, sweep_stale_workers moves notes into the archive.  The former reads  *)
(* the runs of one class and then looks for their notes, class by class,   *)
(* the latter reads org-state.md once and then takes file after file; the  *)
(* runs and the notes change meanwhile.  What a commit does afterwards is  *)
(* StateWriter's matter: here either of its two hooks may fail.             *)
(***************************************************************************)
EXTENDS Naturals, FiniteSets

CONSTANTS Tasks, MaxCommits

Statuses == {"queued", "in_use", "review", "suspended", "completed", "failed", "abandoned"}
Visible == {"in_use", "review"}
Classes == {"queued_stale", "live_run_missing_worker_file",
            "completed_run_worker_file_present", "terminal_nonarchived_worker_file"}
Order == <<"live_run_missing_worker_file", "completed_run_worker_file_present",
           "terminal_nonarchived_worker_file">>

VARIABLES
    status,   \* runs.status, "none" without a run
    waited,   \* queued for longer than the threshold
    note,     \* note[t]: none, live, or archived
    old,      \* the live note has not been written for --orphan-min-age-days
    items,    \* Active Work Items of org-state.md: task -> status
    scan,     \* check_state_drift: the class it is at, the rows it read, the report
    sweep,    \* sweep_stale_workers: the items it read, the notes still to do
    commits,
    lasting,  \* history: drift that has been there since the scan began
    steady,   \* history: visible to the user, in the file too, since the sweep began
    swept     \* history: the notes that the sweep moved while steady

vars == <<status, waited, note, old, items, scan, sweep, commits, lasting, steady, swept>>

NoScan == [at |-> 0, rows |-> {}, read |-> FALSE, report |-> {}]
NoSweep == [on |-> FALSE, orphans |-> FALSE, items |-> <<>>, todo |-> {}]

(* What the classes mean, in one state. *)
Drifted(s, n, w) ==
    {<<"queued_stale", t>> : t \in {t \in Tasks : s[t] = "queued" /\ w[t]}}
    \cup {<<"live_run_missing_worker_file", t>> : t \in {t \in Tasks : s[t] \in Visible /\ n[t] # "live"}}
    \cup {<<"completed_run_worker_file_present", t>> : t \in {t \in Tasks : s[t] = "completed" /\ n[t] = "live"}}
    \cup {<<"terminal_nonarchived_worker_file", t>> : t \in {t \in Tasks : s[t] \in {"failed", "abandoned"} /\ n[t] = "live"}}

Steady(s, i) == {t \in Tasks : s[t] \in Visible /\ t \in DOMAIN i}

(* The histories follow every step that changes what they are about. *)
Follow ==
    /\ lasting' = IF scan.at = 0 THEN {} ELSE lasting \cap Drifted(status', note', waited')
    /\ steady' = IF sweep.on THEN steady \cap Steady(status', items') ELSE {}

Init ==
    /\ status = [t \in Tasks |-> "none"] /\ waited = [t \in Tasks |-> FALSE]
    /\ note = [t \in Tasks |-> "none"] /\ old = [t \in Tasks |-> FALSE]
    /\ items = <<>>
    /\ scan = NoScan /\ sweep = NoSweep /\ commits = 0
    /\ lasting = {} /\ steady = {} /\ swept = {}
-----------------------------------------------------------------------------
(* The system. *)

(* _render_active_work_items: what a user may see, and nothing that ended. *)
Rendered(s) == [t \in {t \in Tasks : s[t] \in Visible} |-> IF s[t] = "review" THEN "REVIEW" ELSE "IN_PROGRESS"]

(* A status is committed; the file is rendered and the note of a run that  *)
(* is complete is archived, unless the hook fails.                         *)
SetStatus(t) ==
    /\ commits < MaxCommits
    /\ \E s \in Statuses \ {status[t]}, renders, archives \in BOOLEAN :
        /\ status' = [status EXCEPT ![t] = s]
        /\ items' = IF renders THEN Rendered(status') ELSE items
        /\ note' = IF s = "completed" /\ archives /\ note[t] = "live"
                   THEN [note EXCEPT ![t] = "archived"] ELSE note
    /\ waited' = [waited EXCEPT ![t] = FALSE]
    /\ commits' = commits + 1
    /\ UNCHANGED <<old, scan, sweep, swept>> /\ Follow

(* The worker, or the dispatcher for it, writes its note. *)
WriteNote(t) ==
    /\ status[t] \in {"queued", "in_use", "review"}
    /\ note' = [note EXCEPT ![t] = "live"] /\ old' = [old EXCEPT ![t] = FALSE]
    /\ UNCHANGED <<status, waited, items, scan, sweep, commits, swept>> /\ Follow

TimePasses(t) ==
    /\ \/ waited' = [waited EXCEPT ![t] = status[t] = "queued"] /\ UNCHANGED old
       \/ old' = [old EXCEPT ![t] = note[t] = "live"] /\ UNCHANGED waited
    /\ UNCHANGED <<status, note, items, scan, sweep, commits, swept>> /\ Follow
-----------------------------------------------------------------------------
(* check_state_drift. *)

(* Mistake: a run under review counts as one that is over. *)
RowsWithoutReview(class) ==
    CASE class = "live_run_missing_worker_file" -> {t \in Tasks : status[t] = "in_use"}
      [] class = "completed_run_worker_file_present" -> {t \in Tasks : status[t] = "completed"}
      [] OTHER -> {t \in Tasks : status[t] \in {"failed", "abandoned"}}

(* The query of a detector, ... *)
Rows(class) ==
    CASE class = "live_run_missing_worker_file" -> {t \in Tasks : status[t] \in Visible}
      [] class = "completed_run_worker_file_present" -> {t \in Tasks : status[t] = "completed"}
      [] OTHER -> {t \in Tasks : status[t] \in {"failed", "abandoned"}}

(* ... and its look at the files. *)
Found(class, rows) ==
    {<<class, t>> : t \in {t \in rows : (note[t] = "live") = (class # "live_run_missing_worker_file")}}

(* detect_drift starts with the queued runs, which need no file. *)
ScanStart ==
    /\ scan.at = 0
    /\ scan' = [at |-> 1, rows |-> {}, read |-> FALSE,
                report |-> {<<"queued_stale", t>> : t \in {t \in Tasks : status[t] = "queued" /\ waited[t]}}]
    /\ lasting' = Drifted(status, note, waited)
    /\ UNCHANGED <<status, waited, note, old, items, sweep, commits, steady, swept>>

ScanRows ==
    /\ scan.at \in 1 .. 3 /\ ~scan.read
    /\ scan' = [scan EXCEPT !.rows = Rows(Order[scan.at]), !.read = TRUE]
    /\ UNCHANGED <<status, waited, note, old, items, sweep, commits, lasting, steady, swept>>

ScanFiles ==
    /\ scan.read
    /\ scan' = [scan EXCEPT !.report = @ \cup Found(Order[scan.at], scan.rows),
                            !.at = @ + 1, !.rows = {}, !.read = FALSE]
    /\ UNCHANGED <<status, waited, note, old, items, sweep, commits, lasting, steady, swept>>

ScanPrints ==
    /\ scan.at = 4
    /\ scan' = NoScan /\ lasting' = {}
    /\ UNCHANGED <<status, waited, note, old, items, sweep, commits, steady, swept>>
-----------------------------------------------------------------------------
(* sweep_stale_workers. *)
SweepStart(orphans) ==
    /\ ~sweep.on
    /\ sweep' = [on |-> TRUE, orphans |-> orphans, items |-> items,
                 todo |-> {t \in Tasks : note[t] = "live"}]
    /\ steady' = Steady(status, items)
    /\ UNCHANGED <<status, waited, note, old, items, scan, commits, lasting, swept>>

(* classify: an item that has ended, or no item and an old note. *)
Stale(t) ==
    IF t \in DOMAIN sweep.items
    THEN sweep.items[t] \in {"COMPLETED", "ABANDONED"}
    ELSE sweep.orphans /\ old[t]

SweepOne(t) ==
    /\ t \in sweep.todo /\ note[t] = "live"
    /\ note' = IF Stale(t) THEN [note EXCEPT ![t] = "archived"] ELSE note
    /\ swept' = IF Stale(t) /\ t \in steady THEN swept \cup {t} ELSE swept
    /\ sweep' = [sweep EXCEPT !.todo = @ \ {t}]
    /\ UNCHANGED <<status, waited, old, items, scan, commits>> /\ Follow

(* It is done, or a note that it has listed is gone and it raises. *)
SweepEnds ==
    /\ sweep.on /\ (sweep.todo = {} \/ \E t \in sweep.todo : note[t] # "live")
    /\ sweep' = NoSweep /\ steady' = {}
    /\ UNCHANGED <<status, waited, note, old, items, scan, commits, lasting, swept>>

Next ==
    \/ \E t \in Tasks : SetStatus(t) \/ WriteNote(t) \/ TimePasses(t) \/ SweepOne(t)
    \/ ScanStart \/ ScanRows \/ ScanFiles \/ ScanPrints
    \/ \E orphans \in BOOLEAN : SweepStart(orphans)
    \/ SweepEnds

Spec == Init /\ [][Next]_vars
-----------------------------------------------------------------------------
TypeOK ==
    /\ status \in [Tasks -> Statuses \cup {"none"}] /\ waited \in [Tasks -> BOOLEAN]
    /\ note \in [Tasks -> {"none", "live", "archived"}] /\ old \in [Tasks -> BOOLEAN]
    /\ \A t \in Tasks : waited[t] => status[t] = "queued"
    /\ scan \in [at : 0 .. 4, rows : SUBSET Tasks, read : BOOLEAN, report : SUBSET (Classes \X Tasks)]
    /\ DOMAIN items \subseteq Tasks /\ \A t \in DOMAIN items : items[t] \in {"IN_PROGRESS", "REVIEW"}
    /\ sweep.todo \subseteq Tasks /\ sweep.on \in BOOLEAN
    /\ commits \in Nat

(* A drift that is there from the beginning of the scan to its end is      *)
(* reported, whatever else changes; a report may be of a state that never  *)
(* was, because the rows are older than the look at the files.             *)
LastingDriftIsReported == scan.at = 4 => lasting \subseteq scan.report

(* The sweep takes no note of a run that the user has been able to see in  *)
(* the database and in the file ever since the sweep began.                *)
SweepSparesVisible == swept = {}
=============================================================================
