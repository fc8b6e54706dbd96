----------------------------- MODULE Delegation -----------------------------
(***************************************************************************)
(* tools/resolve_worker_layout.py and tools/gen_delegate_payload.py: how a *)
(* task of one project is given a directory and reserved in state.db. An   *)
(* apply plans from what the database and the disk show, then clones,      *)
(* adds a worktree, reserves the run and writes the brief; the dispatcher, *)
(* the workers and the secretary change both meanwhile, and an apply may   *)
(* fail or die between any two steps.                                      *)
(***************************************************************************)
EXTENDS Naturals, FiniteSets

CONSTANTS
    Tasks,      \* task ids
    Appliers,   \* processes running gen_delegate_payload apply
    Scenarios,  \* kinds of registry row, each with what may go wrong besides
    NoTask

RowKinds == {"self_edit", "local", "mirror", "url", "placeholder", "unknown"}
Faults   == {"overlap", "unreadable", "forced"}
Requests == {"auto", "gitignored", "A", "B", "C"}

ASSUME DelegationAssumption ==
    /\ Scenarios \subseteq RowKinds \X SUBSET Faults
    /\ NoTask \notin Tasks

(* Worker directories: workers/<slug>, the root of the registered          *)
(* repository, and <base>/.worktrees/<task> and workers/<task> of a task.  *)
(* The briefs in the root, which Pattern C runs share, are not modelled.   *)
Slug         == <<"slug", NoTask>>
Root         == <<"root", NoTask>>
NoDir        == <<"none", NoTask>>
WorktreeOf(t)  == <<"worktree", t>>
EphemeralOf(t) == <<"ephemeral", t>>
OwnDirs == {Slug} \cup ({"worktree", "ephemeral"} \X Tasks)
Dirs    == OwnDirs \cup {Root}

Active   == {"queued", "in_use", "review"}
Statuses == Active \cup {"absent", "completed", "abandoned"}
Plans == [task : Tasks, pattern : {"A", "B", "C"}, dir : Dirs,
          base : BOOLEAN, clone : BOOLEAN]

VARIABLES
    row,      \* the project's registry row
    faults,   \* what goes wrong in this behaviour
    slug,     \* workers/<slug>: "absent", a "clone" of the project, or "plain":
              \* any other files, a repository of another origin included
    worktree, \* <base>/.worktrees/<task>: "none", on the "planned" branch, on
              \* an "other" one, or "junk" that git does not know
    brief,    \* for each directory, the task its CLAUDE.md is about
    status,   \* runs.status, "absent" without a row
    pattern,  \* runs.pattern, "none" without a row
    dir,      \* the worker_dirs row of the run, NoDir without one
    handed,   \* tasks whose DELEGATE message waits for the dispatcher
    lost,     \* history: reservations whose apply died or could not undo them
    pc,       \* where each apply is
    plan      \* its DelegatePlan, as a set of at most one

db   == <<status, pattern, dir>>
disk == <<slug, worktree, brief>>
vars == <<row, faults, slug, worktree, brief, status, pattern, dir, handed,
          lost, pc, plan>>

TypeOK ==
    /\ <<row, faults>> \in Scenarios
    /\ slug \in {"absent", "plain", "clone"}
    /\ worktree \in [Tasks -> {"none", "planned", "other", "junk"}]
    /\ brief \in [OwnDirs -> Tasks \cup {NoTask}]
    /\ status \in [Tasks -> Statuses]
    /\ pattern \in [Tasks -> {"none", "A", "B", "C"}]
    /\ dir \in [Tasks -> Dirs \cup {NoDir}]
    /\ handed \subseteq Tasks
    /\ lost \subseteq Tasks
    /\ pc \in [Appliers -> {"idle", "clone", "worktree", "reserve", "brief",
                            "manifest", "abandon"}]
    /\ plan \in [Appliers -> SUBSET Plans]
    /\ \A a \in Appliers : \/ pc[a] = "idle" /\ plan[a] = {}
                           \/ pc[a] # "idle" /\ \E p \in plan[a] : plan[a] = {p}

(* Whether workers/<slug> is a clone says nothing to a row with a path.    *)
LocalRows == {"self_edit", "local", "mirror"}

Init ==
    /\ \E s \in Scenarios : row = s[1] /\ faults = s[2]
    /\ slug \in {"absent"} \cup (IF row \in LocalRows THEN {} ELSE {"plain", "clone"})
    /\ worktree = [t \in Tasks |-> "none"]
    /\ brief = [d \in OwnDirs |-> NoTask]
    /\ status = [t \in Tasks |-> "absent"]
    /\ pattern = [t \in Tasks |-> "none"]
    /\ dir = [t \in Tasks |-> NoDir]
    /\ handed = {}
    /\ lost = {}
    /\ pc = [a \in Appliers |-> "idle"]
    /\ plan = [a \in Appliers |-> {}]
-----------------------------------------------------------------------------
(* resolve and build_delegate_plan                                         *)

(* Mistake: only runs that a worker holds count.                           *)
HasActiveRunSpawned == \E t \in Tasks : status[t] \in {"in_use", "review"} /\ dir[t] # NoDir

(* project_has_active_run: a reservation counts, whoever holds it.         *)
HasActiveRun == \E t \in Tasks : status[t] \in Active /\ dir[t] # NoDir

(* A database that cannot be read counts as one without active runs.       *)
SeenActive == {HasActiveRun} \cup (IF "unreadable" \in faults THEN {FALSE} ELSE {})

PatternFor(req, active) ==
    IF req \in {"A", "B", "C"} THEN req
    ELSE IF row = "unknown" \/ (req = "gitignored" /\ row \in LocalRows) THEN "C"
    ELSE IF active \/ row \in {"self_edit", "mirror"} THEN "B"
    ELSE "A"

(* Local rows lend their own repository to Pattern B and nothing to A; the *)
(* others lend workers/<slug> once it is a clone.                          *)
HasBase(p) == IF row \in LocalRows THEN p = "B" ELSE p \in {"A", "B"} /\ slug = "clone"

(* ResolveError: contracts on --pattern.                                   *)
Refused(req) == \/ req = "A" /\ row = "self_edit"
                \/ req = "B" /\ ~HasBase("B")

(* A row with a URL is cloned by its first Pattern A task.                 *)
PendingClone(p) == p = "A" /\ row = "url" /\ slug = "absent"

DirFor(t, req, p) ==
    CASE p = "C" /\ req # "C" /\ row \in LocalRows                -> Root
      [] p = "C" /\ (req = "C" \/ row \notin LocalRows)           -> EphemeralOf(t)
      [] p = "B" \/ (p = "A" /\ (HasBase(p) \/ PendingClone(p)))  -> WorktreeOf(t)
      [] OTHER                                                    -> Slug

(* Mistake: what an earlier task left in workers/<slug> is ignored.        *)
BlockedNever(p) == FALSE

(* blocking_warnings: workers/<slug> holds an earlier brief, and no base   *)
(* keeps the new task out of it.                                           *)
Blocked(p) == /\ p.pattern # "C"
              /\ ~p.base
              /\ brief[Slug] # NoTask

Goto(a, s) == pc' = [pc EXCEPT ![a] = s]

(* Mistake: the plan outlives its apply.                                   *)
QuitKeepsPlan(a) == Goto(a, "idle") /\ UNCHANGED plan

Quit(a) == Goto(a, "idle") /\ plan' = [plan EXCEPT ![a] = {}]

Applying(t) == \E a \in Appliers : \E p \in plan[a] : p.task = t

(* The secretary delegates one task at a time, a fresh one or one whose    *)
(* earlier apply came to nothing.                                          *)
MayApply(a, t) ==
    /\ pc[a] = "idle"
    /\ "overlap" \in faults \/ \A b \in Appliers : pc[b] = "idle"
    /\ ~Applying(t)
    /\ status[t] \in {"absent", "abandoned"} \/ t \in lost

(* apply builds its own plan and refuses a blocked one.                    *)
BuildPlan(a, t, req) ==
    /\ MayApply(a, t)
    /\ req = "A" => "forced" \in faults
    /\ ~Refused(req)
    /\ \E active \in SeenActive :
          LET p == PatternFor(req, active)
              d == [task |-> t, pattern |-> p, dir |-> DirFor(t, req, p),
                    base |-> HasBase(p) \/ PendingClone(p), clone |-> PendingClone(p)]
          IN  /\ ~Blocked(d)
              /\ plan' = [plan EXCEPT ![a] = {d}]
    /\ Goto(a, "clone")
    /\ UNCHANGED <<row, faults, disk, db, handed, lost>>
-----------------------------------------------------------------------------
(* apply_delegate_plan                                                     *)

(* An error before the reservation: nothing to undo.                       *)
Fail(a) == Quit(a) /\ UNCHANGED <<row, faults, db, handed, lost>>

(* _ensure_base_clone: clones, or takes a clone of the same origin that    *)
(* appeared meanwhile; other content in the way, a repository of another   *)
(* origin too, or git, stops it.                                           *)
EnsureBaseClone(a) ==
    /\ pc[a] = "clone"
    /\ \E p \in plan[a] :
          \/ /\ p.clone => slug # "plain"
             /\ slug' = IF p.clone THEN "clone" ELSE slug
             /\ Goto(a, "worktree")
             /\ UNCHANGED <<row, faults, worktree, brief, db, handed, lost, plan>>
          \/ /\ p.clone /\ slug # "clone"
             /\ Fail(a)
             /\ UNCHANGED disk

(* Mistake: a directory that git does not know is taken for a worktree.    *)
EnsureWorktreeUnchecked(a) ==
    /\ pc[a] = "worktree"
    /\ \E p \in plan[a] :
          /\ worktree' = IF p.base /\ worktree[p.task] = "none"
                         THEN [worktree EXCEPT ![p.task] = "planned"] ELSE worktree
          /\ Goto(a, "reserve")
          /\ UNCHANGED <<row, faults, slug, brief, db, handed, lost, plan>>

(* _ensure_worktree: Pattern B needs a base; a worktree on the planned     *)
(* branch is reused, another or foreign content refused, none is added.    *)
(* The fetch, the lookup of origin/HEAD or the add may fail.               *)
EnsureWorktree(a) ==
    /\ pc[a] = "worktree"
    /\ \E p \in plan[a] :
          \/ /\ IF p.base THEN worktree[p.task] \in {"none", "planned"}
                          ELSE p.pattern # "B"
             /\ worktree' = IF p.base THEN [worktree EXCEPT ![p.task] = "planned"]
                                      ELSE worktree
             /\ Goto(a, "reserve")
             /\ UNCHANGED <<row, faults, slug, brief, db, handed, lost, plan>>
          \/ /\ IF p.base THEN worktree[p.task] # "planned" ELSE p.pattern = "B"
             /\ \/ UNCHANGED worktree
                \/ /\ p.base /\ worktree[p.task] = "none"
                   /\ worktree' = [worktree EXCEPT ![p.task] = "junk"]
             /\ Fail(a)
             /\ UNCHANGED <<slug, brief>>

(* _reserve_in_db: directory and queued run in one transaction.            *)
ReserveInDb(a) ==
    /\ pc[a] = "reserve"
    /\ \E p \in plan[a] :
          \/ /\ status' = [status EXCEPT ![p.task] = "queued"]
             /\ pattern' = [pattern EXCEPT ![p.task] = p.pattern]
             /\ dir' = [dir EXCEPT ![p.task] = p.dir]
             /\ lost' = lost \ {p.task}
             /\ Goto(a, "brief")
             /\ UNCHANGED <<row, faults, disk, handed, plan>>
          \/ /\ Fail(a)
             /\ UNCHANGED disk

MadeDir(d) == IF d = Slug /\ slug = "absent" THEN "plain" ELSE slug

(* _write_brief: makes the directory, replaces the brief, or raises.       *)
WriteBrief(a) ==
    /\ pc[a] = "brief"
    /\ \E p \in plan[a] :
          /\ slug' = MadeDir(p.dir)
          /\ \/ /\ brief' = [d \in OwnDirs |-> IF d = p.dir THEN p.task ELSE brief[d]]
                /\ Goto(a, "manifest")
             \/ UNCHANGED brief /\ Goto(a, "abandon")
    /\ UNCHANGED <<row, faults, worktree, db, handed, lost, plan>>

(* Ignore file, settings and send_plan.json; a settings generator that     *)
(* fails is no error. apply returns and the secretary sends DELEGATE.      *)
WriteManifest(a) ==
    /\ pc[a] = "manifest"
    /\ \/ /\ handed' = handed \cup {p.task : p \in plan[a]}
          /\ Quit(a)
       \/ Goto(a, "abandon") /\ UNCHANGED <<handed, plan>>
    /\ UNCHANGED <<row, faults, disk, db, lost>>

(* Mistake: the exception is raised and the reservation left behind.       *)
AbandonQueuedRunNever(a) ==
    /\ pc[a] = "abandon"
    /\ Quit(a)
    /\ UNCHANGED <<row, faults, disk, db, handed, lost>>

(* _abandon_queued_run: best effort; a failure is reported and left to the *)
(* secretary.                                                              *)
AbandonQueuedRun(a) ==
    /\ pc[a] = "abandon"
    /\ \E p \in plan[a] :
          \/ status' = [status EXCEPT ![p.task] = "abandoned"] /\ UNCHANGED lost
          \/ lost' = lost \cup {p.task} /\ UNCHANGED status
    /\ Quit(a)
    /\ UNCHANGED <<row, faults, disk, pattern, dir, handed>>

Die(a) ==
    /\ pc[a] # "idle"
    /\ lost' = IF pc[a] \in {"brief", "manifest", "abandon"}
               THEN lost \cup {p.task : p \in plan[a]} ELSE lost
    /\ Quit(a)
    /\ UNCHANGED <<row, faults, disk, db, handed>>
-----------------------------------------------------------------------------
(* The dispatcher, the workers and the secretary's other commands          *)

(* The dispatcher spawns the worker and writes in_use.                     *)
Spawn(t) ==
    /\ t \in handed
    /\ status[t] = "queued"
    /\ handed' = handed \ {t}
    /\ status' = [status EXCEPT ![t] = "in_use"]
    /\ UNCHANGED <<row, faults, disk, pattern, dir, lost, pc, plan>>

(* Review and back, and the pane that exits or cannot be split off; also   *)
(* the repair by hand of a reservation that was lost.                      *)
UpdateRunStatus(t, s) ==
    /\ <<status[t], s>> \in {<<"in_use", "review">>, <<"review", "in_use">>,
                             <<"in_use", "abandoned">>, <<"queued", "abandoned">>}
    /\ status[t] = "queued" => t \in handed \cup lost /\ ~Applying(t)
    /\ status' = [status EXCEPT ![t] = s]
    /\ handed' = handed \ {t}
    /\ lost' = lost \ {t}
    /\ UNCHANGED <<row, faults, disk, pattern, dir, pc, plan>>

(* The close of a reviewed run: a Pattern A directory is kept; the others  *)
(* are removed with their worker_dirs row, which any run there loses.      *)
Close(t) ==
    /\ status[t] = "review"
    /\ status' = [status EXCEPT ![t] = "completed"]
    /\ IF pattern[t] = "A"
       THEN UNCHANGED <<dir, worktree, brief>>
       ELSE /\ dir' = [u \in Tasks |-> IF dir[u] = dir[t] THEN NoDir ELSE dir[u]]
            /\ worktree' = IF pattern[t] = "B" THEN [worktree EXCEPT ![t] = "none"]
                                               ELSE worktree
            /\ brief' = [d \in OwnDirs |-> IF d = dir[t] THEN NoTask ELSE brief[d]]
    /\ UNCHANGED <<row, faults, slug, pattern, handed, lost, pc, plan>>

(* A worker checks out another branch, or makes workers/<slug> a           *)
(* repository that the next plan takes for the base.                       *)
CheckOut(t) ==
    /\ status[t] = "in_use"
    /\ \/ /\ worktree[t] = "planned"
          /\ worktree' = [worktree EXCEPT ![t] = "other"]
          /\ UNCHANGED slug
       \/ /\ dir[t] = Slug /\ row \notin LocalRows
          /\ slug' = "clone"
          /\ UNCHANGED worktree
    /\ UNCHANGED <<row, faults, brief, db, handed, lost, pc, plan>>

(* The secretary clears what no run uses, with no apply under way.         *)
CleanWorktree(t) ==
    /\ worktree[t] # "none"
    /\ status[t] \notin Active
    /\ \A a \in Appliers : pc[a] = "idle"
    /\ worktree' = [worktree EXCEPT ![t] = "none"]
    /\ brief' = [brief EXCEPT ![WorktreeOf(t)] = NoTask]
    /\ UNCHANGED <<row, faults, slug, db, handed, lost, pc, plan>>

CleanSlug ==
    /\ slug # "absent"
    /\ \A t \in Tasks : dir[t] = Slug => status[t] \notin Active
    /\ \A a \in Appliers : pc[a] = "idle"
    /\ slug' = IF slug = "plain" THEN "absent" ELSE slug
    /\ brief' = [brief EXCEPT ![Slug] = NoTask]
    /\ UNCHANGED <<row, faults, worktree, db, handed, lost, pc, plan>>
-----------------------------------------------------------------------------
Apply(a) == \/ EnsureBaseClone(a) \/ EnsureWorktree(a) \/ ReserveInDb(a)
            \/ WriteBrief(a) \/ WriteManifest(a) \/ AbandonQueuedRun(a) \/ Die(a)

Next ==
    \/ \E a \in Appliers, t \in Tasks, req \in Requests : BuildPlan(a, t, req)
    \/ \E a \in Appliers : Apply(a)
    \/ \E t \in Tasks, s \in Statuses : UpdateRunStatus(t, s)
    \/ \E t \in Tasks : Spawn(t) \/ Close(t) \/ CheckOut(t) \/ CleanWorktree(t)
    \/ CleanSlug

Spec == Init /\ [][Next]_vars
-----------------------------------------------------------------------------
(* Properties                                                              *)

(* docs/contracts/state-semantics-contract.md, I2: at most one active      *)
(* Pattern A run of a project, as long as applies do not overlap, the      *)
(* database is readable and --pattern A is not given.                      *)
OneReservationPerBase ==
    faults = {} =>
        Cardinality({t \in Tasks : status[t] \in Active /\ pattern[t] = "A"
                                   /\ dir[t] # NoDir}) <= 1

(* A worker finds its own brief in its directory, even when the database   *)
(* could not be read or the pattern was forced, unless applies overlapped. *)
(* The repository root is shared by Pattern C runs and not covered.        *)
WorkerFindsItsBrief ==
    "overlap" \notin faults =>
        \A t \in Tasks : status[t] \in {"in_use", "review"} /\ dir[t] \in OwnDirs
                            => brief[dir[t]] = t

(* A queued run, which steers every later task to Pattern B, is being      *)
(* applied, waits for the dispatcher, or is known to have been lost.       *)
NoReservationLeaks ==
    \A t \in Tasks : status[t] = "queued" => Applying(t) \/ t \in handed \cup lost

(* An active run that was given a worktree has one that git knows.         *)
WorktreeBeforeRun ==
    \A t \in Tasks : status[t] \in Active /\ dir[t] = WorktreeOf(t)
                        => worktree[t] \in {"planned", "other"}
=============================================================================
