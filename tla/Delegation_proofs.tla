------------------------- MODULE Delegation_proofs -------------------------
(***************************************************************************)
(* Proofs about Delegation for any tasks, any number of overlapping        *)
(* applies and any scenarios.                                              *)
(***************************************************************************)
EXTENDS Delegation, FiniteSetTheorems, TLAPS

(* A task is reserved in a directory of its own, in workers/<slug> or in   *)
(* the root; only queued reservations are lost or handed over, never both, *)
(* and a worktree stays with its run.                                      *)
TaskInv ==
    \A t \in Tasks :
        /\ dir[t] \in {NoDir, Slug, Root, WorktreeOf(t), EphemeralOf(t)}
        /\ t \in lost => status[t] = "queued"
        /\ t \in handed => status[t] = "queued" /\ t \notin lost /\ ~Applying(t)
        /\ status[t] = "queued" => Applying(t) \/ t \in handed \cup lost
        /\ status[t] \in Active /\ dir[t] = WorktreeOf(t) => worktree[t] \in {"planned", "other"}

(* The phases before the reservation, and those after it.                  *)
Before == {"clone", "worktree", "reserve"}
After  == {"brief", "manifest", "abandon"}

(* A plan is the only one for its task. Before its reservation nobody runs *)
(* the task, and once the worktree is there it stays; after it the run is  *)
(* queued, in the planned directory unless a close there took it away.     *)
PlanInv ==
    \A a \in Appliers : \A p \in plan[a] :
        /\ \A b \in Appliers : \A q \in plan[b] : q.task = p.task => a = b
        /\ p.dir \in {Slug, Root, WorktreeOf(p.task), EphemeralOf(p.task)}
        /\ p.dir = WorktreeOf(p.task) => p.pattern = "B" \/ p.base
        /\ pc[a] \in Before => status[p.task] \in {"absent", "abandoned"} \/ p.task \in lost
        /\ pc[a] = "reserve" => /\ p.pattern = "B" => p.base
                                /\ p.base => worktree[p.task] = "planned"
        /\ pc[a] \in After => /\ status[p.task] = "queued" /\ p.task \notin lost
                              /\ dir[p.task] \in {p.dir, NoDir}

(* Unless applies overlap, at most one is under way.                       *)
AloneInv == "overlap" \notin faults =>
                \A a, b \in Appliers : "idle" \notin {pc[a], pc[b]} => a = b

HasBrief(t) == dir[t] \in OwnDirs => brief[dir[t]] = t

(* Then the brief of a task is in its directory from WriteBrief on, and    *)
(* workers/<slug> is free for whoever is about to write one there.         *)
BriefInv == "overlap" \notin faults =>
    /\ \A t \in Tasks : t \in handed \/ status[t] \in {"in_use", "review"} => HasBrief(t)
    /\ \A a \in Appliers : \A p \in plan[a] :
          /\ pc[a] \in Before \cup {"brief"} /\ p.dir = Slug => brief[Slug] = NoTask
          /\ pc[a] = "manifest" => HasBrief(p.task)

(* The runs that count for I2.                                             *)
InBase(t) == status[t] \in Active /\ pattern[t] = "A" /\ dir[t] # NoDir

(* Without misuse, Pattern A is planned while no run is active, and that   *)
(* stays so until the reservation.                                         *)
BaseInv == faults = {} =>
    /\ \A a \in Appliers : \A p \in plan[a] :
          pc[a] \in Before /\ p.pattern = "A" => ~HasActiveRun
    /\ \A t, u \in Tasks : InBase(t) /\ InBase(u) => t = u

(* The inductive invariant.                                                *)
IInv == /\ TypeOK
        /\ TaskInv
        /\ PlanInv
        /\ AloneInv
        /\ BriefInv
        /\ BaseInv
-----------------------------------------------------------------------------
(* The directories of different tasks are different.                       *)
LEMMA DirFacts ==
    /\ {Slug} \subseteq OwnDirs /\ Root \notin OwnDirs /\ NoDir \notin OwnDirs /\ NoDir # Root
    /\ OwnDirs \cup {Root} = Dirs
    /\ \A t \in Tasks :
          /\ WorktreeOf(t) \in OwnDirs /\ EphemeralOf(t) \in OwnDirs
          /\ WorktreeOf(t) # Slug /\ EphemeralOf(t) # Slug
          /\ \A u \in Tasks : /\ WorktreeOf(t) # EphemeralOf(u)
                              /\ WorktreeOf(t) = WorktreeOf(u) => t = u
                              /\ EphemeralOf(t) = EphemeralOf(u) => t = u
BY DelegationAssumption DEF Slug, Root, NoDir, WorktreeOf, EphemeralOf, OwnDirs, Dirs

Phases == Before \cup After

(* An apply that goes on keeps its one plan, and one that ends drops it.   *)
PlanTypes == /\ pc \in [Appliers -> {"idle"} \cup Phases]
             /\ plan \in [Appliers -> SUBSET Plans]
             /\ \A a \in Appliers : \/ pc[a] = "idle" /\ plan[a] = {}
                                    \/ pc[a] # "idle" /\ \E p \in Plans : plan[a] = {p}

LEMMA GoOn ==
    ASSUME TypeOK, NEW a \in Appliers, pc[a] # "idle"
    PROVE  /\ \E p \in Plans : plan[a] = {p}
           /\ \A s \in Phases : Goto(a, s) /\ UNCHANGED plan => PlanTypes'
           /\ Quit(a) => PlanTypes'
<1>1. \E p \in Plans : plan[a] = {p}
  BY DEF TypeOK
<1>2. PlanTypes
  BY DEF TypeOK, PlanTypes, Phases, Before, After
<1>3. ASSUME NEW s \in Phases, Goto(a, s), UNCHANGED plan PROVE PlanTypes'
  <2>1. pc' = [pc EXCEPT ![a] = s] /\ s # "idle"
    BY <1>3 DEF Goto, Phases, Before, After
  <2> QED BY <1>2, <1>3, <2>1 DEF PlanTypes
<1>4. ASSUME Quit(a) PROVE PlanTypes'
  <2>1. pc' = [pc EXCEPT ![a] = "idle"] /\ plan' = [plan EXCEPT ![a] = {}]
    BY <1>4 DEF Quit, Goto
  <2>2. \A b \in Appliers : IF b = a THEN pc'[b] = "idle" /\ plan'[b] = {}
                                     ELSE pc'[b] = pc[b] /\ plan'[b] = plan[b]
    BY <2>1 DEF TypeOK
  <2> QED BY <1>2, <2>1, <2>2 DEF PlanTypes
<1> QED BY <1>1, <1>3, <1>4

(* The plan that build_delegate_plan makes.                                *)
PlanFor(t, req, active) ==
    LET p == PatternFor(req, active)
    IN  [task |-> t, pattern |-> p, dir |-> DirFor(t, req, p),
         base |-> HasBase(p) \/ PendingClone(p), clone |-> PendingClone(p)]

(* A worktree is for Pattern B or comes from a base, workers/<slug> is for *)
(* Pattern A without one, and that pattern is for a project at rest.       *)
LEMMA PlanFacts ==
    ASSUME NEW t \in Tasks, NEW req \in Requests, NEW active \in BOOLEAN
    PROVE  LET d == PlanFor(t, req, active)
           IN  /\ d \in Plans /\ d.task = t
               /\ d.dir \in {Slug, Root, WorktreeOf(t), EphemeralOf(t)}
               /\ d.dir = WorktreeOf(t) => d.pattern = "B" \/ d.base
               /\ d.dir = Slug => d.pattern # "C" /\ ~d.base
               /\ d.pattern = "A" /\ req # "A" => ~active
<1> DEFINE p == PatternFor(req, active)
           d == PlanFor(t, req, active)
<1>1. p \in {"A", "B", "C"} /\ (p = "A" /\ req # "A" => ~active)
  BY DEF PatternFor, Requests
<1>2. HasBase(p) \in BOOLEAN /\ PendingClone(p) \in BOOLEAN
  BY DEF HasBase, PendingClone
<1>3. /\ DirFor(t, req, p) \in {Slug, Root, WorktreeOf(t), EphemeralOf(t)}
      /\ DirFor(t, req, p) = WorktreeOf(t) => p = "B" \/ HasBase(p) \/ PendingClone(p)
      /\ DirFor(t, req, p) = Slug => p # "C" /\ ~(HasBase(p) \/ PendingClone(p))
  <2> HIDE DEF p
  <2>1. CASE p = "C" /\ req # "C" /\ row \in LocalRows
    <3>1. DirFor(t, req, p) = Root
      BY <2>1 DEF DirFor
    <3> QED BY <3>1, DirFacts
  <2>2. CASE p = "C" /\ ~(req # "C" /\ row \in LocalRows)
    <3>1. DirFor(t, req, p) = EphemeralOf(t)
      BY <2>2 DEF DirFor
    <3> QED BY <3>1, DirFacts
  <2>3. CASE p = "B" \/ (p = "A" /\ (HasBase(p) \/ PendingClone(p)))
    <3>1. DirFor(t, req, p) = WorktreeOf(t)
      BY <2>3 DEF DirFor
    <3> QED BY <2>3, <3>1, DirFacts
  <2>4. CASE p = "A" /\ ~(HasBase(p) \/ PendingClone(p))
    <3>1. DirFor(t, req, p) = Slug
      BY <2>4 DEF DirFor
    <3> QED BY <2>4, <3>1, DirFacts
  <2> QED BY <1>1, <2>1, <2>2, <2>3, <2>4
<1>4. d = [task |-> t, pattern |-> p, dir |-> DirFor(t, req, p),
           base |-> HasBase(p) \/ PendingClone(p), clone |-> PendingClone(p)]
  BY DEF PlanFor
<1> HIDE DEF p, d
<1>5. DirFor(t, req, p) \in Dirs
  BY <1>3, DirFacts
<1> QED BY <1>1, <1>2, <1>3, <1>4, <1>5 DEF Plans, d

(* What an apply starts with.                                              *)
LEMMA PlanBuilt ==
    ASSUME IInv, NEW a \in Appliers, NEW t \in Tasks, NEW req \in Requests,
           BuildPlan(a, t, req)
    PROVE  \E d \in Plans :
              /\ plan' = [plan EXCEPT ![a] = {d}] /\ pc' = [pc EXCEPT ![a] = "clone"]
              /\ d.task = t
              /\ d.dir \in {Slug, Root, WorktreeOf(t), EphemeralOf(t)}
              /\ d.dir = WorktreeOf(t) => d.pattern = "B" \/ d.base
              /\ d.dir = Slug => brief[Slug] = NoTask
              /\ faults = {} /\ d.pattern = "A" => ~HasActiveRun
              /\ MayApply(a, t) /\ UNCHANGED <<row, faults, disk, db, handed, lost>>
<1>1. PICK active \in SeenActive :
         /\ ~Blocked(PlanFor(t, req, active))
         /\ plan' = [plan EXCEPT ![a] = {PlanFor(t, req, active)}]
  BY DEF BuildPlan, PlanFor
<1>2. active \in BOOLEAN /\ (faults = {} => active = HasActiveRun /\ req # "A")
  BY <1>1 DEF SeenActive, HasActiveRun, BuildPlan
<1> DEFINE d == PlanFor(t, req, active)
<1>3. /\ d \in Plans /\ d.task = t
      /\ d.dir \in {Slug, Root, WorktreeOf(t), EphemeralOf(t)}
      /\ d.dir = WorktreeOf(t) => d.pattern = "B" \/ d.base
      /\ d.dir = Slug => d.pattern # "C" /\ ~d.base
      /\ d.pattern = "A" /\ req # "A" => ~active
  BY <1>2, PlanFacts
<1> HIDE DEF d
<1>4. d.dir = Slug => brief[Slug] = NoTask
  BY <1>1, <1>3 DEF Blocked, d
<1>5. /\ plan' = [plan EXCEPT ![a] = {d}] /\ pc' = [pc EXCEPT ![a] = "clone"]
      /\ MayApply(a, t) /\ UNCHANGED <<row, faults, disk, db, handed, lost>>
  BY <1>1 DEF BuildPlan, Goto, d
<1>6. faults = {} /\ d.pattern = "A" => ~HasActiveRun
  BY <1>2, <1>3
<1> QED BY <1>3, <1>4, <1>5, <1>6

(* Every step keeps the types.                                             *)
LEMMA TypeStep ==
    ASSUME IInv, [Next]_vars
    PROVE  TypeOK'
<1> USE DEF IInv
<1>1. ASSUME NEW a \in Appliers, NEW t \in Tasks, NEW req \in Requests, BuildPlan(a, t, req)
      PROVE  TypeOK'
  <2>1. PICK d \in Plans :
           /\ plan' = [plan EXCEPT ![a] = {d}] /\ pc' = [pc EXCEPT ![a] = "clone"]
           /\ d.task = t
           /\ d.dir \in {Slug, Root, WorktreeOf(t), EphemeralOf(t)}
           /\ d.dir = WorktreeOf(t) => d.pattern = "B" \/ d.base
           /\ d.dir = Slug => brief[Slug] = NoTask
           /\ faults = {} /\ d.pattern = "A" => ~HasActiveRun
           /\ MayApply(a, t) /\ UNCHANGED <<row, faults, disk, db, handed, lost>>
    BY <1>1, PlanBuilt
  <2> QED BY <2>1 DEF TypeOK, disk, db
<1>2. ASSUME NEW a \in Appliers, EnsureBaseClone(a) PROVE  TypeOK'
  BY <1>2 DEF EnsureBaseClone, TypeOK, Goto, Quit, Fail, db, disk
<1>3. ASSUME NEW a \in Appliers, EnsureWorktree(a) PROVE  TypeOK'
  BY <1>3 DEF EnsureWorktree, TypeOK, Goto, Quit, Fail, db
<1>4. ASSUME NEW a \in Appliers, ReserveInDb(a) PROVE  TypeOK'
  BY <1>4, DirFacts DEF ReserveInDb, TypeOK, Goto, Quit, Fail, db, disk,
    Statuses, Active, Plans, OwnDirs
<1>5. ASSUME NEW a \in Appliers, WriteBrief(a) PROVE  TypeOK'
  BY <1>5 DEF WriteBrief, TypeOK, Goto, db, Plans, MadeDir
<1>6. ASSUME NEW a \in Appliers, WriteManifest(a) PROVE  TypeOK'
  BY <1>6 DEF WriteManifest, TypeOK, Goto, Quit, db, disk, Plans
<1>7. ASSUME NEW a \in Appliers, AbandonQueuedRun(a) PROVE  TypeOK'
  BY <1>7 DEF AbandonQueuedRun, TypeOK, Goto, Quit, disk, Statuses, Plans
<1>8. ASSUME NEW a \in Appliers, Die(a) PROVE  TypeOK'
  BY <1>8 DEF Die, TypeOK, Goto, Quit, db, disk, Plans
<1>9. ASSUME NEW t \in Tasks, NEW s \in Statuses, UpdateRunStatus(t, s)
      PROVE  TypeOK'
  BY <1>9 DEF UpdateRunStatus, TypeOK, disk
<1>10. ASSUME NEW t \in Tasks, Spawn(t) PROVE  TypeOK'
  BY <1>10 DEF Spawn, TypeOK, disk, Statuses, Active
<1>11. ASSUME NEW t \in Tasks, Close(t) PROVE  TypeOK'
  BY <1>11 DEF Close, TypeOK, Statuses
<1>12. ASSUME NEW t \in Tasks, CheckOut(t) PROVE  TypeOK'
  BY <1>12 DEF CheckOut, TypeOK, db
<1>13. ASSUME NEW t \in Tasks, CleanWorktree(t) PROVE  TypeOK'
  BY <1>13 DEF CleanWorktree, TypeOK, db
<1>14. ASSUME CleanSlug PROVE  TypeOK'
  BY <1>14 DEF CleanSlug, TypeOK, db
<1>15. ASSUME UNCHANGED vars PROVE  TypeOK'
  BY <1>15 DEF vars, TypeOK
<1> QED BY <1>1, <1>2, <1>3, <1>4, <1>5, <1>6, <1>7, <1>8, <1>9, <1>10, <1>11,
  <1>12, <1>13, <1>14, <1>15 DEF Next, Apply

(* Every step keeps what holds of the tasks.                               *)
LEMMA TaskStep ==
    ASSUME IInv, [Next]_vars
    PROVE  TaskInv'
<1> USE DEF IInv
<1>1. ASSUME NEW a \in Appliers, NEW t \in Tasks, NEW req \in Requests, BuildPlan(a, t, req)
      PROVE  TaskInv'
  BY <1>1 DEF BuildPlan, TaskInv, TypeOK, db, disk, Applying, MayApply
<1>2. ASSUME NEW a \in Appliers, EnsureBaseClone(a) PROVE  TaskInv'
  BY <1>2 DEF EnsureBaseClone, TaskInv, TypeOK, Quit, Fail, db, disk,
    Applying, PlanInv, Before
<1>3. ASSUME NEW a \in Appliers, EnsureWorktree(a) PROVE  TaskInv'
  BY <1>3 DEF EnsureWorktree, TaskInv, TypeOK, Quit, Fail, db, Applying,
    PlanInv, Before
<1>4. ASSUME NEW a \in Appliers, ReserveInDb(a) PROVE  TaskInv'
  BY <1>4, DelegationAssumption DEF ReserveInDb, TaskInv, TypeOK, Quit, Fail,
    db, disk, Applying, PlanInv, Before
<1>5. ASSUME NEW a \in Appliers, WriteBrief(a) PROVE  TaskInv'
  BY <1>5 DEF WriteBrief, TaskInv, TypeOK, db, Applying
<1>6. ASSUME NEW a \in Appliers, WriteManifest(a) PROVE  TaskInv'
  <2>1. PICK p \in Plans : plan[a] = {p}
    BY <1>6, GoOn DEF WriteManifest
  <2>2. pc[a] \in After /\ UNCHANGED <<disk, db, lost>>
    BY <1>6 DEF WriteManifest, After
  <2>3. CASE handed' = handed \cup {p.task} /\ plan' = [plan EXCEPT ![a] = {}]
    <3>1. \A u \in Tasks : Applying(u)' <=> Applying(u) /\ u # p.task
      BY <2>1, <2>3 DEF TypeOK, PlanInv, Applying
    <3>2. status[p.task] = "queued" /\ p.task \notin lost
      BY <2>1, <2>2 DEF PlanInv
    <3> QED BY <2>2, <2>3, <3>1, <3>2 DEF TaskInv, db, disk
  <2>4. CASE UNCHANGED <<handed, plan>>
    BY <2>2, <2>4 DEF TaskInv, Applying, db, disk
  <2> QED BY <1>6, <2>1, <2>3, <2>4 DEF WriteManifest, Quit
<1>7. ASSUME NEW a \in Appliers, AbandonQueuedRun(a) PROVE  TaskInv'
  BY <1>7 DEF AbandonQueuedRun, TaskInv, TypeOK, Quit, disk, Applying, Active,
    PlanInv, After
<1>8. ASSUME NEW a \in Appliers, Die(a) PROVE  TaskInv'
  BY <1>8 DEF Die, TaskInv, TypeOK, Quit, db, disk, Applying, PlanInv, Before,
    After
<1>9. ASSUME NEW t \in Tasks, NEW s \in Statuses, UpdateRunStatus(t, s)
      PROVE  TaskInv'
  BY <1>9 DEF UpdateRunStatus, TaskInv, TypeOK, disk, Applying, Active
<1>10. ASSUME NEW t \in Tasks, Spawn(t) PROVE  TaskInv'
  BY <1>10 DEF Spawn, TaskInv, TypeOK, disk, Applying, Active
<1>11. ASSUME NEW t \in Tasks, Close(t) PROVE  TaskInv'
  BY <1>11, DirFacts DEF Close, TaskInv, TypeOK, Applying, Active
<1>12. ASSUME NEW t \in Tasks, CheckOut(t) PROVE  TaskInv'
  BY <1>12 DEF CheckOut, TaskInv, TypeOK, db, Applying
<1>13. ASSUME NEW t \in Tasks, CleanWorktree(t) PROVE  TaskInv'
  BY <1>13 DEF CleanWorktree, TaskInv, TypeOK, db, Applying
<1>14. ASSUME CleanSlug PROVE  TaskInv'
  BY <1>14 DEF CleanSlug, TaskInv, TypeOK, db, Applying
<1>15. ASSUME UNCHANGED vars PROVE  TaskInv'
  BY <1>15 DEF vars, TaskInv, TypeOK, Applying
<1> QED BY <1>1, <1>2, <1>3, <1>4, <1>5, <1>6, <1>7, <1>8, <1>9, <1>10, <1>11,
  <1>12, <1>13, <1>14, <1>15 DEF Next, Apply

(* Every step keeps what holds of the plans.                               *)
LEMMA PlanStep ==
    ASSUME IInv, [Next]_vars
    PROVE  PlanInv'
<1> USE DEF IInv
<1>1. ASSUME NEW a \in Appliers, NEW t \in Tasks, NEW req \in Requests, BuildPlan(a, t, req)
      PROVE  PlanInv'
  <2>1. PICK d \in Plans :
           /\ plan' = [plan EXCEPT ![a] = {d}] /\ pc' = [pc EXCEPT ![a] = "clone"]
           /\ d.task = t
           /\ d.dir \in {Slug, Root, WorktreeOf(t), EphemeralOf(t)}
           /\ d.dir = WorktreeOf(t) => d.pattern = "B" \/ d.base
           /\ d.dir = Slug => brief[Slug] = NoTask
           /\ faults = {} /\ d.pattern = "A" => ~HasActiveRun
           /\ MayApply(a, t) /\ UNCHANGED <<row, faults, disk, db, handed, lost>>
    BY <1>1, PlanBuilt
  <2>2. /\ \A b \in Appliers : \A q \in plan[b] : q.task # t
        /\ status[t] \in {"absent", "abandoned"} \/ t \in lost
    BY <2>1 DEF MayApply, Applying
  <2>3. plan'[a] = {d} /\ pc'[a] = "clone"
        /\ \A b \in Appliers \ {a} : plan'[b] = plan[b] /\ pc'[b] = pc[b]
    BY <2>1 DEF TypeOK
  <2> QED BY <2>1, <2>2, <2>3 DEF PlanInv, Before, After, db, disk
<1>2. ASSUME NEW a \in Appliers, EnsureBaseClone(a) PROVE  PlanInv'
  BY <1>2 DEF EnsureBaseClone, PlanInv, TypeOK, Goto, Quit, Fail, db, disk,
    Before, After
<1>3. ASSUME NEW a \in Appliers, EnsureWorktree(a) PROVE  PlanInv'
  BY <1>3 DEF EnsureWorktree, PlanInv, TypeOK, Goto, Quit, Fail, db, Before,
    After, Plans
<1>4. ASSUME NEW a \in Appliers, ReserveInDb(a) PROVE  PlanInv'
  BY <1>4 DEF ReserveInDb, PlanInv, TypeOK, Goto, Quit, Fail, db, disk,
    Before, Plans
<1>5. ASSUME NEW a \in Appliers, WriteBrief(a) PROVE  PlanInv'
  BY <1>5 DEF WriteBrief, PlanInv, TypeOK, Goto, db, Before, After
<1>6. ASSUME NEW a \in Appliers, WriteManifest(a) PROVE  PlanInv'
  BY <1>6 DEF WriteManifest, PlanInv, TypeOK, Goto, Quit, db, disk, Before,
    After
<1>7. ASSUME NEW a \in Appliers, AbandonQueuedRun(a) PROVE  PlanInv'
  BY <1>7 DEF AbandonQueuedRun, PlanInv, TypeOK, Goto, Quit, disk, Plans
<1>8. ASSUME NEW a \in Appliers, Die(a) PROVE  PlanInv'
  BY <1>8 DEF Die, PlanInv, TypeOK, Goto, Quit, db, disk
<1>9. ASSUME NEW t \in Tasks, NEW s \in Statuses, UpdateRunStatus(t, s)
      PROVE  PlanInv'
  BY <1>9 DEF UpdateRunStatus, PlanInv, TypeOK, disk, TaskInv, Applying
<1>10. ASSUME NEW t \in Tasks, Spawn(t) PROVE  PlanInv'
  BY <1>10 DEF Spawn, PlanInv, TypeOK, disk, TaskInv, Applying
<1>11. ASSUME NEW t \in Tasks, Close(t) PROVE  PlanInv'
  BY <1>11 DEF Close, PlanInv, TypeOK, TaskInv, Before, Plans
<1>12. ASSUME NEW t \in Tasks, CheckOut(t) PROVE  PlanInv'
  BY <1>12 DEF CheckOut, PlanInv, TypeOK, db, TaskInv, Before, Plans
<1>13. ASSUME NEW t \in Tasks, CleanWorktree(t) PROVE  PlanInv'
  BY <1>13 DEF CleanWorktree, PlanInv, TypeOK
<1>14. ASSUME CleanSlug PROVE  PlanInv'
  BY <1>14 DEF CleanSlug, PlanInv, TypeOK
<1>15. ASSUME UNCHANGED vars PROVE  PlanInv'
  BY <1>15 DEF vars, PlanInv, TypeOK
<1> QED BY <1>1, <1>2, <1>3, <1>4, <1>5, <1>6, <1>7, <1>8, <1>9, <1>10, <1>11,
  <1>12, <1>13, <1>14, <1>15 DEF Next, Apply

(* A second apply is not started without overlap.                          *)
LEMMA AloneStep ==
    ASSUME IInv, [Next]_vars
    PROVE  AloneInv'
<1> USE DEF IInv
<1>1. ASSUME NEW a \in Appliers, NEW t \in Tasks, NEW req \in Requests, BuildPlan(a, t, req)
      PROVE  AloneInv'
  BY <1>1 DEF BuildPlan, AloneInv, TypeOK, Goto, MayApply
<1>2. ASSUME NEW a \in Appliers, EnsureBaseClone(a) PROVE  AloneInv'
  BY <1>2 DEF EnsureBaseClone, AloneInv, TypeOK, Goto, Quit, Fail
<1>3. ASSUME NEW a \in Appliers, EnsureWorktree(a) PROVE  AloneInv'
  BY <1>3 DEF EnsureWorktree, AloneInv, TypeOK, Goto, Quit, Fail
<1>4. ASSUME NEW a \in Appliers, ReserveInDb(a) PROVE  AloneInv'
  BY <1>4 DEF ReserveInDb, AloneInv, TypeOK, Goto, Quit, Fail
<1>5. ASSUME NEW a \in Appliers, WriteBrief(a) PROVE  AloneInv'
  BY <1>5 DEF WriteBrief, AloneInv, TypeOK, Goto
<1>6. ASSUME NEW a \in Appliers, WriteManifest(a) PROVE  AloneInv'
  BY <1>6 DEF WriteManifest, AloneInv, TypeOK, Goto, Quit
<1>7. ASSUME NEW a \in Appliers, AbandonQueuedRun(a) PROVE  AloneInv'
  BY <1>7 DEF AbandonQueuedRun, AloneInv, TypeOK, Goto, Quit
<1>8. ASSUME NEW a \in Appliers, Die(a) PROVE  AloneInv'
  BY <1>8 DEF Die, AloneInv, TypeOK, Goto, Quit
<1>9. ASSUME NEW t \in Tasks, NEW s \in Statuses, UpdateRunStatus(t, s)
      PROVE  AloneInv'
  BY <1>9 DEF UpdateRunStatus, AloneInv, TypeOK
<1>10. ASSUME NEW t \in Tasks, Spawn(t) PROVE  AloneInv'
  BY <1>10 DEF Spawn, AloneInv, TypeOK
<1>11. ASSUME NEW t \in Tasks, Close(t) PROVE  AloneInv'
  BY <1>11 DEF Close, AloneInv, TypeOK
<1>12. ASSUME NEW t \in Tasks, CheckOut(t) PROVE  AloneInv'
  BY <1>12 DEF CheckOut, AloneInv, TypeOK
<1>13. ASSUME NEW t \in Tasks, CleanWorktree(t) PROVE  AloneInv'
  BY <1>13 DEF CleanWorktree, AloneInv, TypeOK
<1>14. ASSUME CleanSlug PROVE  AloneInv'
  BY <1>14 DEF CleanSlug, AloneInv, TypeOK
<1>15. ASSUME UNCHANGED vars PROVE  AloneInv'
  BY <1>15 DEF vars, AloneInv, TypeOK
<1> QED BY <1>1, <1>2, <1>3, <1>4, <1>5, <1>6, <1>7, <1>8, <1>9, <1>10, <1>11,
  <1>12, <1>13, <1>14, <1>15 DEF Next, Apply

(* Every step keeps the briefs in their place.                             *)
LEMMA BriefStep ==
    ASSUME IInv, [Next]_vars
    PROVE  BriefInv'
<1> USE DEF IInv
<1>1. ASSUME NEW a \in Appliers, NEW t \in Tasks, NEW req \in Requests, BuildPlan(a, t, req)
      PROVE  BriefInv'
  <2>1. PICK d \in Plans :
           /\ plan' = [plan EXCEPT ![a] = {d}] /\ pc' = [pc EXCEPT ![a] = "clone"]
           /\ d.task = t
           /\ d.dir \in {Slug, Root, WorktreeOf(t), EphemeralOf(t)}
           /\ d.dir = WorktreeOf(t) => d.pattern = "B" \/ d.base
           /\ d.dir = Slug => brief[Slug] = NoTask
           /\ faults = {} /\ d.pattern = "A" => ~HasActiveRun
           /\ MayApply(a, t) /\ UNCHANGED <<row, faults, disk, db, handed, lost>>
    BY <1>1, PlanBuilt
  <2>2. plan'[a] = {d} /\ pc'[a] = "clone"
        /\ \A b \in Appliers \ {a} : plan'[b] = plan[b] /\ pc'[b] = pc[b]
    BY <2>1 DEF TypeOK
  <2> QED BY <2>1, <2>2 DEF BriefInv, HasBrief, Before, db, disk
<1>2. ASSUME NEW a \in Appliers, EnsureBaseClone(a) PROVE  BriefInv'
  BY <1>2 DEF EnsureBaseClone, BriefInv, TypeOK, Goto, Quit, Fail, db, disk,
    HasBrief, Before
<1>3. ASSUME NEW a \in Appliers, EnsureWorktree(a) PROVE  BriefInv'
  BY <1>3 DEF EnsureWorktree, BriefInv, TypeOK, Goto, Quit, Fail, db,
    HasBrief, Before
<1>4. ASSUME NEW a \in Appliers, ReserveInDb(a) PROVE  BriefInv'
  <2>1. PICK p \in Plans : plan[a] = {p}
    BY <1>4, GoOn DEF ReserveInDb
  <2>2. CASE Fail(a) /\ UNCHANGED disk
    BY <2>2 DEF Fail, Quit, Goto, TypeOK, BriefInv, HasBrief, db, disk
  <2>3. CASE /\ status' = [status EXCEPT ![p.task] = "queued"]
             /\ dir' = [dir EXCEPT ![p.task] = p.dir] /\ pc' = [pc EXCEPT ![a] = "brief"]
             /\ UNCHANGED <<row, faults, disk, handed, plan>>
    <3>1. p.task \notin handed /\ pc[a] = "reserve" /\ \A b \in Appliers \ {a} :
             \A q \in plan[b] : q.task # p.task
      BY <1>4, <2>1 DEF ReserveInDb, TaskInv, PlanInv, Applying, Plans
    <3>2. status'[p.task] = "queued" /\ \A t \in Tasks \ {p.task} :
             status'[t] = status[t] /\ dir'[t] = dir[t]
      BY <2>3 DEF TypeOK, Plans
    <3>3. pc'[a] = "brief" /\ \A b \in Appliers \ {a} : pc'[b] = pc[b]
      BY <2>3 DEF TypeOK
    <3> QED BY <2>1, <2>3, <3>1, <3>2, <3>3 DEF TypeOK, BriefInv, HasBrief, Before, Plans, disk
  <2> QED BY <1>4, <2>1, <2>2, <2>3 DEF ReserveInDb, Goto
<1>5. ASSUME NEW a \in Appliers, WriteBrief(a) PROVE  BriefInv'
  BY <1>5, DelegationAssumption, DirFacts DEF WriteBrief, BriefInv, TypeOK,
    Goto, db, TaskInv, PlanInv, AloneInv, HasBrief, Before, After, Plans
<1>6. ASSUME NEW a \in Appliers, WriteManifest(a) PROVE  BriefInv'
  BY <1>6 DEF WriteManifest, BriefInv, TypeOK, Goto, Quit, db, disk, HasBrief,
    Before
<1>7. ASSUME NEW a \in Appliers, AbandonQueuedRun(a) PROVE  BriefInv'
  BY <1>7 DEF AbandonQueuedRun, BriefInv, TypeOK, Goto, Quit, disk, HasBrief
<1>8. ASSUME NEW a \in Appliers, Die(a) PROVE  BriefInv'
  BY <1>8 DEF Die, BriefInv, TypeOK, Goto, Quit, db, disk, HasBrief
<1>9. ASSUME NEW t \in Tasks, NEW s \in Statuses, UpdateRunStatus(t, s)
      PROVE  BriefInv'
  BY <1>9 DEF UpdateRunStatus, BriefInv, TypeOK, disk, HasBrief
<1>10. ASSUME NEW t \in Tasks, Spawn(t) PROVE  BriefInv'
  BY <1>10 DEF Spawn, BriefInv, TypeOK, disk, HasBrief
<1>11. ASSUME NEW t \in Tasks, Close(t) PROVE  BriefInv'
  BY <1>11, DelegationAssumption, DirFacts DEF Close, BriefInv, TypeOK,
    HasBrief, Plans
<1>12. ASSUME NEW t \in Tasks, CheckOut(t) PROVE  BriefInv'
  BY <1>12 DEF CheckOut, BriefInv, TypeOK, db, HasBrief
<1>13. ASSUME NEW t \in Tasks, CleanWorktree(t) PROVE  BriefInv'
  BY <1>13, DelegationAssumption, DirFacts DEF CleanWorktree, BriefInv,
    TypeOK, db, TaskInv, HasBrief, Plans, Active
<1>14. ASSUME CleanSlug PROVE  BriefInv'
  BY <1>14 DEF CleanSlug, BriefInv, TypeOK, db, TaskInv, HasBrief, Active
<1>15. ASSUME UNCHANGED vars PROVE  BriefInv'
  BY <1>15 DEF vars, BriefInv, TypeOK, HasBrief
<1> QED BY <1>1, <1>2, <1>3, <1>4, <1>5, <1>6, <1>7, <1>8, <1>9, <1>10, <1>11,
  <1>12, <1>13, <1>14, <1>15 DEF Next, Apply

(* Every step keeps the one run in the base.                               *)
LEMMA BaseStep ==
    ASSUME IInv, [Next]_vars
    PROVE  BaseInv'
<1> USE DEF IInv
<1>1. ASSUME NEW a \in Appliers, NEW t \in Tasks, NEW req \in Requests, BuildPlan(a, t, req)
      PROVE  BaseInv'
  <2>1. PICK d \in Plans :
           /\ plan' = [plan EXCEPT ![a] = {d}] /\ pc' = [pc EXCEPT ![a] = "clone"]
           /\ d.task = t
           /\ d.dir \in {Slug, Root, WorktreeOf(t), EphemeralOf(t)}
           /\ d.dir = WorktreeOf(t) => d.pattern = "B" \/ d.base
           /\ d.dir = Slug => brief[Slug] = NoTask
           /\ faults = {} /\ d.pattern = "A" => ~HasActiveRun
           /\ MayApply(a, t) /\ UNCHANGED <<row, faults, disk, db, handed, lost>>
    BY <1>1, PlanBuilt
  <2>2. plan'[a] = {d} /\ pc'[a] = "clone"
        /\ \A b \in Appliers \ {a} : plan'[b] = plan[b] /\ pc'[b] = pc[b]
    BY <2>1 DEF TypeOK
  <2> QED BY <2>1, <2>2 DEF BaseInv, InBase, HasActiveRun, db, disk
<1>2. ASSUME NEW a \in Appliers, EnsureBaseClone(a) PROVE  BaseInv'
  BY <1>2 DEF EnsureBaseClone, BaseInv, TypeOK, Goto, Quit, Fail, db, InBase,
    HasActiveRun, Before
<1>3. ASSUME NEW a \in Appliers, EnsureWorktree(a) PROVE  BaseInv'
  BY <1>3 DEF EnsureWorktree, BaseInv, TypeOK, Goto, Quit, Fail, db, InBase,
    HasActiveRun, Before
<1>4. ASSUME NEW a \in Appliers, ReserveInDb(a) PROVE  BaseInv'
  BY <1>4 DEF ReserveInDb, BaseInv, TypeOK, Goto, Quit, Fail, db, AloneInv,
    InBase, HasActiveRun, Before
<1>5. ASSUME NEW a \in Appliers, WriteBrief(a) PROVE  BaseInv'
  BY <1>5 DEF WriteBrief, BaseInv, TypeOK, Goto, db, InBase, HasActiveRun,
    Before
<1>6. ASSUME NEW a \in Appliers, WriteManifest(a) PROVE  BaseInv'
  BY <1>6 DEF WriteManifest, BaseInv, TypeOK, Goto, Quit, db, InBase,
    HasActiveRun, Before
<1>7. ASSUME NEW a \in Appliers, AbandonQueuedRun(a) PROVE  BaseInv'
  BY <1>7 DEF AbandonQueuedRun, BaseInv, TypeOK, Goto, Quit, InBase,
    HasActiveRun, Active
<1>8. ASSUME NEW a \in Appliers, Die(a) PROVE  BaseInv'
  BY <1>8 DEF Die, BaseInv, TypeOK, Goto, Quit, db, InBase, HasActiveRun
<1>9. ASSUME NEW t \in Tasks, NEW s \in Statuses, UpdateRunStatus(t, s)
      PROVE  BaseInv'
  BY <1>9 DEF UpdateRunStatus, BaseInv, TypeOK, InBase, HasActiveRun, Active
<1>10. ASSUME NEW t \in Tasks, Spawn(t) PROVE  BaseInv'
  BY <1>10 DEF Spawn, BaseInv, TypeOK, InBase, HasActiveRun, Active
<1>11. ASSUME NEW t \in Tasks, Close(t) PROVE  BaseInv'
  BY <1>11 DEF Close, BaseInv, TypeOK, InBase, HasActiveRun, Active
<1>12. ASSUME NEW t \in Tasks, CheckOut(t) PROVE  BaseInv'
  BY <1>12 DEF CheckOut, BaseInv, TypeOK, db, InBase, HasActiveRun
<1>13. ASSUME NEW t \in Tasks, CleanWorktree(t) PROVE  BaseInv'
  BY <1>13 DEF CleanWorktree, BaseInv, TypeOK, db, InBase
<1>14. ASSUME CleanSlug PROVE  BaseInv'
  BY <1>14 DEF CleanSlug, BaseInv, TypeOK, db, InBase
<1>15. ASSUME UNCHANGED vars PROVE  BaseInv'
  BY <1>15 DEF vars, BaseInv, TypeOK, InBase, HasActiveRun
<1> QED BY <1>1, <1>2, <1>3, <1>4, <1>5, <1>6, <1>7, <1>8, <1>9, <1>10, <1>11,
  <1>12, <1>13, <1>14, <1>15 DEF Next, Apply

(* The invariant is kept by every step.                                    *)
LEMMA Preservation ==
    ASSUME IInv, [Next]_vars
    PROVE  IInv'
BY TypeStep, TaskStep, PlanStep, AloneStep, BriefStep, BaseStep DEF IInv

(* The invariant holds in every behaviour.                                 *)
LEMMA Invariance == Spec => []IInv
<1>1. Init => IInv
  <2> SUFFICES ASSUME Init PROVE IInv
    OBVIOUS
  <2>1. \A a \in Appliers : plan[a] = {}
    BY DEF Init
  <2>2. \A t \in Tasks : ~Applying(t)
    BY <2>1 DEF Applying
  <2>3. TypeOK
    BY DelegationAssumption, DirFacts DEF Init, TypeOK, Statuses, Dirs
  <2>4. TaskInv
    BY <2>2 DEF Init, TaskInv, Active
  <2>5. PlanInv /\ AloneInv
    BY <2>1 DEF Init, PlanInv, AloneInv
  <2>6. BriefInv
    BY <2>1 DEF Init, BriefInv
  <2>7. BaseInv
    BY <2>1 DEF Init, BaseInv, InBase
  <2> QED BY <2>3, <2>4, <2>5, <2>6, <2>7 DEF IInv
<1>2. IInv /\ [Next]_vars => IInv'
  BY Preservation
<1> QED BY <1>1, <1>2, PTL DEF Spec
-----------------------------------------------------------------------------
(* The variables have their types.                                         *)
THEOREM TypeCorrect == Spec => []TypeOK
<1>1. IInv => TypeOK
  BY DEF IInv
<1> QED BY <1>1, Invariance, PTL

(* A queued run is being applied, waits for the dispatcher, or is known to *)
(* be lost (apply_delegate_plan and _abandon_queued_run), wherever applies *)
(* fail, die or overlap.                                                   *)
THEOREM QueuedIsAccountedFor == Spec => []NoReservationLeaks
<1>1. IInv => NoReservationLeaks
  BY DEF IInv, TaskInv, NoReservationLeaks
<1> QED BY <1>1, Invariance, PTL

(* An active run that was given a worktree has one that git knows          *)
(* (_ensure_worktree, then _reserve_in_db), even when applies overlap.     *)
THEOREM WorktreeIsThere == Spec => []WorktreeBeforeRun
<1>1. IInv => WorktreeBeforeRun
  BY DEF IInv, TaskInv, WorktreeBeforeRun
<1> QED BY <1>1, Invariance, PTL

(* A worker finds its own brief in its directory (_write_brief and the     *)
(* blocking_warnings of the plan), unless applies overlapped.              *)
THEOREM BriefIsItsOwn == Spec => []WorkerFindsItsBrief
<1>1. IInv => WorkerFindsItsBrief
  BY DEF IInv, BriefInv, HasBrief, WorkerFindsItsBrief
<1> QED BY <1>1, Invariance, PTL

(* Invariant I2 of the contract: at most one active Pattern A run of a     *)
(* project (project_has_active_run), as long as nothing is misused.        *)
THEOREM OneRunInBase == Spec => []OneReservationPerBase
<1>1. IInv => OneReservationPerBase
  <2> SUFFICES ASSUME IInv, faults = {}
               PROVE  Cardinality({t \in Tasks : InBase(t)}) <= 1
    BY DEF OneReservationPerBase, InBase
  <2>1. \A t, u \in Tasks : InBase(t) /\ InBase(u) => t = u
    BY DEF IInv, BaseInv
  <2>2. CASE {t \in Tasks : InBase(t)} = {}
    BY <2>2, FS_EmptySet
  <2>3. CASE \E t \in Tasks : InBase(t)
    <3>1. PICK t \in Tasks : InBase(t)
      BY <2>3
    <3>2. {u \in Tasks : InBase(u)} = {t}
      BY <2>1, <3>1
    <3> QED BY <3>2, FS_Singleton
  <2> QED BY <2>2, <2>3
<1> QED BY <1>1, Invariance, PTL
=============================================================================
