----------------------------- MODULE Migration ------------------------------
(***************************************************************************)
(* tools/state_db/migrate_workers.py: the flat worker directories are moved *)
(* into the three-tier layout by a plan of renames; the manifest of what    *)
(* was done is saved around every rename, and a rollback reads it backwards.*)
(* The inventory is one of each kind: a project that is renamed (ccmux), the*)
(* two projects that swap names by way of a third, the second of which has  *)
(* worktrees, and one run that moves into the project claude-org-ja.        *)
(***************************************************************************)
EXTENDS Naturals, Sequences

CONSTANTS MaxApplies, MaxRollbacks, MaxKills     \* bounds

None == "none"
Projects == {"ccmux content", "ja content", "en content"}
Contents == Projects \cup {"run content"}
Names == {"ccmux", "renga", "claude-org", "claude-org-en", "claude-org-ja-tmp", "claude-org-ja", "r"}
RunsDir == "claude-org-ja/_runs/_solo"
Target == "claude-org-ja/_runs/_solo/r"

VARIABLES
    at,        \* the directory that has the name, at the top of workers/
    link,      \* the name a compatibility link points to
    runsIn,    \* directories that have _runs/_solo
    runIn,     \* the directory below which the run has been moved
    gitAt,     \* where the gitlinks of the worktrees of claude-org expect it
    staged,    \* operations of a saved --plan --json that was cut to its tiers
    manifest,  \* manifest[i]: what the i-th apply has saved
    pc, job,   \* the running command
    kills, rollbacks,
    before,    \* history: the tree before the i-th apply
    undone,    \* history: manifests whose rollback went through
    inOrder,   \* history: only the last apply that was not rolled back ever was
    blind      \* history: a kill fell where a rollback is blind

vars == <<at, link, runsIn, runIn, gitAt, staged, manifest, pc, job, kills, rollbacks, before, undone, inOrder, blind>>
disk == <<at, link, runsIn, runIn, gitAt>>
history == <<before, undone, inOrder, blind>>

NoJob == [ops |-> <<>>, keep |-> FALSE, full |-> FALSE, of |-> 0, k |-> 0]

(* What a rollback can restore: a directory that was made stays. *)
Tree == [at |-> [n \in Names |-> IF at[n] = "made" THEN None ELSE at[n]], link |-> link, runIn |-> runIn, gitAt |-> gitAt]

Init ==
    /\ at = [n \in Names |-> CASE n = "ccmux" -> "ccmux content" [] n = "claude-org" -> "ja content"
                               [] n = "claude-org-en" -> "en content" [] n = "r" -> "run content"
                               [] OTHER -> None]
    /\ link = [n \in Names |-> None] /\ runsIn = {} /\ runIn = None /\ gitAt = "claude-org"
    /\ staged = <<>> /\ manifest = <<>>
    /\ pc = "idle" /\ job = NoJob /\ kills = 0 /\ rollbacks = 0
    /\ before = <<>> /\ undone = {} /\ inOrder = TRUE /\ blind = FALSE
-----------------------------------------------------------------------------
(* Path.exists follows a link. *)
Dir(name) ==
    CASE link[name] = None -> at[name]
      [] link[name] = Target -> IF runIn # None /\ at["claude-org-ja"] = runIn THEN "run content" ELSE None
      [] OTHER -> at[link[name]]

Exists(path) ==
    CASE path = RunsDir -> Dir("claude-org-ja") \in runsIn
      [] path = Target -> runIn # None /\ Dir("claude-org-ja") = runIn
      [] OTHER -> Dir(path) # None

Operation(op, src, dst) == [op |-> op, src |-> src, dst |-> dst]

(* Mistake: the swap is taken for done after its second step. *)
SwapDoneEarly == ~Exists("claude-org-en")

(* The old names are gone and claude-org-ja is there: swapped already. *)
SwapDone == ~Exists("claude-org-en") /\ Exists("claude-org-ja")

Ccmux  == Operation("rename_project", "ccmux", "renga")
Aside  == Operation("rename_project", "claude-org", "claude-org-ja-tmp")
Across == Operation("rename_project", "claude-org-en", "claude-org")
Into   == Operation("rename_project", "claude-org-ja-tmp", "claude-org-ja")
Parent == Operation("ensure_dir", "", RunsDir)
Run    == Operation("move_run", "r", Target)

(* build_plan: what has its new place already is left out, then the renames *)
(* and the swap by way of a third name, ...                                 *)
ProjectTier ==
    (IF Exists("ccmux") \/ ~Exists("renga") THEN <<Ccmux>> ELSE <<>>)
    \o (IF SwapDone THEN <<>> ELSE <<Aside, Across, Into>>)

(* ... and the parent of the run and the run.                               *)
RunTier == IF ~Exists("r") /\ Exists(Target) THEN <<>> ELSE <<Parent, Run>>

Plan == ProjectTier \o RunTier

(* preflight: the plan is walked over the paths that exist now; before the *)
(* i-th operation, a path is there if the last one that touched it made it. *)
Present(ops, i, path) ==
    LET touched == {j \in 1 .. i - 1 : path \in {ops[j].src, ops[j].dst}}
    IN  IF touched = {} THEN Exists(path)
        ELSE \E j \in touched : ops[j].dst = path /\ \A l \in touched : l <= j

Preflight(ops) ==
    \A i \in DOMAIN ops :
        ops[i].op # "ensure_dir" =>
            Present(ops, i, ops[i].src) /\ ~Present(ops, i, ops[i].dst)

(* os.rename: a missing source, a directory in the way or a missing parent *)
(* raises; a link is moved as it is and is in the way as well.             *)
Free(path) == IF path = Target THEN runIn = None /\ Exists(RunsDir)
              ELSE at[path] = None /\ link[path] = None
CanRename(src, dst) ==
    /\ Free(dst)
    /\ IF src = Target THEN Exists(Target) ELSE at[src] # None

Rename(src, dst) ==
    /\ at' = [n \in Names |-> CASE n = dst -> (IF src = Target THEN "run content" ELSE at[src])
                                [] n = src -> None [] OTHER -> at[n]]
    /\ runIn' = CASE dst = Target -> Dir("claude-org-ja") [] src = Target -> None [] OTHER -> runIn

(* git worktree repair of a project that has worktrees. *)
Repaired(op, path) ==
    IF op = "rename_project" /\ at[path] = "ja content" THEN path ELSE gitAt
-----------------------------------------------------------------------------
(* --plan --json, cut by the operator to a tier, or not cut. *)
Stage ==
    /\ pc = "idle" /\ staged = <<>>
    /\ staged' \in {ProjectTier, RunTier, Plan} \ {<<>>}
    /\ UNCHANGED <<disk, manifest, pc, job, kills, rollbacks, history>>

Start(ops, keep, full) ==
    /\ pc = "idle" /\ Len(manifest) < MaxApplies
    /\ Preflight(ops)
    /\ manifest' = Append(manifest, <<>>)
    /\ before' = Append(before, Tree)
    /\ job' = [ops |-> ops, keep |-> keep, full |-> full, of |-> Len(manifest) + 1, k |-> 1]
    /\ pc' = "apply"
    /\ UNCHANGED <<disk, staged, kills, rollbacks, undone, inOrder, blind>>

Apply(keep) == Start(Plan, keep, TRUE)
ApplyFromManifest(keep) == staged # <<>> /\ Start(staged, keep, FALSE)

Op == job.ops[job.k]
Save(entries) == manifest' = [manifest EXCEPT ![job.of] = entries]
Advance == pc' = "apply" /\ job' = [job EXCEPT !.k = @ + 1]

(* mkdir -p: the parent is made on the way, or used as it is. *)
EnsureDir ==
    /\ pc = "apply" /\ job.k <= Len(job.ops) /\ Op.op = "ensure_dir"
    /\ LET made == IF Exists("claude-org-ja") THEN at ELSE [at EXCEPT !["claude-org-ja"] = "made"] IN
       /\ at' = made
       /\ runsIn' = runsIn \cup {IF Exists("claude-org-ja") THEN Dir("claude-org-ja") ELSE "made"}
    /\ Save(Append(manifest[job.of], [op |-> "ensure_dir", src |-> "", dst |-> Op.dst,
                                      compat |-> FALSE, state |-> "completed"]))
    /\ Advance
    /\ UNCHANGED <<link, runIn, gitAt, staged, kills, rollbacks, history>>

(* The entry is saved before the rename, ... *)
Announce ==
    /\ pc = "apply" /\ job.k <= Len(job.ops) /\ Op.op # "ensure_dir"
    /\ Save(Append(manifest[job.of], [op |-> Op.op, src |-> Op.src, dst |-> Op.dst,
                                      compat |-> job.keep, state |-> "in_progress"]))
    /\ pc' = "rename"
    /\ UNCHANGED <<disk, staged, job, kills, rollbacks, history>>

(* ... a rename that is refused ends the command, ... *)
Move ==
    /\ pc = "rename"
    /\ IF CanRename(Op.src, Op.dst)
       THEN Rename(Op.src, Op.dst) /\ pc' = "repair" /\ UNCHANGED job
       ELSE pc' = "idle" /\ job' = NoJob /\ UNCHANGED <<at, runIn>>
    /\ UNCHANGED <<link, runsIn, gitAt, staged, manifest, kills, rollbacks, history>>

Repair ==
    /\ pc = "repair"
    /\ gitAt' = Repaired(Op.op, Op.dst)
    /\ pc' = "link"
    /\ UNCHANGED <<at, link, runsIn, runIn, staged, manifest, job, kills, rollbacks, history>>

LinkBack ==
    /\ pc = "link"
    /\ link' = IF job.keep THEN [link EXCEPT ![Op.src] = Op.dst] ELSE link
    /\ pc' = "record"
    /\ UNCHANGED <<at, runsIn, runIn, gitAt, staged, manifest, job, kills, rollbacks, history>>

(* ... and the entry becomes completed. *)
Complete ==
    /\ pc = "record"
    /\ Save([manifest[job.of] EXCEPT ![Len(manifest[job.of])].state = "completed"])
    /\ Advance
    /\ UNCHANGED <<disk, staged, kills, rollbacks, history>>

Applied == pc = "apply" /\ job.k > Len(job.ops)
Finish ==
    /\ Applied
    /\ pc' = "idle" /\ job' = NoJob
    /\ UNCHANGED <<disk, staged, manifest, kills, rollbacks, history>>
-----------------------------------------------------------------------------
(* --rollback: the newest manifest, or the one that is named. *)
Rollback(i) ==
    /\ pc = "idle" /\ rollbacks < MaxRollbacks
    /\ rollbacks' = rollbacks + 1
    /\ inOrder' = (inOrder /\ i \notin undone /\ \A j \in DOMAIN manifest : j > i => j \in undone)
    /\ job' = [NoJob EXCEPT !.of = i, !.k = Len(manifest[i])]
    /\ pc' = "undo"
    /\ UNCHANGED <<disk, staged, manifest, kills, before, undone, blind>>

Entry == manifest[job.of][job.k]

(* Mistake: an entry in progress is taken for one whose move failed. *)
UntouchedInProgress(e) == e.op = "ensure_dir" \/ e.state = "in_progress"

(* An entry in progress is undone only if the move has been made. *)
Untouched(e) ==
    \/ e.op = "ensure_dir"
    \/ e.state = "in_progress" /\ ~(Exists(e.dst) /\ ~Exists(e.src))

Skip ==
    /\ pc = "undo" /\ job.k > 0 /\ Untouched(Entry)
    /\ job' = [job EXCEPT !.k = @ - 1]
    /\ UNCHANGED <<disk, staged, manifest, pc, kills, rollbacks, history>>

Unlink ==
    /\ pc = "undo" /\ job.k > 0 /\ ~Untouched(Entry)
    /\ link' = IF Entry.compat THEN [link EXCEPT ![Entry.src] = None] ELSE link
    /\ pc' = "back"
    /\ UNCHANGED <<at, runsIn, runIn, gitAt, staged, manifest, job, kills, rollbacks, history>>

MoveBack ==
    /\ pc = "back"
    /\ IF CanRename(Entry.dst, Entry.src)
       THEN Rename(Entry.dst, Entry.src) /\ pc' = "repair back" /\ UNCHANGED job
       ELSE pc' = "idle" /\ job' = NoJob /\ UNCHANGED <<at, runIn>>
    /\ UNCHANGED <<link, runsIn, gitAt, staged, manifest, kills, rollbacks, history>>

RepairBack ==
    /\ pc = "repair back"
    /\ gitAt' = Repaired(Entry.op, Entry.src)
    /\ pc' = "undo" /\ job' = [job EXCEPT !.k = @ - 1]
    /\ UNCHANGED <<at, link, runsIn, runIn, staged, manifest, kills, rollbacks, history>>

RolledBack ==
    /\ pc = "undo" /\ job.k = 0
    /\ undone' = undone \cup {job.of}
    /\ pc' = "idle" /\ job' = NoJob
    /\ UNCHANGED <<disk, staged, manifest, kills, rollbacks, before, inOrder, blind>>

Kill ==
    /\ pc # "idle" /\ kills < MaxKills
    /\ kills' = kills + 1
    /\ blind' = (blind \/ pc = "repair back" \/ (pc = "record" /\ job.keep))
    /\ pc' = "idle" /\ job' = NoJob
    /\ UNCHANGED <<disk, staged, manifest, rollbacks, before, undone, inOrder>>

Next ==
    \/ Stage \/ (\E keep \in BOOLEAN : Apply(keep) \/ ApplyFromManifest(keep))
    \/ EnsureDir \/ Announce \/ Move \/ Repair \/ LinkBack \/ Complete \/ Finish
    \/ (\E i \in DOMAIN manifest : Rollback(i))
    \/ Skip \/ Unlink \/ MoveBack \/ RepairBack \/ RolledBack
    \/ Kill

Spec == Init /\ [][Next]_vars
-----------------------------------------------------------------------------
Steps == {Ccmux, Aside, Across, Into, Parent, Run}

Entries == {[op |-> step.op, src |-> step.src, dst |-> step.dst, compat |-> compat, state |-> state] :
               step \in Steps, compat \in BOOLEAN, state \in {"in_progress", "completed"}}

Trees == [at : [Names -> Contents \cup {None}], link : [Names -> Names \cup {Target, None}],
          runIn : Projects \cup {"made", None}, gitAt : Names]

TypeOK ==
    /\ at \in [Names -> Contents \cup {"made", None}] /\ link \in [Names -> Names \cup {Target, None}]
    /\ runsIn \subseteq Contents \cup {"made"} /\ runIn \in Projects \cup {"made", None} /\ gitAt \in Names
    /\ staged \in Seq(Steps) /\ manifest \in Seq(Seq(Entries))
    /\ pc \in {"idle", "apply", "rename", "repair", "link", "record", "undo", "back", "repair back"}
    /\ job \in [ops : Seq(Steps), keep : BOOLEAN, full : BOOLEAN, of : 0 .. Len(manifest), k : Nat]
    /\ pc # "idle" => job.of \in DOMAIN manifest
    /\ pc = "apply" => job.k \in 1 .. Len(job.ops) + 1
    /\ pc \in {"rename", "repair", "link", "record"} => job.k \in DOMAIN job.ops
    /\ pc \in {"undo", "back", "repair back"} => job.k \in 0 .. Len(manifest[job.of])
    /\ pc \in {"back", "repair back"} => job.k # 0
    /\ kills \in Nat /\ rollbacks \in Nat /\ undone \subseteq DOMAIN manifest
    /\ before \in Seq(Trees) /\ Len(before) = Len(manifest) /\ inOrder \in BOOLEAN /\ blind \in BOOLEAN

(* Every directory of the inventory is in its place.  The gitlinks need not *)
(* be: a kill between the last rename and its repair leaves them, and the   *)
(* next plan takes the swap for done.                                       *)
Migrated ==
    /\ at["renga"] = "ccmux content" /\ at["claude-org"] = "en content"
    /\ at["claude-org-ja"] = "ja content" /\ runIn = "ja content"

(* An apply that reports success has put every directory of the inventory  *)
(* in its place, whatever was done, cut short or rolled back before, unless *)
(* the run was moved ahead of the projects, by an apply of its tier alone,  *)
(* into a claude-org-ja that was made for it: once the swap is cut short    *)
(* after its second step, that one passes for the result of the swap.  The  *)
(* two projects that swap names are never taken for each other.             *)
SwapIsNeverMixed ==
    /\ at["claude-org-ja"] \notin {"en content", "ccmux content"}
    /\ at["claude-org-ja-tmp"] \in {"ja content", "made", None}
    /\ at["claude-org-en"] \in {"en content", None}
    /\ Applied /\ job.full => Migrated \/ at["claude-org-ja"] = "made"
    /\ pc = "apply" /\ job.full /\ job.k <= Len(job.ops) =>
           (Op = Parent => Exists("claude-org-ja"))

(* A rollback that goes through leaves the tree, its links and the gitlinks *)
(* as they were before the apply, wherever the apply, or an earlier attempt *)
(* to roll it back, was cut short, as long as it is always the last apply   *)
(* that is rolled back.  Two kills are left out: the one between a link and *)
(* its record, as Path.exists follows the link, so that the move is taken   *)
(* for one that never happened, and the one between the move back and the   *)
(* repair, which a second rollback does not make good.                      *)
RollbackRestores ==
    pc = "undo" /\ job.k = 0 /\ inOrder /\ ~blind => Tree = before[job.of]
=============================================================================
