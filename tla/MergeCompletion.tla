-------------------------- MODULE MergeCompletion --------------------------
(***************************************************************************)
(* tools/run_complete_on_merge.py and tools/set_run_pr_open.py: the merge  *)
(* of a pull request is written to the run it belongs to. The secretary's  *)
(* command line and every pr_watch in merge-watch call complete_on_merge,  *)
(* so several calls for one PR may overlap; a call reads outside the       *)
(* transaction it writes in, and may die between any two steps.            *)
(***************************************************************************)
EXTENDS Naturals, FiniteSets

CONSTANTS
    MaxRun,     \* bound: rows of runs
    PRs,        \* pull requests of the repository
    Branches,   \* branch names
    Callers,    \* processes that call complete_on_merge
    EventCap    \* bound: counted pr_merged events per run and PR

ASSUME MergeCompletionAssumption ==
    /\ MaxRun \in Nat \ {0}
    /\ EventCap \in Nat \ {0}
    /\ IsFiniteSet(Callers)

Runs  == 1..MaxRun      \* runs.id
NoRun == 0

CONSTANTS NoPR, NoBranch

ASSUME NoPRAssumption == NoPR \notin PRs /\ NoBranch \notin Branches

Terminal == {"completed", "failed", "abandoned"}
Statuses == Terminal \cup {"absent", "in_use", "review"}

VARIABLES
    status,    \* runs.status, "absent" before the row is inserted
    branch,    \* runs.branch
    pr_url,    \* runs.pr_url
    pr_state,  \* runs.pr_state: "unset" or "merged"
    pr_merged, \* number of pr_merged events by run and PR
    root,      \* runs of Pattern C whose worker_dirs row is the repository root
    brief,     \* run whose CLAUDE.local.md lies in the root, NoRun without one
    owner,     \* history: run whose worker opened the PR, NoRun before
    head,      \* headRefName of the PR
    merged,    \* whether the PR has a mergedAt
    prompt,    \* history: PRs back-filled before they merged, the url kept since
    pc,        \* where each call is
    pr,        \* its PR
    task,      \* the run it resolved
    result     \* what the last call of each process returned

rows  == <<status, branch, pr_url, pr_state, pr_merged>>
gh    == <<owner, head, merged>>
dirs  == <<root, brief>>
calls == <<pc, pr, task, result>>
vars  == <<status, branch, pr_url, pr_state, pr_merged, root, brief, owner, head,
           merged, prompt, pc, pr, task, result>>

TypeOK ==
    /\ status \in [Runs -> Statuses]
    /\ branch \in [Runs -> Branches \cup {NoBranch}]
    /\ pr_url \in [Runs -> PRs \cup {NoPR}]
    /\ pr_state \in [Runs -> {"unset", "merged"}]
    /\ pr_merged \in [Runs \X PRs -> 0..EventCap]
    /\ root \subseteq Runs
    /\ brief \in Runs \cup {NoRun}
    /\ owner \in [PRs -> Runs \cup {NoRun}]
    /\ head \in [PRs -> Branches \cup {NoBranch}]
    /\ merged \in [PRs -> BOOLEAN]
    /\ prompt \subseteq PRs
    /\ pc \in [Callers -> {"idle", "resolve", "check", "write", "clean"}]
    /\ pr \in [Callers -> PRs \cup {NoPR}]
    /\ task \in [Callers -> Runs \cup {NoRun}]
    /\ result \in [Callers -> {"none", "merged", "already", "no_run"}]

Init ==
    /\ status = [t \in Runs |-> "absent"]
    /\ branch = [t \in Runs |-> NoBranch]
    /\ pr_url = [t \in Runs |-> NoPR]
    /\ pr_state = [t \in Runs |-> "unset"]
    /\ pr_merged = [e \in Runs \X PRs |-> 0]
    /\ root = {}
    /\ brief = NoRun
    /\ owner = [p \in PRs |-> NoRun]
    /\ head = [p \in PRs |-> NoBranch]
    /\ merged = [p \in PRs |-> FALSE]
    /\ prompt = {}
    /\ pc = [c \in Callers |-> "idle"]
    /\ pr = [c \in Callers |-> NoPR]
    /\ task = [c \in Callers |-> NoRun]
    /\ result = [c \in Callers |-> "none"]
-----------------------------------------------------------------------------
(* The life of runs and pull requests                                      *)

(* A run is dispatched, with the branch of its layout or without one; a    *)
(* Pattern C run in the repository root brings its brief along.            *)
Dispatch(t, b) ==
    /\ status[t] = "absent"
    /\ \A u \in Runs : u < t => status[u] # "absent"
    /\ status' = [status EXCEPT ![t] = "in_use"]
    /\ branch' = [branch EXCEPT ![t] = b]
    /\ \/ UNCHANGED dirs
       \/ root' = root \cup {t} /\ brief' = t
    /\ UNCHANGED <<pr_url, pr_state, pr_merged, gh, prompt, calls>>

(* update_run_status by the secretary.                                     *)
UpdateRunStatus(t, s) ==
    /\ status[t] \notin {"absent", s}
    /\ status' = [status EXCEPT ![t] = s]
    /\ UNCHANGED <<branch, pr_url, pr_state, pr_merged, dirs, gh, prompt, calls>>

(* The close runbook deletes the brief through the path it holds and       *)
(* removes the worker_dirs row, which clears runs.worker_dir_id.           *)
RemoveWorkerDir(t) ==
    /\ t \in root
    /\ root' = root \ {t}
    /\ brief' = NoRun
    /\ UNCHANGED <<rows, gh, prompt, calls>>

(* gh pr create for the branch of a live run.                              *)
OpenPR(p, t) ==
    /\ owner[p] = NoRun
    /\ status[t] \in {"in_use", "review"}
    /\ branch[t] # NoBranch
    /\ owner' = [owner EXCEPT ![p] = t]
    /\ head' = [head EXCEPT ![p] = branch[t]]
    /\ UNCHANGED <<rows, dirs, merged, prompt, calls>>

MergePR(p) ==
    /\ owner[p] # NoRun
    /\ ~merged[p]
    /\ merged' = [merged EXCEPT ![p] = TRUE]
    /\ UNCHANGED <<rows, dirs, owner, head, prompt, calls>>

(* set_run_pr_open: the url and the head branch that gh reports.           *)
SetRunPrOpen(p) ==
    /\ owner[p] # NoRun
    /\ pr_url' = [pr_url EXCEPT ![owner[p]] = p]
    /\ branch' = [branch EXCEPT ![owner[p]] = head[p]]
    /\ prompt' = (prompt \ {pr_url[owner[p]]}) \cup (IF merged[p] THEN {} ELSE {p})
    /\ UNCHANGED <<status, pr_state, pr_merged, dirs, gh, calls>>
-----------------------------------------------------------------------------
(* complete_on_merge                                                       *)

Goto(c, p) == pc' = [pc EXCEPT ![c] = p]

Return(c, r) == /\ Goto(c, "idle")
                /\ result' = [result EXCEPT ![c] = r]

(* The view shows the merge; one that does not returns not_yet and leaves  *)
(* everything alone. A caller may name the run with --task-id.             *)
Call(c, p, t) ==
    /\ pc[c] = "idle"
    /\ merged[p]
    /\ t \in {NoRun, owner[p]}
    /\ pr' = [pr EXCEPT ![c] = p]
    /\ task' = [task EXCEPT ![c] = t]
    /\ result' = [result EXCEPT ![c] = "none"]
    /\ Goto(c, IF t = NoRun THEN "resolve" ELSE "check")
    /\ UNCHANGED <<rows, dirs, gh, prompt>>

(* _resolve_task_id: by url, else the newest live run of the branch.       *)
ByUrl(p)    == {t \in Runs : pr_url[t] = p}
ByBranch(p) == {t \in Runs : /\ branch[t] = head[p]
                             /\ status[t] \notin Terminal \cup {"absent"}
                             /\ \A u \in Runs : u > t =>
                                   \/ branch[u] # head[p]
                                   \/ status[u] \in Terminal \cup {"absent"}}

(* Mistake: the branch is tried before the url.                            *)
CandidatesBranchFirst(p) == IF ByBranch(p) # {} THEN ByBranch(p) ELSE ByUrl(p)

Candidates(p) == IF ByUrl(p) # {} THEN ByUrl(p) ELSE ByBranch(p)

ResolveTask(c) ==
    /\ pc[c] = "resolve"
    /\ \/ /\ Candidates(pr[c]) = {}
          /\ Return(c, "no_run")
          /\ UNCHANGED task
       \/ /\ \E t \in Candidates(pr[c]) : task' = [task EXCEPT ![c] = t]
          /\ Goto(c, "check")
          /\ UNCHANGED result
    /\ UNCHANGED <<rows, dirs, gh, prompt, pr>>

HasEvent(t) == \E p \in PRs : pr_merged[<<t, p>>] > 0

(* Mistake: nothing is looked up before the write.                         *)
AlreadyNever(t) == FALSE

(* pr_state and the existence of a pr_merged event, of any PR of the run.  *)
Already(t) == pr_state[t] = "merged" /\ HasEvent(t)

CheckAlready(c) ==
    /\ pc[c] = "check"
    /\ IF Already(task[c]) THEN Return(c, "already")
                           ELSE Goto(c, "write") /\ UNCHANGED result
    /\ UNCHANGED <<rows, dirs, gh, prompt, pr, task>>

(* Mistake: the row is marked and the event left to a later transaction.   *)
WriteRowOnly(c) ==
    /\ pc[c] = "write"
    /\ pr_state' = [pr_state EXCEPT ![task[c]] = "merged"]
    /\ pr_url' = [pr_url EXCEPT ![task[c]] = pr[c]]
    /\ Goto(c, "clean")
    /\ prompt' = prompt \ ({pr_url[task[c]]} \ {pr[c]})
    /\ UNCHANGED <<status, branch, pr_merged, dirs, gh, pr, task, result>>

OneMore(n) == IF n < EventCap THEN n + 1 ELSE n

(* The transaction: row and event together; runs.status is left to the     *)
(* secretary.                                                              *)
Write(c) ==
    LET e == <<task[c], pr[c]>> IN
    /\ pc[c] = "write"
    /\ pr_state' = [pr_state EXCEPT ![task[c]] = "merged"]
    /\ pr_url' = [pr_url EXCEPT ![task[c]] = pr[c]]
    /\ pr_merged' = [pr_merged EXCEPT ![e] = OneMore(@)]
    /\ prompt' = prompt \ ({pr_url[task[c]]} \ {pr[c]})
    /\ Goto(c, "clean")
    /\ UNCHANGED <<status, branch, dirs, gh, pr, task, result>>

(* Mistake: the run is taken for one whose directory is reclaimed.         *)
CleanUpNotApplicable(c) ==
    /\ pc[c] = "clean"
    /\ Return(c, "merged")
    /\ UNCHANGED <<rows, dirs, gh, prompt, pr, task>>

(* cleanup_pattern_c_local_md: deletes the brief when the row of the run   *)
(* still says that it lived in the root.                                   *)
CleanUp(c) ==
    /\ pc[c] = "clean"
    /\ brief' = IF task[c] \in root THEN NoRun ELSE brief
    /\ Return(c, "merged")
    /\ UNCHANGED <<rows, root, gh, prompt, pr, task>>

(* The process dies, or the database stays locked and the call raises.     *)
Die(c) ==
    /\ pc[c] # "idle"
    /\ Goto(c, "idle")
    /\ UNCHANGED <<rows, dirs, gh, prompt, pr, task, result>>
-----------------------------------------------------------------------------
Next ==
    \/ \E t \in Runs, b \in Branches \cup {NoBranch} : Dispatch(t, b)
    \/ \E t \in Runs, s \in {"review", "completed", "abandoned"} : UpdateRunStatus(t, s)
    \/ \E t \in Runs : RemoveWorkerDir(t)
    \/ \E p \in PRs, t \in Runs : OpenPR(p, t)
    \/ \E p \in PRs : MergePR(p) \/ SetRunPrOpen(p)
    \/ \E c \in Callers, p \in PRs, t \in Runs \cup {NoRun} : Call(c, p, t)
    \/ \E c \in Callers : \/ ResolveTask(c) \/ CheckAlready(c) \/ Write(c)
                          \/ CleanUp(c) \/ Die(c)

Spec == Init /\ [][Next]_vars
-----------------------------------------------------------------------------
(* Properties                                                              *)

(* A run marked merged has the event the relay and the dashboards read,    *)
(* and the other way round, wherever a call dies.                          *)
MergedIffEvent == \A t \in Runs : pr_state[t] = "merged" <=> HasEvent(t)

(* A PR whose url was back-filled before it merged completes the run that  *)
(* opened it, even when a later run reuses the branch.                     *)
BackfilledGoesToOwner ==
    \A p \in prompt, t \in Runs : pr_merged[<<t, p>>] > 0 => owner[p] = t

(* A run whose completion succeeded leaves no brief behind that a later    *)
(* session would take for its own role.                                    *)
BriefGoneAfterMerge ==
    \A c \in Callers : result[c] = "merged" => brief # task[c]

(* However often the completion of a merge is repeated and wherever a call *)
(* dies, it is recorded once by calls that do not overlap, and never more  *)
(* often than there are calls that can overlap.                            *)
RecordedOncePerCaller ==
    \A e \in Runs \X PRs : pr_merged[e] <= Cardinality(Callers)

(* run_complete_on_merge.py:25 says of a second call for the same PR: no   *)
(* double event row.                                                       *)
NoDoubleEventRow == \A e \in Runs \X PRs : pr_merged[e] <= 1
=============================================================================
