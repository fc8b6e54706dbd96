----------------------- MODULE MergeCompletion_proofs -----------------------
(***************************************************************************)
(* Proofs about MergeCompletion for any number of runs, pull requests and  *)
(* overlapping calls.                                                      *)
(***************************************************************************)
EXTENDS MergeCompletion, FiniteSetTheorems, TLAPS

(* Every run that a pull request or a row points at was dispatched, and    *)
(* only a pull request that somebody opened is merged.                     *)
KnownInv ==
    /\ \A p \in PRs : owner[p] # NoRun => status[owner[p]] # "absent"
    /\ \A p \in PRs : merged[p] => owner[p] # NoRun
    /\ \A t \in Runs : pr_url[t] # NoPR => status[t] # "absent"

(* A call under way is for a merged pull request, has no result yet, and   *)
(* from its check on, as after its success, it has a run.                  *)
CallInv ==
    \A c \in Callers :
        /\ pc[c] # "idle" => pr[c] \in PRs /\ merged[pr[c]] /\ result[c] = "none"
        /\ pc[c] \in {"check", "write", "clean"} \/ result[c] = "merged"
              => task[c] \in Runs /\ status[task[c]] # "absent"

(* The brief in the root is that of a run which has its directory there.   *)
BriefInv == brief # NoRun => brief \in root

(* Before a pull request merges it has no event, and only the row of its   *)
(* owner holds its url.  The url of one in prompt stays there and nowhere  *)
(* else, so that calls for it resolve to its owner.                        *)
UrlInv ==
    /\ \A p \in PRs : ~merged[p] =>
          \A t \in Runs : pr_merged[<<t, p>>] = 0 /\ (pr_url[t] = p => t = owner[p])
    /\ \A p \in prompt :
          /\ owner[p] \in Runs /\ pr_url[owner[p]] = p
          /\ \A t \in Runs : pr_url[t] = p => t = owner[p]
          /\ \A c \in Callers :
                pr[c] = p /\ pc[c] \in {"check", "write"} => task[c] = owner[p]

(* The inductive invariant.                                                *)
IInv == /\ TypeOK
        /\ KnownInv
        /\ CallInv
        /\ BriefInv
        /\ UrlInv
        /\ MergedIffEvent
        /\ BackfilledGoesToOwner
        /\ BriefGoneAfterMerge
-----------------------------------------------------------------------------
(* A call resolves to runs that were dispatched.                           *)
LEMMA CandidatesAreKnown ==
    ASSUME KnownInv, NEW p \in PRs
    PROVE  \A t \in Candidates(p) : t \in Runs /\ status[t] # "absent"
BY NoPRAssumption DEF KnownInv, Candidates, ByUrl, ByBranch

(* Every step keeps the types.                                             *)
LEMMA TypeStep ==
    ASSUME IInv, [Next]_vars
    PROVE  TypeOK'
<1> USE DEF IInv
<1>1. ASSUME NEW t \in Runs, NEW b \in Branches \cup {NoBranch},
             Dispatch(t, b)
      PROVE  TypeOK'
  BY <1>1 DEF TypeOK, Dispatch, Statuses, gh, dirs, calls
<1>2. ASSUME NEW t \in Runs, NEW s \in {"review", "completed", "abandoned"},
             UpdateRunStatus(t, s)
      PROVE  TypeOK'
  BY <1>2 DEF TypeOK, UpdateRunStatus, Statuses, Terminal, gh, dirs, calls
<1>3. ASSUME NEW t \in Runs, RemoveWorkerDir(t) PROVE  TypeOK'
  BY <1>3 DEF TypeOK, RemoveWorkerDir, rows, gh, calls
<1>4. ASSUME NEW p \in PRs, NEW t \in Runs, OpenPR(p, t) PROVE  TypeOK'
  BY <1>4 DEF TypeOK, OpenPR, rows, dirs, calls
<1>5. ASSUME NEW p \in PRs, MergePR(p) PROVE  TypeOK'
  BY <1>5 DEF TypeOK, MergePR, rows, dirs, calls
<1>6. ASSUME NEW p \in PRs, SetRunPrOpen(p) PROVE  TypeOK'
  BY <1>6 DEF TypeOK, SetRunPrOpen, gh, dirs, calls
<1>7. ASSUME NEW c \in Callers, NEW p \in PRs, NEW t \in Runs \cup {NoRun},
             Call(c, p, t)
      PROVE  TypeOK'
  BY <1>7 DEF TypeOK, Call, rows, gh, dirs, Goto
<1>8. ASSUME NEW c \in Callers, ResolveTask(c) PROVE  TypeOK'
  <2>1. CASE Candidates(pr[c]) = {}
    BY <1>8, <2>1 DEF ResolveTask, TypeOK, Return, Goto, rows, gh, dirs
  <2>2. ASSUME NEW t \in Candidates(pr[c]), task' = [task EXCEPT ![c] = t], Goto(c, "check"),
               UNCHANGED result
        PROVE  TypeOK'
    BY <1>8, <2>2, CandidatesAreKnown DEF ResolveTask, TypeOK, CallInv, Goto, rows, gh, dirs
  <2> QED BY <1>8, <2>1, <2>2 DEF ResolveTask, Return
<1>9. ASSUME NEW c \in Callers, CheckAlready(c) PROVE  TypeOK'
  <2>1. CASE Already(task[c])
    BY <1>9, <2>1 DEF CheckAlready, TypeOK, Return, Goto, rows, gh, dirs
  <2>2. CASE ~Already(task[c])
    BY <1>9, <2>2 DEF CheckAlready, TypeOK, Goto, rows, gh, dirs
  <2> QED BY <2>1, <2>2
<1>10. ASSUME NEW c \in Callers, Write(c) PROVE  TypeOK'
  BY <1>10, MergeCompletionAssumption DEF TypeOK, Write, OneMore, CallInv,
    gh, dirs, Goto
<1>11. ASSUME NEW c \in Callers, CleanUp(c) PROVE  TypeOK'
  BY <1>11 DEF TypeOK, CleanUp, rows, gh, Goto, Return
<1>12. ASSUME NEW c \in Callers, Die(c) PROVE  TypeOK'
  BY <1>12 DEF TypeOK, Die, rows, gh, dirs, Goto
<1>13. ASSUME UNCHANGED vars PROVE  TypeOK'
  BY <1>13 DEF TypeOK, vars
<1> QED BY <1>1, <1>2, <1>3, <1>4, <1>5, <1>6, <1>7, <1>8, <1>9, <1>10,
  <1>11, <1>12, <1>13 DEF Next

(* Runs are dispatched once, and only those are pointed at.                *)
LEMMA KnownStep ==
    ASSUME IInv, [Next]_vars
    PROVE  KnownInv'
<1> USE DEF IInv
<1>1. ASSUME NEW t \in Runs, NEW b \in Branches \cup {NoBranch},
             Dispatch(t, b)
      PROVE  KnownInv'
  BY <1>1 DEF KnownInv, Dispatch, gh
<1>2. ASSUME NEW t \in Runs, NEW s \in {"review", "completed", "abandoned"},
             UpdateRunStatus(t, s)
      PROVE  KnownInv'
  BY <1>2 DEF KnownInv, UpdateRunStatus, gh
<1>3. ASSUME NEW t \in Runs, RemoveWorkerDir(t) PROVE  KnownInv'
  BY <1>3 DEF KnownInv, RemoveWorkerDir, rows, gh
<1>4. ASSUME NEW p \in PRs, NEW t \in Runs, OpenPR(p, t)
      PROVE  KnownInv'
  BY <1>4 DEF KnownInv, OpenPR, rows
<1>5. ASSUME NEW p \in PRs, MergePR(p) PROVE  KnownInv'
  BY <1>5 DEF KnownInv, MergePR, rows
<1>6. ASSUME NEW p \in PRs, SetRunPrOpen(p) PROVE  KnownInv'
  BY <1>6 DEF KnownInv, SetRunPrOpen, gh
<1>7. ASSUME NEW c \in Callers, NEW p \in PRs, NEW t \in Runs \cup {NoRun},
             Call(c, p, t)
      PROVE  KnownInv'
  BY <1>7 DEF KnownInv, Call, rows, gh
<1>8. ASSUME NEW c \in Callers, ResolveTask(c) PROVE  KnownInv'
  BY <1>8 DEF KnownInv, ResolveTask, rows, gh
<1>9. ASSUME NEW c \in Callers, CheckAlready(c) PROVE  KnownInv'
  BY <1>9 DEF KnownInv, CheckAlready, rows, gh
<1>10. ASSUME NEW c \in Callers, Write(c) PROVE  KnownInv'
  BY <1>10 DEF KnownInv, Write, CallInv, gh
<1>11. ASSUME NEW c \in Callers, CleanUp(c) PROVE  KnownInv'
  BY <1>11 DEF KnownInv, CleanUp, rows, gh
<1>12. ASSUME NEW c \in Callers, Die(c) PROVE  KnownInv'
  BY <1>12 DEF KnownInv, Die, rows, gh
<1>13. ASSUME UNCHANGED vars PROVE  KnownInv'
  BY <1>13 DEF KnownInv, vars
<1> QED BY <1>1, <1>2, <1>3, <1>4, <1>5, <1>6, <1>7, <1>8, <1>9, <1>10,
  <1>11, <1>12, <1>13 DEF Next

(* A call has what its phase needs.                                        *)
LEMMA CallStep ==
    ASSUME IInv, [Next]_vars
    PROVE  CallInv'
<1> USE DEF IInv
<1>1. ASSUME NEW t \in Runs, NEW b \in Branches \cup {NoBranch},
             Dispatch(t, b)
      PROVE  CallInv'
  BY <1>1 DEF CallInv, Dispatch, gh, calls
<1>2. ASSUME NEW t \in Runs, NEW s \in {"review", "completed", "abandoned"},
             UpdateRunStatus(t, s)
      PROVE  CallInv'
  BY <1>2 DEF CallInv, UpdateRunStatus, gh, calls
<1>3. ASSUME NEW t \in Runs, RemoveWorkerDir(t) PROVE  CallInv'
  BY <1>3 DEF CallInv, RemoveWorkerDir, rows, gh, calls
<1>4. ASSUME NEW p \in PRs, NEW t \in Runs, OpenPR(p, t)
      PROVE  CallInv'
  BY <1>4 DEF CallInv, OpenPR, rows, calls
<1>5. ASSUME NEW p \in PRs, MergePR(p) PROVE  CallInv'
  BY <1>5 DEF CallInv, MergePR, rows, calls
<1>6. ASSUME NEW p \in PRs, SetRunPrOpen(p) PROVE  CallInv'
  BY <1>6 DEF CallInv, SetRunPrOpen, gh, calls
<1>7. ASSUME NEW c \in Callers, NEW p \in PRs, NEW t \in Runs \cup {NoRun},
             Call(c, p, t)
      PROVE  CallInv'
  BY <1>7 DEF CallInv, Call, TypeOK, KnownInv, rows, gh, Goto
<1>8. ASSUME NEW c \in Callers, ResolveTask(c) PROVE  CallInv'
  <2>1. pr[c] \in PRs
    BY <1>8 DEF ResolveTask, CallInv
  <2>2. CASE Candidates(pr[c]) = {} /\ Return(c, "no_run")
    BY <1>8, <2>2 DEF ResolveTask, TypeOK, CallInv, Return, Goto, rows, gh, dirs
  <2>3. ASSUME NEW t \in Candidates(pr[c]), task' = [task EXCEPT ![c] = t], Goto(c, "check"),
               UNCHANGED result
        PROVE  CallInv'
    <3>1. t \in Runs /\ status[t] # "absent"
      BY <2>1, CandidatesAreKnown
    <3> QED
      BY <1>8, <2>3, <3>1 DEF ResolveTask, TypeOK, CallInv, Goto, rows, gh, dirs
  <2> QED BY <1>8, <2>2, <2>3 DEF ResolveTask
<1>9. ASSUME NEW c \in Callers, CheckAlready(c) PROVE  CallInv'
  BY <1>9 DEF CallInv, CheckAlready, TypeOK, rows, gh, Goto, Return
<1>10. ASSUME NEW c \in Callers, Write(c) PROVE  CallInv'
  BY <1>10 DEF CallInv, Write, gh, Goto
<1>11. ASSUME NEW c \in Callers, CleanUp(c) PROVE  CallInv'
  BY <1>11 DEF CallInv, CleanUp, TypeOK, rows, gh, Goto, Return
<1>12. ASSUME NEW c \in Callers, Die(c) PROVE  CallInv'
  BY <1>12 DEF CallInv, Die, rows, gh, Goto
<1>13. ASSUME UNCHANGED vars PROVE  CallInv'
  BY <1>13 DEF CallInv, vars
<1> QED BY <1>1, <1>2, <1>3, <1>4, <1>5, <1>6, <1>7, <1>8, <1>9, <1>10,
  <1>11, <1>12, <1>13 DEF Next

(* The brief stays with its directory.                                     *)
LEMMA BriefStep ==
    ASSUME IInv, [Next]_vars
    PROVE  BriefInv'
<1> USE DEF IInv
<1>1. ASSUME NEW t \in Runs, NEW b \in Branches \cup {NoBranch},
             Dispatch(t, b)
      PROVE  BriefInv'
  BY <1>1 DEF BriefInv, Dispatch, dirs
<1>2. ASSUME NEW t \in Runs, NEW s \in {"review", "completed", "abandoned"},
             UpdateRunStatus(t, s)
      PROVE  BriefInv'
  BY <1>2 DEF BriefInv, UpdateRunStatus, dirs
<1>3. ASSUME NEW t \in Runs, RemoveWorkerDir(t) PROVE  BriefInv'
  BY <1>3 DEF BriefInv, RemoveWorkerDir
<1>4. ASSUME NEW p \in PRs, NEW t \in Runs, OpenPR(p, t)
      PROVE  BriefInv'
  BY <1>4 DEF BriefInv, OpenPR, dirs
<1>5. ASSUME NEW p \in PRs, MergePR(p) PROVE  BriefInv'
  BY <1>5 DEF BriefInv, MergePR, dirs
<1>6. ASSUME NEW p \in PRs, SetRunPrOpen(p) PROVE  BriefInv'
  BY <1>6 DEF BriefInv, SetRunPrOpen, dirs
<1>7. ASSUME NEW c \in Callers, NEW p \in PRs, NEW t \in Runs \cup {NoRun},
             Call(c, p, t)
      PROVE  BriefInv'
  BY <1>7 DEF BriefInv, Call, dirs
<1>8. ASSUME NEW c \in Callers, ResolveTask(c) PROVE  BriefInv'
  BY <1>8 DEF BriefInv, ResolveTask, dirs
<1>9. ASSUME NEW c \in Callers, CheckAlready(c) PROVE  BriefInv'
  BY <1>9 DEF BriefInv, CheckAlready, dirs
<1>10. ASSUME NEW c \in Callers, Write(c) PROVE  BriefInv'
  BY <1>10 DEF BriefInv, Write, dirs
<1>11. ASSUME NEW c \in Callers, CleanUp(c) PROVE  BriefInv'
  BY <1>11 DEF BriefInv, CleanUp
<1>12. ASSUME NEW c \in Callers, Die(c) PROVE  BriefInv'
  BY <1>12 DEF BriefInv, Die, dirs
<1>13. ASSUME UNCHANGED vars PROVE  BriefInv'
  BY <1>13 DEF BriefInv, vars
<1> QED BY <1>1, <1>2, <1>3, <1>4, <1>5, <1>6, <1>7, <1>8, <1>9, <1>10,
  <1>11, <1>12, <1>13 DEF Next

(* Urls stay with the owners of their pull requests.                       *)
LEMMA UrlStep ==
    ASSUME IInv, [Next]_vars
    PROVE  UrlInv'
<1> USE DEF IInv
<1>1. ASSUME NEW t \in Runs, NEW b \in Branches \cup {NoBranch},
             Dispatch(t, b)
      PROVE  UrlInv'
  BY <1>1 DEF UrlInv, Dispatch, gh, calls
<1>2. ASSUME NEW t \in Runs, NEW s \in {"review", "completed", "abandoned"},
             UpdateRunStatus(t, s)
      PROVE  UrlInv'
  BY <1>2 DEF UrlInv, UpdateRunStatus, gh, calls
<1>3. ASSUME NEW t \in Runs, RemoveWorkerDir(t) PROVE  UrlInv'
  BY <1>3 DEF UrlInv, RemoveWorkerDir, rows, gh, calls
<1>4. ASSUME NEW p \in PRs, NEW t \in Runs, OpenPR(p, t) PROVE  UrlInv'
  BY <1>4 DEF UrlInv, OpenPR, Runs, NoRun, rows, calls
<1>5. ASSUME NEW p \in PRs, MergePR(p) PROVE  UrlInv'
  BY <1>5 DEF UrlInv, MergePR, rows, calls
<1>6. ASSUME NEW p \in PRs, SetRunPrOpen(p) PROVE  UrlInv'
  <2>1. owner[p] \in Runs /\ pr_url' = [pr_url EXCEPT ![owner[p]] = p]
    BY <1>6 DEF SetRunPrOpen, TypeOK
  <2>2. UNCHANGED <<owner, merged, pr_merged, pc, pr, task>>
    BY <1>6 DEF SetRunPrOpen, gh, calls
  <2>3. \A q \in PRs : ~merged[q] =>
           \A t \in Runs : pr_merged[<<t, q>>] = 0 /\ (pr_url'[t] = q => t = owner[q])
    BY <2>1 DEF UrlInv, TypeOK
  <2>4. ASSUME NEW q \in prompt', q # p
        PROVE  /\ owner[q] \in Runs /\ pr_url'[owner[q]] = q
               /\ \A t \in Runs : pr_url'[t] = q => t = owner[q]
               /\ \A c \in Callers :
                     pr[c] = q /\ pc[c] \in {"check", "write"} => task[c] = owner[q]
    <3>1. q \in prompt /\ q # pr_url[owner[p]]
      BY <1>6, <2>4 DEF SetRunPrOpen
    <3>2. owner[q] # owner[p]
      BY <3>1 DEF UrlInv
    <3> QED BY <2>1, <2>4, <3>1, <3>2 DEF UrlInv, TypeOK
  <2>5. ASSUME p \in prompt'
        PROVE  /\ ~merged[p]
               /\ \A t \in Runs : pr_url'[t] = p => t = owner[p]
               /\ \A c \in Callers : pc[c] # "idle" => pr[c] # p
    <3>1. ~merged[p]
      BY <1>6, <2>5 DEF SetRunPrOpen, UrlInv
    <3> QED BY <2>3, <3>1 DEF CallInv
  <2>6. pr_url'[owner[p]] = p
    BY <2>1 DEF TypeOK
  <2> QED BY <2>1, <2>2, <2>3, <2>4, <2>5, <2>6 DEF UrlInv
<1>7. ASSUME NEW c \in Callers, NEW p \in PRs, NEW t \in Runs \cup {NoRun},
             Call(c, p, t)
      PROVE  UrlInv'
  BY <1>7 DEF UrlInv, Call, TypeOK, rows, gh, Goto
<1>8. ASSUME NEW c \in Callers, ResolveTask(c) PROVE  UrlInv'
  BY <1>8 DEF UrlInv, ResolveTask, TypeOK, Candidates, ByUrl, rows, gh,
    Goto, Return
<1>9. ASSUME NEW c \in Callers, CheckAlready(c) PROVE  UrlInv'
  BY <1>9 DEF UrlInv, CheckAlready, TypeOK, rows, gh, Goto, Return
<1>10. ASSUME NEW c \in Callers, Write(c) PROVE  UrlInv'
  BY <1>10 DEF UrlInv, Write, CallInv, gh, Goto
<1>11. ASSUME NEW c \in Callers, CleanUp(c) PROVE  UrlInv'
  BY <1>11 DEF UrlInv, CleanUp, rows, gh, Goto, Return
<1>12. ASSUME NEW c \in Callers, Die(c) PROVE  UrlInv'
  BY <1>12 DEF UrlInv, Die, rows, gh, Goto
<1>13. ASSUME UNCHANGED vars PROVE  UrlInv'
  BY <1>13 DEF UrlInv, vars
<1> QED BY <1>1, <1>2, <1>3, <1>4, <1>5, <1>6, <1>7, <1>8, <1>9, <1>10,
  <1>11, <1>12, <1>13 DEF Next

(* Row and event are written together.                                     *)
LEMMA EventStep ==
    ASSUME IInv, [Next]_vars
    PROVE  MergedIffEvent'
<1> USE DEF IInv
<1>1. ASSUME NEW t \in Runs, NEW b \in Branches \cup {NoBranch},
             Dispatch(t, b)
      PROVE  MergedIffEvent'
  BY <1>1 DEF MergedIffEvent, Dispatch, HasEvent
<1>2. ASSUME NEW t \in Runs, NEW s \in {"review", "completed", "abandoned"},
             UpdateRunStatus(t, s)
      PROVE  MergedIffEvent'
  BY <1>2 DEF MergedIffEvent, UpdateRunStatus, HasEvent
<1>3. ASSUME NEW t \in Runs, RemoveWorkerDir(t) PROVE  MergedIffEvent'
  BY <1>3 DEF MergedIffEvent, RemoveWorkerDir, HasEvent, rows
<1>4. ASSUME NEW p \in PRs, NEW t \in Runs, OpenPR(p, t)
      PROVE  MergedIffEvent'
  BY <1>4 DEF MergedIffEvent, OpenPR, HasEvent, rows
<1>5. ASSUME NEW p \in PRs, MergePR(p) PROVE  MergedIffEvent'
  BY <1>5 DEF MergedIffEvent, MergePR, HasEvent, rows
<1>6. ASSUME NEW p \in PRs, SetRunPrOpen(p) PROVE  MergedIffEvent'
  BY <1>6 DEF MergedIffEvent, SetRunPrOpen, HasEvent
<1>7. ASSUME NEW c \in Callers, NEW p \in PRs, NEW t \in Runs \cup {NoRun},
             Call(c, p, t)
      PROVE  MergedIffEvent'
  BY <1>7 DEF MergedIffEvent, Call, HasEvent, rows
<1>8. ASSUME NEW c \in Callers, ResolveTask(c) PROVE  MergedIffEvent'
  BY <1>8 DEF MergedIffEvent, ResolveTask, HasEvent, rows
<1>9. ASSUME NEW c \in Callers, CheckAlready(c) PROVE  MergedIffEvent'
  BY <1>9 DEF MergedIffEvent, CheckAlready, HasEvent, rows
<1>10. ASSUME NEW c \in Callers, Write(c) PROVE  MergedIffEvent'
  <2> DEFINE e == <<task[c], pr[c]>>
  <2>1. task[c] \in Runs /\ pr[c] \in PRs /\ e \in Runs \X PRs
    BY <1>10 DEF Write, CallInv
  <2>2. /\ pr_state' = [pr_state EXCEPT ![task[c]] = "merged"]
        /\ pr_merged' = [pr_merged EXCEPT ![e] = OneMore(@)]
    BY <1>10 DEF Write
  <2> HIDE DEF e
  <2>3. pr_merged'[e] > 0
    BY <2>1, <2>2, MergeCompletionAssumption DEF TypeOK, OneMore
  <2>4. \A t \in Runs \ {task[c]}, p \in PRs : pr_merged'[<<t, p>>] = pr_merged[<<t, p>>]
    BY <2>1, <2>2 DEF TypeOK, e
  <2>5. HasEvent(task[c])'
    BY <2>1, <2>3, <1>10 DEF HasEvent, e, Write
  <2>6. pr_state'[task[c]] = "merged"
    BY <2>1, <2>2 DEF TypeOK
  <2>7. ASSUME NEW t \in Runs PROVE pr_state'[t] = "merged" <=> HasEvent(t)'
    <3>1. CASE t = task[c]
      <4>1. task'[c] = task[c]
        BY <1>10 DEF Write
      <4> QED BY <2>5, <2>6, <3>1, <4>1
    <3>2. CASE t # task[c]
      <4>1. pr_state'[t] = pr_state[t]
        BY <2>1, <2>2, <3>2 DEF TypeOK
      <4>2. HasEvent(t)' <=> HasEvent(t)
        BY <2>4, <3>2 DEF HasEvent
      <4> QED BY <4>1, <4>2 DEF MergedIffEvent
    <3> QED BY <3>1, <3>2
  <2> QED BY <2>7 DEF MergedIffEvent
<1>11. ASSUME NEW c \in Callers, CleanUp(c) PROVE  MergedIffEvent'
  BY <1>11 DEF MergedIffEvent, CleanUp, HasEvent, rows
<1>12. ASSUME NEW c \in Callers, Die(c) PROVE  MergedIffEvent'
  BY <1>12 DEF MergedIffEvent, Die, HasEvent, rows
<1>13. ASSUME UNCHANGED vars PROVE  MergedIffEvent'
  BY <1>13 DEF MergedIffEvent, vars, HasEvent
<1> QED BY <1>1, <1>2, <1>3, <1>4, <1>5, <1>6, <1>7, <1>8, <1>9, <1>10,
  <1>11, <1>12, <1>13 DEF Next

(* Events go to the owners of back-filled pull requests.                   *)
LEMMA OwnerStep ==
    ASSUME IInv, [Next]_vars
    PROVE  BackfilledGoesToOwner'
<1> USE DEF IInv
<1>1. ASSUME NEW t \in Runs, NEW b \in Branches \cup {NoBranch},
             Dispatch(t, b)
      PROVE  BackfilledGoesToOwner'
  BY <1>1 DEF BackfilledGoesToOwner, Dispatch, gh
<1>2. ASSUME NEW t \in Runs, NEW s \in {"review", "completed", "abandoned"},
             UpdateRunStatus(t, s)
      PROVE  BackfilledGoesToOwner'
  BY <1>2 DEF BackfilledGoesToOwner, UpdateRunStatus, gh
<1>3. ASSUME NEW t \in Runs, RemoveWorkerDir(t)
      PROVE  BackfilledGoesToOwner'
  BY <1>3 DEF BackfilledGoesToOwner, RemoveWorkerDir, rows, gh
<1>4. ASSUME NEW p \in PRs, NEW t \in Runs, OpenPR(p, t)
      PROVE  BackfilledGoesToOwner'
  BY <1>4 DEF BackfilledGoesToOwner, OpenPR, Runs, NoRun, rows
<1>5. ASSUME NEW p \in PRs, MergePR(p) PROVE  BackfilledGoesToOwner'
  BY <1>5 DEF BackfilledGoesToOwner, MergePR, rows
<1>6. ASSUME NEW p \in PRs, SetRunPrOpen(p)
      PROVE  BackfilledGoesToOwner'
  <2>1. UNCHANGED <<owner, pr_merged>>
    BY <1>6 DEF SetRunPrOpen, gh
  <2>2. ASSUME NEW q \in prompt' \ prompt
        PROVE  q = p /\ ~merged[p]
    BY <1>6, <2>2 DEF SetRunPrOpen
  <2>3. ~merged[p] => \A t \in Runs : pr_merged[<<t, p>>] = 0
    BY DEF UrlInv
  <2> QED BY <2>1, <2>2, <2>3 DEF BackfilledGoesToOwner
<1>7. ASSUME NEW c \in Callers, NEW p \in PRs, NEW t \in Runs \cup {NoRun},
             Call(c, p, t)
      PROVE  BackfilledGoesToOwner'
  BY <1>7 DEF BackfilledGoesToOwner, Call, rows, gh
<1>8. ASSUME NEW c \in Callers, ResolveTask(c)
      PROVE  BackfilledGoesToOwner'
  BY <1>8 DEF BackfilledGoesToOwner, ResolveTask, rows, gh
<1>9. ASSUME NEW c \in Callers, CheckAlready(c)
      PROVE  BackfilledGoesToOwner'
  BY <1>9 DEF BackfilledGoesToOwner, CheckAlready, rows, gh
<1>10. ASSUME NEW c \in Callers, Write(c) PROVE  BackfilledGoesToOwner'
  <2> DEFINE e == <<task[c], pr[c]>>
  <2>1. /\ pr_merged' = [pr_merged EXCEPT ![e] = OneMore(@)]
        /\ prompt' \subseteq prompt /\ UNCHANGED owner
    BY <1>10 DEF Write, gh
  <2>2. pc[c] = "write" /\ pr[c] \in PRs
    BY <1>10 DEF Write, CallInv
  <2>3. ASSUME NEW p \in prompt', NEW t \in Runs, pr_merged'[<<t, p>>] > 0
        PROVE  owner[p] = t
    <3>1. CASE <<t, p>> = e
      BY <2>1, <2>2, <3>1 DEF UrlInv
    <3>2. CASE <<t, p>> # e
      <4>1. p \in PRs /\ pr_merged'[<<t, p>>] = pr_merged[<<t, p>>]
        BY <2>1, <3>2 DEF TypeOK
      <4> QED BY <2>1, <2>3, <4>1 DEF BackfilledGoesToOwner
    <3> QED BY <3>1, <3>2
  <2> QED BY <2>1, <2>3 DEF BackfilledGoesToOwner
<1>11. ASSUME NEW c \in Callers, CleanUp(c)
      PROVE  BackfilledGoesToOwner'
  BY <1>11 DEF BackfilledGoesToOwner, CleanUp, rows, gh
<1>12. ASSUME NEW c \in Callers, Die(c) PROVE  BackfilledGoesToOwner'
  BY <1>12 DEF BackfilledGoesToOwner, Die, rows, gh
<1>13. ASSUME UNCHANGED vars PROVE  BackfilledGoesToOwner'
  BY <1>13 DEF BackfilledGoesToOwner, vars
<1> QED BY <1>1, <1>2, <1>3, <1>4, <1>5, <1>6, <1>7, <1>8, <1>9, <1>10,
  <1>11, <1>12, <1>13 DEF Next

(* No step brings the brief of a completed run back.                       *)
LEMMA GoneStep ==
    ASSUME IInv, [Next]_vars
    PROVE  BriefGoneAfterMerge'
<1> USE DEF IInv
<1>1. ASSUME NEW t \in Runs, NEW b \in Branches \cup {NoBranch},
             Dispatch(t, b)
      PROVE  BriefGoneAfterMerge'
  BY <1>1 DEF BriefGoneAfterMerge, Dispatch, CallInv, dirs, calls
<1>2. ASSUME NEW t \in Runs, NEW s \in {"review", "completed", "abandoned"},
             UpdateRunStatus(t, s)
      PROVE  BriefGoneAfterMerge'
  BY <1>2 DEF BriefGoneAfterMerge, UpdateRunStatus, dirs, calls
<1>3. ASSUME NEW t \in Runs, RemoveWorkerDir(t)
      PROVE  BriefGoneAfterMerge'
  BY <1>3 DEF BriefGoneAfterMerge, RemoveWorkerDir, Runs, NoRun, CallInv,
    calls
<1>4. ASSUME NEW p \in PRs, NEW t \in Runs, OpenPR(p, t)
      PROVE  BriefGoneAfterMerge'
  BY <1>4 DEF BriefGoneAfterMerge, OpenPR, dirs, calls
<1>5. ASSUME NEW p \in PRs, MergePR(p) PROVE  BriefGoneAfterMerge'
  BY <1>5 DEF BriefGoneAfterMerge, MergePR, dirs, calls
<1>6. ASSUME NEW p \in PRs, SetRunPrOpen(p) PROVE  BriefGoneAfterMerge'
  BY <1>6 DEF BriefGoneAfterMerge, SetRunPrOpen, dirs, calls
<1>7. ASSUME NEW c \in Callers, NEW p \in PRs, NEW t \in Runs \cup {NoRun},
             Call(c, p, t)
      PROVE  BriefGoneAfterMerge'
  BY <1>7 DEF BriefGoneAfterMerge, Call, TypeOK, dirs
<1>8. ASSUME NEW c \in Callers, ResolveTask(c)
      PROVE  BriefGoneAfterMerge'
  BY <1>8, NoPRAssumption DEF BriefGoneAfterMerge, ResolveTask, TypeOK,
    Statuses, CallInv, UrlInv, dirs, Return
<1>9. ASSUME NEW c \in Callers, CheckAlready(c)
      PROVE  BriefGoneAfterMerge'
  BY <1>9 DEF BriefGoneAfterMerge, CheckAlready, TypeOK, dirs, Return
<1>10. ASSUME NEW c \in Callers, Write(c) PROVE  BriefGoneAfterMerge'
  BY <1>10 DEF BriefGoneAfterMerge, Write, dirs
<1>11. ASSUME NEW c \in Callers, CleanUp(c) PROVE  BriefGoneAfterMerge'
  <2>1. task[c] \in Runs /\ (brief = task[c] => task[c] \in root)
    BY <1>11 DEF CleanUp, CallInv, BriefInv, Runs, NoRun
  <2>2. ASSUME NEW d \in Callers, result'[d] = "merged"
        PROVE  brief' # task[d]
    <3>1. task[d] \in Runs
      BY <1>11, <2>1, <2>2 DEF CleanUp, Return, TypeOK, CallInv
    <3>2. NoRun \notin Runs
      BY DEF Runs, NoRun
    <3>3. CASE d = c
      BY <1>11, <2>1, <3>2, <3>3 DEF CleanUp
    <3>4. CASE d # c
      <4>1. result[d] = "merged"
        BY <1>11, <2>2, <3>4 DEF CleanUp, Return, TypeOK
      <4> QED BY <1>11, <3>1, <3>2, <4>1 DEF CleanUp, BriefGoneAfterMerge
    <3> QED BY <3>3, <3>4
  <2>3. UNCHANGED task
    BY <1>11 DEF CleanUp
  <2> QED BY <2>2, <2>3 DEF BriefGoneAfterMerge
<1>12. ASSUME NEW c \in Callers, Die(c) PROVE  BriefGoneAfterMerge'
  BY <1>12 DEF BriefGoneAfterMerge, Die, dirs
<1>13. ASSUME UNCHANGED vars PROVE  BriefGoneAfterMerge'
  BY <1>13 DEF BriefGoneAfterMerge, vars
<1> QED BY <1>1, <1>2, <1>3, <1>4, <1>5, <1>6, <1>7, <1>8, <1>9, <1>10,
  <1>11, <1>12, <1>13 DEF Next

(* The invariant is kept by every step.                                    *)
LEMMA Preservation ==
    ASSUME IInv, [Next]_vars
    PROVE  IInv'
BY TypeStep, KnownStep, CallStep, BriefStep, UrlStep, EventStep, OwnerStep, GoneStep
  DEF IInv

(* The invariant holds in every behaviour.                                 *)
LEMMA Invariance == Spec => []IInv
<1>1. Init => IInv
  <2> SUFFICES ASSUME Init PROVE IInv
    OBVIOUS
  <2>1. TypeOK
    BY MergeCompletionAssumption DEF Init, TypeOK, Runs, NoRun, Statuses
  <2>2. KnownInv /\ CallInv /\ BriefInv
    BY DEF Init, KnownInv, CallInv, BriefInv
  <2>3. UrlInv /\ BackfilledGoesToOwner
    BY NoPRAssumption DEF Init, UrlInv, BackfilledGoesToOwner
  <2>4. MergedIffEvent
    <3>1. \A t \in Runs, p \in PRs : pr_merged[<<t, p>>] = 0
      BY DEF Init
    <3>2. \A t \in Runs : pr_state[t] # "merged"
      BY DEF Init
    <3>3. ASSUME NEW t \in Runs PROVE ~HasEvent(t)
      <4>1. ASSUME NEW p \in PRs PROVE ~(pr_merged[<<t, p>>] > 0)
        <5>1. pr_merged[<<t, p>>] = 0
          BY <3>1
        <5> QED BY <5>1
      <4> QED BY <4>1 DEF HasEvent
    <3> QED BY <3>2, <3>3 DEF MergedIffEvent
  <2>5. BriefGoneAfterMerge
    BY DEF Init, BriefGoneAfterMerge
  <2> QED BY <2>1, <2>2, <2>3, <2>4, <2>5 DEF IInv
<1>2. IInv /\ [Next]_vars => IInv'
  BY Preservation
<1> QED BY <1>1, <1>2, PTL DEF Spec
-----------------------------------------------------------------------------
(* The calls that have found nothing and are about to record e.            *)
Writing(e) == {c \in Callers : pc[c] = "write" /\ <<task[c], pr[c]>> = e}

(* What is recorded of a merge and what may still be is within the number  *)
(* of calls: a call that finds an event does not get as far as writing.    *)
Bounded(e) == pr_merged[e] + Cardinality(Writing(e)) <= Cardinality(Callers)
CountInv == \A e \in Runs \X PRs : Bounded(e)

(* The calls are finitely many, and so are those that write.               *)
LEMMA WritingIsFinite ==
    ASSUME NEW e \in Runs \X PRs
    PROVE  /\ IsFiniteSet(Writing(e)) /\ Cardinality(Writing(e)) \in Nat
           /\ Cardinality(Writing(e)) <= Cardinality(Callers)
           /\ Cardinality(Callers) \in Nat
<1>1. Writing(e) \subseteq Callers /\ IsFiniteSet(Callers)
  BY MergeCompletionAssumption DEF Writing
<1> QED BY <1>1, FS_Subset, FS_CardinalityType

(* A step that records nothing and brings nobody to the write.             *)
LEMMA NothingRecorded ==
    ASSUME IInv, NEW e \in Runs \X PRs, Bounded(e),
           pr_merged'[e] = pr_merged[e], Writing(e)' \subseteq Writing(e)
    PROVE  Bounded(e)'
<1>1. pr_merged[e] \in Nat
  BY MergeCompletionAssumption DEF IInv, TypeOK
<1>2. /\ Cardinality(Writing(e)') \in Nat
      /\ Cardinality(Writing(e)') <= Cardinality(Writing(e))
      /\ Cardinality(Writing(e)) \in Nat /\ Cardinality(Callers) \in Nat
  BY WritingIsFinite, FS_Subset, FS_CardinalityType
<1> QED BY <1>1, <1>2 DEF Bounded

(* Whoever passes the check has found no event of the run.                 *)
LEMMA CheckFindsNone ==
    ASSUME IInv, NEW c \in Callers, pc[c] = "check", ~Already(task[c]), NEW p \in PRs
    PROVE  pr_merged[<<task[c], p>>] = 0
<1>1. task[c] \in Runs
  BY DEF IInv, CallInv
<1>2. ~HasEvent(task[c])
  BY <1>1 DEF IInv, MergedIffEvent, Already
<1>3. pr_merged[<<task[c], p>>] \in Nat
  BY <1>1, MergeCompletionAssumption DEF IInv, TypeOK
<1> QED BY <1>2, <1>3 DEF HasEvent

(* Every step keeps the count.                                             *)
LEMMA CountStep ==
    ASSUME IInv, CountInv, [Next]_vars
    PROVE  CountInv'
<1> SUFFICES ASSUME NEW e \in Runs \X PRs PROVE Bounded(e)'
  BY DEF CountInv
<1>1. IInv' /\ Bounded(e)
  BY Preservation DEF CountInv
<1>2. CASE UNCHANGED <<pr_merged, pc, pr, task>>
  <2>1. Writing(e)' = Writing(e)
    BY <1>2 DEF Writing
  <2> QED BY <1>1, <1>2, <2>1, NothingRecorded
<1>3. ASSUME NEW c \in Callers, pc[c] # "write", pc'[c] # "write",
             \A d \in Callers \ {c} : pc'[d] = pc[d] /\ pr'[d] = pr[d] /\ task'[d] = task[d],
             UNCHANGED pr_merged
      PROVE  Bounded(e)'
  <2>1. Writing(e)' \subseteq Writing(e)
    BY <1>3 DEF Writing
  <2> QED BY <1>1, <1>3, <2>1, NothingRecorded
<1>4. ASSUME NEW c \in Callers, CheckAlready(c) PROVE Bounded(e)'
  <2>1. CASE Already(task[c])
    BY <1>3, <1>4, <2>1 DEF CheckAlready, Return, Goto, rows, IInv, TypeOK
  <2>2. CASE ~Already(task[c]) /\ e[1] # task[c]
    <3>1. Writing(e)' \subseteq Writing(e) /\ UNCHANGED pr_merged
      BY <1>4, <2>2 DEF CheckAlready, Goto, rows, IInv, TypeOK, Writing
    <3> QED BY <1>1, <3>1, NothingRecorded
  <2>3. CASE ~Already(task[c]) /\ e[1] = task[c]
    <3>1. e[2] \in PRs /\ e = <<task[c], e[2]>>
      BY <2>3
    <3>2. pr_merged'[e] = 0
      BY <1>4, <2>3, <3>1, CheckFindsNone DEF CheckAlready, rows
    <3>3. /\ Cardinality(Writing(e)') \in Nat
          /\ Cardinality(Writing(e)') <= Cardinality(Callers)
      <4>1. Writing(e)' \subseteq Callers /\ IsFiniteSet(Callers)
        BY MergeCompletionAssumption DEF Writing
      <4> QED BY <4>1, FS_Subset, FS_CardinalityType
    <3> QED BY <3>2, <3>3 DEF Bounded
  <2> QED BY <2>1, <2>2, <2>3
<1>5. ASSUME NEW c \in Callers, Write(c) PROVE Bounded(e)'
  <2>1. UNCHANGED <<pr, task>> /\ pc' = [pc EXCEPT ![c] = "clean"]
    BY <1>5 DEF Write, Goto
  <2>2. CASE e # <<task[c], pr[c]>>
    <3>1. Writing(e)' \subseteq Writing(e) /\ pr_merged'[e] = pr_merged[e]
      BY <1>5, <2>1, <2>2 DEF Write, IInv, TypeOK, Writing
    <3> QED BY <1>1, <3>1, NothingRecorded
  <2>3. CASE e = <<task[c], pr[c]>>
    <3>1. c \in Writing(e) /\ Writing(e)' = Writing(e) \ {c}
      BY <1>5, <2>1, <2>3 DEF Write, IInv, TypeOK, Writing
    <3>2. Cardinality(Writing(e)') = Cardinality(Writing(e)) - 1
      BY <3>1, WritingIsFinite, FS_RemoveElement
    <3>3. pr_merged[e] \in Nat /\ pr_merged'[e] \in Nat /\ pr_merged'[e] <= pr_merged[e] + 1
      BY <1>5, <2>3, MergeCompletionAssumption DEF Write, IInv, TypeOK, OneMore
    <3>4. Cardinality(Writing(e)) \in Nat /\ Cardinality(Callers) \in Nat
      BY WritingIsFinite
    <3> QED BY <1>1, <3>2, <3>3, <3>4 DEF Bounded
  <2> QED BY <2>2, <2>3
<1>6. ASSUME NEW c \in Callers, Die(c) PROVE Bounded(e)'
  <2>1. Writing(e)' \subseteq Writing(e) /\ UNCHANGED pr_merged
    BY <1>6 DEF Die, Goto, rows, IInv, TypeOK, Writing
  <2> QED BY <1>1, <2>1, NothingRecorded
<1>7. ASSUME NEW c \in Callers, ResolveTask(c) \/ CleanUp(c) PROVE Bounded(e)'
  <2>1. pc[c] # "write" /\ pc'[c] # "write"
    BY <1>7 DEF ResolveTask, CleanUp, Return, Goto, IInv, TypeOK
  <2>2. /\ \A d \in Callers \ {c} : pc'[d] = pc[d] /\ pr'[d] = pr[d] /\ task'[d] = task[d]
        /\ UNCHANGED pr_merged
    BY <1>7 DEF ResolveTask, CleanUp, Return, Goto, rows, IInv, TypeOK
  <2> QED BY <1>3, <2>1, <2>2
<1>8. ASSUME NEW c \in Callers, NEW p \in PRs, NEW t \in Runs \cup {NoRun}, Call(c, p, t)
      PROVE  Bounded(e)'
  BY <1>3, <1>8 DEF Call, Goto, rows, IInv, TypeOK
<1>9. CASE UNCHANGED vars
  BY <1>2, <1>9 DEF vars
<1>10. ASSUME NEW t \in Runs, NEW b \in Branches \cup {NoBranch}, Dispatch(t, b)
       PROVE  Bounded(e)'
  BY <1>2, <1>10 DEF Dispatch, calls
<1>11. ASSUME NEW t \in Runs, RemoveWorkerDir(t) PROVE Bounded(e)'
  BY <1>2, <1>11 DEF RemoveWorkerDir, rows, calls
<1>12. ASSUME NEW t \in Runs, NEW s \in {"review", "completed", "abandoned"},
              UpdateRunStatus(t, s)
       PROVE  Bounded(e)'
  BY <1>2, <1>12 DEF UpdateRunStatus, calls
<1>13. ASSUME NEW p \in PRs, NEW t \in Runs, OpenPR(p, t) PROVE Bounded(e)'
  BY <1>2, <1>13 DEF OpenPR, rows, calls
<1>14. ASSUME NEW p \in PRs, MergePR(p) \/ SetRunPrOpen(p) PROVE Bounded(e)'
  BY <1>2, <1>14 DEF MergePR, SetRunPrOpen, rows, calls
<1> QED BY <1>4, <1>5, <1>6, <1>7, <1>8, <1>9, <1>10, <1>11, <1>12, <1>13, <1>14
  DEF Next
-----------------------------------------------------------------------------
(* The variables have their types.                                         *)
THEOREM TypeCorrect == Spec => []TypeOK
<1>1. IInv => TypeOK
  BY DEF IInv
<1> QED BY <1>1, Invariance, PTL

(* A row is marked as merged if and only if there is an event for the run  *)
(* (complete_on_merge), however calls overlap and wherever they die.       *)
THEOREM MergedHasEvent == Spec => []MergedIffEvent
<1>1. IInv => MergedIffEvent
  BY DEF IInv
<1> QED BY <1>1, Invariance, PTL

(* A merge is recorded for the run that opened the pull request if its url *)
(* was back-filled in time (set_run_pr_open), even when later runs use the *)
(* branch again.                                                           *)
THEOREM MergeGoesToOwner == Spec => []BackfilledGoesToOwner
<1>1. IInv => BackfilledGoesToOwner
  BY DEF IInv
<1> QED BY <1>1, Invariance, PTL

(* A call that succeeded has left no brief of its run in the root          *)
(* (cleanup_pattern_c_local_md), and no later step brings it back.         *)
THEOREM BriefStaysGone == Spec => []BriefGoneAfterMerge
<1>1. IInv => BriefGoneAfterMerge
  BY DEF IInv
<1> QED BY <1>1, Invariance, PTL

(* A merge is recorded at most once per call that can overlap another,     *)
(* however often complete_on_merge is repeated and wherever it dies.       *)
THEOREM RecordedOnce == Spec => []RecordedOncePerCaller
<1>1. Init => CountInv
  <2> SUFFICES ASSUME Init, NEW e \in Runs \X PRs PROVE Bounded(e)
    BY DEF CountInv
  <2>1. pr_merged[e] = 0
    BY DEF Init
  <2> QED BY <2>1, WritingIsFinite DEF Bounded
<1>2. CountInv /\ IInv => RecordedOncePerCaller
  <2> SUFFICES ASSUME CountInv, IInv, NEW e \in Runs \X PRs
               PROVE  pr_merged[e] <= Cardinality(Callers)
    BY DEF RecordedOncePerCaller
  <2>1. pr_merged[e] \in Nat
    BY MergeCompletionAssumption DEF IInv, TypeOK
  <2> QED BY <2>1, WritingIsFinite DEF CountInv, Bounded
<1>3. IInv /\ CountInv /\ [Next]_vars => CountInv'
  BY CountStep
<1> QED BY <1>1, <1>2, <1>3, Invariance, PTL DEF Spec
=============================================================================
