------------------------------ MODULE PrWatch ------------------------------
(***************************************************************************)
(* tools/pr_watch.py: watchers of one pull request. A round reads the head *)
(* of the branch, watches the CI checks until they are decided, reads the  *)
(* head again, records the verdict and pushes it to the secretary; after a *)
(* pass a watcher that opted in waits for the merge of that head and goes  *)
(* back to the checks when the branch moves. GitHub, the people who push   *)
(* and merge, and the relay of recorded events run concurrently.           *)
(*                                                                         *)
(* complete_on_merge is one step here; MergeCompletion takes it apart.     *)
(***************************************************************************)
EXTENDS Naturals

CONSTANTS
    Watchers,     \* pr_watch processes
    MaxHead,      \* bound: commits pushed to the branch
    MaxProbes,    \* bound: probes in the budget of _resolve_final_status
    FaultSets,    \* what may go wrong in a behaviour, one of these sets of
                  \*   "probes"  a headRefOid read fails
                  \*   "rewinds" a force push brings an older head back
                  \*   "steps"   the database or an exception stops a step
    Owner,        \* whether another process may complete the merge
    Relayed       \* bound: kinds of events whose relay is followed

Heads  == 1..MaxHead
NoHead == 0

(* What gh reports of a head: no rows yet, running, one red with a sibling *)
(* still running, all green, all decided with a red.                       *)
CheckStates == {"empty", "running", "failing", "passed", "failed"}
Decided     == {"passed", "failed"}
Verdicts    == Decided \cup {"incomplete", "indeterminate", "canceled", "none"}

EventKinds == {"ci_completed", "pr_merged", "pr_merged_no_run",
               "pr_merged_head_unconfirmed", "pr_merge_watch_timeout",
               "pr_watch_aborted", "notify_failed"}

ASSUME PrWatchAssumption ==
    /\ MaxHead \in Nat \ {0}
    /\ MaxProbes \in Nat \ {0}
    /\ FaultSets \subseteq SUBSET {"probes", "rewinds", "steps"}
    /\ Owner \in BOOLEAN
    /\ Relayed \subseteq EventKinds

(* seen is not in the payload: the head the deciding probe was about.      *)
Events == [kind : EventKinds, status : Verdicts,
           head : Heads \cup {NoHead}, seen : Heads \cup {NoHead}]

Event(k, h) == [kind |-> k, status |-> "none", head |-> h, seen |-> NoHead]
Nothing     == Event("ci_completed", NoHead)

VARIABLES
    live,     \* headRefOid of the branch
    checks,   \* checks by head
    merged,   \* head that was merged, or NoHead
    faults,   \* the faults of this behaviour
    run,      \* the runs row of the PR: "none", "open", "merged"
    journal,  \* events recorded
    heard,    \* events the secretary was told of: <<"push" or "relay", event>>
    pc,       \* where each watcher is
    merge_watch, \* its --merge-watch option
    base,     \* head_before, then head_oid, then baseline_head
    say,      \* event it is about to record or to push
    tries,    \* probes the resolver has made
    last,     \* last_summary of the resolver: "none", "empty", "running"
    exit      \* how it ended

github   == <<live, checks, merged, faults>>
records  == <<run, journal, heard>>
resolver == <<tries, last>>
vars == <<live, checks, merged, faults, run, journal, heard, pc, merge_watch, base,
          say, tries, last, exit>>

Phases == {"idle", "before", "startup", "poll", "resolve", "after", "record",
           "push", "merge", "abort", "done"}

(* Exit statuses 0, 1, 2, 8, 9, an exception, a kill; "none" while running.*)
Exits == {"none", "ok", "red", "canceled", "undecided", "unmerged", "raised",
          "killed"}

TypeOK ==
    /\ live \in Heads
    /\ checks \in [Heads -> CheckStates]
    /\ merged \in Heads \cup {NoHead}
    /\ faults \in FaultSets
    /\ run \in {"none", "open", "merged"}
    /\ journal \subseteq Events
    /\ heard \subseteq {"push", "relay"} \X Events
    /\ pc \in [Watchers -> Phases]
    /\ merge_watch \in [Watchers -> BOOLEAN]
    /\ base \in [Watchers -> Heads \cup {NoHead}]
    /\ say \in [Watchers -> Events]
    /\ tries \in [Watchers -> 0..MaxProbes]
    /\ last \in [Watchers -> {"none", "empty", "running"}]
    /\ exit \in [Watchers -> Exits]

Init ==
    /\ live = 1
    /\ checks = [h \in Heads |-> "empty"]
    /\ merged = NoHead
    /\ faults \in FaultSets
    /\ run \in {"none", "open"}
    /\ journal = {}
    /\ heard = {}
    /\ pc = [w \in Watchers |-> "idle"]
    /\ merge_watch \in [Watchers -> BOOLEAN]
    /\ base = [w \in Watchers |-> NoHead]
    /\ say = [w \in Watchers |-> Nothing]
    /\ tries = [w \in Watchers |-> 0]
    /\ last = [w \in Watchers |-> "none"]
    /\ exit = [w \in Watchers |-> "none"]
-----------------------------------------------------------------------------
(* The pull request                                                        *)

PushCommit ==
    /\ merged = NoHead
    /\ \E h \in Heads : /\ h = live + 1 \/ ("rewinds" \in faults /\ h < live)
                        /\ live' = h
    /\ UNCHANGED <<checks, merged, faults, records, pc, merge_watch, base, say,
                   resolver, exit>>

CheckSteps == {<<"empty", "running">>, <<"running", "failing">>,
               <<"running", "passed">>, <<"running", "failed">>,
               <<"failing", "failed">>}

ChecksProgress ==
    /\ \E s \in CheckStates : /\ <<checks[live], s>> \in CheckSteps
                              /\ checks' = [checks EXCEPT ![live] = s]
    /\ UNCHANGED <<live, merged, faults, records, pc, merge_watch, base, say,
                   resolver, exit>>

Merge ==
    /\ merged = NoHead
    /\ merged' = live
    /\ UNCHANGED <<live, checks, faults, records, pc, merge_watch, base, say,
                   resolver, exit>>

(* What complete_on_merge leaves: the first caller marks the run and       *)
(* records pr_merged, the others and a PR without a run leave nothing.     *)
MergeRecords ==
    /\ run' = IF run = "open" THEN "merged" ELSE run
    /\ journal' = IF run = "open"
                  THEN journal \cup {Event("pr_merged", merged)}
                  ELSE journal

(* The secretary runs tools/run_complete_on_merge.py by hand.              *)
OwnerCompletes ==
    /\ Owner
    /\ merged # NoHead
    /\ run = "open"
    /\ MergeRecords
    /\ UNCHANGED <<github, heard, pc, merge_watch, base, say, resolver, exit>>
-----------------------------------------------------------------------------
(* A ci-watch round                                                        *)

Goto(w, p) == pc' = [pc EXCEPT ![w] = p]

HeadProbe == {live} \cup (IF "probes" \in faults THEN {NoHead} ELSE {})

(* What a probe of the checks may bring: those of the live head, or        *)
(* nothing that parses.                                                    *)
ChecksProbe == {checks[live], "unreadable"}

Start(w) ==
    /\ pc[w] = "idle"
    /\ Goto(w, "before")
    /\ UNCHANGED <<github, records, merge_watch, base, say, resolver, exit>>

(* head_before.                                                            *)
ReadHeadBefore(w) ==
    /\ pc[w] = "before"
    /\ \E h \in HeadProbe : base' = [base EXCEPT ![w] = h]
    /\ Goto(w, "startup")
    /\ UNCHANGED <<github, records, merge_watch, say, resolver, exit>>

(* _summarize_checks: one red check makes the status failed, whatever its  *)
(* siblings do.                                                            *)
StatusOf(c) == IF c = "failing" THEN "failed" ELSE c

(* Mistake: any failed status ends the watch.                              *)
AllDecidedOnRed(c) == c \in Decided \cup {"failing"}

(* Mistake: only a red ends the watch, as gh's own --watch waits on        *)
(* skipped checks.                                                         *)
AllDecidedNeverGreen(c) == c = "failed"

(* pending_count = 0 on a list that is not empty.                          *)
AllDecided(c) == c \in Decided

(* A verdict is resolved from a probe of the live head.                    *)
Resolve(w, status) ==
    /\ say' = [say EXCEPT ![w] = [Nothing EXCEPT !.status = status, !.seen = live]]
    /\ Goto(w, "after")

(* _evaluate_startup_state: the rollup, when every check is decided.       *)
Startup(w, c) ==
    /\ pc[w] = "startup"
    /\ IF AllDecided(c) THEN Resolve(w, StatusOf(c))
                        ELSE Goto(w, "poll") /\ UNCHANGED say
    /\ UNCHANGED <<github, records, merge_watch, base, resolver, exit>>

(* _self_poll_watch: running checks are polled without bound, whether or   *)
(* not one of them is red already; nothing to read goes to the resolver.   *)
SelfPoll(w, c) ==
    /\ pc[w] = "poll"
    /\ \/ /\ AllDecided(c)
          /\ Resolve(w, StatusOf(c))
          /\ UNCHANGED resolver
       \/ /\ c \in {"empty", "unreadable"}
          /\ Goto(w, "resolve")
          /\ tries' = [tries EXCEPT ![w] = 0]
          /\ last' = [last EXCEPT ![w] = "none"]
          /\ UNCHANGED say
    /\ UNCHANGED <<github, records, merge_watch, base, exit>>

(* Mistake: one probe more than the budget.                                *)
BudgetLeftLate(n) == n <= MaxProbes

(* The deadline has not passed after n probes.                             *)
BudgetLeft(n) == n < MaxProbes

(* _resolve_final_status and the loop around it: a red one with siblings   *)
(* still running goes back to the poll, an empty or running one is kept    *)
(* as last_summary until the budget ends.                                  *)
ResolverProbe(w, c) ==
    LET summary == IF c = "unreadable" THEN last[w] ELSE c IN
    /\ pc[w] = "resolve"
    /\ \/ /\ AllDecided(c)
          /\ Resolve(w, StatusOf(c))
          /\ UNCHANGED resolver
       \/ /\ c = "failing"
          /\ ~AllDecided(c)
          /\ Goto(w, "poll")
          /\ UNCHANGED <<say, resolver>>
       \/ /\ c \in {"empty", "running", "unreadable"}
          /\ tries' = [tries EXCEPT ![w] = @ + 1]
          /\ last' = [last EXCEPT ![w] = summary]
          /\ \/ /\ BudgetLeft(tries[w] + 1)
                /\ UNCHANGED <<pc, say>>
             \/ /\ ~BudgetLeft(tries[w] + 1)
                /\ CASE summary = "running" -> Goto(w, "poll") /\ UNCHANGED say
                     [] summary = "empty"   -> Resolve(w, "incomplete")
                     [] summary = "none"    -> Resolve(w, "indeterminate")
    /\ UNCHANGED <<github, records, merge_watch, base, exit>>

(* SIGINT during the probes: a canceled verdict without a head.            *)
Interrupt(w) ==
    /\ pc[w] \in {"startup", "poll", "resolve"}
    /\ say' = [say EXCEPT ![w] = [Nothing EXCEPT !.status = "canceled"]]
    /\ base' = [base EXCEPT ![w] = NoHead]
    /\ Goto(w, "record")
    /\ UNCHANGED <<github, records, merge_watch, resolver, exit>>

(* Mistake: the head is read and never compared.                           *)
AdvancedIgnored(b, h) == FALSE

(* The branch has a new head; an unknown head counts as no change.         *)
Advanced(b, h) == NoHead \notin {b, h} /\ b # h

(* Back to a fresh round: "head_changed".                                  *)
Restart(w) ==
    /\ Goto(w, "before")
    /\ base' = [base EXCEPT ![w] = NoHead]
    /\ say' = [say EXCEPT ![w] = Nothing]

(* head_after: a head that moved across the round discards the verdict,    *)
(* otherwise it is tagged with head_before, or head_after failing that.    *)
ReadHeadAfter(w) ==
    /\ pc[w] = "after"
    /\ \E h \in HeadProbe :
          \/ /\ Advanced(base[w], h)
             /\ Restart(w)
          \/ /\ ~Advanced(base[w], h)
             /\ LET head_oid == IF base[w] # NoHead THEN base[w] ELSE h IN
                   /\ base' = [base EXCEPT ![w] = head_oid]
                   /\ say' = [say EXCEPT ![w].head = head_oid]
             /\ Goto(w, "record")
    /\ UNCHANGED <<github, records, merge_watch, resolver, exit>>
-----------------------------------------------------------------------------
(* Recording and pushing                                                   *)

(* _record_ci_completed, _record_event: committed before the push.         *)
Record(w) ==
    /\ pc[w] = "record"
    /\ journal' = journal \cup {say[w]}
    /\ Goto(w, "push")
    /\ UNCHANGED <<github, run, heard, merge_watch, base, say, resolver, exit>>

ExitOf(e) ==
    CASE e.kind = "ci_completed" ->
            (CASE e.status = "passed"   -> "ok"
               [] e.status = "failed"   -> "red"
               [] e.status = "canceled" -> "canceled"
               [] OTHER                 -> "undecided")
      [] e.kind = "pr_merged"        -> "ok"
      [] e.kind = "pr_watch_aborted" -> "raised"
      [] OTHER                       -> "unmerged"

(* _notify_or_record, then on to merge-watch after a pass or to the end.   *)
PushSignal(w) ==
    /\ pc[w] = "push"
    /\ \/ heard' = heard \cup {<<"push", say[w]>>} /\ UNCHANGED journal
       \/ UNCHANGED <<heard, journal>>
       \/ /\ journal' = journal \cup {Event("notify_failed", NoHead)}
          /\ UNCHANGED heard
    /\ IF say[w].kind = "ci_completed" /\ say[w].status = "passed" /\ merge_watch[w]
       THEN Goto(w, "merge") /\ UNCHANGED exit
       ELSE Goto(w, "done") /\ exit' = [exit EXCEPT ![w] = ExitOf(say[w])]
    /\ UNCHANGED <<github, run, merge_watch, base, say, resolver>>
-----------------------------------------------------------------------------
(* Merge-watch                                                             *)

(* Mistake: every merge is announced as a clean one.                       *)
MergeKindClean(baseline) == IF run = "none" THEN "pr_merged_no_run" ELSE "pr_merged"

(* What is announced of a merge, and which of it complete_on_merge has not *)
(* recorded itself.                                                        *)
MergeKind(baseline) ==
    IF baseline # NoHead /\ merged # baseline THEN "pr_merged_head_unconfirmed"
    ELSE IF run = "none" THEN "pr_merged_no_run" ELSE "pr_merged"

(* Mistake: the peer message is all there is of it.                        *)
AnnouncePeerOnly(kind) == "push"

Announce(kind) == IF kind = "pr_merged" THEN "push" ELSE "record"

(* The view shows the merge: complete_on_merge runs, and what is announced *)
(* depends on whether the merged head is the one whose checks were seen.   *)
MergeSeen(w) ==
    /\ pc[w] = "merge"
    /\ merged # NoHead
    /\ MergeRecords
    /\ say' = [say EXCEPT ![w] = Event(MergeKind(base[w]), merged)]
    /\ Goto(w, Announce(MergeKind(base[w])))
    /\ UNCHANGED <<github, heard, merge_watch, base, resolver, exit>>

(* complete_on_merge raises, before or after its commit: "error".          *)
MergeRaises(w) ==
    /\ "steps" \in faults
    /\ pc[w] = "merge"
    /\ merged # NoHead
    /\ MergeRecords \/ UNCHANGED <<run, journal>>
    /\ Goto(w, "done")
    /\ exit' = [exit EXCEPT ![w] = "unmerged"]
    /\ UNCHANGED <<github, heard, merge_watch, base, say, resolver>>

(* The branch has moved away from the head of the verdict.                 *)
HeadMoved(w) ==
    /\ pc[w] = "merge"
    /\ merged = NoHead
    /\ Advanced(base[w], live)
    /\ Restart(w)
    /\ UNCHANGED <<github, records, merge_watch, resolver, exit>>

(* The 24 hours are over and the last view, or its failure, settled        *)
(* nothing.                                                                *)
MergeTimeout(w) ==
    /\ pc[w] = "merge"
    /\ say' = [say EXCEPT ![w] = Event("pr_merge_watch_timeout", base[w])]
    /\ Goto(w, "record")
    /\ UNCHANGED <<github, records, merge_watch, base, resolver, exit>>
-----------------------------------------------------------------------------
(* Failures                                                                *)

(* An exception leaves _watch_loop.                                        *)
Raise(w) ==
    /\ "steps" \in faults
    /\ pc[w] \in {"before", "startup", "poll", "resolve", "after", "record", "merge"}
    /\ say' = [say EXCEPT ![w] = Event("pr_watch_aborted", NoHead)]
    /\ Goto(w, "abort")
    /\ UNCHANGED <<github, records, merge_watch, base, resolver, exit>>

(* main records the abort if it can; the exception goes on.                *)
Abort(w) ==
    /\ pc[w] = "abort"
    /\ \/ /\ journal' = journal \cup {say[w]}
          /\ Goto(w, "push")
          /\ UNCHANGED exit
       \/ /\ Goto(w, "done")
          /\ exit' = [exit EXCEPT ![w] = "raised"]
          /\ UNCHANGED journal
    /\ UNCHANGED <<github, run, heard, merge_watch, base, say, resolver>>

(* The pane is closed, or an interrupt reaches a step outside the probes.  *)
Kill(w) ==
    /\ pc[w] \notin {"idle", "done"}
    /\ Goto(w, "done")
    /\ exit' = [exit EXCEPT ![w] = "killed"]
    /\ UNCHANGED <<github, records, merge_watch, base, say, resolver>>

(* relay_scan and the dispatcher hand a recorded event to the secretary;   *)
(* every kind above is in TERMINAL_KINDS.                                  *)
Relay ==
    /\ \E e \in journal : /\ e.kind \in Relayed
                          /\ heard' = heard \cup {<<"relay", e>>}
    /\ UNCHANGED <<github, run, journal, pc, merge_watch, base, say, resolver, exit>>
-----------------------------------------------------------------------------
Round(w) ==
    \/ ReadHeadBefore(w) \/ ReadHeadAfter(w) \/ Record(w) \/ PushSignal(w)
    \/ \E c \in ChecksProbe : Startup(w, c) \/ SelfPoll(w, c) \/ ResolverProbe(w, c)

Next ==
    \/ PushCommit \/ ChecksProgress \/ Merge \/ OwnerCompletes \/ Relay
    \/ \E w \in Watchers :
          \/ Start(w) \/ Round(w) \/ Interrupt(w)
          \/ MergeSeen(w) \/ MergeRaises(w) \/ HeadMoved(w) \/ MergeTimeout(w)
          \/ Raise(w) \/ Abort(w) \/ Kill(w)

Spec == Init /\ [][Next]_vars

(* A watcher that lives goes on; its polls parse now and then, its         *)
(* resolver may find nothing that does; CI decides every head that stays   *)
(* live; the views of merge-watch do not fail forever.                     *)
Fairness ==
    /\ WF_vars(ChecksProgress)
    /\ \A w \in Watchers :
          /\ WF_vars(ReadHeadBefore(w) \/ ReadHeadAfter(w))
          /\ WF_vars(Record(w) \/ PushSignal(w))
          /\ WF_vars(\E c \in ChecksProbe : Startup(w, c))
          /\ WF_vars(SelfPoll(w, checks[live]))
          /\ WF_vars(\E c \in ChecksProbe : ResolverProbe(w, c))
          /\ WF_vars(MergeSeen(w))
          /\ WF_vars(HeadMoved(w))

FairSpec == Spec /\ Fairness
-----------------------------------------------------------------------------
(* Properties                                                              *)

(* A verdict is tagged with the head whose checks it was read from: what   *)
(* the two head reads around a round are for, as long as they succeed and  *)
(* the branch only advances.                                               *)
VerdictMatchesHead ==
    faults \cap {"probes", "rewinds"} = {} =>
        \A e \in journal :
            /\ e.kind = "ci_completed"
            /\ e.status \in Decided
            /\ e.head # NoHead
            => e.seen = e.head

(* A watcher announces a clean merge only of a head for which a pass was   *)
(* recorded, however pushes and the merge fall between its polls. Under    *)
(* the same assumption, since an unknown head counts as no change.         *)
CleanMergeWasConfirmed ==
    faults \cap {"probes", "rewinds"} = {} =>
        \A m \in heard :
            m[1] = "push" /\ m[2].kind = "pr_merged" =>
                \E e \in journal : /\ e.kind = "ci_completed"
                                   /\ e.status = "passed"
                                   /\ e.head = m[2].head
                                   /\ e.seen = m[2].head

(* No terminal signal is peer-only: what the secretary was told of is in   *)
(* the journal for the relay and for a later reader.                       *)
EventBeforePush ==
    \A m \in heard : \E e \in journal : e.kind = m[2].kind /\ e.head = m[2].head

(* A verdict waits for every check of its head: neither a red with a       *)
(* sibling still running nor an empty list is taken for a decision.        *)
VerdictWaitsForAllChecks ==
    \A e \in journal :
        e.kind = "ci_completed" /\ e.status \in Decided
            => checks[e.seen] = e.status

(* A merge-watch does not sit on a verdict for an older head: when the     *)
(* branch stays on a new one, that head gets a verdict, unless the watcher *)
(* ends or the PR merges.                                                  *)
NewHeadGetsVerdict ==
    \A w \in Watchers, h \in Heads :
        (pc[w] = "merge" /\ live = h)
            ~> \/ \E e \in journal : e.kind = "ci_completed" /\ e.head = h
               \/ live # h \/ merged # NoHead \/ pc[w] = "done"

(* Every round that starts ends with a recorded verdict or a dead watcher. *)
RoundEnds ==
    \A w \in Watchers : (pc[w] = "before") ~> (pc[w] \in {"merge", "done"})

(* What a comment of pr_watch says and the code does not keep.             *)

(* tools/pr_watch.py:1131: a merge at an unconfirmed head is not reported  *)
(* as a clean PR_MERGED.                                                   *)
UnconfirmedNotReportedClean ==
    \A m \in heard, e \in journal :
        e.kind = "pr_merged_head_unconfirmed" /\ m[2].kind = "pr_merged"
            => e.head # m[2].head
=============================================================================
