--------------------------- MODULE PrWatch_proofs ---------------------------
(***************************************************************************)
(* Proofs about PrWatch for any number of watchers, heads and probes.      *)
(***************************************************************************)
EXTENDS PrWatch, TLAPS

(* Every head read succeeds and the branch only advances.                  *)
Reliable == faults \cap {"probes", "rewinds"} = {}

(* A verdict that was read from checks, those checks, and the tag.         *)
IsVerdict(e) == e.kind = "ci_completed" /\ e.status \in Decided
WasRead(e)   == IsVerdict(e) => e.seen \in Heads /\ checks[e.seen] = e.status
Matches(e)   == IsVerdict(e) /\ e.head # NoHead => e.seen = e.head

(* A pass of head h is recorded.                                           *)
Confirmed(h) == \E e \in journal : /\ e.kind = "ci_completed" /\ e.status = "passed"
                                   /\ e.head = h /\ e.seen = h

(* What a watcher is about to say was read from the checks, and belongs to *)
(* the phase that it is in.                                                *)
SayInv(w) ==
    /\ WasRead(say[w])
    /\ pc[w] = "resolve" => tries[w] < MaxProbes
    /\ pc[w] = "after" => say[w].kind = "ci_completed" /\ say[w].head = NoHead
    /\ pc[w] = "record" => say[w].kind # "pr_merged"
    /\ pc[w] = "abort" => say[w].kind = "pr_watch_aborted"
    /\ pc[w] \in {"record", "push"} /\ IsVerdict(say[w]) => say[w].head = base[w]
    /\ pc[w] = "push" => say[w] \in journal

(* With reliable reads: the head read before a round is at most the one    *)
(* the verdict was read for, and that one at most the live head; a merge   *)
(* watch rests on a recorded pass of its head.                             *)
RoundInv(w) ==
    /\ Matches(say[w])
    /\ pc[w] \in {"startup", "poll", "resolve", "after"}
          => base[w] \in Heads /\ base[w] <= live
    /\ pc[w] = "after" /\ IsVerdict(say[w])
          => base[w] <= say[w].seen /\ say[w].seen <= live
    /\ pc[w] \in {"record", "push"} /\ IsVerdict(say[w]) => base[w] # NoHead
    /\ pc[w] = "push" /\ say[w].kind = "pr_merged" => Confirmed(say[w].head)
    /\ pc[w] = "merge" => base[w] # NoHead /\ Confirmed(base[w])

WatcherInv(w) == SayInv(w) /\ (Reliable => RoundInv(w))

(* A run that is marked as merged has its event, what was recorded was     *)
(* read, and what was heard is recorded.                                   *)
JournalInv ==
    /\ run = "merged" => merged # NoHead /\ Event("pr_merged", merged) \in journal
    /\ \A e \in journal : WasRead(e) /\ (Reliable => Matches(e))
    /\ \A m \in heard :
          /\ m[2] \in journal
          /\ Reliable /\ m[1] = "push" /\ m[2].kind = "pr_merged" => Confirmed(m[2].head)

(* The inductive invariant.                                                *)
IInv == /\ TypeOK
        /\ JournalInv
        /\ \A w \in Watchers : WatcherInv(w)
-----------------------------------------------------------------------------
(* A probe that decides the status reads the checks of the live head.      *)
LEMMA DecidedIsRead ==
    ASSUME TypeOK, NEW c \in ChecksProbe, AllDecided(c)
    PROVE  StatusOf(c) \in Decided /\ checks[live] = StatusOf(c)
BY DEF ChecksProbe, AllDecided, StatusOf, Decided

(* The events that the watchers make.                                      *)
LEMMA EventTypes ==
    /\ Nothing \in Events
    /\ \A k \in EventKinds, h \in Heads \cup {NoHead} :
          /\ Event(k, h) \in Events /\ Event(k, h).kind = k /\ Event(k, h).head = h
          /\ ~IsVerdict(Event(k, h))
BY DEF Nothing, Event, Events, EventKinds, Verdicts, Decided, IsVerdict

(* A verdict that is resolved has its type.                                *)
LEMMA ResolveType ==
    ASSUME TypeOK, NEW w \in Watchers, NEW s \in Verdicts, Resolve(w, s)
    PROVE  say' \in [Watchers -> Events] /\ pc' \in [Watchers -> Phases]
BY DEF TypeOK, Resolve, Goto, Nothing, Event, Events, EventKinds, Phases

(* The steps of a watcher keep the types.                                  *)
LEMMA WatcherTypeStep ==
    ASSUME IInv, NEW w \in Watchers
    PROVE  Start(w) \/ Round(w) \/ Interrupt(w) \/ MergeSeen(w) \/ MergeRaises(w)
           \/ HeadMoved(w) \/ MergeTimeout(w) \/ Raise(w) \/ Abort(w) \/ Kill(w)
              => TypeOK'
<1> USE PrWatchAssumption, EventTypes DEF IInv
<1>1. ASSUME Start(w) PROVE TypeOK'
  BY <1>1 DEF Start, TypeOK, Goto, Phases, github, records, resolver
<1>2. ASSUME ReadHeadBefore(w) PROVE TypeOK'
  BY <1>2 DEF ReadHeadBefore, HeadProbe, TypeOK, Goto, Phases, github, records, resolver
<1>3. ASSUME NEW c \in ChecksProbe, Startup(w, c) PROVE TypeOK'
  <2>1. CASE AllDecided(c)
    BY <1>3, <2>1, DecidedIsRead, ResolveType
    DEF Startup, TypeOK, Verdicts, github, records, resolver
  <2>2. CASE ~AllDecided(c)
    BY <1>3, <2>2 DEF Startup, TypeOK, Goto, Phases, github, records, resolver
  <2> QED BY <2>1, <2>2
<1>4. ASSUME NEW c \in ChecksProbe, SelfPoll(w, c) PROVE TypeOK'
  <2>1. CASE AllDecided(c) /\ Resolve(w, StatusOf(c)) /\ UNCHANGED resolver
    BY <1>4, <2>1, DecidedIsRead, ResolveType
    DEF SelfPoll, TypeOK, Verdicts, github, records, resolver
  <2>2. CASE Goto(w, "resolve") /\ tries' = [tries EXCEPT ![w] = 0]
             /\ last' = [last EXCEPT ![w] = "none"] /\ UNCHANGED say
    BY <1>4, <2>2 DEF SelfPoll, TypeOK, Goto, Phases, github, records
  <2> QED BY <1>4, <2>1, <2>2 DEF SelfPoll
<1>5. ASSUME NEW c \in ChecksProbe, ResolverProbe(w, c) PROVE TypeOK'
  <2> DEFINE summary == IF c = "unreadable" THEN last[w] ELSE c
  <2>1. CASE AllDecided(c) /\ Resolve(w, StatusOf(c)) /\ UNCHANGED resolver
    BY <1>5, <2>1, DecidedIsRead, ResolveType
    DEF ResolverProbe, TypeOK, Verdicts, github, records, resolver
  <2>2. CASE Goto(w, "poll") /\ UNCHANGED <<say, resolver>>
    BY <1>5, <2>2 DEF ResolverProbe, TypeOK, Goto, Phases, github, records, resolver
  <2>3. CASE /\ c \in {"empty", "running", "unreadable"}
             /\ tries' = [tries EXCEPT ![w] = @ + 1]
             /\ last' = [last EXCEPT ![w] = summary]
    <3>1. summary \in {"none", "empty", "running"}
      BY <2>3 DEF TypeOK
    <3> HIDE DEF summary
    <3>2. tries' \in [Watchers -> 0..MaxProbes] /\ last' \in [Watchers -> {"none", "empty", "running"}]
      <4>1. tries[w] < MaxProbes /\ tries[w] \in Nat
        BY <1>5 DEF ResolverProbe, TypeOK, WatcherInv, SayInv
      <4> QED BY <2>3, <3>1, <4>1 DEF TypeOK
    <3>3. say' \in [Watchers -> Events] /\ pc' \in [Watchers -> Phases]
      <4>1. CASE UNCHANGED <<pc, say>>
        BY <4>1 DEF TypeOK
      <4>2. CASE Goto(w, "poll") /\ UNCHANGED say
        BY <4>2 DEF TypeOK, Goto, Phases
      <4>3. CASE Resolve(w, "incomplete") \/ Resolve(w, "indeterminate")
        BY <4>3, ResolveType DEF Verdicts
      <4> QED BY <1>5, <2>3, <3>1, <4>1, <4>2, <4>3, DecidedIsRead, ResolveType
          DEF ResolverProbe, summary, Verdicts, AllDecided, Decided
    <3> QED BY <1>5, <3>2, <3>3 DEF ResolverProbe, TypeOK, github, records
  <2> QED BY <1>5, <2>1, <2>2, <2>3 DEF ResolverProbe
<1>6. ASSUME Interrupt(w) PROVE TypeOK'
  BY <1>6 DEF Interrupt, Nothing, Event, Events, EventKinds, Verdicts, TypeOK, Goto, Phases,
              github, records, resolver
<1>7. ASSUME ReadHeadAfter(w) PROVE TypeOK'
  <2>1. PICK h \in HeadProbe :
           \/ Restart(w)
           \/ /\ \E b \in {base[w], h} : /\ base' = [base EXCEPT ![w] = b]
                                         /\ say' = [say EXCEPT ![w].head = b]
              /\ Goto(w, "record")
    BY <1>7 DEF ReadHeadAfter
  <2>2. h \in Heads \cup {NoHead}
    BY DEF HeadProbe, TypeOK
  <2>3. CASE Restart(w)
    BY <1>7, <2>3 DEF ReadHeadAfter, Restart, TypeOK, Goto, Phases, github, records, resolver
  <2>4. ASSUME NEW b \in {base[w], h}, base' = [base EXCEPT ![w] = b],
               say' = [say EXCEPT ![w].head = b], Goto(w, "record")
        PROVE  TypeOK'
    <3>1. b \in Heads \cup {NoHead}
      BY <2>2 DEF TypeOK
    <3>2. say' \in [Watchers -> Events]
      BY <2>4, <3>1 DEF TypeOK, Events
    <3> QED BY <1>7, <2>4, <3>1, <3>2
        DEF ReadHeadAfter, TypeOK, Goto, Phases, github, records, resolver
  <2> QED BY <2>1, <2>3, <2>4
<1>8. ASSUME Record(w) PROVE TypeOK'
  BY <1>8 DEF Record, TypeOK, Goto, Phases, github, resolver
<1>9. ASSUME PushSignal(w) PROVE TypeOK'
  <2>1. journal' \subseteq Events /\ heard' \subseteq {"push", "relay"} \X Events
    BY <1>9 DEF PushSignal, TypeOK, EventKinds
  <2>2. pc' \in [Watchers -> Phases]
    BY <1>9 DEF PushSignal, TypeOK, Goto, Phases
  <2>3. exit' \in [Watchers -> Exits]
    <3>1. ExitOf(say[w]) \in Exits
      BY DEF ExitOf, Exits
    <3> QED BY <1>9, <3>1 DEF PushSignal, TypeOK
  <2> QED BY <1>9, <2>1, <2>2, <2>3 DEF PushSignal, TypeOK, github, resolver
<1>10. ASSUME MergeSeen(w) PROVE TypeOK'
  <2>1. run' \in {"none", "open", "merged"} /\ journal' \subseteq Events
    BY <1>10 DEF MergeSeen, MergeRecords, TypeOK, EventKinds
  <2>2. MergeKind(base[w]) \in EventKinds
    BY DEF MergeKind, EventKinds
  <2>3. say' \in [Watchers -> Events] /\ pc' \in [Watchers -> Phases]
    BY <1>10, <2>2 DEF MergeSeen, TypeOK, Goto, Announce, Phases
  <2> QED BY <1>10, <2>1, <2>3 DEF MergeSeen, TypeOK, github, resolver
<1>11. ASSUME MergeRaises(w) PROVE TypeOK'
  <2>1. run' \in {"none", "open", "merged"} /\ journal' \subseteq Events
    BY <1>11 DEF MergeRaises, MergeRecords, TypeOK, EventKinds
  <2> QED BY <1>11, <2>1 DEF MergeRaises, TypeOK, Goto, Phases, Exits, github, resolver
<1>12. ASSUME HeadMoved(w) PROVE TypeOK'
  BY <1>12 DEF HeadMoved, Restart, TypeOK, Goto, Phases, github, records, resolver
<1>13. ASSUME MergeTimeout(w) PROVE TypeOK'
  BY <1>13 DEF MergeTimeout, EventKinds, TypeOK, Goto, Phases, github, records, resolver
<1>14. ASSUME Raise(w) PROVE TypeOK'
  BY <1>14 DEF Raise, EventKinds, TypeOK, Goto, Phases, github, records, resolver
<1>15. ASSUME Abort(w) PROVE TypeOK'
  BY <1>15 DEF Abort, TypeOK, Goto, Phases, Exits, github, resolver
<1>16. ASSUME Kill(w) PROVE TypeOK'
  BY <1>16 DEF Kill, TypeOK, Goto, Phases, Exits, github, records, resolver
<1> QED BY <1>1, <1>2, <1>3, <1>4, <1>5, <1>6, <1>7, <1>8, <1>9, <1>10, <1>11, <1>12, <1>13,
           <1>14, <1>15, <1>16 DEF Round

(* So do those of the pull request, of its owner and of the relay.         *)
LEMMA OutsideTypeStep ==
    ASSUME IInv
    PROVE  PushCommit \/ ChecksProgress \/ Merge \/ OwnerCompletes \/ Relay \/ UNCHANGED vars
              => TypeOK'
<1> USE PrWatchAssumption DEF IInv, TypeOK, records, resolver, github
<1>1. ASSUME ChecksProgress PROVE TypeOK'
  BY <1>1 DEF ChecksProgress
<1>2. ASSUME Merge PROVE TypeOK'
  BY <1>2 DEF Merge
<1>3. ASSUME OwnerCompletes PROVE TypeOK'
  <2>1. run' \in {"none", "open", "merged"} /\ journal' \subseteq Events
    BY <1>3, EventTypes DEF OwnerCompletes, MergeRecords, EventKinds
  <2> QED BY <1>3, <2>1 DEF OwnerCompletes
<1>4. ASSUME Relay PROVE TypeOK'
  BY <1>4 DEF Relay
<1>5. ASSUME UNCHANGED vars PROVE TypeOK'
  BY <1>5 DEF vars
<1>6. ASSUME PushCommit PROVE TypeOK'
  BY <1>6 DEF PushCommit, Heads
<1> QED BY <1>1, <1>2, <1>3, <1>4, <1>5, <1>6
-----------------------------------------------------------------------------
(* A step that is one of v alone.                                          *)
StepOf(v) == \A w \in Watchers \ {v} : /\ pc'[w] = pc[w] /\ base'[w] = base[w]
                                        /\ say'[w] = say[w] /\ tries'[w] = tries[w]

(* A step of one watcher leaves what holds of the others.                  *)
LEMMA OtherWatchers ==
    ASSUME IInv, NEW v \in Watchers, UNCHANGED github, journal \subseteq journal',
           StepOf(v), WatcherInv(v)'
    PROVE  \A w \in Watchers : WatcherInv(w)'
<1>1. ASSUME NEW w \in Watchers \ {v} PROVE WatcherInv(w)'
  <2>1. SayInv(w)'
    BY <1>1 DEF StepOf, IInv, WatcherInv, SayInv, WasRead, IsVerdict, github
  <2>2. \A h : Confirmed(h) => Confirmed(h)'
    BY DEF Confirmed
  <2>3. Reliable' => RoundInv(w)'
    BY <1>1, <2>2 DEF StepOf, IInv, WatcherInv, RoundInv, Reliable, Matches, IsVerdict, github
  <2> QED BY <2>1, <2>3 DEF WatcherInv
<1> QED BY <1>1

(* A step that records and pushes nothing.                                 *)
LEMMA QuietStep ==
    ASSUME IInv, UNCHANGED <<github, records>>
    PROVE  JournalInv'
BY DEF IInv, JournalInv, WasRead, Matches, IsVerdict, Confirmed, Reliable, github, records

(* What is recorded was read, matches its tag, and confirms what was       *)
(* heard as well as before.                                                *)
LEMMA RecordStep ==
    ASSUME IInv, UNCHANGED <<github, run, heard>>, NEW e, journal' = journal \cup {e},
           WasRead(e), Reliable => Matches(e)
    PROVE  JournalInv'
<1>1. \A h : Confirmed(h) => Confirmed(h)'
  BY DEF Confirmed
<1>2. Reliable' = Reliable
  BY DEF Reliable, github
<1>3. run' = "merged" => merged' # NoHead /\ Event("pr_merged", merged') \in journal'
  BY DEF IInv, JournalInv, github
<1>4. \A d \in journal' : WasRead(d)' /\ (Reliable => Matches(d)')
  BY DEF IInv, JournalInv, WasRead, Matches, IsVerdict, github
<1>5. \A m \in heard' :
         /\ m[2] \in journal'
         /\ Reliable /\ m[1] = "push" /\ m[2].kind = "pr_merged" => Confirmed(m[2].head)'
  BY <1>1 DEF IInv, JournalInv
<1> QED BY <1>2, <1>3, <1>4, <1>5 DEF JournalInv

(* complete_on_merge records a merge at most for a run that was open, and  *)
(* its event is there when the run is marked.                              *)
LEMMA MergeRecordsStep ==
    ASSUME IInv, MergeRecords, merged # NoHead, UNCHANGED <<github, heard>>
    PROVE  /\ journal \subseteq journal' /\ JournalInv'
           /\ run # "none" => Event("pr_merged", merged) \in journal'
<1>1. journal \subseteq journal' /\ journal' \subseteq journal \cup {Event("pr_merged", merged)}
  BY DEF MergeRecords
<1>2. run # "none" => Event("pr_merged", merged) \in journal'
  BY DEF MergeRecords, IInv, TypeOK, JournalInv
<1>3. \A h : Confirmed(h) => Confirmed(h)'
  BY <1>1 DEF Confirmed
<1>4. Reliable' = Reliable
  BY DEF Reliable, github
<1>5. \A e \in journal' : WasRead(e)' /\ (Reliable => Matches(e)')
  <2>1. ~IsVerdict(Event("pr_merged", merged))
    BY EventTypes DEF IInv, TypeOK, EventKinds
  <2> QED BY <1>1, <2>1 DEF IInv, JournalInv, WasRead, Matches, IsVerdict, github
<1>6. \A m \in heard' :
         /\ m[2] \in journal'
         /\ Reliable /\ m[1] = "push" /\ m[2].kind = "pr_merged" => Confirmed(m[2].head)'
  BY <1>1, <1>3 DEF IInv, JournalInv
<1>7. run' = "merged" => merged' # NoHead /\ Event("pr_merged", merged') \in journal'
  BY <1>2 DEF MergeRecords, github
<1> QED BY <1>1, <1>2, <1>4, <1>5, <1>6, <1>7 DEF JournalInv

(* A verdict from the checks of the live head, or none: the head that was  *)
(* read before is not after the live one.                                  *)
LEMMA ResolveStep ==
    ASSUME IInv, NEW w \in Watchers, pc[w] \in {"startup", "poll", "resolve"},
           NEW s \in Verdicts, s \in Decided => checks[live] = s,
           Resolve(w, s), UNCHANGED <<github, records, base>>,
           \A v \in Watchers \ {w} : tries'[v] = tries[v]
    PROVE  StepOf(w) /\ WatcherInv(w)'
<1> DEFINE e == [Nothing EXCEPT !.status = s, !.seen = live]
<1>1. /\ e.kind = "ci_completed" /\ e.status = s /\ e.head = NoHead /\ e.seen = live
      /\ live \in Heads
  BY DEF Nothing, Event, IInv, TypeOK
<1>2. say'[w] = e /\ pc'[w] = "after"
  BY DEF Resolve, Goto, IInv, TypeOK
<1> HIDE DEF e
<1>3. SayInv(w)'
  BY <1>1, <1>2 DEF SayInv, WasRead, IsVerdict, github
<1>4. Reliable => base[w] \in Heads /\ base[w] <= live
  BY DEF IInv, WatcherInv, RoundInv
<1>5. Reliable' => RoundInv(w)'
  BY <1>1, <1>2, <1>4 DEF RoundInv, Matches, Reliable, Heads, github
<1>6. StepOf(w)
  BY DEF StepOf, Resolve, Goto, IInv, TypeOK
<1> QED BY <1>3, <1>5, <1>6 DEF WatcherInv

(* The reads of the checks.                                                *)
LEMMA ChecksStep ==
    ASSUME IInv, NEW w \in Watchers, NEW c \in ChecksProbe
    PROVE  Startup(w, c) \/ SelfPoll(w, c) \/ ResolverProbe(w, c)
              => StepOf(w) /\ WatcherInv(w)'
<1> DEFINE Own == StepOf(w) /\ WatcherInv(w)'
<1> USE DEF IInv
<1>1. ASSUME pc[w] \in {"startup", "poll", "resolve"}, AllDecided(c), Resolve(w, StatusOf(c)),
             UNCHANGED <<github, records, base, tries>>
      PROVE  Own
  BY <1>1, DecidedIsRead, ResolveStep DEF Verdicts
<1>2. ASSUME pc[w] \in {"startup", "poll", "resolve"}, NEW p \in {"poll", "resolve"}, Goto(w, p),
             UNCHANGED <<github, records, base, say>>,
             \A v \in Watchers \ {w} : tries'[v] = tries[v],
             p = "resolve" => tries'[w] < MaxProbes
      PROVE  Own
  <2>1. pc'[w] = p /\ StepOf(w)
    BY <1>2 DEF Goto, TypeOK, StepOf
  <2>2. SayInv(w)'
    BY <1>2, <2>1 DEF WatcherInv, SayInv, WasRead, IsVerdict, github
  <2>3. Reliable' => RoundInv(w)'
    BY <1>2, <2>1 DEF WatcherInv, RoundInv, Matches, IsVerdict, Reliable, github
  <2> QED BY <2>1, <2>2, <2>3 DEF WatcherInv
<1>3. ASSUME Startup(w, c) PROVE Own
  <2>1. CASE AllDecided(c)
    BY <1>1, <1>3, <2>1 DEF Startup, resolver
  <2>2. CASE ~AllDecided(c)
    BY <1>2, <1>3, <2>2 DEF Startup, resolver
  <2> QED BY <2>1, <2>2
<1>4. ASSUME SelfPoll(w, c) PROVE Own
  <2>1. CASE AllDecided(c) /\ Resolve(w, StatusOf(c)) /\ UNCHANGED resolver
    BY <1>1, <1>4, <2>1 DEF SelfPoll, resolver
  <2>2. CASE Goto(w, "resolve") /\ tries' = [tries EXCEPT ![w] = 0] /\ UNCHANGED say
    <3>1. tries'[w] < MaxProbes /\ \A v \in Watchers \ {w} : tries'[v] = tries[v]
      BY <2>2, PrWatchAssumption DEF TypeOK
    <3> QED BY <1>2, <1>4, <2>2, <3>1 DEF SelfPoll
  <2> QED BY <1>4, <2>1, <2>2 DEF SelfPoll
<1>5. ASSUME ResolverProbe(w, c) PROVE Own
  <2> DEFINE summary == IF c = "unreadable" THEN last[w] ELSE c
  <2>1. CASE AllDecided(c) /\ Resolve(w, StatusOf(c)) /\ UNCHANGED resolver
    BY <1>1, <1>5, <2>1 DEF ResolverProbe, resolver
  <2>2. CASE Goto(w, "poll") /\ UNCHANGED <<say, resolver>>
    BY <1>2, <1>5, <2>2 DEF ResolverProbe, resolver
  <2>3. CASE /\ c \in {"empty", "running", "unreadable"}
             /\ tries' = [tries EXCEPT ![w] = @ + 1]
             /\ last' = [last EXCEPT ![w] = summary]
    <3>1. /\ tries'[w] = tries[w] + 1 /\ \A v \in Watchers \ {w} : tries'[v] = tries[v]
          /\ pc[w] = "resolve" /\ UNCHANGED <<github, records, base>>
      BY <1>5, <2>3 DEF ResolverProbe, TypeOK
    <3>2. CASE BudgetLeft(tries[w] + 1) /\ UNCHANGED <<pc, say>>
      <4>1. Goto(w, "resolve") /\ tries'[w] < MaxProbes
        BY <3>1, <3>2 DEF BudgetLeft, Goto, TypeOK
      <4> QED BY <1>2, <3>1, <3>2, <4>1
    <3>3. CASE Goto(w, "poll") /\ UNCHANGED say
      BY <1>2, <3>1, <3>3
    <3>4. CASE Resolve(w, "incomplete") \/ Resolve(w, "indeterminate")
      BY <3>1, <3>4, ResolveStep DEF Verdicts, Decided
    <3>5. summary \in {"none", "empty", "running"}
      BY <2>3 DEF TypeOK
    <3> QED BY <1>1, <1>5, <2>3, <3>1, <3>2, <3>3, <3>4, <3>5
        DEF ResolverProbe, AllDecided, Decided
  <2> QED BY <1>1, <1>2, <1>5, <2>1, <2>2, <2>3 DEF ResolverProbe
<1> QED BY <1>3, <1>4, <1>5

(* The reads of the head, and the ways out of a round or a merge-watch.    *)
LEMMA WatchStep ==
    ASSUME IInv, NEW w \in Watchers
    PROVE  Start(w) \/ ReadHeadBefore(w) \/ Interrupt(w) \/ ReadHeadAfter(w)
           \/ HeadMoved(w) \/ MergeTimeout(w) \/ Raise(w) \/ Kill(w)
              => StepOf(w) /\ WatcherInv(w)'
<1> USE DEF IInv, WatcherInv, github, Reliable
<1>1. ASSUME NEW p \in {"before", "done"}, Goto(w, p), UNCHANGED <<github, journal, base, say, tries>>
      PROVE  StepOf(w) /\ WatcherInv(w)'
  <2>1. pc'[w] = p /\ StepOf(w)
    BY <1>1 DEF Goto, TypeOK, StepOf
  <2> QED BY <1>1, <2>1 DEF SayInv, RoundInv, WasRead, Matches, IsVerdict
<1>2. ASSUME NEW p \in {"before", "record", "abort"}, NEW e \in Events, Goto(w, p),
             say' = [say EXCEPT ![w] = e], ~IsVerdict(e),
             p = "record" => e.kind # "pr_merged",
             p = "abort" => e.kind = "pr_watch_aborted",
             UNCHANGED <<github, journal, tries>>,
             \A v \in Watchers \ {w} : base'[v] = base[v]
      PROVE  StepOf(w) /\ WatcherInv(w)'
  <2>1. pc'[w] = p /\ say'[w] = e /\ StepOf(w)
    BY <1>2 DEF Goto, TypeOK, StepOf
  <2> QED BY <1>2, <2>1 DEF SayInv, RoundInv, WasRead, Matches, IsVerdict
<1>3. ASSUME Restart(w), UNCHANGED <<github, journal, tries>>
      PROVE  StepOf(w) /\ WatcherInv(w)'
  <2>1. ~IsVerdict(Nothing) /\ Nothing \in Events
    BY EventTypes DEF IsVerdict, Nothing, Event, Decided
  <2>2. \A v \in Watchers \ {w} : base'[v] = base[v]
    BY <1>3 DEF Restart, TypeOK
  <2> QED BY <1>2, <1>3, <2>1, <2>2 DEF Restart
<1>4. ASSUME Start(w) PROVE StepOf(w) /\ WatcherInv(w)'
  BY <1>1, <1>4 DEF Start, records, resolver
<1>5. ASSUME ReadHeadBefore(w) PROVE StepOf(w) /\ WatcherInv(w)'
  <2>1. PICK h \in HeadProbe : base' = [base EXCEPT ![w] = h]
    BY <1>5 DEF ReadHeadBefore
  <2>2. Reliable => h \in Heads /\ h <= live
    BY DEF HeadProbe, TypeOK, Heads
  <2>3. base'[w] = h /\ pc'[w] = "startup" /\ StepOf(w)
    BY <1>5, <2>1 DEF ReadHeadBefore, Goto, TypeOK, StepOf, resolver
  <2> QED BY <1>5, <2>2, <2>3
      DEF ReadHeadBefore, SayInv, RoundInv, WasRead, Matches, IsVerdict, records, resolver
<1>6. ASSUME Interrupt(w) PROVE StepOf(w) /\ WatcherInv(w)'
  <2> DEFINE e == [Nothing EXCEPT !.status = "canceled"]
  <2>1. e \in Events /\ e.kind = "ci_completed" /\ ~IsVerdict(e)
    BY DEF Nothing, Event, Events, EventKinds, Verdicts, Decided, IsVerdict
  <2>2. \A v \in Watchers \ {w} : base'[v] = base[v]
    BY <1>6 DEF Interrupt, TypeOK
  <2> HIDE DEF e
  <2>3. say' = [say EXCEPT ![w] = e]
    BY <1>6 DEF Interrupt, e
  <2> QED BY <1>2, <1>6, <2>1, <2>2, <2>3 DEF Interrupt, records, resolver
<1>7. ASSUME ReadHeadAfter(w) PROVE StepOf(w) /\ WatcherInv(w)'
  <2>1. PICK h \in HeadProbe :
           \/ Restart(w)
           \/ /\ ~Advanced(base[w], h)
              /\ LET head_oid == IF base[w] # NoHead THEN base[w] ELSE h IN
                    /\ base' = [base EXCEPT ![w] = head_oid]
                    /\ say' = [say EXCEPT ![w].head = head_oid]
              /\ Goto(w, "record")
    BY <1>7 DEF ReadHeadAfter
  <2>2. UNCHANGED <<github, journal, tries>> /\ pc[w] = "after"
    BY <1>7 DEF ReadHeadAfter, records, resolver
  <2>3. CASE Restart(w)
    BY <1>3, <2>2, <2>3
  <2>4. CASE ~Advanced(base[w], h) /\ Goto(w, "record")
    <3>1. PICK b \in {base[w], h} : /\ b = IF base[w] # NoHead THEN base[w] ELSE h
                                    /\ base' = [base EXCEPT ![w] = b]
                                    /\ say' = [say EXCEPT ![w].head = b]
      BY <2>1, <2>4 DEF Restart, Goto, TypeOK
    <3>2. /\ say'[w].kind = say[w].kind /\ say'[w].status = say[w].status
          /\ say'[w].seen = say[w].seen /\ say'[w].head = b
          /\ base'[w] = b /\ pc'[w] = "record" /\ StepOf(w)
      BY <2>2, <2>4, <3>1 DEF Goto, TypeOK, Events, StepOf
    <3>3. Reliable => base[w] # NoHead /\ h # NoHead /\ h = live /\ b = base[w] /\ b = live
      BY <2>2, <2>4, <3>1 DEF RoundInv, HeadProbe, Heads, NoHead, Advanced, TypeOK
    <3>4. Reliable /\ IsVerdict(say[w]) => say[w].seen = b
      <4>1. IsVerdict(say[w]) => say[w].seen \in Nat
        BY PrWatchAssumption DEF SayInv, WasRead, Heads
      <4>2. Reliable /\ IsVerdict(say[w]) => base[w] <= say[w].seen /\ say[w].seen <= live
        BY <2>2 DEF RoundInv
      <4>3. live \in Nat
        BY PrWatchAssumption DEF TypeOK, Heads
      <4> QED BY <3>3, <4>1, <4>2, <4>3
    <3>5. SayInv(w)'
      BY <2>2, <3>2 DEF SayInv, WasRead, IsVerdict
    <3>6. Reliable' => RoundInv(w)'
      BY <2>2, <3>2, <3>3, <3>4 DEF RoundInv, IsVerdict, Matches
    <3> QED BY <3>2, <3>5, <3>6
  <2> QED BY <2>1, <2>3, <2>4
<1>8. ASSUME HeadMoved(w) PROVE StepOf(w) /\ WatcherInv(w)'
  BY <1>3, <1>8 DEF HeadMoved, records, resolver
<1>9. ASSUME MergeTimeout(w) PROVE StepOf(w) /\ WatcherInv(w)'
  <2> DEFINE e == Event("pr_merge_watch_timeout", base[w])
  <2>1. e \in Events /\ ~IsVerdict(e) /\ e.kind = "pr_merge_watch_timeout"
    BY EventTypes DEF EventKinds, TypeOK
  <2>2. say' = [say EXCEPT ![w] = e] /\ Goto(w, "record") /\ UNCHANGED <<github, journal, base, tries>>
    BY <1>9 DEF MergeTimeout, records, resolver
  <2> HIDE DEF e
  <2> QED BY <1>2, <2>1, <2>2
<1>10. ASSUME Raise(w) PROVE StepOf(w) /\ WatcherInv(w)'
  <2> DEFINE e == Event("pr_watch_aborted", NoHead)
  <2>1. e \in Events /\ ~IsVerdict(e) /\ e.kind = "pr_watch_aborted"
    BY EventTypes DEF EventKinds
  <2>2. say' = [say EXCEPT ![w] = e] /\ Goto(w, "abort") /\ UNCHANGED <<github, journal, base, tries>>
    BY <1>10 DEF Raise, records, resolver
  <2> HIDE DEF e
  <2> QED BY <1>2, <2>1, <2>2
<1>11. ASSUME Kill(w) PROVE StepOf(w) /\ WatcherInv(w)'
  BY <1>1, <1>11 DEF Kill, records, resolver
<1> QED BY <1>4, <1>5, <1>6, <1>7, <1>8, <1>9, <1>10, <1>11

(* A verdict is recorded for the push and for the merge-watch.             *)
LEMMA SignalStep ==
    ASSUME IInv, NEW w \in Watchers
    PROVE  Record(w) \/ Abort(w) \/ PushSignal(w)
              => JournalInv' /\ journal \subseteq journal' /\ StepOf(w) /\ WatcherInv(w)'
<1> USE DEF IInv, WatcherInv, github, Reliable
<1>1. ASSUME Record(w) PROVE JournalInv' /\ StepOf(w) /\ WatcherInv(w)'
  <2>1. JournalInv'
    <3>1. WasRead(say[w]) /\ (Reliable => Matches(say[w]))
      BY DEF SayInv, RoundInv
    <3> QED BY <1>1, <3>1, RecordStep DEF Record
  <2>2. pc[w] = "record" /\ pc'[w] = "push" /\ StepOf(w) /\ say[w] \in journal'
    BY <1>1 DEF Record, Goto, TypeOK, StepOf, resolver
  <2>3. SayInv(w)'
    BY <1>1, <2>2 DEF Record, SayInv, WasRead, IsVerdict, resolver
  <2>4. Reliable' => RoundInv(w)'
    BY <1>1, <2>2 DEF Record, SayInv, RoundInv, IsVerdict, Matches
  <2> QED BY <2>1, <2>2, <2>3, <2>4
<1>2. ASSUME Abort(w) PROVE JournalInv' /\ StepOf(w) /\ WatcherInv(w)'
  <2>1. JournalInv'
    <3>1. WasRead(say[w]) /\ (Reliable => Matches(say[w]))
      BY DEF SayInv, RoundInv
    <3>2. CASE journal' = journal \cup {say[w]}
      BY <1>2, <3>1, <3>2, RecordStep DEF Abort
    <3>3. CASE UNCHANGED journal
      BY <1>2, <3>3, QuietStep DEF Abort, records
    <3> QED BY <1>2, <3>2, <3>3 DEF Abort
  <2>2. /\ pc[w] = "abort" /\ StepOf(w) /\ journal \subseteq journal'
        /\ pc'[w] = "done" \/ (pc'[w] = "push" /\ say[w] \in journal')
    BY <1>2 DEF Abort, Goto, TypeOK, StepOf, resolver
  <2>3. SayInv(w)'
    BY <1>2, <2>2 DEF Abort, SayInv, WasRead, IsVerdict, resolver
  <2>4. Reliable' => RoundInv(w)'
    BY <1>2, <2>2 DEF Abort, SayInv, RoundInv, IsVerdict, Matches
  <2> QED BY <2>1, <2>2, <2>3, <2>4
<1>3. ASSUME PushSignal(w) PROVE JournalInv' /\ StepOf(w) /\ WatcherInv(w)'
  <2> DEFINE failed == Event("notify_failed", NoHead)
  <2>0. UNCHANGED <<github, run, base, say, tries>> /\ pc[w] = "push"
    BY <1>3 DEF PushSignal, resolver
  <2>1. ASSUME heard' = heard \cup {<<"push", say[w]>>}, UNCHANGED journal PROVE JournalInv'
    <3>1. say[w] \in journal /\ (Reliable /\ say[w].kind = "pr_merged" => Confirmed(say[w].head))
      BY <2>0 DEF SayInv, RoundInv
    <3> QED BY <2>0, <2>1, <3>1 DEF JournalInv, WasRead, Matches, IsVerdict, Confirmed
  <2>2. ASSUME UNCHANGED <<heard, journal>> PROVE JournalInv'
    BY <2>0, <2>2, QuietStep DEF records
  <2>3. ASSUME journal' = journal \cup {failed}, UNCHANGED heard PROVE JournalInv'
    <3>1. ~IsVerdict(failed)
      BY EventTypes DEF EventKinds
    <3>2. WasRead(failed) /\ Matches(failed)
      BY <3>1 DEF WasRead, Matches
    <3> QED BY <2>0, <2>3, <3>2, RecordStep
  <2>4. JournalInv'
    BY <1>3, <2>1, <2>2, <2>3 DEF PushSignal
  <2>5. /\ journal \subseteq journal' /\ UNCHANGED <<github, base, say, tries>>
        /\ pc[w] = "push" /\ StepOf(w)
        /\ \/ pc'[w] = "done"
           \/ pc'[w] = "merge" /\ say[w].kind = "ci_completed" /\ say[w].status = "passed"
    BY <1>3 DEF PushSignal, Goto, TypeOK, StepOf, resolver
  <2>6. SayInv(w)'
    BY <2>5 DEF SayInv, WasRead, IsVerdict
  <2>7. Reliable' => RoundInv(w)'
    BY <2>5 DEF SayInv, RoundInv, IsVerdict, Decided, Matches, Confirmed
  <2> QED BY <2>4, <2>5, <2>6, <2>7
<1>4. Record(w) \/ Abort(w) \/ PushSignal(w) => journal \subseteq journal'
  BY DEF Record, Abort, PushSignal
<1> QED BY <1>1, <1>2, <1>3, <1>4

(* A merge that merge-watch sees.                                          *)
LEMMA MergeStep ==
    ASSUME IInv, NEW w \in Watchers
    PROVE  MergeSeen(w) \/ MergeRaises(w)
              => JournalInv' /\ journal \subseteq journal' /\ StepOf(w) /\ WatcherInv(w)'
<1> USE DEF IInv, WatcherInv, github, Reliable
<1>1. ASSUME MergeSeen(w)
      PROVE  JournalInv' /\ journal \subseteq journal' /\ StepOf(w) /\ WatcherInv(w)'
  <2> DEFINE k == MergeKind(base[w])
  <2>1. k \in EventKinds
    BY DEF MergeKind, EventKinds
  <2>2. merged \in Heads /\ ~IsVerdict(Event(k, merged))
        /\ Event(k, merged).kind = k /\ Event(k, merged).head = merged
    BY <1>1, <2>1, EventTypes DEF MergeSeen, TypeOK
  <2>3. /\ journal \subseteq journal' /\ JournalInv'
        /\ run # "none" => Event("pr_merged", merged) \in journal'
    BY <1>1, MergeRecordsStep DEF MergeSeen
  <2>4. k = "pr_merged" => run # "none" /\ (base[w] # NoHead => merged = base[w])
    BY DEF MergeKind
  <2> HIDE DEF k
  <2>5. /\ say'[w] = Event(k, merged) /\ pc'[w] = Announce(k) /\ StepOf(w)
        /\ pc[w] = "merge" /\ UNCHANGED <<base, tries, github>>
    BY <1>1 DEF MergeSeen, k, Goto, TypeOK, StepOf, resolver
  <2>6. SayInv(w)'
    BY <2>2, <2>3, <2>4, <2>5 DEF SayInv, WasRead, IsVerdict, Announce
  <2>7. Reliable' => RoundInv(w)'
    BY <2>2, <2>3, <2>4, <2>5 DEF RoundInv, IsVerdict, Matches, Announce, Confirmed
  <2> QED BY <2>3, <2>5, <2>6, <2>7
<1>2. ASSUME MergeRaises(w)
      PROVE  JournalInv' /\ journal \subseteq journal' /\ StepOf(w) /\ WatcherInv(w)'
  <2>1. JournalInv' /\ journal \subseteq journal'
    <3>1. CASE MergeRecords
      BY <1>2, <3>1, MergeRecordsStep DEF MergeRaises
    <3>2. CASE UNCHANGED <<run, journal>>
      BY <1>2, <3>2, QuietStep DEF MergeRaises, records
    <3> QED BY <1>2, <3>1, <3>2 DEF MergeRaises
  <2>2. pc'[w] = "done" /\ StepOf(w) /\ UNCHANGED <<say, base, tries, github>>
    BY <1>2 DEF MergeRaises, Goto, TypeOK, StepOf, resolver
  <2> QED BY <2>1, <2>2 DEF SayInv, RoundInv, WasRead, Matches, IsVerdict
<1> QED BY <1>1, <1>2
-----------------------------------------------------------------------------
(* The steps of the pull request, its owner and the relay.                 *)
LEMMA OutsideStep ==
    ASSUME IInv
    PROVE  PushCommit \/ ChecksProgress \/ Merge \/ OwnerCompletes \/ Relay \/ UNCHANGED vars
              => JournalInv' /\ \A w \in Watchers : WatcherInv(w)'
<1> USE DEF IInv
<1>1. ASSUME UNCHANGED <<checks, faults, journal, pc, base, say, tries>>,
             live' \in Heads, Reliable => live <= live'
      PROVE  \A w \in Watchers : WatcherInv(w)'
  <2> SUFFICES ASSUME NEW w \in Watchers PROVE WatcherInv(w)'
    OBVIOUS
  <2>1. SayInv(w)'
    BY <1>1 DEF WatcherInv, SayInv, WasRead, IsVerdict
  <2>2. Reliable' => RoundInv(w)'
    <3>1. \A b \in Heads : b <= live /\ Reliable => b <= live'
      BY <1>1, PrWatchAssumption DEF TypeOK, Heads
    <3>2. SayInv(w) /\ (Reliable => RoundInv(w))
      BY DEF WatcherInv
    <3> QED BY <1>1, <3>1, <3>2 DEF SayInv, RoundInv, WasRead, Matches, IsVerdict, Confirmed, Reliable
  <2> QED BY <2>1, <2>2 DEF WatcherInv
<1>2. ASSUME UNCHANGED <<checks, merged, faults, records>>
      PROVE  JournalInv'
  BY <1>2 DEF JournalInv, WasRead, Matches, IsVerdict, Confirmed, Reliable, records
<1>3. ASSUME PushCommit PROVE JournalInv' /\ \A w \in Watchers : WatcherInv(w)'
  <2>1. live' \in Heads /\ (Reliable => live <= live')
    BY <1>3, PrWatchAssumption DEF PushCommit, Reliable, TypeOK, Heads
  <2> QED BY <1>1, <1>2, <1>3, <2>1 DEF PushCommit, records, resolver
<1>4. ASSUME ChecksProgress PROVE JournalInv' /\ \A w \in Watchers : WatcherInv(w)'
  <2>1. \A e : WasRead(e) => WasRead(e)'
    <3>1. \A h \in Heads : checks[h] \in Decided => checks'[h] = checks[h]
      BY <1>4 DEF ChecksProgress, CheckSteps, Decided, TypeOK
    <3> QED BY <3>1 DEF WasRead, IsVerdict, Decided
  <2>2. UNCHANGED <<live, merged, faults, records, pc, base, say, tries>>
    BY <1>4 DEF ChecksProgress, resolver
  <2>3. JournalInv'
    BY <2>1, <2>2 DEF JournalInv, Matches, IsVerdict, Confirmed, Reliable, records
  <2>4. ASSUME NEW w \in Watchers PROVE WatcherInv(w)'
    <3>1. SayInv(w)'
      BY <2>1, <2>2 DEF WatcherInv, SayInv, IsVerdict, records
    <3>2. Reliable' => RoundInv(w)'
      BY <2>2 DEF WatcherInv, RoundInv, Matches, IsVerdict, Confirmed, Reliable, records
    <3> QED BY <3>1, <3>2 DEF WatcherInv
  <2> QED BY <2>3, <2>4
<1>5. ASSUME Merge PROVE JournalInv' /\ \A w \in Watchers : WatcherInv(w)'
  <2>1. live' \in Heads /\ live <= live'
    BY <1>5, PrWatchAssumption DEF Merge, TypeOK, Heads
  <2>2. JournalInv'
    BY <1>5 DEF Merge, JournalInv, WasRead, Matches, IsVerdict, Confirmed, Reliable, records
  <2> QED BY <1>1, <1>5, <2>1, <2>2 DEF Merge, records, resolver
<1>6. ASSUME OwnerCompletes PROVE JournalInv' /\ \A w \in Watchers : WatcherInv(w)'
  <2>1. JournalInv' /\ journal \subseteq journal'
    BY <1>6, MergeRecordsStep DEF OwnerCompletes
  <2>2. ASSUME NEW w \in Watchers PROVE WatcherInv(w)'
    <3>1. UNCHANGED <<github, pc, base, say, tries>>
      BY <1>6 DEF OwnerCompletes, resolver
    <3>2. SayInv(w)'
      BY <2>1, <3>1 DEF WatcherInv, SayInv, WasRead, IsVerdict, github
    <3>3. Reliable' => RoundInv(w)'
      BY <2>1, <3>1 DEF WatcherInv, RoundInv, Matches, IsVerdict, Confirmed, Reliable, github
    <3> QED BY <3>2, <3>3 DEF WatcherInv
  <2> QED BY <2>1, <2>2
<1>7. ASSUME Relay PROVE JournalInv' /\ \A w \in Watchers : WatcherInv(w)'
  <2>1. live' \in Heads /\ live <= live'
    BY <1>7, PrWatchAssumption DEF Relay, TypeOK, Heads, github
  <2>2. JournalInv'
    BY <1>7 DEF Relay, JournalInv, WasRead, Matches, IsVerdict, Confirmed, Reliable, github
  <2> QED BY <1>1, <1>7, <2>1, <2>2 DEF Relay, github, resolver
<1>8. ASSUME UNCHANGED vars PROVE JournalInv' /\ \A w \in Watchers : WatcherInv(w)'
  <2>1. live' \in Heads /\ live <= live'
    BY <1>8, PrWatchAssumption DEF vars, TypeOK, Heads
  <2> QED BY <1>1, <1>2, <1>8, <2>1 DEF vars, records
<1> QED BY <1>3, <1>4, <1>5, <1>6, <1>7, <1>8

(* The invariant is kept by every step.                                    *)
LEMMA Preservation ==
    ASSUME IInv, [Next]_vars
    PROVE  IInv'
<1>1. ASSUME NEW w \in Watchers,
             \/ Start(w) \/ Round(w) \/ Interrupt(w) \/ MergeSeen(w) \/ MergeRaises(w)
             \/ HeadMoved(w) \/ MergeTimeout(w) \/ Raise(w) \/ Abort(w) \/ Kill(w)
      PROVE  IInv'
  <2>1. TypeOK'
    BY <1>1, WatcherTypeStep
  <2>2. CASE \/ Start(w) \/ ReadHeadBefore(w) \/ Interrupt(w) \/ ReadHeadAfter(w)
             \/ HeadMoved(w) \/ MergeTimeout(w) \/ Raise(w) \/ Kill(w)
             \/ \E c \in ChecksProbe : Startup(w, c) \/ SelfPoll(w, c) \/ ResolverProbe(w, c)
    <3>1. UNCHANGED <<github, records>>
      BY <2>2 DEF Start, ReadHeadBefore, Interrupt, ReadHeadAfter, HeadMoved, MergeTimeout,
                  Raise, Kill, Startup, SelfPoll, ResolverProbe
    <3>2. StepOf(w) /\ WatcherInv(w)'
      BY <2>2, WatchStep, ChecksStep
    <3>3. JournalInv'
      BY <3>1, QuietStep
    <3>4. \A v \in Watchers : WatcherInv(v)'
      BY <3>1, <3>2, OtherWatchers DEF records
    <3> QED BY <2>1, <3>3, <3>4 DEF IInv
  <2>3. CASE Record(w) \/ Abort(w) \/ PushSignal(w) \/ MergeSeen(w) \/ MergeRaises(w)
    <3>1. UNCHANGED github
      BY <2>3 DEF Record, Abort, PushSignal, MergeSeen, MergeRaises
    <3>2. JournalInv' /\ journal \subseteq journal' /\ StepOf(w) /\ WatcherInv(w)'
      BY <2>3, SignalStep, MergeStep
    <3>3. \A v \in Watchers : WatcherInv(v)'
      BY <3>1, <3>2, OtherWatchers
    <3> QED BY <2>1, <3>2, <3>3 DEF IInv
  <2> QED BY <1>1, <2>2, <2>3 DEF Round
<1>2. ASSUME PushCommit \/ ChecksProgress \/ Merge \/ OwnerCompletes \/ Relay \/ UNCHANGED vars
      PROVE  IInv'
  BY <1>2, OutsideTypeStep, OutsideStep DEF IInv
<1> QED BY <1>1, <1>2 DEF Next

(* The invariant holds in every behaviour.                                 *)
LEMMA Invariance == Spec => []IInv
<1>1. Init => IInv
  <2> SUFFICES ASSUME Init PROVE IInv
    OBVIOUS
  <2>1. TypeOK
    BY PrWatchAssumption, EventTypes
    DEF Init, TypeOK, Heads, CheckStates, Phases, Exits
  <2>2. JournalInv
    BY DEF Init, JournalInv
  <2>3. ASSUME NEW w \in Watchers PROVE WatcherInv(w)
    <3>1. say[w] = Nothing /\ pc[w] = "idle"
      BY DEF Init
    <3>2. ~IsVerdict(Nothing)
      BY DEF IsVerdict, Nothing, Event, Decided
    <3> QED BY <3>1, <3>2 DEF WatcherInv, SayInv, RoundInv, WasRead, Matches
  <2> QED BY <2>1, <2>2, <2>3 DEF IInv
<1>2. IInv /\ [Next]_vars => IInv'
  BY Preservation
<1> QED BY <1>1, <1>2, PTL DEF Spec
-----------------------------------------------------------------------------
(* The variables have their types.                                         *)
THEOREM TypeCorrect == Spec => []TypeOK
<1>1. IInv => TypeOK
  BY DEF IInv
<1> QED BY <1>1, Invariance, PTL

(* A verdict is tagged with the head whose checks it was read from         *)
(* (_run_ci_round), however pushes fall between the two reads of the head, *)
(* as long as these succeed and the branch only advances.                  *)
THEOREM VerdictIsOfItsHead == Spec => []VerdictMatchesHead
<1>1. IInv => VerdictMatchesHead
  BY DEF IInv, JournalInv, Matches, IsVerdict, Reliable, VerdictMatchesHead
<1> QED BY <1>1, Invariance, PTL

(* A watcher announces a clean merge only of a head with a recorded pass   *)
(* (_run_merge_watch), under the same assumption.                          *)
THEOREM CleanMergeHasPass == Spec => []CleanMergeWasConfirmed
<1>1. IInv => CleanMergeWasConfirmed
  BY DEF IInv, JournalInv, Confirmed, Reliable, CleanMergeWasConfirmed
<1> QED BY <1>1, Invariance, PTL

(* What the secretary was told of is in the journal (_notify_or_record),   *)
(* wherever a watcher or the database fails.                               *)
THEOREM NothingPeerOnly == Spec => []EventBeforePush
<1>1. IInv => EventBeforePush
  BY DEF IInv, JournalInv, EventBeforePush
<1> QED BY <1>1, Invariance, PTL

(* A recorded verdict is what the checks of its head ended with            *)
(* (_summarize_checks), and they do not change after it.                   *)
THEOREM VerdictIsFinal == Spec => []VerdictWaitsForAllChecks
<1>1. IInv => VerdictWaitsForAllChecks
  BY DEF IInv, JournalInv, WasRead, IsVerdict, VerdictWaitsForAllChecks
<1> QED BY <1>1, Invariance, PTL
=============================================================================
