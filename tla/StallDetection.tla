---------------------------- MODULE StallDetection ----------------------------
(***************************************************************************)
(* How the dispatcher watches a worker's pane: tools/                      *)
(* inspect_anomaly_scan.py and tools/inspect_pane_state.py.                *)
(*                                                                         *)
(* Once per cycle the visible lines of the pane go through the scan (error *)
(* text, and a spinner of the old form that has counted past a threshold)  *)
(* and then through the transition of the worker's idle record.  Between   *)
(* two cycles the worker prints, and its spinner counts, stands still or   *)
(* ends.  The pane, the approval prompt and the keeping of the record are  *)
(* external; the file with the spinner keys may fail to be written.        *)
(***************************************************************************)
EXTENDS Naturals

CONSTANTS
    Verbs,        \* the words a spinner shows
    NoVerb,       \* no spinner of the new form
    NoRecord,     \* a worker without an idle record
    Threshold,    \* --spinner-threshold-min, in cycles
    Cap,          \* --suppress-cap-min, in cycles
    MaxCycles,    \* bound: cycles of the dispatcher
    MaxFaults     \* bound: lost records, keys not written, approval prompts

VARIABLES
    screen,    \* text, new-form spinner, old-form counter, error text
    record,    \* the worker's entry of worker-idle-state.json
    keys,      \* the old-form counters remembered by the state file
    decision,  \* what the last cycle said
    cycle,     \* cycles so far: the clock
    seen,      \* history: what the worker did since the last cycle
    faults

vars == <<screen, record, keys, decision, cycle, seen, faults>>

------------------------------------------------------------------------------
Still == [output |-> FALSE, line |-> FALSE, ticked |-> FALSE]

NoTime == MaxCycles + 1

Init ==
    /\ screen = [text |-> 0, verb |-> NoVerb, elapsed |-> 0, old |-> 0,
                 error |-> FALSE]
    /\ record = NoRecord
    /\ keys = {}
    /\ decision = [transition |-> "none", suppress |-> FALSE, fired |-> FALSE]
    /\ cycle = 0
    /\ seen = [now |-> Still, quiet |-> 0, burst |-> NoTime]
    /\ faults = 0

World == UNCHANGED <<record, keys, decision, cycle, faults>>

\* The worker prints: two different screens are enough to come and go.
Output ==
    /\ screen' = [screen EXCEPT !.text = 1 - @]
    /\ seen' = [seen EXCEPT !.now.output = TRUE,
                  !.burst = IF @ = NoTime THEN cycle ELSE @]
    /\ World

ErrorText ==
    /\ screen' = [screen EXCEPT !.error = ~@]
    /\ seen' = [seen EXCEPT !.now.line = TRUE]
    /\ World

\* A turn begins: a spinner of the new form, or one of a retry (the old form).
Begin ==
    /\ screen.verb = NoVerb /\ screen.old = 0
    /\ \/ \E verb \in Verbs :
            screen' = [screen EXCEPT !.verb = verb, !.elapsed = 0]
       \/ screen' = [screen EXCEPT !.old = 1]
    /\ seen' = [seen EXCEPT !.now.line = TRUE, !.now.ticked = TRUE]
    /\ World

\* The spinner's counter moves on, once a cycle: a cycle is the unit of time.
Count ==
    /\ ~seen.now.ticked
    /\ \/ /\ screen.verb /= NoVerb /\ screen.elapsed <= Cap
          /\ screen' = [screen EXCEPT !.elapsed = @ + 1]
       \/ /\ screen.old \in 1..Threshold
          /\ screen' = [screen EXCEPT !.old = @ + 1]
    /\ seen' = [seen EXCEPT !.now.ticked = TRUE]
    /\ World

\* The turn ends; its line leaves the screen.
Finish ==
    /\ screen.verb /= NoVerb \/ screen.old > 0
    /\ screen' = [screen EXCEPT !.verb = NoVerb, !.elapsed = 0, !.old = 0]
    /\ seen' = [seen EXCEPT !.now.line = TRUE]
    /\ World

------------------------------------------------------------------------------
(* One cycle of the dispatcher.                                             *)

HasSpinnerLine == screen.verb /= NoVerb \/ screen.old > 0

\* Mutant of ContentHash: the counters of a spinner are part of the hash.
HashWithCounters ==
    <<screen.text, screen.error, HasSpinnerLine, screen.elapsed, screen.old>>

\* content_hash of the normalized lines: a spinner line of either form is one
\* placeholder, its verb and its counter are left out.
ContentHash == <<screen.text, screen.error, HasSpinnerLine, 0, 0>>

\* spinner_age_keys: the line of an old-form spinner past the threshold.
AgedKeys == IF screen.old >= Threshold THEN {screen.old} ELSE {}

\* scan_lines: error text always fires, an aged spinner unless the same line
\* was remembered from the cycle before.
Fired == screen.error \/ AgedKeys \ keys /= {}

\* extract_pane_state: the spinner runs, and not for too long.
Suppress ==
    /\ screen.verb /= NoVerb
    /\ screen.elapsed < Cap
    /\ \/ record = NoRecord
       \/ record.verb /= screen.verb
       \/ screen.elapsed > record.elapsed

\* Mutant of StartOfActivity: the cutoff is this cycle's time.
ThisCycle == cycle + 1

\* An active period begins no later than the last cycle that saw none.
StartOfActivity == record.checked

\* compute_idle_transition, with anomaly: step 4 notified someone this cycle.
Transition(anomaly) ==
    CASE record = NoRecord            -> "first_observation"
      [] record /= NoRecord /\ anomaly -> "anomaly_reset"
      [] record /= NoRecord /\ ~anomaly /\ record.hash = ContentHash -> "idle"
      [] OTHER -> IF record.streak > 0 THEN "active" ELSE "active_continuation"

Check ==
    /\ cycle < MaxCycles
    /\ \E approval, written \in BOOLEAN :
         LET anomaly == Fired \/ approval
             step == Transition(anomaly)
         IN  /\ faults + (IF approval THEN 1 ELSE 0) + (IF written THEN 0 ELSE 1)
                  <= MaxFaults
             /\ faults' = faults + (IF approval THEN 1 ELSE 0)
                                 + (IF written THEN 0 ELSE 1)
             /\ keys' = IF written THEN AgedKeys ELSE keys
             /\ record' =
                  [hash |-> ContentHash, checked |-> cycle + 1,
                   verb |-> screen.verb, elapsed |-> screen.elapsed,
                   streak |-> IF step = "idle" THEN record.streak + 1 ELSE 0,
                   changed |-> CASE step = "first_observation" -> NoTime
                                 [] step \in {"anomaly_reset", "active"} -> StartOfActivity
                                 [] OTHER -> record.changed]
             /\ decision' = [transition |-> step, suppress |-> Suppress,
                             fired |-> Fired]
             /\ LET moved == seen.now.output \/ seen.now.line
                IN  seen' = [now |-> Still,
                             quiet |-> IF moved \/ step \in {"first_observation", "anomaly_reset"}
                                         THEN 0 ELSE seen.quiet + 1,
                             burst |-> IF step \in {"idle", "anomaly_reset"}
                                         THEN NoTime ELSE seen.burst]
    /\ cycle' = cycle + 1
    /\ UNCHANGED screen

\* The record is gone: the pane was re-opened, or the entry predates the hash.
LoseRecord ==
    /\ record /= NoRecord /\ faults < MaxFaults
    /\ record' = NoRecord
    /\ faults' = faults + 1
    /\ seen' = [seen EXCEPT !.quiet = 0]
    /\ UNCHANGED <<screen, keys, decision, cycle>>

Next == Output \/ ErrorText \/ Begin \/ Count \/ Finish \/ Check \/ LoseRecord

Spec == Init /\ [][Next]_vars

------------------------------------------------------------------------------
TypeOK ==
    /\ screen \in [text : {0, 1}, verb : Verbs \cup {NoVerb},
                   elapsed : 0..(Cap + 1), old : 0..(Threshold + 1), error : BOOLEAN]
    /\ keys \subseteq 0..(Threshold + 1)
    /\ cycle \in 0..MaxCycles /\ faults \in 0..MaxFaults
    /\ record /= NoRecord => record.streak \in 0..MaxCycles

(* A pane that printed nothing and whose lines neither came nor went is     *)
(* counted idle in every cycle since, however its spinner turned: an        *)
(* animation must not pass for work.                                        *)
QuietIsCounted == record /= NoRecord => record.streak >= seen.quiet

(* The messages a worker is asked for are those since the cutoff, so the    *)
(* cutoff is not later than the cycle before the first output of a period   *)
(* of activity: a report sent in that same cycle still counts.  (An anomaly *)
(* begins a new period.)                                                    *)
CutoffBeforeOutput ==
    decision.transition \in {"active", "active_continuation"} /\ record /= NoRecord =>
        record.changed = NoTime \/ seen.burst = NoTime \/ record.changed <= seen.burst

(* Suppression is earned anew in each cycle: by a spinner below the cap     *)
(* that began or counted since the last one, if there was a record of it.   *)
SuppressionIsEarned ==
    decision'.suppress /\ cycle' /= cycle /\ record /= NoRecord =>
      screen.elapsed < Cap /\ (seen.now.ticked \/ seen.now.line)

(* A retry that still counts is reported in every cycle past the threshold, *)
(* and its last line is not reported again unless the keys were not kept.   *)
RetryIsReported ==
    cycle' /= cycle /\ screen.old >= Threshold /\ faults = 0 =>
      /\ seen.now.ticked => decision'.fired
      /\ seen.now = Still /\ cycle > 0 /\ ~screen.error => ~decision'.fired
==============================================================================
