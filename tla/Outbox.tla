------------------------------- MODULE Outbox -------------------------------
(***************************************************************************)
(* The CI-watch outbox: pr_watch processes append terminal events to the   *)
(* events table and push them to the secretary on a best-effort channel;   *)
(* the dispatcher's monitoring loop runs tools/relay_scan.py, which lists  *)
(* the events the event_deliveries ledger does not show as delivered,      *)
(* sends each one and records the outcome (tools/state_db/writer.py).      *)
(*                                                                         *)
(* Several dispatcher incarnations may overlap (a restarted pane, an       *)
(* operator's manual scan), and any of them may die between two steps.     *)
(***************************************************************************)
EXTENDS Naturals, FiniteSets

CONSTANTS
    MaxEvents,      \* bound: rows of the events table
    MaxHistory,     \* bound: rows already there when the ledger is created
    Recipients,     \* delivery recipients ("secretary" by default)
    Relays,         \* dispatcher incarnations that run relay_scan
    Watchers,       \* pr_watch processes
    Epoch,          \* instant the ledger was created in this DB
    Floors,         \* scan floors a scan may use; Epoch is the default one
    Limits,         \* values of --limit; MaxEvents or more is "no limit"
    Undeliverable,  \* events every send of which goes unconfirmed
    AttemptCap,     \* bound: the attempt and copy counters saturate here
    MaxCrashes      \* bound: deaths of a dispatcher incarnation

ASSUME OutboxAssumption ==
    /\ MaxEvents \in Nat
    /\ MaxHistory \in 0..MaxEvents
    /\ Epoch \in Nat \ {0}
    /\ Floors \subseteq Nat
    /\ Limits \subseteq Nat
    /\ Undeliverable \subseteq 1..MaxEvents
    /\ AttemptCap \in Nat \ {0}
    /\ MaxCrashes \in Nat

Ids        == 1..MaxEvents
Deliveries == Ids \X Recipients

(* TERMINAL_KINDS: ci_completed stands for the six kinds pr_watch and      *)
(* run_complete_on_merge write; notify_failed is told apart because the    *)
(* failed push itself creates it. "progress" is any other journal kind and *)
(* "none" an id the table has not allocated.                               *)
TerminalKinds == {"ci_completed", "notify_failed"}
Kinds         == TerminalKinds \cup {"progress", "none"}

VARIABLES
    last,      \* highest events.id allocated
    kind,      \* events.kind by id
    at,        \* events.occurred_at by id
    status,    \* event_deliveries.status by delivery, "absent" without a row
    attempt,   \* event_deliveries.attempt by delivery
    phase,     \* where each dispatcher incarnation is in its cycle
    to,        \* recipient of the cycle
    rows,      \* events the cycle has listed and not finished with
    cur,       \* event being sent or marked
    confirmed, \* whether send_message confirmed cur
    watch,     \* each pr_watch: "idle", or "push" after recording an event
    copies,    \* history: copies relayed that reached the recipient
    crashes    \* deaths so far

ledger    == <<status, attempt>>
table     == <<last, kind, at>>
relayVars == <<phase, to, rows, cur, confirmed>>
vars == <<last, kind, at, status, attempt, phase, to, rows, cur, confirmed,
          watch, copies, crashes>>

Statuses == {"absent", "pending", "failed", "delivered"}
Phases   == {"idle", "read", "sending", "marking"}

TypeOK ==
    /\ last \in 0..MaxEvents
    /\ kind \in [Ids -> Kinds]
    /\ at \in [Ids -> Nat]
    /\ status \in [Deliveries -> Statuses]
    /\ attempt \in [Deliveries -> 0..AttemptCap]
    /\ phase \in [Relays -> Phases]
    /\ to \in [Relays -> Recipients]
    /\ rows \in [Relays -> SUBSET Ids]
    /\ cur \in [Relays -> Nat]
    /\ confirmed \in [Relays -> BOOLEAN]
    /\ watch \in [Watchers -> {"idle", "push"}]
    /\ copies \in [Deliveries -> 0..AttemptCap]
    /\ crashes \in 0..MaxCrashes

Init ==
    /\ last \in 0..MaxHistory
    /\ kind \in [Ids -> Kinds]
    /\ \A e \in Ids : kind[e] = "none" <=> e > last
    /\ at = [e \in Ids |-> 0]
    /\ status = [p \in Deliveries |-> "absent"]
    /\ attempt = [p \in Deliveries |-> 0]
    /\ phase = [r \in Relays |-> "idle"]
    /\ to \in [Relays -> Recipients]
    /\ rows = [r \in Relays |-> {}]
    /\ cur = [r \in Relays |-> 0]
    /\ confirmed = [r \in Relays |-> FALSE]
    /\ watch = [w \in Watchers |-> "idle"]
    /\ copies = [p \in Deliveries |-> 0]
    /\ crashes = 0
-----------------------------------------------------------------------------
(* Recording and pushing (pr_watch)                                        *)

(* append_event: ids grow, so ORDER BY e.id is the order of recording.     *)
AppendEvent(k) ==
    /\ last < MaxEvents
    /\ last' = last + 1
    /\ kind' = [kind EXCEPT ![last + 1] = k]
    /\ at' = [at EXCEPT ![last + 1] = Epoch]

(* _record_event / _record_ci_completed: the row is committed before the   *)
(* peer push starts.                                                       *)
RecordTerminal(w) ==
    /\ watch[w] = "idle"
    /\ AppendEvent("ci_completed")
    /\ watch' = [watch EXCEPT ![w] = "push"]
    /\ UNCHANGED <<ledger, relayVars, copies, crashes>>

(* _notify_or_record when the push lands, when no transport is configured, *)
(* when recording the failure itself fails, or when the pane dies first:   *)
(* nothing is written.                                                     *)
PushLeavesNoRecord(w) ==
    /\ watch[w] = "push"
    /\ watch' = [watch EXCEPT ![w] = "idle"]
    /\ UNCHANGED <<table, ledger, relayVars, copies, crashes>>

(* _notify_or_record when a configured transport loses the push: one       *)
(* notify_failed row, itself not pushed.                                   *)
PushFailureRecorded(w) ==
    /\ watch[w] = "push"
    /\ AppendEvent("notify_failed")
    /\ watch' = [watch EXCEPT ![w] = "idle"]
    /\ UNCHANGED <<ledger, relayVars, copies, crashes>>

(* Any other writer of the journal.                                        *)
Journal ==
    /\ AppendEvent("progress")
    /\ UNCHANGED <<ledger, relayVars, watch, copies, crashes>>
-----------------------------------------------------------------------------
(* The relay cycle (relay_scan, the dispatcher)                            *)

Saturate(n) == IF n < AttemptCap THEN n + 1 ELSE n

(* Mistake: a failed delivery is taken for a closed one.                   *)
PendingSkipsFailed(rcp, floor) ==
    {e \in Ids : /\ kind[e] \in TerminalKinds
                 /\ status[<<e, rcp>>] \in {"absent", "pending"}
                 /\ at[e] >= floor \/ status[<<e, rcp>>] # "absent"}

(* Mistake: the scan forgets its floor.                                    *)
PendingNoFloor(rcp, floor) ==
    {e \in Ids : /\ kind[e] \in TerminalKinds
                 /\ status[<<e, rcp>>] # "delivered"}

(* pending_deliveries without its LIMIT.                                   *)
Pending(rcp, floor) ==
    {e \in Ids : /\ kind[e] \in TerminalKinds
                 /\ status[<<e, rcp>>] # "delivered"
                 /\ at[e] >= floor \/ status[<<e, rcp>>] # "absent"}

(* ORDER BY e.id ASC LIMIT n.                                              *)
Oldest(n, S) == {e \in S : Cardinality({f \in S : f < e}) < n}

(* cmd_list, first half: the SELECT runs outside a transaction.            *)
ListRead(r, rcp, floor, limit) ==
    /\ phase[r] = "idle"
    /\ Oldest(limit, Pending(rcp, floor)) # {}
    /\ phase' = [phase EXCEPT ![r] = "read"]
    /\ to' = [to EXCEPT ![r] = rcp]
    /\ rows' = [rows EXCEPT ![r] = Oldest(limit, Pending(rcp, floor))]
    /\ UNCHANGED <<table, ledger, cur, confirmed, watch, copies, crashes>>

(* Mistake: handing an event out already closes it.                        *)
BeginStatusCloses(s) == "delivered"

(* begin_delivery_attempt: an existing row keeps its status.               *)
BeginStatus(s) == IF s = "absent" THEN "pending" ELSE s

(* Mistake: only the first attempt is counted.                             *)
ListCommitCountsOnce(r) ==
    /\ phase[r] = "read"
    /\ status' = [p \in Deliveries |->
                    IF p[1] \in rows[r] /\ p[2] = to[r]
                    THEN BeginStatus(status[p]) ELSE status[p]]
    /\ attempt' = [p \in Deliveries |->
                    IF p[1] \in rows[r] /\ p[2] = to[r] /\ status[p] = "absent"
                    THEN 1 ELSE attempt[p]]
    /\ phase' = [phase EXCEPT ![r] = "sending"]
    /\ UNCHANGED <<table, to, rows, cur, confirmed, watch, copies, crashes>>

(* cmd_list, second half: an attempt per listed event, committed before    *)
(* the JSON is printed for the dispatcher.                                 *)
ListCommit(r) ==
    /\ phase[r] = "read"
    /\ status' = [p \in Deliveries |->
                    IF p[1] \in rows[r] /\ p[2] = to[r]
                    THEN BeginStatus(status[p]) ELSE status[p]]
    /\ attempt' = [p \in Deliveries |->
                    IF p[1] \in rows[r] /\ p[2] = to[r]
                    THEN Saturate(attempt[p]) ELSE attempt[p]]
    /\ phase' = [phase EXCEPT ![r] = "sending"]
    /\ UNCHANGED <<table, to, rows, cur, confirmed, watch, copies, crashes>>

(* The dispatcher's send_message: the copy may reach the recipient or not, *)
(* and the confirmation of one that did may be lost.                       *)
Send(r, e, reached, ok) ==
    /\ phase[r] = "sending"
    /\ e \in rows[r]
    /\ ok => reached /\ e \notin Undeliverable
    /\ copies' = IF reached
                 THEN [copies EXCEPT ![<<e, to[r]>>] = Saturate(@)]
                 ELSE copies
    /\ cur' = [cur EXCEPT ![r] = e]
    /\ confirmed' = [confirmed EXCEPT ![r] = ok]
    /\ phase' = [phase EXCEPT ![r] = "marking"]
    /\ UNCHANGED <<table, ledger, to, rows, watch, crashes>>

(* A cycle goes on to its next event, or ends.                             *)
FinishCurrent(r) ==
    /\ rows' = [rows EXCEPT ![r] = @ \ {cur[r]}]
    /\ phase' = [phase EXCEPT ![r] =
                    IF rows[r] \subseteq {cur[r]} THEN "idle" ELSE "sending"]
    /\ UNCHANGED <<table, to, cur, confirmed, watch, copies, crashes>>

(* attempt of the row an upsert leaves: 1 when it inserts.                 *)
UpsertAttempt(p) == IF status[p] = "absent" THEN 1 ELSE attempt[p]

(* Mistake: the mark does not wait for the confirmation.                   *)
MarkDeliveredUnconfirmed(r) ==
    LET p == <<cur[r], to[r]>> IN
    /\ phase[r] = "marking"
    /\ status' = [status EXCEPT ![p] = "delivered"]
    /\ attempt' = [attempt EXCEPT ![p] = UpsertAttempt(p)]
    /\ FinishCurrent(r)

(* --mark-delivered, after a confirmed send.                               *)
MarkDelivered(r) ==
    LET p == <<cur[r], to[r]>> IN
    /\ phase[r] = "marking"
    /\ confirmed[r]
    /\ status' = [status EXCEPT ![p] = "delivered"]
    /\ attempt' = [attempt EXCEPT ![p] = UpsertAttempt(p)]
    /\ FinishCurrent(r)

(* Mistake: the upsert has no CASE guard on a delivered row.               *)
FailStatusAlways(s) == "failed"

(* mark_delivery_failed: a late failure report does not undo a delivery.   *)
FailStatus(s) == IF s = "delivered" THEN "delivered" ELSE "failed"

(* --mark-failed, after an unconfirmed send.                               *)
MarkFailed(r) ==
    LET p == <<cur[r], to[r]>> IN
    /\ phase[r] = "marking"
    /\ ~confirmed[r]
    /\ status' = [status EXCEPT ![p] = FailStatus(@)]
    /\ attempt' = [attempt EXCEPT ![p] = UpsertAttempt(p)]
    /\ FinishCurrent(r)

(* The dispatcher dies anywhere in its cycle; what it held is forgotten.   *)
Crash(r) ==
    /\ phase[r] # "idle"
    /\ crashes < MaxCrashes
    /\ crashes' = crashes + 1
    /\ phase' = [phase EXCEPT ![r] = "idle"]
    /\ rows' = [rows EXCEPT ![r] = {}]
    /\ UNCHANGED <<table, ledger, to, cur, confirmed, watch, copies>>
-----------------------------------------------------------------------------
Next ==
    \/ \E w \in Watchers : \/ RecordTerminal(w)
                           \/ PushLeavesNoRecord(w)
                           \/ PushFailureRecorded(w)
    \/ Journal
    \/ \E r \in Relays :
          \/ \E rcp \in Recipients, floor \in Floors, limit \in Limits :
                ListRead(r, rcp, floor, limit)
          \/ ListCommit(r)
          \/ \E e \in Ids, reached, ok \in BOOLEAN : Send(r, e, reached, ok)
          \/ MarkDelivered(r)
          \/ MarkFailed(r)
          \/ Crash(r)

Spec == Init /\ [][Next]_vars

(* The monitoring loop comes back every three minutes and works through    *)
(* its list; a send that is tried over and over is eventually confirmed,   *)
(* unless the event is one the transport never accepts.                    *)
Fairness ==
    /\ \A r \in Relays :
          /\ WF_vars(\E rcp \in Recipients, limit \in Limits :
                        ListRead(r, rcp, Epoch, limit))
          /\ WF_vars(ListCommit(r))
          /\ WF_vars(\E e \in Ids, reached, ok \in BOOLEAN :
                        Send(r, e, reached, ok))
          /\ WF_vars(MarkDelivered(r))
          /\ WF_vars(MarkFailed(r))
    /\ \A r \in Relays, e \in Ids, rcp \in Recipients :
          SF_vars(to[r] = rcp /\ Send(r, e, TRUE, TRUE))

FairSpec == Spec /\ Fairness
-----------------------------------------------------------------------------
(* Properties                                                              *)

(* A delivery is marked delivered only when a copy has reached the         *)
(* recipient, whatever dies or overlaps between the send and the mark.     *)
ClosedOnlyAfterRelay ==
    \A p \in Deliveries : status[p] = "delivered" => copies[p] > 0

(* Every relayed copy was announced by a durable attempt, the ones a       *)
(* dispatcher still has in hand included: the ledger's attempt count       *)
(* bounds the duplicates a recipient can have seen.                        *)
InHand(p) == {r \in Relays : /\ p[2] = to[r]
                             /\ \/ phase[r] = "sending" /\ p[1] \in rows[r]
                                \/ phase[r] = "marking" /\ p[1] \in rows[r] \ {cur[r]}}
CopiesAccounted ==
    \A p \in Deliveries :
        \/ attempt[p] = AttemptCap
        \/ copies[p] + Cardinality(InHand(p)) <= attempt[p]

(* Only terminal events enter the ledger, and history from before the      *)
(* ledger stays out of it as long as no scan asks for an older floor (the  *)
(* anti-flood boundary).                                                   *)
QuietHistory ==
    \A p \in Deliveries :
        status[p] # "absent" =>
            /\ kind[p[1]] \in TerminalKinds
            /\ (\A floor \in Floors : floor >= Epoch) => at[p[1]] >= Epoch

(* delivered is terminal: no late failure report, overlapping scan or      *)
(* restart takes a delivery back.                                          *)
DeliveredIsFinal ==
    [][\A p \in Deliveries :
          status[p] = "delivered" => status'[p] = "delivered"]_vars

(* A terminal event recorded since the ledger exists is eventually         *)
(* delivered, however the direct push fared, unless the transport never    *)
(* accepts it; an event that is never accepted holds up no other one.      *)
EventuallyDelivered ==
    \A e \in Ids \ Undeliverable, rcp \in Recipients :
        (kind[e] \in TerminalKinds /\ at[e] >= Epoch)
            ~> (status[<<e, rcp>>] = "delivered")

(* The outbox implements RelayPromise.                                     *)
Owed == {p \in Deliveries :
            /\ status[p] # "delivered"
            /\ \/ kind[p[1]] \in TerminalKinds /\ at[p[1]] >= Epoch
               \/ status[p] # "absent"}
Heard   == {p \in Deliveries : copies[p] > 0}
Settled == {p \in Deliveries : status[p] = "delivered"}

Promise == INSTANCE RelayPromise
             WITH owed <- Owed, heard <- Heard, settled <- Settled

(* Every step of the outbox is a step of RelayPromise or leaves it alone.  *)
KeepsPromise == Promise!Spec

=============================================================================
