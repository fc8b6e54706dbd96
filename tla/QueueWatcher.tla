---------------------------- MODULE QueueWatcher ----------------------------
(***************************************************************************)
(* tools/secretary_queue_watcher.py, the watching part: a process follows   *)
(* the journal of the message broker and ends with one line of output when *)
(* a message for the secretary has waited too long.  The broker is          *)
(* external.  It changes its queue first and journals the change after it  *)
(* has released its lock, so that records may be written in another order. *)
(*                                                                         *)
(* The effect of a record on the watcher's accounts does not depend on     *)
(* when it is read, so the journal is kept as what reading it amounts to:   *)
(* scan is the scan at the start, acct the accounts of the live tail.  A   *)
(* line that is not complete is a record that is not journalled yet.       *)
(***************************************************************************)
EXTENDS Naturals, Integers, FiniteSets, Sequences, Functions

CONSTANTS MaxMessage,   \* messages to the secretary are numbered from 1
          Stale,        \* --stale-sec, in polls
          MaxClock,     \* bound on the time, in polls
          MaxUnlogged,  \* bound on the changes the broker has not journalled
          MaxReaps,     \* bound on the leases that run out
          MaxRestarts   \* bound on the restarts of the broker

Messages == 1 .. MaxMessage

VARIABLES
    place,     \* place[m]: where message m is in the broker's memory
    sent,      \* sent[m]: the ts of its message_enqueued record
    unlogged,  \* records of changes that are not in the journal yet
    scan,      \* the journal before the start, as PreScan sums it up
    orderly,   \* history: every record was written in the order of the changes
    clock, reaps, restarts,
    pc,        \* the watcher: off, watching, or the line it printed
    polled,    \* it has polled since the last tick of the clock
    acct       \* its accounts of the journal after the start

brokerVars == <<place, sent, unlogged, orderly>>
journalVars == <<scan, acct>>
bounds == <<reaps, restarts>>
vars == <<place, sent, unlogged, scan, orderly, clock, reaps, restarts, pc, polled, acct>>

Places == {"new", "undelivered", "claimed", "delivered", "lost"}
Waiting == {"undelivered", "claimed"}
Undelivered == {m \in Messages : place[m] = "undelivered"}

(* The ids of a set in the order of the queue. *)
InOrder(S) ==
    CHOOSE ids \in [1 .. Cardinality(S) -> S] : \A i, j \in DOMAIN ids : i < j => ids[i] < ids[j]

Enqueued(m) == [event |-> "message_enqueued", ids |-> <<m>>, count |-> 0]
Claimed(ids) == [event |-> "claimed", ids |-> ids, count |-> 0]
Reaped(m) == [event |-> "lease_reaped", ids |-> <<m>>, count |-> 0]
Delivered(m) == [event |-> "delivered", ids |-> <<m>>, count |-> 0]
Drained(n) == [event |-> "queue_drained", ids |-> <<>>, count |-> n]
Started == [event |-> "broker_started", ids |-> <<>>, count |-> 0]

(* Accounts with nothing in them. *)
NoAccounts == [pending |-> <<>>, delivered |-> 0, oldClaimed |-> {}, oldUnclaimed |-> 0,
               loss |-> FALSE]

Dropped(s, i) == SubSeq(s, 1, i - 1) \o SubSeq(s, i + 1, Len(s))
Without(ids, m) ==
    IF m \in Range(ids) THEN Dropped(ids, CHOOSE i \in DOMAIN ids : ids[i] = m) ELSE ids
(* Mistake: nothing is clipped. *)
AsItIs(n) == n

AtLeastZero(n) == IF n > 0 THEN n ELSE 0
(* Mistake: deliveries that were journalled early are forgotten. *)
NothingCarriedOver ==
    [pending |-> <<>>, delivered |-> 0, oldClaimed |-> {},
     oldUnclaimed |-> AtLeastZero(scan.enqueued - scan.delivered), loss |-> FALSE]

(* One record of the scan at the start: counts since the broker started,   *)
(* and the ids claimed and not delivered, oldest claim first (a claim has  *)
(* its ids in the order of the queue, and leaves those it knows in place). *)
NoScan == [enqueued |-> 0, delivered |-> 0, claimed |-> <<>>]
PreScan(a, r) ==
    CASE r.event = "broker_started" -> NoScan
      [] r.event = "message_enqueued" -> [a EXCEPT !.enqueued = @ + 1]
      [] r.event = "claimed" ->
            [a EXCEPT !.claimed = @ \o InOrder(Range(r.ids) \ Range(a.claimed))]
      [] r.event = "lease_reaped" -> [a EXCEPT !.claimed = Without(@, r.ids[1])]
      [] r.event = "delivered" ->
            [a EXCEPT !.claimed = Without(@, r.ids[1]), !.delivered = @ + 1]
      [] r.event = "queue_drained" -> [a EXCEPT !.delivered = @ + r.count]

Backlog(a) == Len(a.pending) - a.delivered

Least(m, n) == IF m < n THEN m ELSE n

(* A claim takes the oldest rows, those of the old backlog first; the ids  *)
(* of the others are left out of the accounts.                             *)
ClaimOldest(a, ids) ==
    LET old == Least(a.oldUnclaimed, Len(ids)) IN
    [a EXCEPT !.oldUnclaimed = @ - old, !.oldClaimed = @ \cup Range(SubSeq(ids, 1, old))]

(* One record seen while watching.  A restart of the broker that loses     *)
(* messages of this session ends the watch at that record.                 *)
Live(a, r) ==
    IF a.loss THEN a ELSE
    CASE r.event = "broker_started" ->
            IF Backlog(a) > 0 THEN [a EXCEPT !.loss = TRUE] ELSE NoAccounts
      [] r.event = "message_enqueued" -> [a EXCEPT !.pending = Append(@, r.ids[1])]
      [] r.event = "claimed" -> ClaimOldest(a, r.ids)
      [] r.event = "lease_reaped" ->
            IF r.ids[1] \in a.oldClaimed
            THEN [a EXCEPT !.oldClaimed = @ \ {r.ids[1]}, !.oldUnclaimed = @ + 1]
            ELSE a
      [] r.event = "delivered" ->
            IF r.ids[1] \in a.oldClaimed
            THEN [a EXCEPT !.oldClaimed = @ \ {r.ids[1]}]
            ELSE IF a.oldUnclaimed > 0 THEN [a EXCEPT !.oldUnclaimed = @ - 1]
                 ELSE [a EXCEPT !.delivered = @ + 1]
      [] r.event = "queue_drained" ->
            LET old == Least(a.oldUnclaimed, r.count)
            IN [a EXCEPT !.oldUnclaimed = @ - old, !.delivered = @ + (r.count - old)]

-----------------------------------------------------------------------------
(* The broker. *)

Init ==
    /\ place = [m \in Messages |-> "new"]
    /\ sent = [m \in Messages |-> 0]
    /\ unlogged = <<>> /\ scan = NoScan /\ acct = NoAccounts
    /\ orderly = TRUE
    /\ clock = 0 /\ reaps = 0 /\ restarts = 0
    /\ pc = "off" /\ polled = FALSE

(* The queue changes, the record of it waits to be written. *)
Change(p, record) ==
    /\ Len(unlogged) < MaxUnlogged
    /\ place' = p
    /\ unlogged' = Append(unlogged, record)
    /\ UNCHANGED <<journalVars, orderly, clock, pc, polled>>

Enqueue ==
    \E m \in Messages :
        /\ place[m] = "new" /\ \A o \in 1 .. m - 1 : place[o] # "new"
        /\ sent' = [sent EXCEPT ![m] = clock]
        /\ Change([place EXCEPT ![m] = "undelivered"], Enqueued(m))
        /\ UNCHANGED bounds

(* The channel takes the oldest undelivered messages on a lease ... *)
Claim ==
    \E last \in Undelivered :
        LET S == {m \in Undelivered : m <= last} IN
        /\ Change([m \in Messages |-> IF m \in S THEN "claimed" ELSE place[m]],
                  Claimed(InOrder(S)))
        /\ UNCHANGED <<sent, bounds>>

(* ... and delivers each one, *)
Deliver ==
    \E m \in Messages :
        /\ place[m] = "claimed"
        /\ Change([place EXCEPT ![m] = "delivered"], Delivered(m))
        /\ UNCHANGED <<sent, bounds>>

(* unless the lease runs out. *)
Reap ==
    \E m \in Messages :
        /\ place[m] = "claimed" /\ reaps < MaxReaps
        /\ reaps' = reaps + 1
        /\ Change([place EXCEPT ![m] = "undelivered"], Reaped(m))
        /\ UNCHANGED <<sent, restarts>>

(* check_messages takes all that are not on a lease. *)
Drain ==
    /\ Undelivered # {}
    /\ Change([m \in Messages |-> IF m \in Undelivered THEN "delivered" ELSE place[m]],
              Drained(Cardinality(Undelivered)))
    /\ UNCHANGED <<sent, bounds>>

Written(record) ==
    IF pc = "off" THEN scan' = PreScan(scan, record) /\ UNCHANGED acct
    ELSE acct' = Live(acct, record) /\ UNCHANGED scan

(* A record is appended to the journal, not always in the order of the     *)
(* changes.                                                                *)
Journal ==
    \E i \in DOMAIN unlogged :
        /\ Written(unlogged[i])
        /\ orderly' = (orderly /\ i = 1)
        /\ unlogged' = Dropped(unlogged, i)
        /\ UNCHANGED <<place, sent, clock, bounds, pc, polled>>

(* The broker restarts with an empty queue. *)
Restart ==
    /\ restarts < MaxRestarts /\ unlogged = <<>>
    /\ restarts' = restarts + 1
    /\ place' = [m \in Messages |-> IF place[m] \in Waiting THEN "lost" ELSE place[m]]
    /\ Written(Started)
    /\ UNCHANGED <<sent, unlogged, orderly, clock, reaps, pc, polled>>
-----------------------------------------------------------------------------
(* The watcher. *)

(* What the scan leaves for the accounts: the backlog of before, split in  *)
(* claimed (at most the backlog, a later claim belongs to a message whose  *)
(* record is still to come) and unclaimed; deliveries in excess are        *)
(* carried over.                                                           *)
Opening ==
    LET backlog == AtLeastZero(scan.enqueued - scan.delivered)
        old == IF Len(scan.claimed) > backlog THEN SubSeq(scan.claimed, 1, backlog)
               ELSE scan.claimed
    IN [pending |-> <<>>,
        delivered |-> AtLeastZero(scan.delivered - scan.enqueued),
        oldClaimed |-> Range(old),
        oldUnclaimed |-> AtLeastZero(backlog - Len(old)),
        loss |-> FALSE]

StartWatch ==
    /\ pc = "off"
    /\ acct' = Opening /\ scan' = NoScan
    /\ pc' = "watching" /\ polled' = FALSE
    /\ UNCHANGED <<brokerVars, clock, bounds>>

Overdue(a) == Backlog(a) > 0 /\ clock - sent[a.pending[a.delivered + 1]] > Stale

(* One round of run_watch: the new records, then the age of the oldest     *)
(* message that the accounts take for undelivered.                         *)
Poll ==
    /\ pc = "watching" /\ ~polled
    /\ polled' = TRUE
    /\ pc' = IF acct.loss THEN "BROKER_RESTART_LOSS"
             ELSE IF Overdue(acct) THEN "STAGNATION" ELSE "watching"
    /\ UNCHANGED <<brokerVars, journalVars, clock, bounds>>

(* Time passes; the watcher polls once between two ticks, and the broker   *)
(* is never behind with its journal for as long as that.                   *)
Tick ==
    /\ clock < MaxClock /\ unlogged = <<>>
    /\ pc = "watching" => polled
    /\ clock' = clock + 1 /\ polled' = FALSE
    /\ UNCHANGED <<brokerVars, journalVars, bounds, pc>>

(* A watcher that has reported is gone, and with it the behaviour that     *)
(* matters.                                                                *)
Next ==
    /\ pc \in {"off", "watching"}
    /\ \/ Enqueue \/ Claim \/ Deliver \/ Reap \/ Drain \/ Journal \/ Restart
       \/ StartWatch \/ Poll \/ Tick

Spec == Init /\ [][Next]_vars
-----------------------------------------------------------------------------
TypeOK ==
    /\ place \in [Messages -> Places]
    /\ sent \in [Messages -> 0 .. MaxClock]
    /\ clock \in 0 .. MaxClock /\ reaps \in 0 .. MaxReaps /\ restarts \in 0 .. MaxRestarts
    /\ pc \in {"off", "watching", "STAGNATION", "BROKER_RESTART_LOSS"}
    /\ polled \in BOOLEAN /\ orderly \in BOOLEAN
    /\ acct.delivered \in Nat /\ acct.oldUnclaimed \in Nat
    /\ Range(acct.pending) \cup acct.oldClaimed \subseteq Messages

(* All is journalled. *)
Settled == unlogged = <<>>

(* A report of stagnation is true: when nothing waits for its record, some *)
(* message has waited longer than the threshold.                           *)
AlarmIsTrue ==
    pc = "watching" /\ pc' = "STAGNATION" /\ Settled
     => \E m \in Messages : place[m] \in Waiting /\ clock - sent[m] > Stale

(* With a journal in the order of the changes, a                           *)
(* round that ends without a report leaves no message of this session    *)
(* that waits, once all of the session are older than the threshold.  (A   *)
(* drain passes over a claimed message; while younger ones arrive, the     *)
(* accounts take one of those for the oldest.)                             *)
OverdueIsReported ==
    ~polled /\ polled' /\ pc' = "watching" /\ Settled /\ orderly
     => LET session == Range(acct.pending) IN
        (\A m \in session : clock - sent[m] > Stale)
            => \A m \in session : place[m] \notin Waiting

(* The accounts balance: what they take for undelivered is what the broker *)
(* has not delivered.                                                      *)
AccountsBalance ==
    pc = "watching" /\ Settled /\ orderly /\ ~acct.loss =>
        Backlog(acct) + acct.oldUnclaimed + Cardinality(acct.oldClaimed)
            = Cardinality({m \in Messages : place[m] \in Waiting})
=============================================================================
