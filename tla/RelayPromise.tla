---------------------------- MODULE RelayPromise ----------------------------
(***************************************************************************)
(* What the CI-watch outbox promises, without its mechanism: a delivery    *)
(* (an event for a recipient) that has become due is owed until it is      *)
(* settled, it is settled only once the recipient has heard of it, and a   *)
(* settled delivery never becomes due again.                               *)
(***************************************************************************)
CONSTANT Deliveries     \* the pairs <<event, recipient>> there can be

VARIABLES owed,         \* due, not settled yet
          heard,        \* reached the recipient at least once
          settled       \* closed: will not be relayed again

vars == <<owed, heard, settled>>

Init == /\ owed = {}
        /\ heard = {}
        /\ settled = {}

(* New deliveries become due: an event is recorded, or an operator asks    *)
(* for events older than the ledger.                                       *)
Incur == \E due \in SUBSET (Deliveries \ (owed \cup settled)) :
            /\ owed' = owed \cup due
            /\ UNCHANGED <<heard, settled>>

(* A copy reaches the recipient; a duplicate of a settled one may too.     *)
Hear == \E p \in owed \cup settled :
            /\ heard' = heard \cup {p}
            /\ UNCHANGED <<owed, settled>>

Settle == \E p \in owed \cap heard :
            /\ owed' = owed \ {p}
            /\ settled' = settled \cup {p}
            /\ UNCHANGED heard

Next == Incur \/ Hear \/ Settle

Spec == Init /\ [][Next]_vars
=============================================================================
