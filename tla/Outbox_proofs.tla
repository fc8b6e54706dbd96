---------------------------- MODULE Outbox_proofs ----------------------------
(***************************************************************************)
(* Proofs about Outbox for every number of events, recipients, dispatcher  *)
(* incarnations and deaths.                                                *)
(***************************************************************************)
EXTENDS Outbox, FiniteSetTheorems, TLAPS

(* An id the events table has not allocated carries no kind.               *)
Allocated == \A e \in Ids : kind[e] = "none" <=> e > last

(* What a cycle holds: terminal events only, from after the epoch unless a *)
(* floor below it exists; once the attempts are committed each has a row.  *)
RowsListed ==
    \A r \in Relays : \A e \in rows[r] :
        /\ kind[e] \in TerminalKinds
        /\ (\A floor \in Floors : floor >= Epoch) => at[e] >= Epoch
        /\ phase[r] \in {"sending", "marking"} => status[<<e, to[r]>>] # "absent"

(* What a cycle knows when it is about to mark.                            *)
MarkReady ==
    \A r \in Relays :
        phase[r] = "marking" =>
            /\ cur[r] \in rows[r]
            /\ confirmed[r] => copies[<<cur[r], to[r]>>] > 0

(* The inductive invariant: the parts above, and the properties they hold  *)
(* up. MarkReady is what carries the fact of a send over to its mark;      *)
(* Allocated and RowsListed keep a fresh id clear of the ledger.           *)
IInv == /\ TypeOK
        /\ Allocated
        /\ RowsListed
        /\ MarkReady
        /\ QuietHistory
        /\ ClosedOnlyAfterRelay

(* The saturating counters grow within their bound and never return to 0.  *)
LEMMA SaturateFacts ==
    ASSUME NEW n \in 0..AttemptCap
    PROVE  Saturate(n) \in 0..AttemptCap /\ Saturate(n) > 0
  BY OutboxAssumption DEF Saturate

LEMMA InitIInv == Init => IInv
  BY OutboxAssumption
     DEF Init, IInv, TypeOK, Allocated, RowsListed, MarkReady, QuietHistory,
         ClosedOnlyAfterRelay, Kinds, TerminalKinds, Statuses, Phases, Ids,
         Deliveries

(* Appending an event touches no delivery: its id was not allocated.       *)
LEMMA AppendIInv ==
    ASSUME IInv, NEW k \in Kinds \ {"none"}, AppendEvent(k),
           UNCHANGED <<ledger, relayVars, copies, crashes>>,
           watch' \in [Watchers -> {"idle", "push"}]
    PROVE  IInv'
<1> USE OutboxAssumption
<1>1. last + 1 \in Ids /\ kind[last + 1] = "none"
  BY DEF IInv, TypeOK, Allocated, AppendEvent, Ids
<1>2. TypeOK'
  BY <1>1 DEF IInv, TypeOK, AppendEvent, ledger, relayVars, Ids
<1>3. Allocated'
  BY <1>1 DEF IInv, TypeOK, Allocated, AppendEvent, Ids
<1>4. \A e \in Ids : kind[e] \in TerminalKinds =>
                        kind'[e] = kind[e] /\ at'[e] = at[e]
  BY <1>1 DEF IInv, TypeOK, AppendEvent, TerminalKinds, Ids
<1>5. RowsListed'
  BY <1>4 DEF IInv, TypeOK, RowsListed, relayVars, ledger
<1>6. MarkReady'
  BY DEF IInv, MarkReady, relayVars
<1>7. QuietHistory'
  BY <1>4 DEF IInv, TypeOK, QuietHistory, ledger, Deliveries
<1>8. ClosedOnlyAfterRelay'
  BY DEF IInv, ClosedOnlyAfterRelay, ledger
<1> QED BY <1>2, <1>3, <1>5, <1>6, <1>7, <1>8 DEF IInv

LEMMA ListReadIInv ==
    ASSUME IInv, NEW r \in Relays, NEW rcp \in Recipients,
           NEW floor \in Floors, NEW limit \in Limits,
           ListRead(r, rcp, floor, limit)
    PROVE  IInv'
<1> USE OutboxAssumption
<1>1. \A e \in Oldest(limit, Pending(rcp, floor)) :
         /\ e \in Ids
         /\ kind[e] \in TerminalKinds
         /\ at[e] >= floor \/ status[<<e, rcp>>] # "absent"
  BY DEF Oldest, Pending
<1>2. TypeOK'
  BY <1>1 DEF IInv, TypeOK, ListRead, table, ledger, Phases
<1>3. Allocated' /\ QuietHistory' /\ ClosedOnlyAfterRelay'
  BY DEF IInv, Allocated, QuietHistory, ClosedOnlyAfterRelay, ListRead,
         table, ledger
<1>4. RowsListed'
  <2> SUFFICES ASSUME NEW q \in Relays, NEW e \in rows'[q]
               PROVE  /\ kind'[e] \in TerminalKinds
                      /\ (\A fl \in Floors : fl >= Epoch) => at'[e] >= Epoch
                      /\ phase'[q] \in {"sending", "marking"}
                            => status'[<<e, to'[q]>>] # "absent"
    BY DEF RowsListed
  <2>1. CASE q = r
    <3>1. rows'[q] = Oldest(limit, Pending(rcp, floor)) /\ phase'[q] = "read"
      BY <2>1 DEF IInv, TypeOK, ListRead
    <3>2. kind[e] \in TerminalKinds /\ <<e, rcp>> \in Deliveries
      BY <1>1, <3>1 DEF Deliveries
    <3>3. ASSUME \A fl \in Floors : fl >= Epoch
          PROVE  at[e] >= Epoch
      <4>1. CASE at[e] >= floor
        <5>1. at[e] \in Nat /\ floor \in Nat /\ Epoch \in Nat
          BY <1>1, <3>1 DEF IInv, TypeOK
        <5> QED BY <3>3, <4>1, <5>1
      <4>2. CASE status[<<e, rcp>>] # "absent"
        BY <3>2, <3>3, <4>2 DEF IInv, QuietHistory
      <4> QED BY <1>1, <3>1, <4>1, <4>2
    <3> QED BY <3>1, <3>2, <3>3 DEF ListRead, table
  <2>2. CASE q # r
    BY <2>2 DEF IInv, TypeOK, RowsListed, ListRead, table, ledger
  <2> QED BY <2>1, <2>2
<1>5. MarkReady'
  BY DEF IInv, TypeOK, MarkReady, ListRead
<1> QED BY <1>2, <1>3, <1>4, <1>5 DEF IInv

LEMMA ListCommitIInv ==
    ASSUME IInv, NEW r \in Relays, ListCommit(r)
    PROVE  IInv'
<1> USE OutboxAssumption
<1>1. TypeOK'
  <2>1. status' \in [Deliveries -> Statuses]
    BY DEF IInv, TypeOK, ListCommit, BeginStatus, Statuses
  <2>2. attempt' \in [Deliveries -> 0..AttemptCap]
    BY SaturateFacts DEF IInv, TypeOK, ListCommit
  <2> QED BY <2>1, <2>2 DEF IInv, TypeOK, ListCommit, table, Phases
<1>2. Allocated'
  BY DEF IInv, Allocated, ListCommit, table
<1>3. \A p \in Deliveries : status[p] # "absent" => status'[p] # "absent"
  BY DEF ListCommit, BeginStatus
<1>4. RowsListed'
  <2> SUFFICES ASSUME NEW q \in Relays, NEW e \in rows'[q]
               PROVE  /\ kind'[e] \in TerminalKinds
                      /\ (\A fl \in Floors : fl >= Epoch) => at'[e] >= Epoch
                      /\ phase'[q] \in {"sending", "marking"}
                            => status'[<<e, to'[q]>>] # "absent"
    BY DEF RowsListed
  <2>1. e \in rows[q] /\ <<e, to[q]>> \in Deliveries
    BY DEF IInv, TypeOK, ListCommit, Deliveries
  <2>2. CASE q = r
    BY <2>1, <2>2 DEF IInv, TypeOK, RowsListed, ListCommit, table, BeginStatus
  <2>3. CASE q # r
    BY <2>1, <2>3, <1>3 DEF IInv, TypeOK, RowsListed, ListCommit, table
  <2> QED BY <2>2, <2>3
<1>5. MarkReady'
  BY DEF IInv, TypeOK, MarkReady, ListCommit
<1>6. QuietHistory'
  BY DEF IInv, QuietHistory, RowsListed, ListCommit, table
<1>7. ClosedOnlyAfterRelay'
  BY DEF IInv, ClosedOnlyAfterRelay, ListCommit, BeginStatus
<1> QED BY <1>1, <1>2, <1>4, <1>5, <1>6, <1>7 DEF IInv

LEMMA SendIInv ==
    ASSUME IInv, NEW r \in Relays, NEW e \in Ids,
           NEW reached \in BOOLEAN, NEW ok \in BOOLEAN,
           Send(r, e, reached, ok)
    PROVE  IInv'
<1> USE OutboxAssumption
<1> DEFINE p == <<e, to[r]>>
<1>1. p \in Deliveries
  BY DEF IInv, TypeOK, Deliveries
<1>2. /\ copies' \in [Deliveries -> 0..AttemptCap]
      /\ \A q \in Deliveries : copies[q] > 0 => copies'[q] > 0
      /\ reached => copies'[p] > 0
  BY <1>1, SaturateFacts DEF IInv, TypeOK, Send
<1>3. TypeOK'
  BY <1>2 DEF IInv, TypeOK, Send, table, ledger, Phases, Ids
<1>4. Allocated' /\ QuietHistory'
  BY DEF IInv, Allocated, QuietHistory, Send, table, ledger
<1>5. RowsListed'
  BY DEF IInv, TypeOK, RowsListed, Send, table, ledger
<1>6. MarkReady'
  <2> SUFFICES ASSUME NEW q \in Relays, phase'[q] = "marking"
               PROVE  /\ cur'[q] \in rows'[q]
                      /\ confirmed'[q] => copies'[<<cur'[q], to'[q]>>] > 0
    BY DEF MarkReady
  <2>1. CASE q = r
    BY <2>1, <1>2 DEF IInv, TypeOK, Send
  <2>2. CASE q # r
    <3>1. cur[q] \in rows[q] /\ <<cur[q], to[q]>> \in Deliveries
      BY <2>2 DEF IInv, TypeOK, MarkReady, Send, Deliveries
    <3> QED BY <2>2, <3>1, <1>2 DEF IInv, TypeOK, MarkReady, Send
  <2> QED BY <2>1, <2>2
<1>7. ClosedOnlyAfterRelay'
  BY <1>2 DEF IInv, ClosedOnlyAfterRelay, Send, ledger
<1> QED BY <1>3, <1>4, <1>5, <1>6, <1>7 DEF IInv

(* Marking gives the current delivery a status that is not absent and, if  *)
(* it is delivered, only one whose copy has been confirmed.                *)
LEMMA MarkIInv ==
    ASSUME IInv, NEW r \in Relays, MarkDelivered(r) \/ MarkFailed(r)
    PROVE  IInv'
<1> USE OutboxAssumption
<1> DEFINE p == <<cur[r], to[r]>>
<1>1. /\ cur[r] \in rows[r] /\ p \in Deliveries
      /\ phase[r] = "marking" /\ status[p] # "absent"
  BY DEF IInv, TypeOK, MarkReady, RowsListed, MarkDelivered, MarkFailed,
         Deliveries
<1>2. PICK s \in Statuses \ {"absent"} :
         /\ status' = [status EXCEPT ![p] = s]
         /\ s = "delivered" => copies[p] > 0
  <2>1. CASE MarkDelivered(r)
    BY <1>1, <2>1 DEF IInv, MarkReady, MarkDelivered, Statuses
  <2>2. CASE MarkFailed(r)
    <3>1. status' = [status EXCEPT ![p] = FailStatus(status[p])]
      BY <2>2 DEF MarkFailed
    <3>2. FailStatus(status[p]) \in Statuses \ {"absent"}
      BY DEF FailStatus, Statuses
    <3>3. FailStatus(status[p]) = "delivered" => copies[p] > 0
      BY <1>1 DEF IInv, ClosedOnlyAfterRelay, FailStatus
    <3> QED BY <3>1, <3>2, <3>3
  <2> QED BY <2>1, <2>2
<1>3. attempt' \in [Deliveries -> 0..AttemptCap]
  BY <1>1 DEF IInv, TypeOK, MarkDelivered, MarkFailed, UpsertAttempt
<1>4. FinishCurrent(r)
  BY DEF MarkDelivered, MarkFailed
<1>5. TypeOK'
  BY <1>2, <1>3, <1>4 DEF IInv, TypeOK, FinishCurrent, table, Phases
<1>6. Allocated'
  BY <1>4 DEF IInv, Allocated, FinishCurrent, table
<1>7. \A q \in Relays : rows'[q] \subseteq rows[q]
  BY <1>4 DEF IInv, TypeOK, FinishCurrent
<1>8. RowsListed'
  <2> SUFFICES ASSUME NEW q \in Relays, NEW e \in rows'[q]
               PROVE  /\ kind'[e] \in TerminalKinds
                      /\ (\A fl \in Floors : fl >= Epoch) => at'[e] >= Epoch
                      /\ phase'[q] \in {"sending", "marking"}
                            => status'[<<e, to'[q]>>] # "absent"
    BY DEF RowsListed
  <2>1. e \in rows[q] /\ <<e, to[q]>> \in Deliveries
    BY <1>7 DEF IInv, TypeOK, Deliveries
  <2>2. phase'[q] \in {"sending", "marking"} => phase[q] \in {"sending", "marking"}
    BY <1>1, <1>4 DEF IInv, TypeOK, FinishCurrent
  <2>3. kind'[e] \in TerminalKinds
        /\ ((\A fl \in Floors : fl >= Epoch) => at'[e] >= Epoch)
    BY <2>1, <1>4 DEF IInv, RowsListed, FinishCurrent, table
  <2>4. phase[q] \in {"sending", "marking"} => status[<<e, to[q]>>] # "absent"
    BY <2>1 DEF IInv, RowsListed
  <2>5. status[<<e, to[q]>>] # "absent" => status'[<<e, to'[q]>>] # "absent"
    BY <2>1, <1>2, <1>1, <1>4 DEF IInv, TypeOK, FinishCurrent
  <2> QED BY <2>2, <2>3, <2>4, <2>5
<1>9. MarkReady'
  BY <1>4 DEF IInv, TypeOK, MarkReady, FinishCurrent
<1>10. QuietHistory'
  <2>1. \A q \in Deliveries : status'[q] # "absent" => status[q] # "absent"
    BY <1>1, <1>2 DEF IInv, TypeOK
  <2> QED BY <2>1, <1>4 DEF IInv, QuietHistory, FinishCurrent, table
<1>11. ClosedOnlyAfterRelay'
  BY <1>1, <1>2, <1>4 DEF IInv, TypeOK, ClosedOnlyAfterRelay, FinishCurrent
<1> QED BY <1>5, <1>6, <1>8, <1>9, <1>10, <1>11 DEF IInv

LEMMA CrashIInv ==
    ASSUME IInv, NEW r \in Relays, Crash(r)
    PROVE  IInv'
<1> USE OutboxAssumption
<1>1. TypeOK'
  BY DEF IInv, TypeOK, Crash, table, ledger, Phases
<1>2. Allocated' /\ QuietHistory' /\ ClosedOnlyAfterRelay'
  BY DEF IInv, Allocated, QuietHistory, ClosedOnlyAfterRelay, Crash, table,
         ledger
<1>3. RowsListed'
  BY DEF IInv, TypeOK, RowsListed, Crash, table, ledger
<1>4. MarkReady'
  BY DEF IInv, TypeOK, MarkReady, Crash
<1> QED BY <1>1, <1>2, <1>3, <1>4 DEF IInv

LEMMA NextIInv == IInv /\ [Next]_vars => IInv'
<1> SUFFICES ASSUME IInv, [Next]_vars PROVE IInv'
  OBVIOUS
<1>1. ASSUME NEW w \in Watchers, RecordTerminal(w) PROVE IInv'
  BY <1>1, AppendIInv DEF RecordTerminal, Kinds, TerminalKinds, IInv, TypeOK
<1>2. ASSUME NEW w \in Watchers, PushLeavesNoRecord(w) PROVE IInv'
  BY <1>2 DEF PushLeavesNoRecord, IInv, TypeOK, Allocated, RowsListed,
              MarkReady, QuietHistory, ClosedOnlyAfterRelay, table, ledger,
              relayVars
<1>3. ASSUME NEW w \in Watchers, PushFailureRecorded(w) PROVE IInv'
  BY <1>3, AppendIInv DEF PushFailureRecorded, Kinds, TerminalKinds, IInv,
                          TypeOK
<1>4. CASE Journal
  BY <1>4, AppendIInv DEF Journal, Kinds, TerminalKinds, IInv, TypeOK
<1>5. CASE UNCHANGED vars
  BY <1>5 DEF vars, IInv, TypeOK, Allocated, RowsListed, MarkReady,
              QuietHistory, ClosedOnlyAfterRelay
<1> QED
  BY <1>1, <1>2, <1>3, <1>4, <1>5, ListReadIInv, ListCommitIInv, SendIInv,
     MarkIInv, CrashIInv DEF Next

LEMMA Inductive == Spec => []IInv
  BY InitIInv, NextIInv, PTL DEF Spec

(* The variables of the outbox keep their types: relay_scan, pr_watch and  *)
(* the ledger writers never leave the values the schema admits.            *)
THEOREM TypeCorrect == Spec => []TypeOK
  BY Inductive, PTL DEF IInv

(* No delivery is marked delivered before a copy reached the recipient.    *)
THEOREM DeliveredWasRelayed == Spec => []ClosedOnlyAfterRelay
  BY Inductive, PTL DEF IInv

(* The anti-flood boundary: only terminal events enter the ledger, and     *)
(* with no floor below the epoch none from before it.                      *)
THEOREM HistoryStaysQuiet == Spec => []QuietHistory
  BY Inductive, PTL DEF IInv

-----------------------------------------------------------------------------
(* What a step may do to the ledger: a row never disappears, and a         *)
(* delivered one stays delivered.                                          *)
LEMMA LedgerStep ==
    ASSUME IInv, [Next]_vars, NEW p \in Deliveries
    PROVE  /\ status[p] # "absent" => status'[p] # "absent"
           /\ status[p] = "delivered" => status'[p] = "delivered"
<1>1. ASSUME NEW w \in Watchers,
             \/ RecordTerminal(w) \/ PushLeavesNoRecord(w)
             \/ PushFailureRecorded(w)
      PROVE  UNCHANGED status
  BY <1>1 DEF RecordTerminal, PushLeavesNoRecord, PushFailureRecorded, ledger
<1>2. CASE Journal
  BY <1>2 DEF Journal, ledger
<1>3. ASSUME NEW r \in Relays, NEW rcp \in Recipients, NEW floor \in Floors,
             NEW limit \in Limits, ListRead(r, rcp, floor, limit)
      PROVE  UNCHANGED status
  BY <1>3 DEF ListRead, ledger
<1>4. ASSUME NEW r \in Relays, ListCommit(r)
      PROVE  /\ status[p] # "absent" => status'[p] # "absent"
             /\ status[p] = "delivered" => status'[p] = "delivered"
  BY <1>4 DEF ListCommit, BeginStatus
<1>5. ASSUME NEW r \in Relays, NEW e \in Ids, NEW reached \in BOOLEAN,
             NEW ok \in BOOLEAN, Send(r, e, reached, ok)
      PROVE  UNCHANGED status
  BY <1>5 DEF Send, ledger
<1>6. ASSUME NEW r \in Relays, MarkDelivered(r)
      PROVE  /\ status[p] # "absent" => status'[p] # "absent"
             /\ status[p] = "delivered" => status'[p] = "delivered"
  BY <1>6 DEF MarkDelivered, IInv, TypeOK
<1>7. ASSUME NEW r \in Relays, MarkFailed(r)
      PROVE  /\ status[p] # "absent" => status'[p] # "absent"
             /\ status[p] = "delivered" => status'[p] = "delivered"
  <2>1. status' = [status EXCEPT ![<<cur[r], to[r]>>]
                                   = FailStatus(status[<<cur[r], to[r]>>])]
    BY <1>7 DEF MarkFailed
  <2> QED BY <2>1 DEF FailStatus, IInv, TypeOK
<1>8. ASSUME NEW r \in Relays, Crash(r) PROVE UNCHANGED status
  BY <1>8 DEF Crash, ledger
<1>9. CASE UNCHANGED vars
  BY <1>9 DEF vars
<1> QED BY <1>1, <1>2, <1>3, <1>4, <1>5, <1>6, <1>7, <1>8, <1>9 DEF Next

(* delivered is terminal for every interleaving of scans, marks and deaths.*)
THEOREM NeverUndelivered == Spec => DeliveredIsFinal
<1>1. IInv /\ [Next]_vars =>
        [\A p \in Deliveries :
            status[p] = "delivered" => status'[p] = "delivered"]_vars
  BY LedgerStep
<1> QED BY <1>1, Inductive, PTL DEF Spec, DeliveredIsFinal

-----------------------------------------------------------------------------
(* The count of attempts                                                   *)

(* The cycles that have a delivery in hand are finitely many, and with the *)
(* copies already relayed they are within its attempts, while these count. *)
Counted(p) ==
    /\ IsFiniteSet(InHand(p))
    /\ \/ attempt[p] = AttemptCap
       \/ copies[p] + Cardinality(InHand(p)) <= attempt[p]

(* The counters and the number of cycles are numbers.                      *)
LEMMA CountTypes ==
    ASSUME TypeOK, NEW p \in Deliveries
    PROVE  /\ attempt[p] \in Nat /\ copies[p] \in Nat /\ attempt[p] <= AttemptCap
           /\ AttemptCap \in Nat
           /\ IsFiniteSet(InHand(p)) => Cardinality(InHand(p)) \in Nat
BY OutboxAssumption, FS_CardinalityType DEF TypeOK

(* No cycle takes the delivery in hand and no copy is relayed.             *)
LEMMA CountedWithLess ==
    ASSUME TypeOK, TypeOK', NEW p \in Deliveries, Counted(p),
           InHand(p)' \subseteq InHand(p), copies'[p] = copies[p], attempt'[p] = attempt[p]
    PROVE  Counted(p)'
<1>1. /\ IsFiniteSet(InHand(p)') /\ Cardinality(InHand(p)') \in Nat
      /\ Cardinality(InHand(p)') <= Cardinality(InHand(p))
  BY FS_Subset, FS_CardinalityType DEF Counted
<1> QED BY <1>1, CountTypes DEF Counted

(* A cycle takes it in hand with an attempt more.                          *)
LEMMA CountedWithMore ==
    ASSUME TypeOK, TypeOK', NEW p \in Deliveries, Counted(p), NEW r \in Relays,
           InHand(p)' \subseteq InHand(p) \cup {r},
           copies'[p] = copies[p], attempt'[p] = Saturate(attempt[p])
    PROVE  Counted(p)'
<1>1. /\ IsFiniteSet(InHand(p) \cup {r})
      /\ Cardinality(InHand(p) \cup {r}) <= Cardinality(InHand(p)) + 1
      /\ Cardinality(InHand(p) \cup {r}) \in Nat /\ Cardinality(InHand(p)) \in Nat
  <2>1. IsFiniteSet(InHand(p)) /\ Cardinality(InHand(p)) \in Nat
    BY FS_CardinalityType DEF Counted
  <2>2. /\ IsFiniteSet(InHand(p) \cup {r})
        /\ \/ Cardinality(InHand(p) \cup {r}) = Cardinality(InHand(p))
           \/ Cardinality(InHand(p) \cup {r}) = Cardinality(InHand(p)) + 1
    BY <2>1, FS_AddElement
  <2> QED BY <2>1, <2>2
<1>2. /\ IsFiniteSet(InHand(p)') /\ Cardinality(InHand(p)') \in Nat
      /\ Cardinality(InHand(p)') <= Cardinality(InHand(p) \cup {r})
  BY <1>1, FS_Subset, FS_CardinalityType
<1>3. CASE attempt[p] < AttemptCap
  <2>1. attempt'[p] = attempt[p] + 1
    BY <1>3 DEF Saturate
  <2> QED BY <1>1, <1>2, <1>3, <2>1, CountTypes DEF Counted
<1>4. CASE ~(attempt[p] < AttemptCap)
  <2>1. attempt'[p] = AttemptCap
    BY <1>4, CountTypes DEF Saturate
  <2> QED BY <1>2, <2>1 DEF Counted
<1> QED BY <1>3, <1>4

(* A cycle lets go of it, with at most one copy.                           *)
LEMMA CountedWithCopy ==
    ASSUME TypeOK, TypeOK', NEW p \in Deliveries, Counted(p), NEW r \in InHand(p),
           InHand(p)' \subseteq InHand(p) \ {r},
           copies'[p] \in {copies[p], Saturate(copies[p])}, attempt'[p] = attempt[p]
    PROVE  Counted(p)'
<1>1. /\ IsFiniteSet(InHand(p) \ {r})
      /\ Cardinality(InHand(p) \ {r}) = Cardinality(InHand(p)) - 1
      /\ Cardinality(InHand(p) \ {r}) \in Nat /\ Cardinality(InHand(p)) \in Nat
  BY FS_RemoveElement, FS_CardinalityType DEF Counted
<1>2. /\ IsFiniteSet(InHand(p)') /\ Cardinality(InHand(p)') \in Nat
      /\ Cardinality(InHand(p)') <= Cardinality(InHand(p) \ {r})
  BY <1>1, FS_Subset, FS_CardinalityType
<1>3. copies'[p] \in Nat /\ copies'[p] <= copies[p] + 1
  BY CountTypes DEF Saturate
<1> QED BY <1>1, <1>2, <1>3, CountTypes DEF Counted

(* Every step keeps the count.                                             *)
LEMMA CountStep ==
    ASSUME IInv, [Next]_vars, NEW p \in Deliveries, Counted(p)
    PROVE  Counted(p)'
<1>1. TypeOK /\ TypeOK' /\ p[1] \in Ids /\ p[2] \in Recipients /\ p = <<p[1], p[2]>>
  BY NextIInv DEF IInv, Deliveries
<1>2. ASSUME UNCHANGED <<ledger, relayVars, copies>> PROVE Counted(p)'
  <2>1. InHand(p)' = InHand(p)
    BY <1>2 DEF InHand, relayVars
  <2> QED BY <1>1, <1>2, <2>1, CountedWithLess DEF ledger
<1>3. ASSUME NEW r \in Relays, NEW rcp \in Recipients, NEW floor \in Floors,
             NEW limit \in Limits, ListRead(r, rcp, floor, limit)
      PROVE  Counted(p)'
  <2>1. InHand(p)' \subseteq InHand(p)
    BY <1>1, <1>3 DEF ListRead, InHand, TypeOK
  <2> QED BY <1>1, <1>3, <2>1, CountedWithLess DEF ListRead, ledger
<1>4. ASSUME NEW r \in Relays, ListCommit(r) PROVE Counted(p)'
  <2>1. \A q \in Relays \ {r} : phase'[q] = phase[q]
    BY <1>1, <1>4 DEF ListCommit, TypeOK
  <2>2. phase[r] = "read" /\ phase'[r] = "sending" /\ UNCHANGED <<to, rows, cur, copies>>
    BY <1>1, <1>4 DEF ListCommit, TypeOK
  <2>3. CASE p[1] \in rows[r] /\ p[2] = to[r]
    <3>1. attempt'[p] = Saturate(attempt[p])
      BY <1>4, <2>3 DEF ListCommit
    <3>2. InHand(p)' \subseteq InHand(p) \cup {r}
      BY <2>1, <2>2 DEF InHand
    <3> QED BY <1>1, <2>2, <3>1, <3>2, CountedWithMore
  <2>4. CASE ~(p[1] \in rows[r] /\ p[2] = to[r])
    <3>1. attempt'[p] = attempt[p]
      BY <1>4, <2>4 DEF ListCommit
    <3>2. InHand(p)' \subseteq InHand(p)
      BY <2>1, <2>2, <2>4 DEF InHand
    <3> QED BY <1>1, <2>2, <3>1, <3>2, CountedWithLess
  <2> QED BY <2>3, <2>4
<1>5. ASSUME NEW r \in Relays, NEW e \in Ids, NEW reached \in BOOLEAN,
             NEW ok \in BOOLEAN, Send(r, e, reached, ok)
      PROVE  Counted(p)'
  <2>1. \A q \in Relays \ {r} : phase'[q] = phase[q] /\ cur'[q] = cur[q]
    BY <1>1, <1>5 DEF Send, TypeOK
  <2>2. /\ phase[r] = "sending" /\ phase'[r] = "marking" /\ e \in rows[r] /\ cur'[r] = e
        /\ UNCHANGED <<to, rows, attempt>>
    BY <1>1, <1>5 DEF Send, TypeOK, ledger
  <2>3. InHand(p)' \subseteq InHand(p)
    BY <2>1, <2>2 DEF InHand
  <2>4. CASE p = <<e, to[r]>>
    <3>1. r \in InHand(p) /\ r \notin InHand(p)'
      BY <2>2, <2>4 DEF InHand
    <3>2. copies'[p] \in {copies[p], Saturate(copies[p])}
      BY <1>1, <1>5, <2>4 DEF Send, TypeOK
    <3>3. InHand(p)' \subseteq InHand(p) \ {r}
      BY <2>3, <3>1
    <3> QED BY <1>1, <2>2, <3>1, <3>2, <3>3, CountedWithCopy
  <2>5. CASE p # <<e, to[r]>>
    <3>1. copies'[p] = copies[p]
      BY <1>1, <1>5, <2>5 DEF Send, TypeOK
    <3> QED BY <1>1, <2>2, <2>3, <3>1, CountedWithLess
  <2> QED BY <2>4, <2>5
<1>6. ASSUME NEW r \in Relays, MarkDelivered(r) \/ MarkFailed(r) PROVE Counted(p)'
  <2>1. FinishCurrent(r) /\ phase[r] = "marking"
    BY <1>6 DEF MarkDelivered, MarkFailed
  <2>2. InHand(p)' \subseteq InHand(p)
    <3>1. \A q \in Relays \ {r} : phase'[q] = phase[q] /\ rows'[q] = rows[q]
      BY <1>1, <2>1 DEF FinishCurrent, TypeOK
    <3>2. rows'[r] = rows[r] \ {cur[r]} /\ phase'[r] # "marking" /\ UNCHANGED <<to, cur>>
      BY <1>1, <2>1 DEF FinishCurrent, TypeOK
    <3> QED BY <2>1, <3>1, <3>2 DEF InHand
  <2>3. attempt'[p] = attempt[p] /\ copies'[p] = copies[p]
    <3> DEFINE m == <<cur[r], to[r]>>
    <3>1. status[m] # "absent"
      BY <2>1 DEF IInv, MarkReady, RowsListed
    <3>2. attempt' = [attempt EXCEPT ![m] = attempt[m]]
      BY <1>6, <3>1 DEF MarkDelivered, MarkFailed, UpsertAttempt
    <3> QED BY <1>1, <2>1, <3>2 DEF FinishCurrent, TypeOK
  <2> QED BY <1>1, <2>2, <2>3, CountedWithLess
<1>7. ASSUME NEW r \in Relays, Crash(r) PROVE Counted(p)'
  <2>1. InHand(p)' \subseteq InHand(p)
    BY <1>1, <1>7 DEF Crash, InHand, TypeOK
  <2> QED BY <1>1, <1>7, <2>1, CountedWithLess DEF Crash, ledger
<1>8. CASE UNCHANGED vars
  BY <1>2, <1>8 DEF vars, ledger, relayVars
<1>9. ASSUME NEW w \in Watchers,
             RecordTerminal(w) \/ PushLeavesNoRecord(w) \/ PushFailureRecorded(w)
      PROVE  Counted(p)'
  BY <1>2, <1>9 DEF RecordTerminal, PushLeavesNoRecord, PushFailureRecorded
<1>10. CASE Journal
  BY <1>2, <1>10 DEF Journal
<1> QED BY <1>3, <1>4, <1>5, <1>6, <1>7, <1>8, <1>9, <1>10 DEF Next

(* The ledger's attempts bound the copies that a recipient can have seen,  *)
(* those still in the hands of a dispatcher included (begin_delivery_      *)
(* attempt commits before the list is printed).                            *)
THEOREM DuplicatesAreBounded == Spec => []CopiesAccounted
<1>1. Init => \A p \in Deliveries : Counted(p)
  <2> SUFFICES ASSUME Init, NEW p \in Deliveries PROVE Counted(p)
    OBVIOUS
  <2>1. InHand(p) = {} /\ attempt[p] = 0 /\ copies[p] = 0
    BY DEF Init, InHand
  <2> QED BY <2>1, FS_EmptySet DEF Counted
<1>2. IInv /\ (\A p \in Deliveries : Counted(p)) /\ [Next]_vars
         => (\A p \in Deliveries : Counted(p))'
  <2> SUFFICES ASSUME IInv, [Next]_vars, NEW p \in Deliveries, Counted(p) PROVE Counted(p)'
    BY DEF Deliveries
  <2> QED BY CountStep
<1>3. (\A p \in Deliveries : Counted(p)) => CopiesAccounted
  BY DEF Counted, CopiesAccounted
<1> QED BY <1>1, <1>2, <1>3, Inductive, PTL DEF Spec

-----------------------------------------------------------------------------
(* The outbox implements RelayPromise                                      *)

(* What is settled is not owed, and Owed and Settled together are the      *)
(* deliveries that ever became due.                                        *)
LEMMA InitPromise == Init => Promise!Init
  BY OutboxAssumption
     DEF Init, Promise!Init, Owed, Heard, Settled, Deliveries

(* A step that only makes deliveries due is an Incur step.                 *)
LEMMA GrowIsIncur ==
    ASSUME IInv, UNCHANGED copies,
           \A p \in Deliveries : p \in Owed => p \in Owed',
           \A p \in Deliveries : p \in Settled <=> p \in Settled'
    PROVE  Promise!Incur
<1> DEFINE due == Owed' \ Owed
<1>1. Owed \subseteq Deliveries /\ Owed' \subseteq Deliveries
  BY DEF Owed
<1>2. Settled' = Settled /\ Owed' \cap Settled' = {}
  BY DEF Settled, Owed
<1>3. due \in SUBSET (Deliveries \ (Owed \cup Settled))
  BY <1>1, <1>2
<1>4. Owed' = Owed \cup due
  BY <1>1
<1>5. Heard' = Heard
  BY DEF Heard
<1> QED BY <1>2, <1>3, <1>4, <1>5 DEF Promise!Incur

(* An appended event is new to the ledger: it can only make its own        *)
(* deliveries due.                                                         *)
LEMMA AppendPromise ==
    ASSUME IInv, NEW k \in Kinds \ {"none"}, AppendEvent(k),
           UNCHANGED <<ledger, copies>>
    PROVE  Promise!Incur
<1> USE OutboxAssumption
<1>1. last + 1 \in Ids /\ kind[last + 1] = "none"
  BY DEF IInv, TypeOK, Allocated, AppendEvent, Ids
<1>2. \A e \in Ids : kind[e] \in TerminalKinds =>
                        kind'[e] = kind[e] /\ at'[e] = at[e]
  BY <1>1 DEF IInv, TypeOK, AppendEvent, TerminalKinds, Ids
<1>3. \A p \in Deliveries : p[1] \in Ids
  BY DEF Deliveries
<1>4. \A p \in Deliveries : p \in Owed => p \in Owed'
  BY <1>2, <1>3 DEF Owed, ledger
<1>5. \A p \in Deliveries : p \in Settled <=> p \in Settled'
  BY DEF Settled, ledger
<1> QED BY <1>4, <1>5, GrowIsIncur DEF ledger

LEMMA ListCommitPromise ==
    ASSUME IInv, NEW r \in Relays, ListCommit(r)
    PROVE  Promise!Incur
<1>1. \A p \in Deliveries : /\ status[p] = "delivered" <=> status'[p] = "delivered"
                            /\ status[p] # "absent" => status'[p] # "absent"
  BY DEF ListCommit, BeginStatus
<1>2. UNCHANGED <<kind, at, copies>>
  BY DEF ListCommit, table
<1>3. \A p \in Deliveries : p \in Owed => p \in Owed'
  BY <1>1, <1>2 DEF Owed
<1>4. \A p \in Deliveries : p \in Settled <=> p \in Settled'
  BY <1>1 DEF Settled
<1> QED BY <1>2, <1>3, <1>4, GrowIsIncur

(* A send is heard of by the recipient it was listed for, or by nobody.    *)
LEMMA SendPromise ==
    ASSUME IInv, NEW r \in Relays, NEW e \in Ids,
           NEW reached \in BOOLEAN, NEW ok \in BOOLEAN,
           Send(r, e, reached, ok)
    PROVE  [Promise!Next]_(Promise!vars)
<1> USE OutboxAssumption
<1> DEFINE p == <<e, to[r]>>
<1>1. p \in Deliveries /\ status[p] # "absent"
  BY DEF IInv, TypeOK, RowsListed, Send, Deliveries
<1>2. p \in Owed \cup Settled
  BY <1>1 DEF Owed, Settled
<1>3. Owed' = Owed /\ Settled' = Settled
  BY DEF Owed, Settled, Send, table, ledger
<1>4. CASE reached
  <2>1. copies' = [copies EXCEPT ![p] = Saturate(copies[p])]
    BY <1>4 DEF Send
  <2>2. Saturate(copies[p]) > 0
    BY <1>1, SaturateFacts DEF IInv, TypeOK
  <2>3. Heard' = Heard \cup {p}
    BY <1>1, <2>1, <2>2 DEF Heard, IInv, TypeOK
  <2> QED BY <1>2, <1>3, <2>3 DEF Promise!Next, Promise!Hear
<1>5. CASE ~reached
  <2>1. Heard' = Heard
    BY <1>5 DEF Heard, Send
  <2> QED BY <1>3, <2>1 DEF Promise!vars
<1> QED BY <1>4, <1>5

(* A mark settles a delivery that is owed and heard of, or changes nothing *)
(* the promise sees.                                                       *)
LEMMA MarkPromise ==
    ASSUME IInv, NEW r \in Relays, MarkDelivered(r) \/ MarkFailed(r)
    PROVE  [Promise!Next]_(Promise!vars)
<1> DEFINE p == <<cur[r], to[r]>>
<1>1. /\ p \in Deliveries /\ status[p] # "absent"
      /\ confirmed[r] => copies[p] > 0
  BY DEF IInv, TypeOK, MarkReady, RowsListed, MarkDelivered, MarkFailed,
         Deliveries
<1>2. UNCHANGED <<kind, at, copies>>
  BY DEF MarkDelivered, MarkFailed, FinishCurrent, table
<1>3. Heard' = Heard
  BY <1>2 DEF Heard
<1>4. CASE MarkDelivered(r)
  <2>1. status' = [status EXCEPT ![p] = "delivered"] /\ p \in Heard
    BY <1>1, <1>4 DEF MarkDelivered, Heard
  <2>2. Owed' = Owed \ {p} /\ Settled' = Settled \cup {p}
    BY <1>1, <1>2, <2>1 DEF IInv, TypeOK, Owed, Settled
  <2>3. CASE status[p] = "delivered"
    <3>1. p \in Settled /\ p \notin Owed
      BY <1>1, <2>3 DEF Settled, Owed
    <3> QED BY <1>3, <2>2, <3>1 DEF Promise!vars
  <2>4. CASE status[p] # "delivered"
    <3>1. p \in Owed
      BY <1>1, <2>4 DEF Owed
    <3> QED BY <1>3, <2>1, <2>2, <3>1 DEF Promise!Next, Promise!Settle
  <2> QED BY <2>3, <2>4
<1>5. CASE MarkFailed(r)
  <2>1. status' = [status EXCEPT ![p] = FailStatus(status[p])]
    BY <1>5 DEF MarkFailed
  <2>2. \A q \in Deliveries :
           /\ status[q] = "delivered" <=> status'[q] = "delivered"
           /\ status[q] = "absent" <=> status'[q] = "absent"
    BY <1>1, <2>1 DEF FailStatus, IInv, TypeOK
  <2>3. Owed' = Owed /\ Settled' = Settled
    BY <1>2, <2>2 DEF Owed, Settled
  <2> QED BY <1>3, <2>3 DEF Promise!vars
<1> QED BY <1>4, <1>5

LEMMA StepPromise == IInv /\ [Next]_vars => [Promise!Next]_(Promise!vars)
<1> SUFFICES ASSUME IInv, [Next]_vars
             PROVE  [Promise!Next]_(Promise!vars)
  OBVIOUS
<1>1. ASSUME NEW w \in Watchers, RecordTerminal(w) PROVE Promise!Incur
  BY <1>1, AppendPromise DEF RecordTerminal, Kinds, TerminalKinds
<1>2. ASSUME NEW w \in Watchers, PushFailureRecorded(w) PROVE Promise!Incur
  BY <1>2, AppendPromise DEF PushFailureRecorded, Kinds, TerminalKinds
<1>3. ASSUME Journal PROVE Promise!Incur
  BY <1>3, AppendPromise DEF Journal, Kinds, TerminalKinds
<1>4. ASSUME UNCHANGED <<kind, at, status, copies>>
      PROVE  UNCHANGED Promise!vars
  BY <1>4 DEF Promise!vars, Owed, Heard, Settled
<1>5. ASSUME NEW w \in Watchers, PushLeavesNoRecord(w)
      PROVE  UNCHANGED Promise!vars
  BY <1>4, <1>5 DEF PushLeavesNoRecord, table, ledger
<1>6. ASSUME NEW r \in Relays, NEW rcp \in Recipients, NEW floor \in Floors,
             NEW limit \in Limits, ListRead(r, rcp, floor, limit)
      PROVE  UNCHANGED Promise!vars
  BY <1>4, <1>6 DEF ListRead, table, ledger
<1>7. ASSUME NEW r \in Relays, Crash(r) PROVE UNCHANGED Promise!vars
  BY <1>4, <1>7 DEF Crash, table, ledger
<1>8. CASE UNCHANGED vars
  BY <1>4, <1>8 DEF vars
<1> QED
  BY <1>1, <1>2, <1>3, <1>5, <1>6, <1>7, <1>8, ListCommitPromise, SendPromise,
     MarkPromise DEF Next, Promise!Next

(* The relay implements its promise: nothing due is dropped, nothing is    *)
(* settled unheard, nothing settled comes back.                            *)
THEOREM OutboxImplementsPromise == Spec => KeepsPromise
  BY InitPromise, StepPromise, Inductive, PTL
     DEF Spec, KeepsPromise, Promise!Spec
=============================================================================
