------------------------- MODULE StateWriter_proofs -------------------------
(***************************************************************************)
(* Proofs about StateWriter for any number of writers, runs and commits.   *)
(***************************************************************************)
EXTENDS StateWriter, TLAPS

(* A writer is in the phase its variables say: what it holds of the        *)
(* transaction and of the archive queue belongs to where it is.            *)
PhaseInv ==
    \A w \in Writers :
        /\ snap[w] # NoSnap => pc[w] = "open" /\ snap[w] <= commits
        /\ pc[w] = "idle" => queue[w] = {}
        /\ pc[w] # "move" => moving[w] = {}

(* The write lock: the writer that holds it has seen the newest commit,    *)
(* and its own is still within the bound.                                  *)
LockInv ==
    /\ \A w \in Writers : wrote[w] => snap[w] = commits /\ commits < MaxCommit
    /\ \A w, u \in Writers : wrote[w] /\ wrote[u] => w = u

(* A completion that a current transaction sees is committed already or is *)
(* its own, and then the run is in its queue.                              *)
ViewInv ==
    \A w \in Writers, t \in Runs :
        snap[w] = commits /\ view[w][t] = "completed"
            => status[t] = "completed" \/ t \in queue[w]

(* What is archived, or about to be, was completed.                        *)
ArchiveInv ==
    /\ \A t \in Runs : status[t] = "completed" => t \in completed
    /\ \A w \in Writers : moving[w] \subseteq completed
    /\ ArchivedWasCompleted

(* The files and the rendering of the only writer at work are current.     *)
Current == [session |-> commits, runs |-> commits]
SoloInv ==
    ~excuse =>
        /\ \A w, u \in Writers : pc[w] \in FileHooks /\ pc[u] \in FileHooks => w = u
        /\ \A w \in Writers : pc[w] \in FileHooks =>
              /\ pc[w] = "runs" => shot[w].session = commits
              /\ pc[w] = "replace" => shot[w] = Current
              /\ file[w] = "json" => shown["md"] = Current
        /\ (\A w \in Writers : pc[w] \notin FileHooks) => \A f \in Files : shown[f] = Current

(* The inductive invariant.                                                *)
IInv == /\ TypeOK
        /\ PhaseInv
        /\ LockInv
        /\ ViewInv
        /\ NothingLeftBehind
        /\ ArchiveInv
        /\ SoloInv
-----------------------------------------------------------------------------
(* The step from one file to the next, or to the archive, stays in the     *)
(* hooks.                                                                  *)
LEMMA NextFileTypes ==
    ASSUME TypeOK, NEW w \in Writers, pc[w] \in FileHooks, NextFile(w)
    PROVE  /\ file' \in [Writers -> Files]
           /\ pc' \in [Writers -> Hooks \cup {"idle", "open"}]
           /\ \A u \in Writers : pc[u] \in Hooks => pc'[u] \in Hooks
<1>1. \/ file' = [file EXCEPT ![w] = "json"] /\ pc' = [pc EXCEPT ![w] = "session"]
      \/ file' = [file EXCEPT ![w] = "md"] /\ pc' = [pc EXCEPT ![w] = "drain"]
  BY DEF NextFile, Goto
<1>2. "session" \in Hooks /\ "drain" \in Hooks /\ "md" \in Files /\ "json" \in Files
  BY DEF Hooks, FileHooks, Files
<1>3. ASSUME NEW p \in Hooks, NEW f \in Files,
             file' = [file EXCEPT ![w] = f], pc' = [pc EXCEPT ![w] = p]
      PROVE  /\ file' \in [Writers -> Files]
             /\ pc' \in [Writers -> Hooks \cup {"idle", "open"}]
             /\ \A u \in Writers : pc[u] \in Hooks => pc'[u] \in Hooks
  BY <1>3 DEF TypeOK
<1> QED BY <1>1, <1>2, <1>3

(* What has not been read is a shot, too.                                  *)
LEMMA NothingIsShot == Nothing \in Shots
BY StateWriterAssumption DEF Nothing, Shots

(* Every step keeps the types.                                            *)
LEMMA TypeStep ==
    ASSUME IInv, [Next]_vars
    PROVE  TypeOK'
<1> USE DEF IInv, db, fs, tx, hook, Goto
<1>1. ASSUME NEW w \in Writers, Begin(w) PROVE  TypeOK'
  BY <1>1 DEF TypeOK, Begin
<1>2. ASSUME NEW w \in Writers, Select(w) PROVE  TypeOK'
  BY <1>2, StateWriterAssumption DEF TypeOK, Select, NoSnap
<1>3. ASSUME NEW w \in Writers, WriteElsewhere(w) PROVE  TypeOK'
  BY <1>3, StateWriterAssumption DEF TypeOK, WriteElsewhere, CanWrite, Put,
    Seen, NoSnap
<1>4. ASSUME NEW w \in Writers, NEW t \in Runs, NEW s \in Written,
             UpsertRun(w, t, s)
      PROVE  TypeOK'
  BY <1>4, StateWriterAssumption DEF TypeOK, UpsertRun, CanWrite, Put, Seen,
    NoSnap
<1>5. ASSUME NEW w \in Writers, NEW t \in Runs, NEW s \in Written,
             UpdateRunStatus(w, t, s)
      PROVE  TypeOK'
  BY <1>5, StateWriterAssumption DEF TypeOK, UpdateRunStatus, CanWrite, Put,
    Seen, NoSnap
<1>6. ASSUME NEW w \in Writers, Rollback(w) PROVE  TypeOK'
  BY <1>6, StateWriterAssumption DEF TypeOK, Rollback, EndTransaction, Empty,
    NoSnap
<1>7. ASSUME NEW w \in Writers, Commit(w) PROVE  TypeOK'
  <2>1. status' \in [Runs -> Statuses \cup {"absent"}]
    BY <1>7 DEF TypeOK, Commit
  <2>2. commits' \in 0..MaxCommit
    BY <1>7, StateWriterAssumption DEF TypeOK, Commit, LockInv
  <2> QED
    BY <1>7, <2>1, <2>2, StateWriterAssumption DEF TypeOK, Commit,
      EndTransaction, Empty, NoSnap, Hooks, FileHooks, Files
<1>8. ASSUME NEW w \in Writers, ReadSession(w) PROVE  TypeOK'
  BY <1>8, StateWriterAssumption DEF TypeOK, ReadSession, Shots, Hooks,
    FileHooks
<1>9. ASSUME NEW w \in Writers, ReadRuns(w) PROVE  TypeOK'
  BY <1>9 DEF TypeOK, ReadRuns, Shots, Hooks, FileHooks
<1>10. ASSUME NEW w \in Writers, ReplaceFile(w) PROVE  TypeOK'
  <2>1. /\ file' \in [Writers -> Files]
        /\ pc' \in [Writers -> Hooks \cup {"idle", "open"}]
        /\ \A u \in Writers : pc[u] \in Hooks => pc'[u] \in Hooks
    BY <1>10, NextFileTypes DEF ReplaceFile, FileHooks
  <2> QED
    BY <1>10, <2>1, NothingIsShot DEF TypeOK, ReplaceFile
<1>11. ASSUME NEW w \in Writers, HookFails(w) PROVE  TypeOK'
  <2>1. /\ file' \in [Writers -> Files]
        /\ pc' \in [Writers -> Hooks \cup {"idle", "open"}]
        /\ \A u \in Writers : pc[u] \in Hooks => pc'[u] \in Hooks
    BY <1>11, NextFileTypes DEF HookFails, FileHooks
  <2> QED
    BY <1>11, <2>1, NothingIsShot DEF TypeOK, HookFails
<1>12. ASSUME NEW w \in Writers, Drain(w) PROVE  TypeOK'
  <2>1. PICK t \in queue[w] : /\ queue' = [queue EXCEPT ![w] = @ \ {t}]
                              /\ IF t \in Due(w) \cap note
                                 THEN /\ moving' = [moving EXCEPT ![w] = {t}]
                                      /\ Goto(w, "move")
                                 ELSE UNCHANGED <<moving, pc>>
    BY <1>12 DEF Drain
  <2>2. pc[w] = "drain" /\ UNCHANGED <<db, fs, tx, hook, shown, excuse>>
    BY <1>12 DEF Drain
  <2>3. CASE t \in Due(w) \cap note
    <3>1. t \in Runs /\ "move" \in Hooks
      BY <2>1 DEF TypeOK, Hooks
    <3>2. /\ moving' = [moving EXCEPT ![w] = {t}]
          /\ pc' = [pc EXCEPT ![w] = "move"]
      BY <2>1, <2>3
    <3>3. /\ moving' \in [Writers -> SUBSET Runs]
          /\ pc' \in [Writers -> Hooks \cup {"idle", "open"}]
      BY <3>1, <3>2 DEF TypeOK
    <3>4. queue' \in [Writers -> SUBSET Runs]
      BY <2>1 DEF TypeOK
    <3> QED BY <2>2, <3>3, <3>4 DEF TypeOK
  <2>4. CASE t \notin Due(w) \cap note
    BY <2>1, <2>2, <2>4 DEF TypeOK
  <2> QED BY <2>3, <2>4
<1>13. ASSUME NEW w \in Writers, Drained(w) PROVE  TypeOK'
  BY <1>13 DEF TypeOK, Drained
<1>14. ASSUME NEW w \in Writers, Move(w) PROVE  TypeOK'
  BY <1>14 DEF TypeOK, Move, Hooks
<1>15. ASSUME NEW w \in Writers, Die(w) PROVE  TypeOK'
  BY <1>15, StateWriterAssumption DEF TypeOK, Die, EndTransaction, Shots,
    Empty, Nothing, NoSnap, Files
<1>16. ASSUME NEW t \in Runs, WriteNote(t) PROVE  TypeOK'
  BY <1>16 DEF TypeOK, WriteNote
<1>17. CASE UNCHANGED vars
  BY <1>17 DEF TypeOK, vars
<1> QED
  BY <1>1, <1>2, <1>3, <1>4, <1>5, <1>6, <1>7, <1>8, <1>9, <1>10, <1>11,
    <1>12, <1>13, <1>14, <1>15, <1>16, <1>17 DEF Next

(* Every step keeps a writer in phase.                                     *)
LEMMA PhaseStep ==
    ASSUME IInv, [Next]_vars
    PROVE  PhaseInv'
<1> USE DEF IInv, db, fs, tx, hook, Goto
<1>1. ASSUME NEW w \in Writers, Begin(w) PROVE  PhaseInv'
  BY <1>1 DEF Begin, PhaseInv
<1>2. ASSUME NEW w \in Writers, Select(w) PROVE  PhaseInv'
  BY <1>2 DEF TypeOK, Select, PhaseInv
<1>3. ASSUME NEW w \in Writers, WriteElsewhere(w) PROVE  PhaseInv'
  BY <1>3 DEF TypeOK, WriteElsewhere, CanWrite, Put, PhaseInv
<1>4. ASSUME NEW w \in Writers, NEW t \in Runs, NEW s \in Written,
             UpsertRun(w, t, s)
      PROVE  PhaseInv'
  BY <1>4 DEF TypeOK, UpsertRun, CanWrite, Put, PhaseInv
<1>5. ASSUME NEW w \in Writers, NEW t \in Runs, NEW s \in Written,
             UpdateRunStatus(w, t, s)
      PROVE  PhaseInv'
  BY <1>5 DEF TypeOK, UpdateRunStatus, CanWrite, Put, PhaseInv
<1>6. ASSUME NEW w \in Writers, Rollback(w) PROVE  PhaseInv'
  BY <1>6 DEF TypeOK, Rollback, EndTransaction, PhaseInv
<1>7. ASSUME NEW w \in Writers, Commit(w) PROVE  PhaseInv'
  BY <1>7 DEF TypeOK, Commit, EndTransaction, PhaseInv
<1>8. ASSUME NEW w \in Writers, ReadSession(w) PROVE  PhaseInv'
  BY <1>8 DEF ReadSession, PhaseInv
<1>9. ASSUME NEW w \in Writers, ReadRuns(w) PROVE  PhaseInv'
  BY <1>9 DEF ReadRuns, PhaseInv
<1>10. ASSUME NEW w \in Writers, ReplaceFile(w) PROVE  PhaseInv'
  BY <1>10 DEF TypeOK, ReplaceFile, NextFile, PhaseInv
<1>11. ASSUME NEW w \in Writers, HookFails(w) PROVE  PhaseInv'
  BY <1>11 DEF TypeOK, HookFails, NextFile, PhaseInv
<1>12. ASSUME NEW w \in Writers, Drain(w) PROVE  PhaseInv'
  BY <1>12 DEF TypeOK, Drain, Due, PhaseInv
<1>13. ASSUME NEW w \in Writers, Drained(w) PROVE  PhaseInv'
  BY <1>13 DEF Drained, PhaseInv
<1>14. ASSUME NEW w \in Writers, Move(w) PROVE  PhaseInv'
  BY <1>14 DEF TypeOK, Move, PhaseInv
<1>15. ASSUME NEW w \in Writers, Die(w) PROVE  PhaseInv'
  BY <1>15 DEF TypeOK, Die, EndTransaction, PhaseInv
<1>16. ASSUME NEW t \in Runs, WriteNote(t) PROVE  PhaseInv'
  BY <1>16 DEF WriteNote, PhaseInv
<1>17. CASE UNCHANGED vars
  BY <1>17 DEF PhaseInv, vars
<1> QED
  BY <1>1, <1>2, <1>3, <1>4, <1>5, <1>6, <1>7, <1>8, <1>9, <1>10, <1>11,
    <1>12, <1>13, <1>14, <1>15, <1>16, <1>17 DEF Next

(* Every step keeps the lock: a commit leaves nobody else holding it.      *)
LEMMA LockStep ==
    ASSUME IInv, [Next]_vars
    PROVE  LockInv'
<1> USE DEF IInv, db, fs, tx, hook, Goto
<1>1. ASSUME NEW w \in Writers, Begin(w) PROVE  LockInv'
  BY <1>1 DEF Begin, LockInv
<1>2. ASSUME NEW w \in Writers, Select(w) PROVE  LockInv'
  BY <1>2 DEF Select, LockInv
<1>3. ASSUME NEW w \in Writers, WriteElsewhere(w) PROVE  LockInv'
  BY <1>3 DEF TypeOK, WriteElsewhere, CanWrite, Put, LockInv
<1>4. ASSUME NEW w \in Writers, NEW t \in Runs, NEW s \in Written,
             UpsertRun(w, t, s)
      PROVE  LockInv'
  BY <1>4 DEF TypeOK, UpsertRun, CanWrite, Put, LockInv
<1>5. ASSUME NEW w \in Writers, NEW t \in Runs, NEW s \in Written,
             UpdateRunStatus(w, t, s)
      PROVE  LockInv'
  BY <1>5 DEF TypeOK, UpdateRunStatus, CanWrite, Put, LockInv
<1>6. ASSUME NEW w \in Writers, Rollback(w) PROVE  LockInv'
  BY <1>6 DEF TypeOK, Rollback, EndTransaction, LockInv
<1>7. ASSUME NEW w \in Writers, Commit(w) PROVE  LockInv'
  BY <1>7 DEF TypeOK, Commit, EndTransaction, LockInv
<1>8. ASSUME NEW w \in Writers, ReadSession(w) PROVE  LockInv'
  BY <1>8 DEF ReadSession, LockInv
<1>9. ASSUME NEW w \in Writers, ReadRuns(w) PROVE  LockInv'
  BY <1>9 DEF ReadRuns, LockInv
<1>10. ASSUME NEW w \in Writers, ReplaceFile(w) PROVE  LockInv'
  BY <1>10 DEF ReplaceFile, NextFile, LockInv
<1>11. ASSUME NEW w \in Writers, HookFails(w) PROVE  LockInv'
  BY <1>11 DEF HookFails, NextFile, LockInv
<1>12. ASSUME NEW w \in Writers, Drain(w) PROVE  LockInv'
  BY <1>12 DEF Drain, Due, LockInv
<1>13. ASSUME NEW w \in Writers, Drained(w) PROVE  LockInv'
  BY <1>13 DEF Drained, LockInv
<1>14. ASSUME NEW w \in Writers, Move(w) PROVE  LockInv'
  BY <1>14 DEF Move, LockInv
<1>15. ASSUME NEW w \in Writers, Die(w) PROVE  LockInv'
  BY <1>15 DEF TypeOK, Die, EndTransaction, LockInv
<1>16. ASSUME NEW t \in Runs, WriteNote(t) PROVE  LockInv'
  BY <1>16 DEF WriteNote, LockInv
<1>17. CASE UNCHANGED vars
  BY <1>17 DEF LockInv, vars
<1> QED
  BY <1>1, <1>2, <1>3, <1>4, <1>5, <1>6, <1>7, <1>8, <1>9, <1>10, <1>11,
    <1>12, <1>13, <1>14, <1>15, <1>16, <1>17 DEF Next

(* Every step keeps the completions a transaction sees in its queue.       *)
LEMMA ViewStep ==
    ASSUME IInv, [Next]_vars
    PROVE  ViewInv'
<1> USE DEF IInv, db, fs, tx, hook, Goto
<1>1. ASSUME NEW w \in Writers, Begin(w) PROVE  ViewInv'
  BY <1>1 DEF Begin, ViewInv
<1>2. ASSUME NEW w \in Writers, Select(w) PROVE  ViewInv'
  BY <1>2 DEF TypeOK, Select, ViewInv
<1>3. ASSUME NEW w \in Writers, WriteElsewhere(w) PROVE  ViewInv'
  BY <1>3 DEF TypeOK, WriteElsewhere, CanWrite, Put, Seen, ViewInv
<1>4. ASSUME NEW w \in Writers, NEW t \in Runs, NEW s \in Written,
             UpsertRun(w, t, s)
      PROVE  ViewInv'
  BY <1>4 DEF TypeOK, UpsertRun, CanWrite, Put, Seen, ViewInv
<1>5. ASSUME NEW w \in Writers, NEW t \in Runs, NEW s \in Written,
             UpdateRunStatus(w, t, s)
      PROVE  ViewInv'
  BY <1>5 DEF TypeOK, UpdateRunStatus, CanWrite, Put, Seen, ViewInv
<1>6. ASSUME NEW w \in Writers, Rollback(w) PROVE  ViewInv'
  BY <1>6, StateWriterAssumption DEF TypeOK, Rollback, EndTransaction,
    ViewInv, NoSnap
<1>7. ASSUME NEW w \in Writers, Commit(w) PROVE  ViewInv'
  <2> SUFFICES ASSUME NEW u \in Writers, NEW t \in Runs,
                      snap'[u] = commits', view'[u][t] = "completed"
               PROVE  status'[t] = "completed" \/ t \in queue'[u]
    BY DEF ViewInv
  <2>1. u # w /\ snap[u] = snap'[u] /\ view[u] = view'[u] /\ queue' = queue
    BY <1>7, StateWriterAssumption DEF TypeOK, Commit, EndTransaction,
      LockInv, NoSnap
  <2>2. CASE wrote[w]
    BY <1>7, <2>1, <2>2, StateWriterAssumption DEF TypeOK, Commit, PhaseInv,
      LockInv, NoSnap
  <2>3. CASE ~wrote[w]
    BY <1>7, <2>1, <2>3 DEF Commit, ViewInv
  <2> QED BY <2>2, <2>3
<1>8. ASSUME NEW w \in Writers, ReadSession(w) PROVE  ViewInv'
  BY <1>8 DEF ReadSession, ViewInv
<1>9. ASSUME NEW w \in Writers, ReadRuns(w) PROVE  ViewInv'
  BY <1>9 DEF ReadRuns, ViewInv
<1>10. ASSUME NEW w \in Writers, ReplaceFile(w) PROVE  ViewInv'
  BY <1>10 DEF ReplaceFile, NextFile, ViewInv
<1>11. ASSUME NEW w \in Writers, HookFails(w) PROVE  ViewInv'
  BY <1>11 DEF HookFails, NextFile, ViewInv
<1>12. ASSUME NEW w \in Writers, Drain(w) PROVE  ViewInv'
  BY <1>12, StateWriterAssumption DEF TypeOK, Drain, Due, PhaseInv, ViewInv,
    NoSnap
<1>13. ASSUME NEW w \in Writers, Drained(w) PROVE  ViewInv'
  BY <1>13 DEF Drained, ViewInv
<1>14. ASSUME NEW w \in Writers, Move(w) PROVE  ViewInv'
  BY <1>14 DEF Move, ViewInv
<1>15. ASSUME NEW w \in Writers, Die(w) PROVE  ViewInv'
  BY <1>15, StateWriterAssumption DEF TypeOK, Die, EndTransaction, ViewInv,
    NoSnap
<1>16. ASSUME NEW t \in Runs, WriteNote(t) PROVE  ViewInv'
  BY <1>16 DEF WriteNote, ViewInv
<1>17. CASE UNCHANGED vars
  BY <1>17 DEF ViewInv, vars
<1> QED
  BY <1>1, <1>2, <1>3, <1>4, <1>5, <1>6, <1>7, <1>8, <1>9, <1>10, <1>11,
    <1>12, <1>13, <1>14, <1>15, <1>16, <1>17 DEF Next

(* Every step keeps the note of a completed run on somebody's list.        *)
LEMMA NoteStep ==
    ASSUME IInv, [Next]_vars
    PROVE  NothingLeftBehind'
<1> USE DEF IInv, db, fs, tx, hook, Goto
<1>1. ASSUME NEW w \in Writers, Begin(w) PROVE  NothingLeftBehind'
  BY <1>1 DEF Begin, NothingLeftBehind, Hooks, FileHooks
<1>2. ASSUME NEW w \in Writers, Select(w) PROVE  NothingLeftBehind'
  BY <1>2 DEF Select, NothingLeftBehind
<1>3. ASSUME NEW w \in Writers, WriteElsewhere(w) PROVE  NothingLeftBehind'
  BY <1>3 DEF WriteElsewhere, CanWrite, Put, NothingLeftBehind
<1>4. ASSUME NEW w \in Writers, NEW t \in Runs, NEW s \in Written,
             UpsertRun(w, t, s)
      PROVE  NothingLeftBehind'
  BY <1>4 DEF UpsertRun, CanWrite, Put, NothingLeftBehind
<1>5. ASSUME NEW w \in Writers, NEW t \in Runs, NEW s \in Written,
             UpdateRunStatus(w, t, s)
      PROVE  NothingLeftBehind'
  BY <1>5 DEF UpdateRunStatus, CanWrite, Put, NothingLeftBehind
<1>6. ASSUME NEW w \in Writers, Rollback(w) PROVE  NothingLeftBehind'
  BY <1>6 DEF Rollback, EndTransaction, NothingLeftBehind, Hooks, FileHooks
<1>7. ASSUME NEW w \in Writers, Commit(w) PROVE  NothingLeftBehind'
  BY <1>7 DEF TypeOK, Commit, EndTransaction, LockInv, ViewInv,
    NothingLeftBehind, Hooks, FileHooks
<1>8. ASSUME NEW w \in Writers, ReadSession(w) PROVE  NothingLeftBehind'
  BY <1>8 DEF ReadSession, NothingLeftBehind, Hooks, FileHooks
<1>9. ASSUME NEW w \in Writers, ReadRuns(w) PROVE  NothingLeftBehind'
  BY <1>9 DEF ReadRuns, NothingLeftBehind, Hooks, FileHooks
<1>10. ASSUME NEW w \in Writers, ReplaceFile(w) PROVE  NothingLeftBehind'
  <2>1. /\ file' \in [Writers -> Files]
        /\ pc' \in [Writers -> Hooks \cup {"idle", "open"}]
        /\ \A u \in Writers : pc[u] \in Hooks => pc'[u] \in Hooks
    BY <1>10, NextFileTypes DEF ReplaceFile, FileHooks
  <2> QED
    BY <1>10, <2>1 DEF ReplaceFile, NothingLeftBehind
<1>11. ASSUME NEW w \in Writers, HookFails(w) PROVE  NothingLeftBehind'
  <2>1. /\ file' \in [Writers -> Files]
        /\ pc' \in [Writers -> Hooks \cup {"idle", "open"}]
        /\ \A u \in Writers : pc[u] \in Hooks => pc'[u] \in Hooks
    BY <1>11, NextFileTypes DEF HookFails, FileHooks
  <2> QED
    BY <1>11, <2>1 DEF HookFails, NothingLeftBehind
<1>12. ASSUME NEW w \in Writers, Drain(w) PROVE  NothingLeftBehind'
  <2>1. PICK t \in queue[w] : /\ queue' = [queue EXCEPT ![w] = @ \ {t}]
                              /\ IF t \in Due(w) \cap note
                                 THEN /\ moving' = [moving EXCEPT ![w] = {t}]
                                      /\ Goto(w, "move")
                                 ELSE UNCHANGED <<moving, pc>>
    BY <1>12 DEF Drain
  <2>2. pc[w] = "drain" /\ UNCHANGED <<db, fs, tx, hook, shown, excuse>>
    BY <1>12 DEF Drain
  <2>3. CASE t \in Due(w) \cap note
    BY <2>1, <2>2, <2>3 DEF TypeOK, Due, PhaseInv, NothingLeftBehind, Hooks
  <2>4. CASE t \notin Due(w) \cap note
    BY <2>1, <2>2, <2>4 DEF Due, NothingLeftBehind
  <2> QED BY <2>3, <2>4
<1>13. ASSUME NEW w \in Writers, Drained(w) PROVE  NothingLeftBehind'
  BY <1>13 DEF Drained, PhaseInv, NothingLeftBehind
<1>14. ASSUME NEW w \in Writers, Move(w) PROVE  NothingLeftBehind'
  BY <1>14 DEF Move, NothingLeftBehind, Hooks
<1>15. ASSUME NEW w \in Writers, Die(w) PROVE  NothingLeftBehind'
  BY <1>15 DEF Die, EndTransaction, NothingLeftBehind
<1>16. ASSUME NEW t \in Runs, WriteNote(t) PROVE  NothingLeftBehind'
  BY <1>16 DEF WriteNote, NothingLeftBehind, Live
<1>17. CASE UNCHANGED vars
  BY <1>17 DEF NothingLeftBehind, vars
<1> QED
  BY <1>1, <1>2, <1>3, <1>4, <1>5, <1>6, <1>7, <1>8, <1>9, <1>10, <1>11,
    <1>12, <1>13, <1>14, <1>15, <1>16, <1>17 DEF Next

(* Every step archives completed runs only.                                *)
LEMMA ArchiveStep ==
    ASSUME IInv, [Next]_vars
    PROVE  ArchiveInv'
<1> USE DEF IInv, db, fs, tx, hook, Goto
<1>1. ASSUME NEW w \in Writers, Begin(w) PROVE  ArchiveInv'
  BY <1>1 DEF Begin, ArchiveInv, ArchivedWasCompleted
<1>2. ASSUME NEW w \in Writers, Select(w) PROVE  ArchiveInv'
  BY <1>2 DEF Select, ArchiveInv, ArchivedWasCompleted
<1>3. ASSUME NEW w \in Writers, WriteElsewhere(w) PROVE  ArchiveInv'
  BY <1>3 DEF WriteElsewhere, CanWrite, Put, ArchiveInv, ArchivedWasCompleted
<1>4. ASSUME NEW w \in Writers, NEW t \in Runs, NEW s \in Written,
             UpsertRun(w, t, s)
      PROVE  ArchiveInv'
  BY <1>4 DEF UpsertRun, CanWrite, Put, ArchiveInv, ArchivedWasCompleted
<1>5. ASSUME NEW w \in Writers, NEW t \in Runs, NEW s \in Written,
             UpdateRunStatus(w, t, s)
      PROVE  ArchiveInv'
  BY <1>5 DEF UpdateRunStatus, CanWrite, Put, ArchiveInv, ArchivedWasCompleted
<1>6. ASSUME NEW w \in Writers, Rollback(w) PROVE  ArchiveInv'
  BY <1>6 DEF Rollback, EndTransaction, ArchiveInv, ArchivedWasCompleted
<1>7. ASSUME NEW w \in Writers, Commit(w) PROVE  ArchiveInv'
  BY <1>7 DEF Commit, EndTransaction, ArchiveInv, ArchivedWasCompleted
<1>8. ASSUME NEW w \in Writers, ReadSession(w) PROVE  ArchiveInv'
  BY <1>8 DEF ReadSession, ArchiveInv, ArchivedWasCompleted
<1>9. ASSUME NEW w \in Writers, ReadRuns(w) PROVE  ArchiveInv'
  BY <1>9 DEF ReadRuns, ArchiveInv, ArchivedWasCompleted
<1>10. ASSUME NEW w \in Writers, ReplaceFile(w) PROVE  ArchiveInv'
  BY <1>10 DEF ReplaceFile, NextFile, ArchiveInv, ArchivedWasCompleted
<1>11. ASSUME NEW w \in Writers, HookFails(w) PROVE  ArchiveInv'
  BY <1>11 DEF HookFails, NextFile, ArchiveInv, ArchivedWasCompleted
<1>12. ASSUME NEW w \in Writers, Drain(w) PROVE  ArchiveInv'
  <2>1. PICK t \in queue[w] : /\ queue' = [queue EXCEPT ![w] = @ \ {t}]
                              /\ IF t \in Due(w) \cap note
                                 THEN /\ moving' = [moving EXCEPT ![w] = {t}]
                                      /\ Goto(w, "move")
                                 ELSE UNCHANGED <<moving, pc>>
    BY <1>12 DEF Drain
  <2>2. pc[w] = "drain" /\ UNCHANGED <<db, fs, tx, hook, shown, excuse>>
    BY <1>12 DEF Drain
  <2>3. CASE t \in Due(w) \cap note
    BY <2>1, <2>2, <2>3 DEF TypeOK, Due, ArchiveInv, ArchivedWasCompleted
  <2>4. CASE t \notin Due(w) \cap note
    BY <2>1, <2>2, <2>4 DEF Due, ArchiveInv, ArchivedWasCompleted
  <2> QED BY <2>3, <2>4
<1>13. ASSUME NEW w \in Writers, Drained(w) PROVE  ArchiveInv'
  BY <1>13 DEF Drained, ArchiveInv, ArchivedWasCompleted
<1>14. ASSUME NEW w \in Writers, Move(w) PROVE  ArchiveInv'
  BY <1>14 DEF Move, ArchiveInv, ArchivedWasCompleted
<1>15. ASSUME NEW w \in Writers, Die(w) PROVE  ArchiveInv'
  BY <1>15 DEF Die, EndTransaction, ArchiveInv, ArchivedWasCompleted
<1>16. ASSUME NEW t \in Runs, WriteNote(t) PROVE  ArchiveInv'
  BY <1>16 DEF WriteNote, ArchiveInv, ArchivedWasCompleted
<1>17. CASE UNCHANGED vars
  BY <1>17 DEF ArchiveInv, ArchivedWasCompleted, vars
<1> QED
  BY <1>1, <1>2, <1>3, <1>4, <1>5, <1>6, <1>7, <1>8, <1>9, <1>10, <1>11,
    <1>12, <1>13, <1>14, <1>15, <1>16, <1>17 DEF Next

(* Every step keeps a lonely rendering current.                            *)
LEMMA SoloStep ==
    ASSUME IInv, [Next]_vars
    PROVE  SoloInv'
<1> USE DEF IInv, db, fs, tx, hook, Goto
<1>1. ASSUME NEW w \in Writers, Begin(w) PROVE  SoloInv'
  BY <1>1 DEF Begin, SoloInv, Current, FileHooks
<1>2. ASSUME NEW w \in Writers, Select(w) PROVE  SoloInv'
  BY <1>2 DEF Select, SoloInv, Current
<1>3. ASSUME NEW w \in Writers, WriteElsewhere(w) PROVE  SoloInv'
  BY <1>3 DEF WriteElsewhere, CanWrite, Put, SoloInv, Current
<1>4. ASSUME NEW w \in Writers, NEW t \in Runs, NEW s \in Written,
             UpsertRun(w, t, s)
      PROVE  SoloInv'
  BY <1>4 DEF UpsertRun, CanWrite, Put, SoloInv, Current
<1>5. ASSUME NEW w \in Writers, NEW t \in Runs, NEW s \in Written,
             UpdateRunStatus(w, t, s)
      PROVE  SoloInv'
  BY <1>5 DEF UpdateRunStatus, CanWrite, Put, SoloInv, Current
<1>6. ASSUME NEW w \in Writers, Rollback(w) PROVE  SoloInv'
  BY <1>6 DEF Rollback, EndTransaction, SoloInv, Current, FileHooks
<1>7. ASSUME NEW w \in Writers, Commit(w) PROVE  SoloInv'
  BY <1>7 DEF TypeOK, Commit, EndTransaction, SoloInv, FileHooks
<1>8. ASSUME NEW w \in Writers, ReadSession(w) PROVE  SoloInv'
  BY <1>8 DEF TypeOK, ReadSession, SoloInv, Current, FileHooks
<1>9. ASSUME NEW w \in Writers, ReadRuns(w) PROVE  SoloInv'
  BY <1>9 DEF TypeOK, ReadRuns, SoloInv, Current, FileHooks, Shots
<1>10. ASSUME NEW w \in Writers, ReplaceFile(w) PROVE  SoloInv'
  <2>1. /\ pc[w] = "replace" /\ excuse' = excuse
        /\ shown' = [shown EXCEPT ![file[w]] = shot[w]]
        /\ UNCHANGED <<db, tx>>
    BY <1>10 DEF ReplaceFile
  <2>2. CASE file[w] = "md"
    <3>1. file' = [file EXCEPT ![w] = "json"] /\ pc' = [pc EXCEPT ![w] =
      "session"]
      BY <1>10, <2>2 DEF ReplaceFile, NextFile
    <3>2. pc'[w] = "session" /\ \A u \in Writers \ {w} : pc'[u] = pc[u]
      BY <3>1 DEF TypeOK
    <3>3. ~excuse => shown'["md"] = Current /\ commits' = commits
      BY <2>1, <2>2 DEF TypeOK, SoloInv, FileHooks
    <3> QED
      BY <2>1, <3>2, <3>3 DEF SoloInv, Current, FileHooks
  <2>3. CASE file[w] = "json"
    <3>1. pc' = [pc EXCEPT ![w] = "drain"]
      BY <1>10, <2>3 DEF ReplaceFile, NextFile
    <3>2. pc'[w] = "drain" /\ \A u \in Writers \ {w} : pc'[u] = pc[u]
      BY <3>1 DEF TypeOK
    <3>3. ~excuse => /\ shown'["md"] = Current /\ shown'["json"] = Current
                     /\ commits' = commits
      BY <2>1, <2>3 DEF TypeOK, SoloInv, FileHooks
    <3> QED
      BY <2>1, <3>2, <3>3 DEF SoloInv, Current, FileHooks, Files
  <2> QED BY <2>2, <2>3 DEF TypeOK, Files
<1>11. ASSUME NEW w \in Writers, HookFails(w) PROVE  SoloInv'
  BY <1>11 DEF HookFails, NextFile, SoloInv
<1>12. ASSUME NEW w \in Writers, Drain(w) PROVE  SoloInv'
  <2>1. PICK t \in queue[w] : /\ queue' = [queue EXCEPT ![w] = @ \ {t}]
                              /\ IF t \in Due(w) \cap note
                                 THEN /\ moving' = [moving EXCEPT ![w] = {t}]
                                      /\ Goto(w, "move")
                                 ELSE UNCHANGED <<moving, pc>>
    BY <1>12 DEF Drain
  <2>2. pc[w] = "drain" /\ UNCHANGED <<db, fs, tx, hook, shown, excuse>>
    BY <1>12 DEF Drain
  <2>3. CASE t \in Due(w) \cap note
    BY <2>1, <2>2, <2>3 DEF TypeOK, Due, SoloInv, Current, FileHooks
  <2>4. CASE t \notin Due(w) \cap note
    BY <2>1, <2>2, <2>4 DEF Due, SoloInv, Current
  <2> QED BY <2>3, <2>4
<1>13. ASSUME NEW w \in Writers, Drained(w) PROVE  SoloInv'
  BY <1>13 DEF Drained, SoloInv, Current, FileHooks
<1>14. ASSUME NEW w \in Writers, Move(w) PROVE  SoloInv'
  BY <1>14 DEF Move, SoloInv, Current, FileHooks
<1>15. ASSUME NEW w \in Writers, Die(w) PROVE  SoloInv'
  BY <1>15 DEF TypeOK, Die, EndTransaction, SoloInv, Current, FileHooks
<1>16. ASSUME NEW t \in Runs, WriteNote(t) PROVE  SoloInv'
  BY <1>16 DEF WriteNote, SoloInv, Current
<1>17. CASE UNCHANGED vars
  BY <1>17 DEF SoloInv, Current, vars
<1> QED
  BY <1>1, <1>2, <1>3, <1>4, <1>5, <1>6, <1>7, <1>8, <1>9, <1>10, <1>11,
    <1>12, <1>13, <1>14, <1>15, <1>16, <1>17 DEF Next
-----------------------------------------------------------------------------
(* The theorems                                                            *)

(* The inductive invariant holds at the start.                             *)
LEMMA InitIInv == Init => IInv
<1> SUFFICES ASSUME Init PROVE IInv
  OBVIOUS
<1> USE StateWriterAssumption DEF Init
<1>1. TypeOK
  <2>1. /\ status \in [Runs -> Statuses \cup {"absent"}]
        /\ view \in [Writers -> [Runs -> Statuses \cup {"absent"}]]
    BY DEF Empty
  <2>2. commits \in 0..MaxCommit /\ snap \in [Writers -> 0..NoSnap]
    BY DEF NoSnap
  <2>3. shown \in [Files -> Shots] /\ shot \in [Writers -> Shots]
    BY NothingIsShot
  <2>4. "md" \in Files
    BY DEF Files
  <2> QED BY <2>1, <2>2, <2>3, <2>4 DEF TypeOK
<1>2. PhaseInv /\ LockInv
  BY DEF PhaseInv, LockInv
<1>3. ViewInv /\ NothingLeftBehind
  BY DEF ViewInv, NothingLeftBehind, Empty
<1>4. ArchiveInv
  BY DEF ArchiveInv, ArchivedWasCompleted, Empty
<1>5. SoloInv
  BY DEF SoloInv, Current, Nothing, FileHooks
<1> QED BY <1>1, <1>2, <1>3, <1>4, <1>5 DEF IInv

(* Every step keeps it.                                                    *)
THEOREM Invariance == Spec => []IInv
<1>1. IInv /\ [Next]_vars => IInv'
  BY TypeStep, PhaseStep, LockStep, ViewStep, NoteStep, ArchiveStep, SoloStep
     DEF IInv
<1> QED BY InitIInv, <1>1, PTL DEF Spec

(* The writers and the database have their types.                          *)
THEOREM TypeCorrect == Spec => []TypeOK
<1>1. IInv => TypeOK
  BY DEF IInv
<1> QED BY Invariance, <1>1, PTL

(* Only notes of runs that were completed are archived, whatever is rolled *)
(* back or re-opened meanwhile.                                            *)
THEOREM ArchiveIsSound == Spec => []ArchivedWasCompleted
<1>1. IInv => ArchivedWasCompleted
  BY DEF IInv, ArchiveInv
<1> QED BY Invariance, <1>1, PTL

(* No interleaving of any number of writers forgets the note of a run that *)
(* is completed.                                                           *)
THEOREM NoNoteForgotten == Spec => []NothingLeftBehind
<1>1. IInv => NothingLeftBehind
  BY DEF IInv
<1> QED BY Invariance, <1>1, PTL

(* A commit that runs alone brings both files up to date.                  *)
THEOREM CatchesUp == Spec => []SoloCommitCatchesUp
<1>1. IInv => SoloCommitCatchesUp
  BY DEF IInv, SoloInv, SoloCommitCatchesUp, Current
<1> QED BY Invariance, <1>1, PTL
=============================================================================
