---------------------------- MODULE Tools_proofs ----------------------------
(***************************************************************************)
(* Proofs about the programs that run beside the registry, for any number of*)
(* pids, clients, tools, lines and cycles: the pid files (Sidecar), the    *)
(* dashboard, the opening of the database, the sending of messages, the    *)
(* inspection of panes, the retro gate, the scan for work, the drift check *)
(* and the sweep (Upkeep) and the pruning of the settings (SetupPrune).    *)
(***************************************************************************)
EXTENDS Tools, Integers, FiniteSetTheorems, SequenceTheorems, WellFoundedInduction, TLAPS

-----------------------------------------------------------------------------
(* The pid files and the stop commands                                     *)

(* A command that stops has a record; once it has asked who has the pid,   *)
(* that process is of the tool until it is gone.                           *)
StopInv ==
    /\ stop.phase # "none" => stop.record \in SC!Records
    /\ stop.phase = "verified" /\ proc[stop.record.pid] # SC!NoProcess =>
         proc[stop.record.pid].program = stop.tool

(* The watcher that wrote last is there, and its file, as long as no stop  *)
(* command was at work when it wrote.                                      *)
Lives(r) == /\ proc[r.pid] \in SC!Processes /\ proc[r.pid] # SC!NoProcess
            /\ proc[r.pid].program = "watcher"
            /\ proc[r.pid].phase \in {"running", "ending"}

NewestInv ==
    newest # NoRecord =>
        /\ Lives(newest)
        /\ ~raced => file["watcher"] = newest

(* A stop command that is at work on the watcher then has its record, and  *)
(* when it has signalled, the watcher is about to end.                     *)
StopOfNewestInv ==
    ~raced /\ newest # NoRecord /\ stop.phase # "none" /\ stop.tool = "watcher" =>
        /\ stop.record = newest
        /\ stop.phase = "signalled" => proc[newest.pid].phase = "ending"

IInv == SC!TypeOK /\ SC!OnlyOwnProgramStopped /\ StopInv /\ NewestInv /\ StopOfNewestInv
-----------------------------------------------------------------------------
(* The steps                                                               *)

(* A process starts: not under the pid that was just verified, and not     *)
(* under that of a watcher that is there.                                  *)
LEMMA StartIInv ==
    ASSUME IInv, NEW p \in Pids,
           NEW t \in {"watcher", "server", "other"},
           NEW b \in Brokers, SC!Start(p, t, b)
    PROVE  IInv'
<1>1. SC!TypeOK'
  BY DEF IInv, SC!TypeOK, SC!Tools, SC!Processes, SC!Start
<1>2. SC!OnlyOwnProgramStopped'
  BY DEF IInv, SC!OnlyOwnProgramStopped, SC!TypeOK, SC!Start
<1>3. StopInv'
  BY DEF IInv, StopInv, SC!TypeOK, SC!Start
<1>4. NewestInv'
  BY DEF IInv, NewestInv, Lives, SC!TypeOK, SC!Start
<1>5. StopOfNewestInv'
  BY DEF IInv, StopOfNewestInv, NewestInv, Lives, SC!TypeOK, SC!Start
<1> QED BY <1>1, <1>2, <1>3, <1>4, <1>5 DEF IInv

(* A watcher that writes its file is the newest; the server has another.   *)
LEMMA WritePidFileIInv ==
    ASSUME IInv, NEW p \in Pids, SC!WritePidFile(p)
    PROVE  IInv'
<1> DEFINE r == [pid |-> p, broker |-> proc[p].broker]
<1>0. /\ p \in Pids /\ proc[p] \in SC!Processes /\ proc[p].phase = "starting"
      /\ proc' = [proc EXCEPT ![p] = [proc[p] EXCEPT !.phase = "running"]]
      /\ [proc[p] EXCEPT !.phase = "running"] \in SC!Processes
      /\ r \in SC!Records
  BY DEF IInv, SC!TypeOK, SC!WritePidFile, SC!Processes, SC!Records
<1>1. SC!TypeOK'
  BY <1>0 DEF IInv, SC!TypeOK, SC!Tools, SC!WritePidFile
<1>2. SC!OnlyOwnProgramStopped'
  BY DEF IInv, SC!OnlyOwnProgramStopped, SC!TypeOK, SC!WritePidFile
<1>3. StopInv'
  BY DEF IInv, StopInv, SC!TypeOK, SC!WritePidFile
<1>4. NewestInv'
  <2>1. CASE proc[p].program = "watcher"
    <3>1. newest' = r /\ file'["watcher"] = r
      BY <2>1 DEF IInv, SC!TypeOK, SC!Tools, SC!WritePidFile
    <3>2. /\ newest'.pid = p /\ proc'[p] = [proc[p] EXCEPT !.phase = "running"]
          /\ proc'[p].program = "watcher" /\ proc'[p].phase = "running"
      BY <1>0, <2>1, <3>1 DEF IInv, SC!TypeOK, SC!Processes
    <3> QED BY <1>0, <3>1, <3>2 DEF NewestInv, Lives, SC!Processes, SC!NoProcess
  <2>2. CASE proc[p].program # "watcher"
    <3>1. newest' = newest /\ raced' = raced /\ file'["watcher"] = file["watcher"]
      BY <2>2 DEF IInv, SC!TypeOK, SC!Tools, SC!WritePidFile
    <3>2. newest # NoRecord => newest.pid # p /\ proc'[newest.pid] = proc[newest.pid]
      BY <1>0, <2>2 DEF IInv, SC!TypeOK, NewestInv, Lives, SC!Records
    <3> QED BY <3>1, <3>2 DEF IInv, NewestInv, Lives
  <2> QED BY <2>1, <2>2
<1>5. StopOfNewestInv'
  BY DEF IInv, StopOfNewestInv, SC!TypeOK, SC!Records, SC!WritePidFile
<1> QED BY <1>1, <1>2, <1>3, <1>4, <1>5 DEF IInv

(* An older watcher that ends finds another pid in the file and leaves it. *)
LEMMA WatcherEndsIInv ==
    ASSUME IInv, NEW p \in Pids, SC!WatcherEnds(p)
    PROVE  IInv'
<1>1. SC!TypeOK'
  BY DEF IInv, SC!TypeOK, SC!WatcherEnds, SC!RemoveOwnFile, SC!Leaves, SC!Gone
<1>2. SC!OnlyOwnProgramStopped'
  BY DEF IInv, SC!OnlyOwnProgramStopped, SC!TypeOK, SC!WatcherEnds
<1>3. StopInv'
  BY DEF IInv, StopInv, SC!TypeOK, SC!WatcherEnds, SC!Gone
<1>4. NewestInv'
  BY DEF IInv, NewestInv, Lives, SC!TypeOK, SC!WatcherEnds, SC!RemoveOwnFile, SC!Leaves,
         SC!Gone
<1>5. StopOfNewestInv'
  BY DEF IInv, StopOfNewestInv, SC!TypeOK, SC!WatcherEnds, SC!Leaves, SC!Gone
<1> QED BY <1>1, <1>2, <1>3, <1>4, <1>5 DEF IInv

(* The server removes its own file only.                                   *)
LEMMA ServerEndsIInv ==
    ASSUME IInv, NEW p \in Pids, SC!ServerEnds(p)
    PROVE  IInv'
<1>1. SC!TypeOK'
  BY DEF IInv, SC!TypeOK, SC!ServerEnds, SC!Gone
<1>2. SC!OnlyOwnProgramStopped'
  BY DEF IInv, SC!OnlyOwnProgramStopped, SC!TypeOK, SC!ServerEnds
<1>3. StopInv'
  BY DEF IInv, StopInv, SC!TypeOK, SC!ServerEnds, SC!Gone
<1>4. NewestInv'
  BY DEF IInv, NewestInv, Lives, SC!TypeOK, SC!Tools, SC!ServerEnds, SC!Gone
<1>5. StopOfNewestInv'
  BY DEF IInv, StopOfNewestInv, NewestInv, Lives, SC!TypeOK, SC!ServerEnds, SC!Gone
<1> QED BY <1>1, <1>2, <1>3, <1>4, <1>5 DEF IInv

(* A process that is killed leaves everything as it is.                    *)
LEMMA CrashIInv ==
    ASSUME IInv, NEW p \in Pids, SC!Crash(p)
    PROVE  IInv'
<1>1. SC!TypeOK'
  BY DEF IInv, SC!TypeOK, SC!Crash, SC!Leaves, SC!Gone
<1>2. SC!OnlyOwnProgramStopped'
  BY DEF IInv, SC!OnlyOwnProgramStopped, SC!TypeOK, SC!Crash
<1>3. StopInv'
  BY DEF IInv, StopInv, SC!TypeOK, SC!Crash, SC!Gone
<1>4. NewestInv'
  BY DEF IInv, NewestInv, Lives, SC!TypeOK, SC!Crash, SC!Leaves, SC!Gone
<1>5. StopOfNewestInv'
  BY DEF IInv, StopOfNewestInv, NewestInv, Lives, SC!TypeOK, SC!Crash, SC!Leaves, SC!Gone
<1> QED BY <1>1, <1>2, <1>3, <1>4, <1>5 DEF IInv

(* A stop command reads the file of the newest.                            *)
LEMMA StopReadsIInv ==
    ASSUME IInv, NEW t \in SC!Tools,
           NEW env \in Brokers \cup {"unset"}, SC!StopReads(t, env)
    PROVE  IInv'
<1>1. SC!TypeOK'
  BY DEF IInv, SC!TypeOK, SC!StopReads
<1>2. SC!OnlyOwnProgramStopped'
  BY DEF IInv, SC!OnlyOwnProgramStopped, SC!TypeOK, SC!StopReads
<1>3. StopInv'
  BY DEF IInv, StopInv, SC!TypeOK, SC!StopReads
<1>4. NewestInv'
  BY DEF IInv, NewestInv, Lives, SC!TypeOK, SC!StopReads
<1>5. StopOfNewestInv'
  BY DEF IInv, StopOfNewestInv, NewestInv, SC!TypeOK, SC!StopReads
<1> QED BY <1>1, <1>2, <1>3, <1>4, <1>5 DEF IInv

(* A record that was stale is not that of a watcher that is there.         *)
LEMMA StopFindsStaleIInv ==
    ASSUME IInv, SC!StopFindsStale
    PROVE  IInv'
<1>1. SC!TypeOK'
  BY DEF IInv, SC!TypeOK, SC!Tools, SC!StopFindsStale, SC!NoStop
<1>2. SC!OnlyOwnProgramStopped'
  BY DEF IInv, SC!OnlyOwnProgramStopped, SC!TypeOK, SC!StopFindsStale
<1>3. StopInv'
  BY DEF StopInv, SC!TypeOK, SC!StopFindsStale, SC!NoStop
<1>4. NewestInv'
  BY DEF IInv, NewestInv, Lives, SC!TypeOK, StopOfNewestInv, SC!StopFindsStale
<1>5. StopOfNewestInv'
  BY DEF StopOfNewestInv, SC!TypeOK, SC!StopFindsStale, SC!NoStop
<1> QED BY <1>1, <1>2, <1>3, <1>4, <1>5 DEF IInv

(* From here on the pid is that of a process of the tool.                  *)
LEMMA StopVerifiesIInv ==
    ASSUME IInv, SC!StopVerifies
    PROVE  IInv'
<1>1. SC!TypeOK'
  BY DEF IInv, SC!TypeOK, SC!StopVerifies
<1>2. SC!OnlyOwnProgramStopped'
  BY DEF IInv, SC!OnlyOwnProgramStopped, SC!TypeOK, SC!StopVerifies
<1>3. StopInv'
  BY DEF IInv, StopInv, SC!TypeOK, SC!StopVerifies, SC!IdentityOk
<1>4. NewestInv'
  BY DEF IInv, NewestInv, Lives, SC!TypeOK, SC!StopVerifies
<1>5. StopOfNewestInv'
  BY DEF IInv, StopOfNewestInv, SC!TypeOK, SC!StopVerifies
<1> QED BY <1>1, <1>2, <1>3, <1>4, <1>5 DEF IInv

(* Nothing was done.                                                       *)
LEMMA StopGivesUpIInv ==
    ASSUME IInv, SC!StopGivesUp
    PROVE  IInv'
<1>1. SC!TypeOK'
  BY DEF IInv, SC!TypeOK, SC!Tools, SC!StopGivesUp, SC!NoStop
<1>2. SC!OnlyOwnProgramStopped'
  BY DEF IInv, SC!OnlyOwnProgramStopped, SC!TypeOK, SC!StopGivesUp
<1>3. StopInv'
  BY DEF StopInv, SC!TypeOK, SC!StopGivesUp, SC!NoStop
<1>4. NewestInv'
  BY DEF IInv, NewestInv, Lives, SC!TypeOK, SC!StopGivesUp
<1>5. StopOfNewestInv'
  BY DEF StopOfNewestInv, SC!TypeOK, SC!StopGivesUp, SC!NoStop
<1> QED BY <1>1, <1>2, <1>3, <1>4, <1>5 DEF IInv

(* Only a process of the tool is sent the signal; a verified process that  *)
(* has gone was not the newest watcher.                                    *)
LEMMA StopSignalsIInv ==
    ASSUME IInv, SC!StopSignals
    PROVE  IInv'
<1> DEFINE p == stop.record.pid
<1>0. /\ p \in Pids /\ stop.record \in SC!Records /\ stop.phase = "verified"
      /\ proc[p] # SC!NoProcess => proc[p] \in SC!Processes /\ proc[p].program = stop.tool
      /\ proc[p] # SC!NoProcess =>
           /\ proc' = [proc EXCEPT ![p] = [proc[p] EXCEPT !.phase = "ending"]]
           /\ [proc[p] EXCEPT !.phase = "ending"] \in SC!Processes
  BY DEF IInv, SC!TypeOK, StopInv, SC!StopSignals, SC!Processes, SC!Records
<1>1. SC!TypeOK'
  <2>1. CASE proc[p] = SC!NoProcess
    BY <2>1 DEF IInv, SC!TypeOK, SC!StopSignals, SC!NoStop, SC!Tools
  <2>2. CASE proc[p] # SC!NoProcess
    BY <1>0, <2>2 DEF IInv, SC!TypeOK, SC!StopSignals, SC!Processes
  <2> QED BY <2>1, <2>2
<1>2. SC!OnlyOwnProgramStopped'
  BY DEF IInv, SC!OnlyOwnProgramStopped, SC!TypeOK, StopInv, SC!StopSignals
<1>3. StopInv'
  BY DEF IInv, StopInv, SC!TypeOK, SC!StopSignals, SC!NoStop
<1>4. NewestInv'
  <2> SUFFICES ASSUME newest # NoRecord
               PROVE  Lives(newest)' /\ (~raced => file'["watcher"] = newest)
    BY DEF NewestInv, SC!StopSignals
  <2>1. newest \in SC!Records /\ Lives(newest)
    BY DEF IInv, SC!TypeOK, NewestInv
  <2>2. CASE proc[p] = SC!NoProcess
    <3>1. stop.tool = "watcher" => raced
      BY <1>0, <2>1, <2>2 DEF IInv, StopOfNewestInv, Lives
    <3>2. /\ UNCHANGED <<proc, raced>>
          /\ stop.tool # "watcher" => file'["watcher"] = file["watcher"]
      BY <1>0, <2>2 DEF IInv, SC!TypeOK, SC!StopSignals, SC!Tools
    <3> QED BY <2>1, <3>1, <3>2 DEF IInv, NewestInv, SC!StopSignals, Lives
  <2>3. CASE proc[p] # SC!NoProcess
    <3>1. proc'[newest.pid] = IF newest.pid = p THEN [proc[p] EXCEPT !.phase = "ending"]
                              ELSE proc[newest.pid]
      BY <1>0, <2>1, <2>3 DEF IInv, SC!TypeOK, SC!Records
    <3>2. Lives(newest)'
      <4>1. CASE newest.pid = p
        BY <1>0, <2>1, <2>3, <3>1, <4>1 DEF Lives, SC!Processes, SC!NoProcess, SC!StopSignals
      <4>2. CASE newest.pid # p
        BY <2>1, <3>1, <4>2 DEF Lives, SC!StopSignals
      <4> QED BY <4>1, <4>2
    <3> QED BY <2>3, <3>2 DEF IInv, NewestInv, SC!StopSignals
  <2> QED BY <2>2, <2>3
<1>5. StopOfNewestInv'
  BY DEF IInv, StopOfNewestInv, SC!TypeOK, SC!Processes, SC!Records, SC!StopSignals,
         SC!NoStop
<1> QED BY <1>1, <1>2, <1>3, <1>4, <1>5 DEF IInv

(* The file that is removed is that of the process that was stopped.       *)
LEMMA StopRemovesIInv ==
    ASSUME IInv, SC!StopRemoves
    PROVE  IInv'
<1>1. SC!TypeOK'
  BY DEF IInv, SC!TypeOK, SC!Tools, SC!StopRemoves, SC!RemoveOwnFile, SC!NoStop
<1>2. SC!OnlyOwnProgramStopped'
  BY DEF IInv, SC!OnlyOwnProgramStopped, SC!TypeOK, SC!StopRemoves
<1>3. StopInv'
  BY DEF StopInv, SC!TypeOK, SC!StopRemoves, SC!NoStop
<1>4. NewestInv'
  BY DEF IInv, NewestInv, Lives, SC!TypeOK, StopOfNewestInv, SC!StopRemoves
<1>5. StopOfNewestInv'
  BY DEF StopOfNewestInv, SC!TypeOK, SC!StopRemoves, SC!NoStop
<1> QED BY <1>1, <1>2, <1>3, <1>4, <1>5 DEF IInv

(* The invariant holds throughout.                                         *)
LEMMA Invariance == SC!Spec => []IInv
<1>1. SC!Init => IInv
  <2> SUFFICES ASSUME SC!Init PROVE IInv
    OBVIOUS
  <2>1. stop.phase = "none" /\ newest = NoRecord
    BY DEF SC!Init, SC!NoStop
  <2>2. SC!TypeOK
    BY DEF SC!Init, SC!NoStop, SC!TypeOK, SC!Tools
  <2>3. SC!OnlyOwnProgramStopped
    BY DEF SC!Init, SC!OnlyOwnProgramStopped
  <2> QED BY <2>1, <2>2, <2>3 DEF IInv, StopInv, NewestInv, StopOfNewestInv
<1>2. IInv /\ [SC!Next]_SC!vars => IInv'
  <2> SUFFICES ASSUME IInv, [SC!Next]_SC!vars PROVE IInv'
    OBVIOUS
  <2>1. CASE SC!Next
    BY <2>1, StartIInv, WritePidFileIInv, WatcherEndsIInv, ServerEndsIInv, CrashIInv,
       StopReadsIInv, StopFindsStaleIInv, StopVerifiesIInv, StopGivesUpIInv,
       StopSignalsIInv, StopRemovesIInv DEF SC!Next
  <2>2. CASE UNCHANGED SC!vars
    BY <2>2 DEF SC!vars, IInv, SC!TypeOK, SC!OnlyOwnProgramStopped, StopInv, NewestInv, Lives,
                StopOfNewestInv
  <2> QED BY <2>1, <2>2
<1> QED BY <1>1, <1>2, PTL DEF SC!Spec
-----------------------------------------------------------------------------
(* The theorems                                                            *)

(* Type correctness.                                                       *)
THEOREM TypeCorrect == SC!Spec => []SC!TypeOK
<1>1. IInv => SC!TypeOK
  BY DEF IInv
<1> QED BY <1>1, Invariance, PTL

(* --stop of the watcher and stop_dashboard.py signal no process of        *)
(* another program, whatever stale pid files say and however pids are used *)
(* again.                                                                  *)
THEOREM StopsOnlyItsOwn == SC!Spec => []SC!OnlyOwnProgramStopped
<1>1. IInv => SC!OnlyOwnProgramStopped
  BY DEF IInv
<1> QED BY <1>1, Invariance, PTL

(* A watcher that wrote its pid file while no stop command was at work is  *)
(* found through it until it ends.                                         *)
THEOREM NewestCanBeFound == SC!Spec => []SC!NewestIsFindable
<1>1. IInv => SC!NewestIsFindable
  BY DEF IInv, NewestInv, SC!NewestIsFindable
<1> QED BY <1>1, Invariance, PTL
-----------------------------------------------------------------------------
(* The dashboard                                                           *)

(* What was read at v is at least as new as what was read at u.            *)
UpTo(u, v) == \A p \in DB!Parts : u[p] <= v[p]

(* The thread builds from the database as it saw it, and nobody has seen   *)
(* more than there is.                                                     *)
ThreadInv ==
    /\ 1 <= mtimes["db"] /\ UpTo(mtimes, version)
    /\ building # DB!Idle => building["db"] = mtimes["db"]

ClientInv(c) ==
    /\ c \in subscribed <=> phase[c] # "off"
    /\ phase[c] = "off" => queue[c] = <<>>
    /\ UpTo(first[c], version) /\ UpTo(shown[c], version)
    /\ \A i \in DOMAIN queue[c] : UpTo(queue[c][i], version)

(* When the thread has put out what it last saw, the last state that a     *)
(* client has been sent, will be sent, or is building, is no older.        *)
LastInv(c) ==
    building = DB!Idle /\ ~missed =>
        /\ queue[c] # <<>> => UpTo(mtimes, queue[c][Len(queue[c])])
        /\ queue[c] = <<>> /\ phase[c] = "half built" => mtimes["db"] <= first[c]["db"]
        /\ queue[c] = <<>> /\ phase[c] = "streaming" => UpTo(mtimes, shown[c])

DBInv == DB!TypeOK /\ ThreadInv /\ \A c \in Clients : ClientInv(c) /\ LastInv(c)

(* States of the two parts: the order, and what replacing one part does.   *)
LEMMA Order ==
    /\ \A v \in DB!Versions : UpTo(v, v) /\ UpTo(DB!Unread, v)
    /\ \A u, v \in DB!Versions : UpTo(u, v) /\ UpTo(v, u) => u = v
    /\ \A u, v, w \in DB!Versions : UpTo(u, v) /\ UpTo(v, w) => UpTo(u, w)
BY DEF DB!Unread, DB!Versions, DB!Parts, UpTo

LEMMA OnePart ==
    ASSUME NEW v \in DB!Versions, NEW p \in DB!Parts, NEW n \in Nat
    PROVE  /\ [v EXCEPT ![p] = n] \in DB!Versions
           /\ [v EXCEPT ![p] = n][p] = n
           /\ \A q \in DB!Parts \ {p} : [v EXCEPT ![p] = n][q] = v[q]
BY DEF DB!Versions

LEMMA PartsOf ==
    /\ "db" \in DB!Parts /\ "files" \in DB!Parts /\ "db" # "files"
    /\ \A p \in DB!Parts : p = "db" \/ p = "files"
    /\ \A v \in DB!Versions, p \in DB!Parts : v[p] \in Nat
    /\ DB!Idle \in DB!Versions /\ DB!Unread \in DB!Versions /\ DB!Idle["db"] = 0
BY DEF DB!Idle, DB!Unread, DB!Versions, DB!Parts

LEMMA ChangeDB == ASSUME DBInv, NEW p \in DB!Parts, DB!Change(p) PROVE DBInv'
<1>1. /\ version' = [version EXCEPT ![p] = version[p] + 1]
      /\ UNCHANGED <<mtimes, building, failures, missed, subscribed, queue, phase, first, shown>>
  BY DEF DB!Change, DB!clientVars
<1>2. /\ version \in DB!Versions /\ mtimes \in DB!Versions /\ ThreadInv
      /\ \A c \in Clients : /\ first[c] \in DB!Versions /\ shown[c] \in DB!Versions
                            /\ queue[c] \in Seq(DB!Versions) /\ ClientInv(c) /\ LastInv(c)
  BY DEF DBInv, DB!TypeOK
<1>3. version' \in DB!Versions /\ UpTo(version, version')
  BY <1>1, <1>2 DEF DB!Versions, UpTo
<1>4. \A u \in DB!Versions : UpTo(u, version) => UpTo(u, version')
  BY <1>2, <1>3, Order
<1>5. DB!TypeOK'
  BY <1>1, <1>3 DEF DBInv, DB!TypeOK
<1>6. ThreadInv'
  BY <1>1, <1>2, <1>4 DEF ThreadInv
<1>7. ASSUME NEW c \in Clients PROVE ClientInv(c)' /\ LastInv(c)'
  <2>1. \A i \in DOMAIN queue[c] : queue[c][i] \in DB!Versions
    BY <1>2
  <2>2. ClientInv(c)'
    BY <1>1, <1>2, <1>4, <2>1 DEF ClientInv
  <2>3. LastInv(c)'
    BY <1>1, <1>2 DEF LastInv
  <2> QED BY <2>2, <2>3
<1> QED BY <1>5, <1>6, <1>7 DEF DBInv

LEMMA SeeChangeDB == ASSUME DBInv, DB!SeeChange PROVE DBInv'
<1>1. /\ building' = [building EXCEPT !["db"] = version["db"]] /\ mtimes' = version
      /\ missed' = FALSE
      /\ UNCHANGED <<version, failures, subscribed, queue, phase, first, shown>>
  BY DEF DB!SeeChange, DB!clientVars
<1>2. /\ version \in DB!Versions /\ building \in DB!Versions /\ ThreadInv
      /\ mtimes \in DB!Versions
  BY DEF DBInv, DB!TypeOK
<1>3. version["db"] \in Nat /\ mtimes["db"] \in Nat /\ mtimes["db"] <= version["db"]
  BY <1>2, PartsOf DEF ThreadInv, UpTo
<1>4. building' \in DB!Versions /\ building'["db"] = version["db"]
  <2>1. "db" \in DB!Parts
    BY PartsOf
  <2> DEFINE state == [building EXCEPT !["db"] = version["db"]]
  <2>2. state \in DB!Versions /\ state["db"] = version["db"]
    BY <1>2, <1>3, <2>1, OnePart
  <2>3. building' = state
    BY <1>1
  <2> QED BY <2>2, <2>3
<1>5. building' # DB!Idle
  BY <1>2, <1>3, <1>4, PartsOf DEF ThreadInv
<1>6. DB!TypeOK'
  BY <1>1, <1>4 DEF DBInv, DB!TypeOK
<1>7. ThreadInv'
  BY <1>1, <1>2, <1>3, <1>4, Order DEF ThreadInv
<1>8. ASSUME NEW c \in Clients PROVE ClientInv(c)' /\ LastInv(c)'
  BY <1>1, <1>5 DEF DBInv, ClientInv, LastInv
<1> QED BY <1>6, <1>7, <1>8 DEF DBInv

LEMMA BroadcastDB == ASSUME DBInv, DB!Broadcast PROVE DBInv'
<1> DEFINE state == [building EXCEPT !["files"] = version["files"]]
<1>1. /\ queue' = [c \in Clients |-> IF c \in subscribed THEN Append(queue[c], state) ELSE queue[c]]
      /\ building' = DB!Idle /\ building # DB!Idle
      /\ UNCHANGED <<version, mtimes, subscribed, phase, first, shown, failures, missed>>
  BY DEF DB!Broadcast
<1>2. /\ version \in DB!Versions /\ mtimes \in DB!Versions /\ building \in DB!Versions
      /\ ThreadInv
      /\ \A c \in Clients : queue[c] \in Seq(DB!Versions) /\ ClientInv(c) /\ LastInv(c)
  BY DEF DBInv, DB!TypeOK
<1>3. /\ state \in DB!Versions /\ state["db"] = mtimes["db"]
      /\ state["files"] = version["files"]
  <2>1. "db" \in DB!Parts \ {"files"} /\ "files" \in DB!Parts /\ version["files"] \in Nat
    BY <1>2, PartsOf
  <2>2. /\ state \in DB!Versions /\ state["db"] = building["db"]
        /\ state["files"] = version["files"]
    BY <1>2, <2>1, OnePart
  <2> QED BY <1>1, <1>2, <2>2 DEF ThreadInv
<1>4. UpTo(mtimes, state) /\ UpTo(state, version)
  BY <1>2, <1>3, PartsOf DEF ThreadInv, UpTo
<1> HIDE DEF state
<1>5. queue' \in [Clients -> Seq(DB!Versions)]
  BY <1>1, <1>2, <1>3
<1>6. DB!TypeOK'
  BY <1>1, <1>5, PartsOf DEF DBInv, DB!TypeOK
<1>7. ThreadInv'
  BY <1>1, <1>2 DEF ThreadInv
<1>8. ASSUME NEW c \in Clients PROVE ClientInv(c)' /\ LastInv(c)'
  <2>1. queue[c] \in Seq(DB!Versions) /\ ClientInv(c)
    BY <1>2
  <2>2. CASE c \in subscribed
    <3>1. queue'[c] = Append(queue[c], state)
      BY <1>1, <2>2
    <3>2. /\ queue'[c] # <<>> /\ queue'[c][Len(queue'[c])] = state
          /\ \A i \in DOMAIN queue'[c] : queue'[c][i] = state \/ (i \in DOMAIN queue[c]
                                                                  /\ queue'[c][i] = queue[c][i])
      BY <1>3, <2>1, <3>1
    <3> QED BY <1>1, <1>4, <2>1, <2>2, <3>2 DEF ClientInv, LastInv
  <2>3. CASE c \notin subscribed
    <3>1. queue'[c] = queue[c] /\ phase[c] = "off" /\ queue[c] = <<>>
      BY <1>1, <2>1, <2>3 DEF ClientInv
    <3> QED BY <1>1, <2>1, <3>1 DEF ClientInv, LastInv
  <2> QED BY <2>2, <2>3
<1> QED BY <1>6, <1>7, <1>8 DEF DBInv

LEMMA BuildFailsDB == ASSUME DBInv, DB!BuildFails PROVE DBInv'
<1>1. /\ failures' = failures + 1 /\ building' = DB!Idle /\ missed' = TRUE
      /\ UNCHANGED <<version, mtimes, subscribed, queue, phase, first, shown>>
  BY DEF DB!BuildFails, DB!clientVars
<1>2. DB!TypeOK'
  BY <1>1, PartsOf DEF DBInv, DB!TypeOK
<1>3. ThreadInv' /\ \A c \in Clients : ClientInv(c)' /\ LastInv(c)'
  BY <1>1 DEF DBInv, ThreadInv, ClientInv, LastInv
<1> QED BY <1>2, <1>3 DEF DBInv

(* What a client does leaves the thread and the other clients alone.       *)
LEMMA ClientStep ==
    ASSUME DBInv, DB!TypeOK', NEW c \in Clients,
           UNCHANGED <<version, mtimes, building, missed>>,
           \A d \in Clients \ {c} :
               /\ d \in subscribed' <=> d \in subscribed
               /\ queue'[d] = queue[d] /\ phase'[d] = phase[d]
               /\ first'[d] = first[d] /\ shown'[d] = shown[d],
           ClientInv(c)', LastInv(c)'
    PROVE  DBInv'
<1>1. ThreadInv'
  BY DEF DBInv, ThreadInv
<1>2. ASSUME NEW d \in Clients, d # c PROVE ClientInv(d)' /\ LastInv(d)'
  BY <1>2 DEF DBInv, ClientInv, LastInv
<1> QED BY <1>1, <1>2 DEF DBInv

(* The facts that the steps of a client start from.                        *)
LEMMA ClientFacts ==
    ASSUME DBInv, NEW c \in Clients
    PROVE  /\ queue[c] \in Seq(DB!Versions) /\ first[c] \in DB!Versions
           /\ shown[c] \in DB!Versions /\ version \in DB!Versions /\ mtimes \in DB!Versions
           /\ queue \in [Clients -> Seq(DB!Versions)] /\ first \in [Clients -> DB!Versions]
           /\ shown \in [Clients -> DB!Versions] /\ phase \in [Clients -> DB!Phases]
           /\ subscribed \subseteq Clients
           /\ ClientInv(c) /\ LastInv(c) /\ ThreadInv /\ DB!TypeOK
BY DEF DBInv, DB!TypeOK

LEMMA SubscribeDB == ASSUME DBInv, NEW c \in Clients, DB!Subscribe(c) PROVE DBInv'
<1> USE ClientFacts
<1>1. /\ phase[c] = "off" /\ subscribed' = subscribed \cup {c}
      /\ phase' = [phase EXCEPT ![c] = "subscribed"]
      /\ UNCHANGED <<version, mtimes, building, queue, first, shown, failures, missed>>
  BY DEF DB!Subscribe
<1>2. DB!TypeOK'
  BY <1>1 DEF DB!TypeOK, DB!Phases
<1>3. ClientInv(c)' /\ LastInv(c)'
  BY <1>1 DEF ClientInv, LastInv
<1> QED BY <1>1, <1>2, <1>3, ClientStep

LEMMA ReadDatabaseDB == ASSUME DBInv, NEW c \in Clients, DB!ReadDatabase(c) PROVE DBInv'
<1> USE ClientFacts
<1> DEFINE state == [first[c] EXCEPT !["db"] = version["db"]]
<1>1. /\ phase[c] = "subscribed" /\ first' = [first EXCEPT ![c] = state]
      /\ phase' = [phase EXCEPT ![c] = "half built"]
      /\ UNCHANGED <<version, mtimes, building, subscribed, queue, shown, failures, missed>>
  BY DEF DB!ReadDatabase
<1>2. state \in DB!Versions /\ state["db"] = version["db"] /\ state["files"] = first[c]["files"]
  BY PartsOf, OnePart
<1>3. UpTo(state, version) /\ mtimes["db"] <= state["db"]
  BY <1>2, PartsOf DEF UpTo, ClientInv, ThreadInv
<1> HIDE DEF state
<1>4. DB!TypeOK'
  BY <1>1, <1>2 DEF DB!TypeOK, DB!Phases
<1>5. ClientInv(c)' /\ LastInv(c)'
  BY <1>1, <1>3 DEF ClientInv, LastInv
<1> QED BY <1>1, <1>4, <1>5, ClientStep

LEMMA SendInitialDB == ASSUME DBInv, NEW c \in Clients, DB!SendInitial(c) PROVE DBInv'
<1> USE ClientFacts
<1> DEFINE state == [first[c] EXCEPT !["files"] = version["files"]]
<1>1. /\ phase[c] = "half built" /\ shown' = [shown EXCEPT ![c] = state]
      /\ first' = [first EXCEPT ![c] = DB!Unread]
      /\ phase' = [phase EXCEPT ![c] = "streaming"]
      /\ UNCHANGED <<version, mtimes, building, subscribed, queue, failures, missed>>
  BY DEF DB!SendInitial
<1>2. state \in DB!Versions /\ state["db"] = first[c]["db"] /\ state["files"] = version["files"]
  BY PartsOf, OnePart
<1>3. UpTo(state, version) /\ (mtimes["db"] <= first[c]["db"] => UpTo(mtimes, state))
  BY <1>2, PartsOf DEF UpTo, ClientInv, ThreadInv
<1> HIDE DEF state
<1>4. DB!TypeOK'
  BY <1>1, <1>2, PartsOf DEF DB!TypeOK, DB!Phases
<1>5. ClientInv(c)' /\ LastInv(c)'
  BY <1>1, <1>3, Order DEF ClientInv, LastInv
<1> QED BY <1>1, <1>4, <1>5, ClientStep

LEMMA SendNextDB == ASSUME DBInv, NEW c \in Clients, DB!SendNext(c) PROVE DBInv'
<1> USE ClientFacts
<1> DEFINE q == queue[c]
<1>1. /\ phase[c] = "streaming" /\ q # <<>>
      /\ shown' = [shown EXCEPT ![c] = Head(q)] /\ queue' = [queue EXCEPT ![c] = Tail(q)]
      /\ UNCHANGED <<version, mtimes, building, subscribed, phase, first, failures, missed>>
  BY DEF DB!SendNext
<1>2. q \in Seq(DB!Versions)
  OBVIOUS
<1>3. /\ shown'[c] = Head(q) /\ queue'[c] = Tail(q)
  BY <1>1
<1> HIDE DEF q
<1>4. Len(q) \in Nat \ {0} /\ DOMAIN q = 1 .. Len(q) /\ Head(q) = q[1]
  BY <1>1, <1>2
<1>5. /\ Head(q) \in DB!Versions /\ Tail(q) \in Seq(DB!Versions)
      /\ Len(Tail(q)) = Len(q) - 1 /\ DOMAIN Tail(q) = 1 .. Len(q) - 1
      /\ \A i \in 1 .. Len(q) - 1 : Tail(q)[i] = q[i + 1]
  BY <1>1, <1>2, HeadTailProperties
<1>6. /\ Tail(q) = <<>> => Head(q) = q[Len(q)]
      /\ Tail(q) # <<>> => Tail(q)[Len(Tail(q))] = q[Len(q)]
  <2>1. Tail(q) = <<>> <=> Len(q) = 1
    <3>1. Tail(q) # <<>> => Len(Tail(q)) # 0
      BY <1>5, EmptySeq
    <3>2. Len(<<>>) = 0
      OBVIOUS
    <3> DEFINE r == Tail(q)
    <3>3. Len(r) = Len(q) - 1 /\ Len(q) \in Nat
      BY <1>4, <1>5
    <3> HIDE DEF r
    <3>4. r = <<>> <=> Len(r) = 0
      BY <3>1, <3>2 DEF r
    <3> QED BY <3>3, <3>4 DEF r
  <2> QED BY <1>4, <1>5, <2>1
<1>7. DB!TypeOK'
  BY <1>1, <1>5 DEF DB!TypeOK
<1>8. ClientInv(c)' /\ LastInv(c)'
  <2>1. UpTo(q[1], version) /\ \A i \in 1 .. Len(q) - 1 : UpTo(q[i + 1], version)
    BY <1>4 DEF ClientInv, q
  <2>2. UpTo(Head(q), version) /\ \A i \in DOMAIN Tail(q) : UpTo(Tail(q)[i], version)
    BY <1>4, <1>5, <2>1
  <2>3. ClientInv(c)'
    BY <1>1, <1>3, <2>2 DEF ClientInv
  <2>4. LastInv(c)'
    BY <1>1, <1>3, <1>6 DEF LastInv, q
  <2> QED BY <2>3, <2>4
<1> QED BY <1>1, <1>7, <1>8, ClientStep

LEMMA DisconnectDB == ASSUME DBInv, NEW c \in Clients, DB!Disconnect(c) PROVE DBInv'
<1> USE ClientFacts
<1>1. /\ phase[c] # "off" /\ subscribed' = subscribed \ {c}
      /\ queue' = [queue EXCEPT ![c] = <<>>] /\ phase' = [phase EXCEPT ![c] = "off"]
      /\ first' = [first EXCEPT ![c] = DB!Unread] /\ shown' = [shown EXCEPT ![c] = DB!Unread]
      /\ UNCHANGED <<version, mtimes, building, failures, missed>>
  BY DEF DB!Disconnect
<1>2. <<>> \in Seq(DB!Versions) /\ DOMAIN <<>> = {}
  OBVIOUS
<1>3. DB!TypeOK'
  <2>1. queue' \in [Clients -> Seq(DB!Versions)] /\ phase' \in [Clients -> DB!Phases]
    BY <1>1, <1>2 DEF DB!Phases
  <2>2. first' \in [Clients -> DB!Versions] /\ shown' \in [Clients -> DB!Versions]
    BY <1>1, PartsOf
  <2> QED BY <1>1, <2>1, <2>2 DEF DB!TypeOK
<1>4. /\ queue'[c] = <<>> /\ phase'[c] = "off" /\ c \notin subscribed'
      /\ first'[c] = DB!Unread /\ shown'[c] = DB!Unread
  BY <1>1
<1>5. ClientInv(c)' /\ LastInv(c)'
  BY <1>1, <1>2, <1>4, Order DEF ClientInv, LastInv
<1> QED BY <1>1, <1>3, <1>5, ClientStep

LEMMA DBInvariance == DB!Spec => []DBInv
<1>1. DB!Init => DBInv
  <2> SUFFICES ASSUME DB!Init PROVE DBInv
    OBVIOUS
  <2>1. DB!TypeOK
    <3>1. version \in DB!Versions /\ mtimes \in DB!Versions
      BY DEF DB!Init, DB!Versions
    <3>2. <<>> \in Seq(DB!Versions)
      OBVIOUS
    <3> QED BY <3>1, <3>2, PartsOf DEF DB!Init, DB!TypeOK, DB!Phases
  <2>2. ThreadInv
    BY DEF DB!Init, ThreadInv, UpTo, DB!Parts
  <2>3. ASSUME NEW c \in Clients PROVE ClientInv(c) /\ LastInv(c)
    BY <2>1, Order DEF DB!Init, ClientInv, LastInv, DB!TypeOK
  <2> QED BY <2>1, <2>2, <2>3 DEF DBInv
<1>2. DBInv /\ [DB!Next]_DB!vars => DBInv'
  <2> SUFFICES ASSUME DBInv, [DB!Next]_DB!vars PROVE DBInv'
    OBVIOUS
  <2>1. CASE DB!Next
    BY <2>1, ChangeDB, SeeChangeDB, BroadcastDB, BuildFailsDB,
       SubscribeDB, ReadDatabaseDB, SendInitialDB, SendNextDB, DisconnectDB DEF DB!Next
  <2>2. CASE UNCHANGED DB!vars
    BY <2>2 DEF DB!vars, DBInv, DB!TypeOK, ThreadInv, ClientInv, LastInv
  <2> QED BY <2>1, <2>2
<1> QED BY <1>1, <1>2, PTL DEF DB!Spec

(* When the watching thread has nothing to do and has missed no build,     *)
(* every client that is streaming and has nothing queued shows the state   *)
(* there is, though it may have been sent an older one after a newer:      *)
(* subscribing before its first state is built loses it no change          *)
(* (dashboard/server.py).                                                  *)
THEOREM ClientsAreCurrent == DB!Spec => []DB!QuietClientIsCurrent
<1>1. DBInv => DB!QuietClientIsCurrent
  <2> SUFFICES ASSUME DBInv, DB!Quiet, ~missed, NEW c \in Clients,
                      phase[c] = "streaming", queue[c] = <<>>
               PROVE  shown[c] = version
    BY DEF DB!QuietClientIsCurrent
  <2>1. UpTo(version, shown[c]) /\ UpTo(shown[c], version)
    BY DEF DBInv, ClientInv, LastInv, DB!Quiet
  <2> QED BY <2>1, Order DEF DBInv, DB!TypeOK
<1> QED BY <1>1, DBInvariance, PTL
-----------------------------------------------------------------------------
(* The opening of the database                                             *)

(* The tables that a creator has made when it has done n.                  *)
Made(n) == {DD!SchemaSql[i] : i \in 1 .. n}

Usable(db) == DD!RequiredTables \subseteq tables[db]

(* A run is at the database it resolved; from its connection on, or from   *)
(* the look that has found it, the file is there; the tables that it has   *)
(* made or verified are.                                                   *)
RunInv(t) ==
    LET r == tool[t] IN
    /\ r.db = DD!Resolved(r.origin, r.override)
    /\ r.step \in {"start", "new"} => r.made = 0
    /\ r.step \in {"old", "create", "verify"} => tables[r.db] # DD!Absent
    /\ r.step = "create" => r.made < Len(DD!SchemaSql) /\ Made(r.made) \subseteq tables[r.db]
    /\ r.step \in {"open", "write", "recorded"} => Usable(r.db)

(* A database that is not usable yet has a creator that has made all there *)
(* is, or had one that was killed.                                         *)
Leads(t, db) ==
    /\ tool[t].db = db
    /\ \/ tool[t].step = "killed"
       \/ tool[t].step = "create" /\ tables[db] = Made(tool[t].made)

LeaderInv(db) == tables[db] # DD!Absent /\ ~Usable(db) => \E t \in Openers : Leads(t, db)

DDInv == /\ DD!TypeOK
         /\ \A t \in Openers : RunInv(t)
         /\ \A db \in DD!Databases : LeaderInv(db)

(* The tables of schema.sql one by one.                                    *)
LEMMA Schema ==
    /\ Len(DD!SchemaSql) = 5 /\ Made(0) = {}
    /\ \A n \in 0 .. 4 : /\ Made(n + 1) = Made(n) \cup {DD!SchemaSql[n + 1]}
                         /\ DD!SchemaSql[n + 1] \in DD!AllTables
                         /\ DD!SchemaSql[n + 1] \notin Made(n)
    /\ \A n \in 0 .. 5 : DD!RequiredTables \subseteq Made(n) <=> 3 <= n
    /\ Made(5) = DD!AllTables
    /\ DD!RequiredTables \cap DD!Absent = {} /\ DD!AllTables \cap DD!Absent = {}
    /\ {"org_sessions", "event_deliveries"} \subseteq DD!AllTables
<1> DEFINE s == DD!SchemaSql
<1>1. /\ Len(s) = 5 /\ DOMAIN s = 1 .. 5 /\ s[1] = "projects" /\ s[2] = "runs" /\ s[3] = "events"
      /\ s[4] = "event_deliveries" /\ s[5] = "org_sessions"
  BY DEF DD!SchemaSql
<1>2. /\ Made(0) = {} /\ Made(1) = {s[1]} /\ Made(2) = {s[1], s[2]}
      /\ Made(3) = {s[1], s[2], s[3]} /\ Made(4) = {s[1], s[2], s[3], s[4]}
      /\ Made(5) = {s[1], s[2], s[3], s[4], s[5]}
  BY DEF Made
<1>3. DD!AllTables = Made(5)
  BY <1>1 DEF DD!AllTables, Made
<1> HIDE DEF s
<1>4. \A n \in 0 .. 4 : n \in {0, 1, 2, 3, 4}
  OBVIOUS
<1>5. \A n \in 0 .. 4 : /\ Made(n + 1) = Made(n) \cup {s[n + 1]}
                        /\ s[n + 1] \in Made(5) /\ s[n + 1] \notin Made(n)
  BY <1>1, <1>2, <1>4
<1>6. \A n \in 0 .. 5 : DD!RequiredTables \subseteq Made(n) <=> 3 <= n
  BY <1>1, <1>2 DEF DD!RequiredTables
<1>7. DD!RequiredTables \cap DD!Absent = {} /\ DD!AllTables \cap DD!Absent = {}
  BY <1>1, <1>2, <1>3 DEF DD!RequiredTables, DD!Absent
<1>8. {"org_sessions", "event_deliveries"} \subseteq DD!AllTables
  BY <1>1, <1>2, <1>3
<1> QED BY <1>1, <1>2, <1>3, <1>5, <1>6, <1>7, <1>8 DEF s

(* Who has made all that is there of a file that lacks the next table of   *)
(* another creator has made as much as that one.                           *)
LEMMA MadeGrows ==
    ASSUME NEW m \in 0 .. 4, NEW n \in 0 .. 4, Made(n) \subseteq Made(m),
           DD!SchemaSql[n + 1] \notin Made(m)
    PROVE  m = n
<1>1. m < n => DD!SchemaSql[m + 1] \in Made(n)
  BY DEF Made
<1>2. n < m => DD!SchemaSql[n + 1] \in Made(m)
  BY DEF Made
<1> QED BY <1>1, <1>2, Schema

(* What a step of t starts from.                                           *)
LEMMA RunFacts ==
    ASSUME DDInv, NEW t \in Openers
    PROVE  /\ DD!TypeOK /\ RunInv(t) /\ LeaderInv(tool[t].db) /\ tool[t].db \in DD!Databases
           /\ tool[t] \in [origin : DD!Origins, override : BOOLEAN, db : DD!Databases,
                            step : DD!Steps, made : 0 .. Len(DD!SchemaSql)]
           /\ tables[tool[t].db] \in {DD!Absent} \cup SUBSET DD!AllTables
BY DEF DDInv, DD!TypeOK

(* A step that lets t go from one state to another, and the tables of its  *)
(* database grow, keeps what does not depend on either.                    *)
LEMMA OthersKeep ==
    ASSUME DDInv, DD!TypeOK', NEW t \in Openers, NEW db \in DD!Databases, db = tool[t].db,
           \A u \in Openers \ {t} : tool'[u] = tool[u],
           tool'[t].db = db,
           \A d \in DD!Databases \ {db} : tables'[d] = tables[d],
           tables[db] = DD!Absent \/ tables[db] \subseteq tables'[db],
           tables'[db] # DD!Absent \/ tables[db] = DD!Absent,
           RunInv(t)', LeaderInv(db)'
    PROVE  DDInv'
<1>1. ASSUME NEW u \in Openers, u # t PROVE RunInv(u)'
  <2>1. tool'[u] = tool[u] /\ RunInv(u)
    BY <1>1 DEF DDInv
  <2>2. CASE tool[u].db # db
    <3>1. tables'[tool[u].db] = tables[tool[u].db]
      BY <2>2, <1>1 DEF DDInv, DD!TypeOK
    <3> QED BY <2>1, <3>1 DEF RunInv, Usable
  <2>3. CASE tool[u].db = db
    <3>1. tables[db] # DD!Absent => tables'[db] # DD!Absent /\ tables[db] \subseteq tables'[db]
      OBVIOUS
    <3>2. DD!RequiredTables \subseteq tables[db] => tables[db] # DD!Absent
      BY Schema DEF DD!RequiredTables
    <3> QED BY <2>1, <2>3, <3>1, <3>2 DEF RunInv, Usable
  <2> QED BY <2>2, <2>3
<1>2. ASSUME NEW d \in DD!Databases, d # db PROVE LeaderInv(d)'
  <2>1. tables'[d] = tables[d] /\ LeaderInv(d)
    BY <1>2 DEF DDInv
  <2>2. \A u \in Openers : tool[u].db = d => tool'[u] = tool[u]
    BY <1>2
  <2> QED BY <2>1, <2>2 DEF LeaderInv, Usable, Leads
<1> QED BY <1>1, <1>2 DEF DDInv

(* To changes the step of t alone.                                         *)
LEMMA ToStep ==
    ASSUME DDInv, NEW t \in Openers, NEW s \in DD!Steps, DD!To(t, s)
    PROVE  /\ tool' \in [Openers -> [origin : DD!Origins, override : BOOLEAN,
                                     db : DD!Databases, step : DD!Steps,
                                     made : 0 .. Len(DD!SchemaSql)]]
           /\ tool'[t] = [tool[t] EXCEPT !.step = s]
           /\ tool'[t].step = s /\ tool'[t].db = tool[t].db /\ tool'[t].made = tool[t].made
           /\ tool'[t].origin = tool[t].origin /\ tool'[t].override = tool[t].override
           /\ \A u \in Openers \ {t} : tool'[u] = tool[u]
BY DEF DDInv, DD!TypeOK, DD!To

(* A step of a run that is neither at work on the schema nor killed, or     *)
(* that is the kill of one, leaves every leader one.                        *)
LEMMA LeadersStay ==
    ASSUME DDInv, NEW t \in Openers, NEW db \in DD!Databases, db = tool[t].db,
           NEW s \in DD!Steps, DD!To(t, s), tables' = tables,
           tool[t].step # "killed", tool[t].step = "create" => s = "killed"
    PROVE  LeaderInv(db)'
<1>1. ASSUME NEW u \in Openers, Leads(u, db) PROVE Leads(u, db)'
  <2>1. CASE u = t
    <3>1. s = "killed" /\ tool'[t].step = s /\ tool'[t].db = db
      BY <1>1, <2>1, ToStep DEF Leads
    <3> QED BY <2>1, <3>1 DEF Leads
  <2>2. CASE u # t
    <3>1. tool'[u] = tool[u]
      BY <2>2, ToStep
    <3> QED BY <1>1, <3>1 DEF Leads
  <2> QED BY <2>1, <2>2
<1>2. LeaderInv(db)
  BY RunFacts
<1> QED BY <1>1, <1>2 DEF LeaderInv, Usable

(* A type-correct step of one run alone keeps the type.                     *)
LEMMA StepTyped ==
    ASSUME DDInv, NEW t \in Openers, NEW s \in DD!Steps, DD!To(t, s),
           tables' \in [DD!Databases -> {DD!Absent} \cup SUBSET DD!AllTables]
    PROVE  DD!TypeOK'
BY ToStep DEF DD!TypeOK

LEMMA LookAtFileInv == ASSUME DDInv, NEW t \in Openers, DD!Look(t) PROVE DDInv'
<1>0. PICK db \in DD!Databases : db = tool[t].db
  BY RunFacts
<1> DEFINE next == IF tables[db] = DD!Absent THEN "new" ELSE "old"
<1>1. /\ tool[t].step = "start" /\ DD!To(t, next) /\ tables' = tables /\ next \in DD!Steps
  BY <1>0 DEF DD!Look, DD!File, DD!Steps
<1>2. /\ DD!TypeOK' /\ tool'[t].step = next
  BY <1>0, <1>1, StepTyped, ToStep, RunFacts DEF DD!TypeOK
<1>3. RunInv(t)'
  BY <1>0, <1>1, ToStep, RunFacts DEF RunInv
<1>4. LeaderInv(db)'
  BY <1>0, <1>1, LeadersStay
<1> QED BY <1>0, <1>1, <1>2, <1>3, <1>4, ToStep, OthersKeep

LEMMA ConnectToolInv == ASSUME DDInv, NEW t \in Openers, DD!Connect(t) PROVE DDInv'
<1>0. PICK db \in DD!Databases : db = tool[t].db
  BY RunFacts
<1> DEFINE next == IF tool[t].step = "new" THEN "create" ELSE "verify"
<1>1. /\ tool[t].step \in {"new", "old"} /\ DD!To(t, next) /\ next \in DD!Steps
      /\ tables' = IF tables[db] = DD!Absent THEN [tables EXCEPT ![db] = {}] ELSE tables
  BY <1>0 DEF DD!Connect, DD!File, DD!Steps
<1>2. db \in DD!Databases /\ tables \in [DD!Databases -> {DD!Absent} \cup SUBSET DD!AllTables]
  BY <1>0, RunFacts DEF DD!TypeOK
<1>3. /\ tables[db] = DD!Absent => tables'[db] = {}
      /\ tables[db] # DD!Absent => tables'[db] = tables[db]
      /\ \A d \in DD!Databases \ {db} : tables'[d] = tables[d]
  BY <1>0, <1>1, <1>2
<1>4. {} # DD!Absent
  BY DEF DD!Absent
<1>5. DD!TypeOK'
  BY <1>0, <1>1, <1>2, StepTyped
<1>6. RunInv(t)'
  <2>1. /\ tool'[t].db = db /\ tool'[t].made = tool[t].made /\ tool'[t].step = next
        /\ tool'[t].origin = tool[t].origin /\ tool'[t].override = tool[t].override
        /\ tables'[db] # DD!Absent
    BY <1>0, <1>1, <1>3, <1>4, ToStep
  <2>2. RunInv(t) /\ Len(DD!SchemaSql) = 5 /\ Made(0) = {}
    BY RunFacts, Schema
  <2>3. next = "create" => tool[t].made = 0
    BY <1>1, <2>2 DEF RunInv
  <2>4. tool'[t].step = "create" => tool'[t].made < Len(DD!SchemaSql)
                                      /\ Made(tool'[t].made) \subseteq tables'[db]
    BY <2>1, <2>2, <2>3
  <2>5. tool'[t].step \in {"create", "verify"}
    BY <2>1
  <2> QED BY <1>0, <2>1, <2>2, <2>4, <2>5 DEF RunInv
<1>7. LeaderInv(db)'
  <2>1. CASE tables[db] = DD!Absent
    <3>1. tool[t].step = "new" /\ tool[t].made = 0
      BY <1>0, <1>1, <2>1, RunFacts DEF RunInv
    <3>2. Leads(t, db)'
      BY <1>0, <1>1, <1>3, <2>1, <3>1, ToStep, Schema DEF Leads
    <3> QED BY <1>0, <3>2 DEF LeaderInv
  <2>2. CASE tables[db] # DD!Absent
    <3>1. \A u \in Openers : Leads(u, db) => Leads(u, db)'
      BY <1>0, <1>1, <1>3, <2>2, ToStep DEF Leads
    <3> QED BY <1>0, <1>3, <2>2, <3>1, RunFacts DEF LeaderInv, Usable
  <2> QED BY <1>0, <2>1, <2>2
<1>8. (tables[db] = DD!Absent \/ tables[db] \subseteq tables'[db]) /\ tables'[db] # DD!Absent
  BY <1>3, <1>4
<1>9. tool'[t].db = db /\ \A u \in Openers \ {t} : tool'[u] = tool[u]
  BY <1>0, <1>1, ToStep
<1> QED BY <1>0, <1>3, <1>5, <1>6, <1>7, <1>8, <1>9, OthersKeep

LEMMA CreateNextInv == ASSUME DDInv, NEW t \in Openers, DD!CreateNext(t) PROVE DDInv'
<1>0. PICK db \in DD!Databases : db = tool[t].db
  BY RunFacts
<1> DEFINE n == tool[t].made
           table == DD!SchemaSql[n + 1]
<1>1. /\ tool[t].step = "create" /\ n \in 0 .. 4 /\ db \in DD!Databases
      /\ tables[db] # DD!Absent /\ tables[db] \in SUBSET DD!AllTables
      /\ Made(n) \subseteq tables[db]
  BY <1>0, RunFacts, Schema DEF DD!CreateNext, RunInv
<1>2. /\ Made(n + 1) = Made(n) \cup {table} /\ table \in DD!AllTables /\ table \notin Made(n)
  BY <1>0, <1>1, Schema
<1>3. CASE table \in tables[db]
  <2>1. DD!To(t, "failed") /\ tables' = tables /\ "failed" \in DD!Steps
    BY <1>0, <1>3 DEF DD!CreateNext, DD!File, DD!Steps, DD!Ended
  <2>2. DD!TypeOK' /\ RunInv(t)'
    BY <1>0, <2>1, ToStep, RunFacts DEF DD!TypeOK, RunInv
  <2>3. LeaderInv(db)'
    <3>1. ~Leads(t, db)
      BY <1>0, <1>1, <1>2, <1>3 DEF Leads
    <3>2. \A u \in Openers : Leads(u, db) => Leads(u, db)'
      BY <1>0, <2>1, <3>1, ToStep DEF Leads
    <3> QED BY <1>0, <2>1, <3>2, RunFacts DEF LeaderInv, Usable
  <2> QED BY <1>0, <2>1, <2>2, <2>3, ToStep, OthersKeep
<1>4. CASE table \notin tables[db]
  <2> DEFINE next == IF n + 1 = 5 THEN "open" ELSE "create"
  <2>1. /\ tables' = [tables EXCEPT ![db] = tables[db] \cup {table}]
        /\ tool' = [tool EXCEPT ![t] = [tool[t] EXCEPT !.made = n + 1, !.step = next]]
    BY <1>0, <1>4, Schema DEF DD!CreateNext, DD!File
  <2>2. /\ tool'[t].made = n + 1 /\ tool'[t].step = next /\ tool'[t].db = db
        /\ tool'[t].origin = tool[t].origin /\ tool'[t].override = tool[t].override
        /\ \A u \in Openers \ {t} : tool'[u] = tool[u]
    BY <1>0, <2>1, RunFacts DEF DD!TypeOK
  <2>3. /\ tables'[db] = tables[db] \cup {table} /\ tables'[db] # DD!Absent
        /\ \A d \in DD!Databases \ {db} : tables'[d] = tables[d]
    BY <1>0, <1>1, <1>2, <2>1, Schema, RunFacts DEF DD!TypeOK
  <2>4. DD!TypeOK'
    <3>1. tables' \in [DD!Databases -> {DD!Absent} \cup SUBSET DD!AllTables]
      BY <1>0, <1>1, <1>2, <2>1, RunFacts DEF DD!TypeOK
    <3>2. [tool[t] EXCEPT !.made = n + 1, !.step = next]
            \in [origin : DD!Origins, override : BOOLEAN, db : DD!Databases,
                 step : DD!Steps, made : 0 .. Len(DD!SchemaSql)]
      <4>1. n + 1 \in 0 .. Len(DD!SchemaSql) /\ next \in DD!Steps
        BY <1>0, <1>1, Schema DEF DD!Steps
      <4> QED BY <1>0, <4>1, RunFacts
    <3> QED BY <1>0, <2>1, <3>1, <3>2, RunFacts DEF DD!TypeOK
  <2>5. Made(n + 1) \subseteq tables'[db]
    BY <1>0, <1>1, <1>2, <2>3
  <2>6. RunInv(t)'
    <3>1. n + 1 < 5 \/ DD!RequiredTables \subseteq Made(n + 1)
      BY <1>0, <1>1, Schema
    <3> QED BY <1>0, <1>1, <2>2, <2>3, <2>5, <3>1, RunFacts, Schema DEF RunInv, Usable
  <2>7. LeaderInv(db)'
    <3> SUFFICES ASSUME ~Usable(db)'
                 PROVE  \E u \in Openers : Leads(u, db)'
      BY <1>0 DEF LeaderInv
    <3>1. ~Usable(db) /\ next = "create"
      BY <1>0, <1>1, <2>3, <2>5, Schema DEF Usable
    <3>2. PICK u \in Openers : Leads(u, db)
      BY <1>0, <1>1, <3>1, RunFacts DEF LeaderInv
    <3>3. CASE tool[u].step = "killed"
      <4>1. u # t
        BY <1>0, <1>1, <3>3
      <4> QED BY <1>0, <2>2, <3>2, <3>3, <4>1 DEF Leads
    <3>4. CASE tool[u].step = "create"
      <4>1. tables[db] = Made(tool[u].made) /\ tool[u].made \in 0 .. 4 /\ RunInv(u)
        BY <1>0, <3>2, <3>4, Schema DEF Leads, DDInv, DD!TypeOK, RunInv
      <4>2. tool[u].made = n
        BY <1>0, <1>1, <1>2, <1>4, <4>1, MadeGrows
      <4>3. Leads(t, db)'
        BY <1>0, <1>2, <2>2, <2>3, <3>1, <4>1, <4>2 DEF Leads
      <4> QED BY <1>0, <4>3
    <3> QED BY <1>0, <3>2, <3>3, <3>4 DEF Leads
  <2> QED BY <1>0, <1>1, <2>2, <2>3, <2>4, <2>6, <2>7, OthersKeep
<1> QED BY <1>0, <1>3, <1>4

LEMMA VerifyInv == ASSUME DDInv, NEW t \in Openers, DD!Verify(t) PROVE DDInv'
<1>0. PICK db \in DD!Databases : db = tool[t].db
  BY RunFacts
<1> DEFINE next == IF DD!Missing(t) = {} THEN "open" ELSE "refused"
<1>1. /\ tool[t].step = "verify" /\ DD!To(t, next) /\ tables' = tables /\ next \in DD!Steps
      /\ next \in {"open", "refused"}
      /\ next = "open" => Usable(db)
  BY <1>0 DEF DD!Verify, DD!Steps, DD!Ended, DD!Missing, DD!File, Usable
<1> HIDE DEF next
<1>2. DD!TypeOK'
  BY <1>0, <1>1, StepTyped, RunFacts DEF DD!TypeOK
<1>3. RunInv(t)'
  BY <1>0, <1>1, ToStep, RunFacts DEF RunInv, Usable
<1>4. LeaderInv(db)'
  BY <1>0, <1>1, LeadersStay
<1> QED BY <1>0, <1>1, <1>2, <1>3, <1>4, ToStep, OthersKeep

LEMMA OpenWriterInv == ASSUME DDInv, NEW t \in Openers, DD!OpenWriter(t) PROVE DDInv'
<1>0. PICK db \in DD!Databases : db = tool[t].db
  BY RunFacts
<1>1. /\ tool[t].step = "open" /\ DD!To(t, "write") /\ "write" \in DD!Steps
      /\ tables' = [tables EXCEPT ![db] = tables[db] \cup {"org_sessions", "event_deliveries"}]
  BY <1>0 DEF DD!OpenWriter, DD!Steps
<1>2. /\ db \in DD!Databases /\ Usable(db) /\ tables[db] \in SUBSET DD!AllTables
  <2>1. Usable(db)
    BY <1>0, <1>1, RunFacts DEF RunInv
  <2> QED BY <1>0, <2>1, RunFacts, Schema DEF Usable, DD!RequiredTables
<1>3. /\ tables'[db] = tables[db] \cup {"org_sessions", "event_deliveries"}
      /\ \A d \in DD!Databases \ {db} : tables'[d] = tables[d]
  BY <1>0, <1>1, <1>2, RunFacts DEF DD!TypeOK
<1>4. Usable(db)' /\ tables'[db] # DD!Absent
  BY <1>0, <1>2, <1>3, Schema DEF Usable, DD!RequiredTables
<1>5. DD!TypeOK'
  <2>1. tables[db] \cup {"org_sessions", "event_deliveries"} \in SUBSET DD!AllTables
    BY <1>0, <1>2, Schema
  <2> QED BY <1>0, <1>1, <2>1, ToStep, RunFacts DEF DD!TypeOK
<1>6. RunInv(t)'
  BY <1>0, <1>1, <1>4, ToStep, RunFacts DEF RunInv, Usable
<1>7. LeaderInv(db)'
  BY <1>0, <1>4 DEF LeaderInv
<1> QED BY <1>0, <1>1, <1>2, <1>3, <1>4, <1>5, <1>6, <1>7, ToStep, OthersKeep

LEMMA RecordStepInv == ASSUME DDInv, NEW t \in Openers, DD!Record(t) PROVE DDInv'
<1>0. PICK db \in DD!Databases : db = tool[t].db
  BY RunFacts
<1> DEFINE next == IF DD!Missing(t) = {} THEN "recorded" ELSE "failed"
<1>1. /\ tool[t].step = "write" /\ DD!To(t, next) /\ tables' = tables /\ next \in DD!Steps
      /\ next \in {"recorded", "failed"}
  BY <1>0 DEF DD!Record, DD!Steps, DD!Ended
<1> HIDE DEF next
<1>2. DD!TypeOK'
  BY <1>0, <1>1, StepTyped, RunFacts DEF DD!TypeOK
<1>3. RunInv(t)'
  BY <1>0, <1>1, ToStep, RunFacts DEF RunInv, Usable
<1>4. LeaderInv(db)'
  BY <1>0, <1>1, LeadersStay
<1> QED BY <1>0, <1>1, <1>2, <1>3, <1>4, ToStep, OthersKeep

LEMMA KillToolInv == ASSUME DDInv, NEW t \in Openers, DD!Kill(t) PROVE DDInv'
<1>0. PICK db \in DD!Databases : db = tool[t].db
  BY RunFacts
<1>1. /\ DD!To(t, "killed") /\ tables' = tables /\ "killed" \in DD!Steps
      /\ tool[t].step # "killed"
  BY <1>0 DEF DD!Kill, DD!Steps, DD!Ended
<1>2. DD!TypeOK'
  BY <1>0, <1>1, StepTyped, RunFacts DEF DD!TypeOK
<1>3. RunInv(t)'
  BY <1>0, <1>1, ToStep, RunFacts DEF RunInv, Usable
<1>4. LeaderInv(db)'
  BY <1>0, <1>1, LeadersStay
<1> QED BY <1>0, <1>1, <1>2, <1>3, <1>4, ToStep, OthersKeep

LEMMA DDInvariance == DD!Spec => []DDInv
<1>1. DD!Init => DDInv
  <2> SUFFICES ASSUME DD!Init PROVE DDInv
    OBVIOUS
  <2>1. PICK origin \in [Openers -> DD!Origins], given \in [Openers -> BOOLEAN] :
            tool = [t \in Openers |->
                      [origin |-> origin[t], override |-> given[t],
                       db |-> DD!Resolved(origin[t], given[t]),
                       step |-> "start", made |-> 0]]
    BY DEF DD!Init
  <2>2. \A t \in Openers : DD!Resolved(origin[t], given[t]) \in DD!Databases
    BY DEF DD!Resolved, DD!Discovered, DD!Databases
  <2>3. DD!TypeOK
    BY <2>1, <2>2, Schema DEF DD!Init, DD!TypeOK, DD!Steps
  <2>4. \A t \in Openers : RunInv(t)
    BY <2>1 DEF RunInv
  <2>5. \A db \in DD!Databases : LeaderInv(db)
    BY Schema DEF DD!Init, LeaderInv, Usable
  <2> QED BY <2>3, <2>4, <2>5 DEF DDInv
<1>2. DDInv /\ [DD!Next]_DD!vars => DDInv'
  <2> SUFFICES ASSUME DDInv, [DD!Next]_DD!vars PROVE DDInv'
    OBVIOUS
  <2>1. CASE DD!Next
    BY <2>1, LookAtFileInv, ConnectToolInv, CreateNextInv, VerifyInv, OpenWriterInv, RecordStepInv,
       KillToolInv DEF DD!Next
  <2>2. CASE UNCHANGED DD!vars
    BY <2>2 DEF DD!vars, DDInv, DD!TypeOK, RunInv, LeaderInv, Leads, Usable
  <2> QED BY <2>1, <2>2
<1> QED BY <1>1, <1>2, PTL DEF DD!Spec

(* The event of a tool that was started in the main checkout or in an      *)
(* intact worktree, and was given no other database, is recorded in that   *)
(* of the main checkout, which has the tables the tools require            *)
(* (discover.py).                                                          *)
THEOREM EventsStayTogether == DD!Spec => []DD!EventsAreTogether
<1>1. DDInv => DD!EventsAreTogether
  BY DEF DDInv, DD!EventsAreTogether, RunInv, DD!Resolved, DD!Discovered, DD!TypeOK,
         DD!Origins, Usable
<1> QED BY <1>1, DDInvariance, PTL

(* A database file that lacks required tables, with no tool about to make  *)
(* them, was left by a tool that was killed: two tools that create one at  *)
(* once may end without an event but do not leave half a schema            *)
(* (discover.py, connection.py).                                           *)
THEOREM OnlyKillsLeaveHalves == DD!Spec => []DD!UnusableOnlyAfterKill
<1>1. DDInv => DD!UnusableOnlyAfterKill
  BY DEF DDInv, DD!UnusableOnlyAfterKill, LeaderInv, Leads, Usable
<1> QED BY <1>1, DDInvariance, PTL
-----------------------------------------------------------------------------
(* The sending of messages                                                 *)

(* There is an answer among the lines; there is an answer that accepts.    *)
IsAnswer(i) == i \in DOMAIN lines /\ lines[i] \in PS!Answers
NoAnswers == \A i \in Nat : ~IsAnswer(i)

(* The requests are answered in turn, so that what the tool reads as the   *)
(* answer to its message is the answer to its message.                     *)
AnswersInv ==
    /\ server \in {"off", "up", "sent"} => NoAnswers
    /\ pc = "initialize" => \A i, j \in Nat : IsAnswer(i) /\ IsAnswer(j) => i = j
    /\ pc = "send" => \A i \in Nat : IsAnswer(i) /\ lines[i] = "accepted" => delivered

(* How far the server is when the tool is so far.                          *)
ServerInv ==
    /\ pc = "start" => server = "off"
    /\ pc = "initialize" => server \in {"up", "initialized", "ended"}
    /\ pc = "send" => server \in {"sent", "answered", "ended"}
    /\ result => pc = "finished" /\ delivered /\ server # "sent"

PSInv == PS!TypeOK /\ AnswersInv /\ ServerInv

(* What is left of the lines when the first one has been read.             *)
LEMMA LineRead ==
    ASSUME PS!TypeOK, NEW text, PS!Line(text)
    PROVE  /\ lines # <<>> /\ lines' \in Seq(PS!Noise \cup PS!Answers)
           /\ 1 \in DOMAIN lines /\ lines[1] = text
           /\ \A i \in Nat : IsAnswer(i)' => IsAnswer(i + 1) /\ lines'[i] = lines[i + 1]
<1>1. lines \in Seq(PS!Noise \cup PS!Answers) /\ lines # <<>> /\ lines' = Tail(lines)
      /\ Head(lines) = text
  BY DEF PS!TypeOK, PS!Line
<1>2. /\ Len(lines) \in Nat /\ Len(lines) # 0 /\ DOMAIN lines = 1 .. Len(lines)
      /\ lines[1] = text
  BY <1>1
<1>3. lines' \in Seq(PS!Noise \cup PS!Answers) /\ Len(lines') = Len(lines) - 1
      /\ DOMAIN lines' = 1 .. Len(lines')
      /\ \A i \in 1 .. Len(lines') : lines'[i] = lines[i + 1]
  BY <1>1, <1>2
<1> QED BY <1>1, <1>2, <1>3 DEF IsAnswer

(* What a written line adds.                                               *)
LEMMA LineWritten ==
    ASSUME PS!TypeOK, NEW text \in PS!Noise \cup PS!Answers, lines' = Append(lines, text)
    PROVE  /\ lines' \in Seq(PS!Noise \cup PS!Answers)
           /\ \A i \in Nat : IsAnswer(i)' /\ ~IsAnswer(i)
                => lines'[i] = text /\ text \in PS!Answers /\ i = Len(lines) + 1
           /\ \A i \in Nat : IsAnswer(i) => lines'[i] = lines[i]
<1>1. lines \in Seq(PS!Noise \cup PS!Answers)
  BY DEF PS!TypeOK
<1>2. /\ lines' \in Seq(PS!Noise \cup PS!Answers)
      /\ Len(lines) \in Nat /\ DOMAIN lines = 1 .. Len(lines)
      /\ DOMAIN lines' = 1 .. Len(lines) + 1
      /\ \A i \in 1 .. Len(lines) : lines'[i] = lines[i]
      /\ lines'[Len(lines) + 1] = text
  BY <1>1
<1> QED BY <1>2 DEF IsAnswer

LEMMA OneMoreWritten == ASSUME PS!TypeOK, written' = written + 1 PROVE written' \in Nat
<1>1. written \in Nat
  BY DEF PS!TypeOK
<1> QED BY <1>1

(* The server and its lines are left as they are.                          *)
LEMMA SameLines ==
    ASSUME AnswersInv, lines' = lines, server' = server, pc' = "finished"
    PROVE  AnswersInv'
BY DEF AnswersInv, NoAnswers, IsAnswer

LEMMA NothingToSendWithInv == ASSUME PSInv, PS!NothingToSendWith PROVE PSInv'
<1>1. PS!TypeOK'
  BY DEF PSInv, PS!TypeOK, PS!NothingToSendWith, PS!Finish
<1>2. AnswersInv'
  BY SameLines DEF PSInv, PS!NothingToSendWith, PS!Finish
<1>3. ServerInv'
  BY DEF PSInv, ServerInv, PS!NothingToSendWith, PS!Finish
<1> QED BY <1>1, <1>2, <1>3 DEF PSInv

LEMMA GiveUpInv == ASSUME PSInv, PS!GiveUp PROVE PSInv'
<1>1. PS!TypeOK'
  BY DEF PSInv, PS!TypeOK, PS!GiveUp, PS!Finish
<1>2. AnswersInv'
  BY SameLines DEF PSInv, PS!GiveUp, PS!Finish
<1>3. ServerInv'
  BY DEF PSInv, ServerInv, PS!GiveUp, PS!Finish
<1> QED BY <1>1, <1>2, <1>3 DEF PSInv

LEMMA BrokerSendInv == ASSUME PSInv, NEW code \in {0, 1}, PS!BrokerSend(code) PROVE PSInv'
<1>1. PS!TypeOK'
  BY DEF PSInv, PS!TypeOK, PS!BrokerSend, PS!Finish
<1>2. AnswersInv'
  BY SameLines DEF PSInv, PS!BrokerSend, PS!Finish
<1>3. server' = "off" /\ pc' = "finished" /\ (result' => delivered')
  <2>1. server' = server /\ pc = "start" /\ pc' = "finished" /\ result' = (code = 0)
    BY DEF PS!BrokerSend, PS!Finish
  <2>2. code = 0 => delivered'
    BY DEF PS!BrokerSend
  <2> QED BY <2>1, <2>2 DEF PSInv, ServerInv
<1>4. ServerInv'
  BY <1>3 DEF ServerInv
<1> QED BY <1>1, <1>2, <1>4 DEF PSInv

LEMMA StartInv == ASSUME PSInv, PS!Start PROVE PSInv'
<1>1. PS!TypeOK'
  BY DEF PSInv, PS!TypeOK, PS!Start
<1>2. /\ pc = "start" /\ pc' = "initialize" /\ server' = "up" /\ lines' = lines
      /\ result' = result
  BY DEF PS!Start
<1>3. AnswersInv'
  BY <1>2 DEF PSInv, AnswersInv, ServerInv, NoAnswers, IsAnswer
<1>4. ServerInv'
  BY <1>2 DEF PSInv, ServerInv
<1> QED BY <1>1, <1>3, <1>4 DEF PSInv

LEMMA ReadNoiseInv == ASSUME PSInv, PS!ReadNoise PROVE PSInv'
<1>1. PICK text \in PS!Noise : PS!Line(text)
  BY DEF PS!ReadNoise
<1>2. /\ \A i \in Nat : IsAnswer(i)' => IsAnswer(i + 1) /\ lines'[i] = lines[i + 1]
      /\ lines' \in Seq(PS!Noise \cup PS!Answers)
  BY <1>1, LineRead DEF PSInv
<1>3. PS!TypeOK' /\ ServerInv'
  BY <1>2 DEF PSInv, PS!TypeOK, ServerInv, PS!ReadNoise
<1>4. AnswersInv'
  <2>1. server' = server /\ pc' = pc /\ delivered' = delivered
    BY DEF PS!ReadNoise
  <2>2. NoAnswers => NoAnswers'
    BY <1>2 DEF NoAnswers
  <2>3. ASSUME pc = "initialize", NEW i \in Nat, NEW j \in Nat, IsAnswer(i)', IsAnswer(j)'
        PROVE  i = j
    <3>1. IsAnswer(i + 1) /\ IsAnswer(j + 1) /\ i + 1 \in Nat /\ j + 1 \in Nat
      BY <1>2, <2>3
    <3>2. i + 1 = j + 1
      BY <2>3, <3>1 DEF PSInv, AnswersInv
    <3> QED BY <3>2
  <2>4. ASSUME pc = "send", NEW i \in Nat, IsAnswer(i)', lines'[i] = "accepted"
        PROVE  delivered
    <3>1. IsAnswer(i + 1) /\ lines[i + 1] = "accepted" /\ i + 1 \in Nat
      BY <1>2, <2>4
    <3> QED BY <2>4, <3>1 DEF PSInv, AnswersInv
  <2> QED BY <2>1, <2>2, <2>3, <2>4 DEF PSInv, AnswersInv
<1> QED BY <1>3, <1>4 DEF PSInv

(* The one answer there was is the answer to initialize.                   *)
LEMMA NoneIsLeft ==
    ASSUME PSInv, pc = "initialize", NEW text \in PS!Answers, PS!Line(text)
    PROVE  lines' \in Seq(PS!Noise \cup PS!Answers) /\ NoAnswers'
<1>1. /\ lines' \in Seq(PS!Noise \cup PS!Answers) /\ IsAnswer(1)
      /\ \A i \in Nat : IsAnswer(i)' => IsAnswer(i + 1)
  BY LineRead DEF PSInv, IsAnswer
<1>2. \A i \in Nat : IsAnswer(i) => i = 1
  BY <1>1 DEF PSInv, AnswersInv
<1>3. ASSUME NEW i \in Nat, IsAnswer(i)' PROVE FALSE
  <2>1. i = 0
    BY <1>1, <1>2, <1>3
  <2>2. DOMAIN lines' = 1 .. Len(lines')
    BY <1>1
  <2> QED BY <1>3, <2>1, <2>2 DEF IsAnswer
<1> QED BY <1>1, <1>3 DEF NoAnswers

LEMMA InitializedInv == ASSUME PSInv, PS!Initialized PROVE PSInv'
<1>1. /\ pc = "initialize" /\ PS!Line("accepted") /\ "accepted" \in PS!Answers
      /\ pc' = "send" /\ server' = IF server = "initialized" THEN "sent" ELSE server
      /\ result' = result /\ delivered' = delivered
  BY DEF PS!Initialized, PS!Answers
<1>2. lines' \in Seq(PS!Noise \cup PS!Answers) /\ NoAnswers' /\ IsAnswer(1)
  BY <1>1, NoneIsLeft, LineRead DEF PSInv, IsAnswer
<1>3. PS!TypeOK'
  BY <1>2 DEF PSInv, PS!TypeOK, PS!Initialized
<1>4. AnswersInv'
  BY <1>1, <1>2 DEF AnswersInv, NoAnswers
<1>5. ServerInv'
  <2>1. server \in {"initialized", "ended"} /\ ~result
    BY <1>1, <1>2 DEF PSInv, ServerInv, AnswersInv, NoAnswers
  <2> QED BY <1>1, <2>1 DEF ServerInv
<1> QED BY <1>3, <1>4, <1>5 DEF PSInv

LEMMA InitializeFailsInv == ASSUME PSInv, PS!InitializeFails PROVE PSInv'
<1>1. /\ pc = "initialize" /\ PS!Line("no result") /\ "no result" \in PS!Answers
      /\ pc' = "finished" /\ result' = FALSE
  BY DEF PS!InitializeFails, PS!Answers, PS!Finish
<1>2. lines' \in Seq(PS!Noise \cup PS!Answers) /\ NoAnswers'
  BY <1>1, NoneIsLeft
<1>3. PS!TypeOK'
  BY <1>1, <1>2 DEF PSInv, PS!TypeOK, PS!InitializeFails
<1>4. AnswersInv'
  BY <1>1, <1>2 DEF AnswersInv
<1>5. ServerInv'
  BY <1>1 DEF ServerInv
<1> QED BY <1>3, <1>4, <1>5 DEF PSInv

LEMMA AnsweredInv == ASSUME PSInv, PS!Answered PROVE PSInv'
<1>1. PICK text \in PS!Answers : PS!Line(text) /\ PS!Finish(PS!Answer(text))
  BY DEF PS!Answered
<1>2. /\ pc = "send" /\ pc' = "finished" /\ result' = (text = "accepted")
      /\ server' = server /\ delivered' = delivered /\ transport' = transport /\ written' = written
  BY <1>1 DEF PS!Answered, PS!Finish, PS!Answer
<1>3. /\ lines' \in Seq(PS!Noise \cup PS!Answers) /\ IsAnswer(1) /\ lines[1] = text
      /\ \A i \in Nat : IsAnswer(i)' => IsAnswer(i + 1)
  BY <1>1, LineRead DEF PSInv, IsAnswer
<1>4. server # "sent" /\ (text = "accepted" => delivered)
  BY <1>2, <1>3 DEF PSInv, AnswersInv, NoAnswers
<1>5. PS!TypeOK'
  BY <1>2, <1>3 DEF PSInv, PS!TypeOK
<1>6. AnswersInv'
  BY <1>2, <1>3 DEF PSInv, AnswersInv, NoAnswers
<1>7. ServerInv'
  BY <1>2, <1>4 DEF PSInv, ServerInv
<1> QED BY <1>5, <1>6, <1>7 DEF PSInv

LEMMA WriteNoiseInv == ASSUME PSInv, PS!WriteNoise PROVE PSInv'
<1>1. PICK text \in PS!Noise : PS!Write(text)
  BY DEF PS!WriteNoise
<1>2. /\ server' = server /\ delivered' = delivered /\ transport' = transport /\ pc' = pc
      /\ result' = result /\ written' = written + 1 /\ written < MaxLines
      /\ lines' = Append(lines, text) /\ text \notin PS!Answers
  BY <1>1 DEF PS!WriteNoise, PS!Write, PS!Noise, PS!Answers
<1>3. /\ lines' \in Seq(PS!Noise \cup PS!Answers)
      /\ \A i \in Nat : IsAnswer(i)' => IsAnswer(i) /\ lines'[i] = lines[i]
  BY <1>1, <1>2, LineWritten DEF PSInv
<1>4. PS!TypeOK'
  BY <1>2, <1>3, OneMoreWritten DEF PSInv, PS!TypeOK
<1>5. AnswersInv'
  BY <1>2, <1>3 DEF PSInv, AnswersInv, NoAnswers
<1>6. ServerInv'
  BY <1>2 DEF PSInv, ServerInv
<1> QED BY <1>4, <1>5, <1>6 DEF PSInv

LEMMA AnswerInitializeInv == ASSUME PSInv, PS!AnswerInitialize PROVE PSInv'
<1>1. PICK text \in {"accepted", "no result"} : PS!Write(text)
  BY DEF PS!AnswerInitialize
<1>2. /\ server = "up" /\ server' = "initialized" /\ delivered' = delivered
      /\ transport' = transport /\ pc' = pc /\ result' = result
      /\ written' = written + 1 /\ written < MaxLines
      /\ lines' = Append(lines, text) /\ text \in PS!Answers
  BY <1>1 DEF PS!AnswerInitialize, PS!Write, PS!Answers
<1>3. NoAnswers
  BY <1>2 DEF PSInv, AnswersInv
<1>4. /\ lines' \in Seq(PS!Noise \cup PS!Answers)
      /\ \A i \in Nat : IsAnswer(i)' => i = Len(lines) + 1
  BY <1>2, <1>3, LineWritten DEF PSInv, NoAnswers
<1>5. PS!TypeOK'
  BY <1>2, <1>4, OneMoreWritten DEF PSInv, PS!TypeOK
<1>6. AnswersInv'
  BY <1>2, <1>4 DEF PSInv, AnswersInv, ServerInv
<1>7. ServerInv'
  BY <1>2 DEF PSInv, ServerInv
<1> QED BY <1>5, <1>6, <1>7 DEF PSInv

LEMMA AnswerSendInv == ASSUME PSInv, PS!AnswerSend PROVE PSInv'
<1>1. PICK text \in PS!Answers : PS!Write(text) /\ delivered' = (text = "accepted")
  BY DEF PS!AnswerSend
<1>2. /\ server = "sent" /\ server' = "answered"
      /\ transport' = transport /\ pc' = pc /\ result' = result
      /\ written' = written + 1 /\ written < MaxLines /\ lines' = Append(lines, text)
  BY <1>1 DEF PS!AnswerSend, PS!Write
<1>3. NoAnswers
  BY <1>2 DEF PSInv, AnswersInv
<1>4. /\ lines' \in Seq(PS!Noise \cup PS!Answers)
      /\ \A i \in Nat : IsAnswer(i)' => lines'[i] = text
  BY <1>2, <1>3, LineWritten DEF PSInv, NoAnswers
<1>5. PS!TypeOK'
  BY <1>1, <1>2, <1>4, OneMoreWritten DEF PSInv, PS!TypeOK
<1>6. pc \notin {"start", "initialize"} /\ ~result
  BY <1>2 DEF PSInv, ServerInv
<1>7. AnswersInv'
  BY <1>1, <1>2, <1>4, <1>6 DEF AnswersInv
<1>8. ServerInv'
  BY <1>2, <1>6 DEF PSInv, ServerInv
<1> QED BY <1>5, <1>7, <1>8 DEF PSInv

LEMMA ServerEndsInv == ASSUME PSInv, PS!ServerEnds PROVE PSInv'
<1>1. /\ server \notin {"off", "ended"} /\ server' = "ended" /\ delivered' \in BOOLEAN
      /\ server # "sent" => delivered' = delivered
      /\ transport' = transport /\ pc' = pc /\ result' = result /\ lines' = lines
      /\ written' = written
  BY DEF PSInv, PS!TypeOK, PS!ServerEnds
<1>2. PS!TypeOK'
  BY <1>1 DEF PSInv, PS!TypeOK
<1>3. AnswersInv'
  <2>1. \A i \in Nat : IsAnswer(i)' = IsAnswer(i)
    BY <1>1 DEF IsAnswer
  <2> QED BY <1>1, <2>1 DEF PSInv, AnswersInv, NoAnswers
<1>4. ServerInv'
  BY <1>1 DEF PSInv, ServerInv
<1> QED BY <1>2, <1>3, <1>4 DEF PSInv

LEMMA PSInvariance == PS!Spec => []PSInv
<1>1. PS!Init => PSInv
  <2> SUFFICES ASSUME PS!Init PROVE PSInv
    OBVIOUS
  <2>1. lines = <<>> /\ written = 0
    BY DEF PS!Init
  <2>2. lines \in Seq(PS!Noise \cup PS!Answers) /\ written \in Nat
    BY <2>1
  <2>3. PS!TypeOK
    BY <2>2 DEF PS!Init, PS!TypeOK
  <2>4. NoAnswers
    BY <2>1 DEF NoAnswers, IsAnswer
  <2> QED BY <2>3, <2>4 DEF PS!Init, PSInv, AnswersInv, ServerInv, NoAnswers
<1>2. PSInv /\ [PS!Next]_PS!vars => PSInv'
  <2> SUFFICES ASSUME PSInv, [PS!Next]_PS!vars PROVE PSInv'
    OBVIOUS
  <2>1. CASE PS!Next
    BY <2>1, NothingToSendWithInv, GiveUpInv, BrokerSendInv, StartInv, ReadNoiseInv,
       InitializedInv, InitializeFailsInv, AnsweredInv, WriteNoiseInv,
       AnswerInitializeInv, AnswerSendInv, ServerEndsInv DEF PS!Next
  <2>2. CASE UNCHANGED PS!vars
    BY <2>2 DEF PS!vars, PSInv, PS!TypeOK, AnswersInv, ServerInv, NoAnswers, IsAnswer
  <2> QED BY <2>1, <2>2
<1> QED BY <1>1, <1>2, PTL DEF PS!Spec

(* peer_notify tells of success only when the message was delivered:       *)
(* whatever lines come in between, the answer it takes is that to its own  *)
(* request and not the one to the initialization (peer_notify.py).         *)
THEOREM ToldTruly == PS!Spec => []PS!TrueMeansDelivered
<1>1. PSInv => PS!TrueMeansDelivered
  BY DEF PSInv, ServerInv, PS!TrueMeansDelivered
<1> QED BY <1>1, PSInvariance, PTL
-----------------------------------------------------------------------------
(* The inspection of panes                                                 *)

Recorded == record # NoRecord

(* The constants: a turn that has just begun has not counted to the        *)
(* threshold yet.                                                          *)
PaneBounds == Threshold \in Nat /\ Threshold > 1 /\ Cap \in Nat /\ MaxCycles \in Nat

Screens == [text : {0, 1}, verb : Verbs \cup {NoVerb}, elapsed : Nat, old : Nat, error : BOOLEAN]
Histories == [now : [output : BOOLEAN, line : BOOLEAN, ticked : BOOLEAN],
              quiet : Nat, burst : 0 .. MaxCycles + 1]

PaneTyped ==
    /\ screen \in Screens /\ seen \in Histories
    /\ cycle \in 0 .. MaxCycles /\ faults \in Nat
    /\ Recorded => /\ record.streak \in Nat /\ record.checked \in 0 .. MaxCycles
                /\ record.changed \in 0 .. MaxCycles + 1

(* What the last cycle has recorded is so still, as long as the worker has *)
(* done nothing that would change it.                                      *)
PaneRecordInv ==
    Recorded =>
        /\ ~seen.now.output /\ ~seen.now.line => record.hash = SD!ContentHash
        /\ ~seen.now.ticked /\ ~seen.now.line
             => record.verb = screen.verb /\ record.elapsed = screen.elapsed
        /\ record.streak >= seen.quiet

(* The cutoff lies before the first output of the period, for any period   *)
(* that has one; the period after an idle cycle begins with that cycle.    *)
CutoffInv ==
    Recorded =>
        /\ record.checked <= cycle
        /\ record.changed = MaxCycles + 1 \/ record.changed <= record.checked
        /\ record.changed = MaxCycles + 1 \/ seen.burst = MaxCycles + 1 \/ record.changed <= seen.burst
        /\ record.streak > 0 => seen.burst = MaxCycles + 1 \/ record.checked <= seen.burst

(* The remembered keys are those of the counter at the last cycle.         *)
KeysInv ==
    /\ screen.verb # NoVerb => screen.old = 0
    /\ faults = 0 =>
         /\ cycle > 0 /\ ~seen.now.ticked /\ ~seen.now.line => keys = SD!AgedKeys
         /\ ~seen.now.ticked /\ screen.old # 0 => keys \subseteq {screen.old}
         /\ seen.now.ticked /\ screen.old >= Threshold => screen.old \notin keys

SDInv == PaneTyped /\ PaneRecordInv /\ CutoffInv /\ KeysInv

(* What the worker does leaves the record and the keys, and the tools'     *)
(* clock.                                                                  *)
LEMMA OutputInv == ASSUME PaneBounds, SDInv, SD!Output PROVE SDInv'
<1>1. /\ screen' = [screen EXCEPT !.text = 1 - screen.text]
      /\ seen' = [seen EXCEPT !.now.output = TRUE,
                              !.burst = IF seen.burst = MaxCycles + 1 THEN cycle ELSE seen.burst]
      /\ UNCHANGED <<record, keys, decision, cycle, faults>>
  BY DEF SD!Output, SD!World, SD!NoTime
<1>2. /\ screen' \in Screens /\ screen'.verb = screen.verb /\ screen'.elapsed = screen.elapsed
      /\ screen'.old = screen.old
  BY <1>1 DEF SDInv, PaneTyped, Screens
<1>3. /\ seen' \in Histories /\ seen'.now.output /\ seen'.now.line = seen.now.line
      /\ seen'.now.ticked = seen.now.ticked /\ seen'.quiet = seen.quiet
      /\ seen'.burst = IF seen.burst = MaxCycles + 1 THEN cycle ELSE seen.burst
  <2> DEFINE burst == IF seen.burst = MaxCycles + 1 THEN cycle ELSE seen.burst
  <2>1. burst \in 0 .. MaxCycles + 1
    BY DEF SDInv, PaneTyped, Histories, PaneBounds
  <2>2. seen' = [seen EXCEPT !.now.output = TRUE, !.burst = burst]
    BY <1>1
  <2> HIDE DEF burst
  <2>3. /\ seen' \in Histories /\ seen'.now.output /\ seen'.now.line = seen.now.line
        /\ seen'.now.ticked = seen.now.ticked /\ seen'.quiet = seen.quiet /\ seen'.burst = burst
    BY <2>1, <2>2 DEF SDInv, PaneTyped, Histories
  <2> QED BY <2>3 DEF burst
<1>4. PaneTyped'
  BY <1>1, <1>2, <1>3 DEF SDInv, PaneTyped, Recorded
<1>5. PaneRecordInv'
  BY <1>1, <1>2, <1>3 DEF SDInv, PaneRecordInv, Recorded
<1>6. CutoffInv'
  BY <1>1, <1>3 DEF SDInv, CutoffInv, PaneTyped, Recorded, PaneBounds
<1>7. KeysInv'
  BY <1>1, <1>2, <1>3 DEF SDInv, KeysInv, SD!AgedKeys
<1> QED BY <1>4, <1>5, <1>6, <1>7 DEF SDInv

LEMMA ErrorTextInv == ASSUME PaneBounds, SDInv, SD!ErrorText PROVE SDInv'
<1>1. /\ screen' = [screen EXCEPT !.error = ~screen.error]
      /\ seen' = [seen EXCEPT !.now.line = TRUE]
      /\ UNCHANGED <<record, keys, decision, cycle, faults>>
  BY DEF SD!ErrorText, SD!World
<1>2. /\ screen' \in Screens /\ screen'.verb = screen.verb /\ screen'.elapsed = screen.elapsed
      /\ screen'.old = screen.old
  BY <1>1 DEF SDInv, PaneTyped, Screens
<1>3. /\ seen' \in Histories /\ seen'.now.line
      /\ seen'.now.ticked = seen.now.ticked /\ seen'.quiet = seen.quiet
      /\ seen'.burst = seen.burst
  BY <1>1 DEF SDInv, PaneTyped, Histories
<1>4. PaneTyped'
  BY <1>1, <1>2, <1>3 DEF SDInv, PaneTyped, Recorded
<1>5. PaneRecordInv'
  BY <1>1, <1>2, <1>3 DEF SDInv, PaneRecordInv, Recorded
<1>6. CutoffInv'
  BY <1>1, <1>3 DEF SDInv, CutoffInv, Recorded
<1>7. KeysInv'
  BY <1>1, <1>2, <1>3 DEF SDInv, KeysInv, SD!AgedKeys
<1> QED BY <1>4, <1>5, <1>6, <1>7 DEF SDInv

LEMMA BeginInv == ASSUME PaneBounds, SDInv, SD!Begin PROVE SDInv'
<1>1. /\ screen.verb = NoVerb /\ screen.old = 0
      /\ \/ \E verb \in Verbs : screen' = [screen EXCEPT !.verb = verb, !.elapsed = 0]
         \/ screen' = [screen EXCEPT !.old = 1]
      /\ seen' = [seen EXCEPT !.now.line = TRUE, !.now.ticked = TRUE]
      /\ UNCHANGED <<record, keys, decision, cycle, faults>>
  BY DEF SD!Begin, SD!World
<1>2. /\ screen' \in Screens
      /\ \/ screen'.old = 0
         \/ screen'.old = 1 /\ screen'.verb = NoVerb
  <2>1. screen \in Screens
    BY DEF SDInv, PaneTyped
  <2>2. ASSUME NEW verb \in Verbs, screen' = [screen EXCEPT !.verb = verb, !.elapsed = 0]
        PROVE  screen' \in Screens /\ screen'.old = 0
    BY <1>1, <2>1, <2>2 DEF Screens
  <2>3. CASE screen' = [screen EXCEPT !.old = 1]
    BY <1>1, <2>1, <2>3 DEF Screens
  <2> QED BY <1>1, <2>2, <2>3
<1>3. /\ seen' \in Histories /\ seen'.now.line /\ seen'.now.ticked /\ seen'.quiet = seen.quiet
      /\ seen'.burst = seen.burst
  BY <1>1 DEF SDInv, PaneTyped, Histories
<1>4. PaneTyped'
  BY <1>1, <1>2, <1>3 DEF SDInv, PaneTyped, Recorded
<1>5. PaneRecordInv'
  BY <1>1, <1>3 DEF SDInv, PaneRecordInv, Recorded
<1>6. CutoffInv'
  BY <1>1, <1>3 DEF SDInv, CutoffInv, Recorded
<1>7. KeysInv'
  <2>1. ~(screen'.old >= Threshold)
    BY <1>2 DEF PaneBounds
  <2> QED BY <1>2, <1>3, <2>1 DEF KeysInv
<1> QED BY <1>4, <1>5, <1>6, <1>7 DEF SDInv

LEMMA CountInv == ASSUME PaneBounds, SDInv, SD!Count PROVE SDInv'
<1>1. /\ ~seen.now.ticked
      /\ \/ screen.verb # NoVerb /\ screen' = [screen EXCEPT !.elapsed = screen.elapsed + 1]
         \/ screen.old \in 1 .. Threshold /\ screen' = [screen EXCEPT !.old = screen.old + 1]
      /\ seen' = [seen EXCEPT !.now.ticked = TRUE]
      /\ UNCHANGED <<record, keys, decision, cycle, faults>>
  BY DEF SD!Count, SD!World
<1>2. /\ screen' \in Screens /\ screen'.text = screen.text /\ screen'.error = screen.error
      /\ screen'.verb = screen.verb
      /\ \/ screen.verb # NoVerb /\ screen'.old = screen.old
         \/ screen.old # 0 /\ screen'.old = screen.old + 1
  BY <1>1 DEF SDInv, PaneTyped, Screens, PaneBounds
<1>3. /\ seen' \in Histories /\ seen'.now.output = seen.now.output /\ seen'.now.line = seen.now.line
      /\ seen'.now.ticked /\ seen'.quiet = seen.quiet /\ seen'.burst = seen.burst
  BY <1>1 DEF SDInv, PaneTyped, Histories
<1>4. PaneTyped'
  BY <1>1, <1>2, <1>3 DEF SDInv, PaneTyped, Recorded
<1>5. SD!HasSpinnerLine' = SD!HasSpinnerLine /\ SD!ContentHash' = SD!ContentHash
  <2>1. screen.old \in Nat
    BY DEF SDInv, PaneTyped, Screens
  <2>2. SD!HasSpinnerLine' = SD!HasSpinnerLine
    BY <1>2, <2>1 DEF SD!HasSpinnerLine
  <2> QED BY <1>2, <2>2 DEF SD!ContentHash
<1>6. PaneRecordInv'
  BY <1>1, <1>3, <1>5 DEF SDInv, PaneRecordInv, Recorded
<1>7. CutoffInv'
  BY <1>1, <1>3 DEF SDInv, CutoffInv, Recorded
<1>8. KeysInv'
  <2>1. screen.old \in Nat /\ (screen.verb # NoVerb => screen.old = 0)
    BY DEF SDInv, PaneTyped, Screens, KeysInv
  <2>2. screen'.verb # NoVerb => screen'.old = 0
    BY <1>2, <2>1
  <2>3. ASSUME faults = 0, screen'.old >= Threshold PROVE screen'.old \notin keys
    <3>1. screen.old # 0 /\ screen'.old = screen.old + 1
      BY <1>2, <2>1, <2>3 DEF PaneBounds
    <3>2. keys \subseteq {screen.old}
      BY <1>1, <2>3, <3>1 DEF SDInv, KeysInv
    <3> QED BY <2>1, <3>1, <3>2
  <2> QED BY <1>1, <1>3, <2>2, <2>3 DEF KeysInv
<1> QED BY <1>4, <1>6, <1>7, <1>8 DEF SDInv

LEMMA FinishInv == ASSUME PaneBounds, SDInv, SD!Finish PROVE SDInv'
<1>1. /\ screen' = [screen EXCEPT !.verb = NoVerb, !.elapsed = 0, !.old = 0]
      /\ seen' = [seen EXCEPT !.now.line = TRUE]
      /\ UNCHANGED <<record, keys, decision, cycle, faults>>
  BY DEF SD!Finish, SD!World
<1>2. screen' \in Screens /\ screen'.verb = NoVerb /\ screen'.old = 0
  BY <1>1 DEF SDInv, PaneTyped, Screens
<1>3. /\ seen' \in Histories /\ seen'.now.line
      /\ seen'.now.ticked = seen.now.ticked /\ seen'.quiet = seen.quiet
      /\ seen'.burst = seen.burst
  BY <1>1 DEF SDInv, PaneTyped, Histories
<1>4. PaneTyped'
  BY <1>1, <1>2, <1>3 DEF SDInv, PaneTyped, Recorded
<1>5. PaneRecordInv'
  BY <1>1, <1>3 DEF SDInv, PaneRecordInv, Recorded
<1>6. CutoffInv'
  BY <1>1, <1>3 DEF SDInv, CutoffInv, Recorded
<1>7. KeysInv'
  <2>1. ~(screen'.old >= Threshold)
    BY <1>2 DEF PaneBounds
  <2> QED BY <1>2, <1>3, <2>1 DEF KeysInv
<1> QED BY <1>4, <1>5, <1>6, <1>7 DEF SDInv

(* The record, the history and the keys after a cycle.                     *)
Outcome(anomaly) == SD!Transition(anomaly)

LEMMA CheckFacts ==
    ASSUME PaneBounds, SDInv, SD!Check
    PROVE  \E approval, kept, anomaly \in BOOLEAN :
             /\ anomaly = (SD!Fired \/ approval)
             /\ cycle < MaxCycles /\ cycle' = cycle + 1 /\ screen' = screen
             /\ faults' \in Nat /\ faults' >= faults /\ (faults' = faults => kept)
             /\ keys' = IF kept THEN SD!AgedKeys ELSE keys
             /\ record'.hash = SD!ContentHash /\ record'.checked = cycle + 1
             /\ record'.verb = screen.verb /\ record'.elapsed = screen.elapsed
             /\ record'.streak = IF Outcome(anomaly) = "idle" THEN record.streak + 1 ELSE 0
             /\ record'.changed = CASE Outcome(anomaly) = "first_observation" -> MaxCycles + 1
                                    [] Outcome(anomaly) \in {"anomaly_reset", "active"} -> record.checked
                                    [] OTHER -> record.changed
             /\ decision' = [transition |-> Outcome(anomaly), suppress |-> SD!Suppress,
                             fired |-> SD!Fired]
             /\ seen'.now = SD!Still
             /\ seen'.quiet = IF \/ seen.now.output \/ seen.now.line
                                 \/ Outcome(anomaly) \in {"first_observation", "anomaly_reset"}
                                THEN 0 ELSE seen.quiet + 1
             /\ seen'.burst = IF Outcome(anomaly) \in {"idle", "anomaly_reset"}
                                THEN MaxCycles + 1 ELSE seen.burst
             /\ seen' \in Histories
<1>1. PICK approval \in BOOLEAN, kept \in BOOLEAN :
        LET anomaly == SD!Fired \/ approval
            step == SD!Transition(anomaly)
        IN  /\ faults' = faults + (IF approval THEN 1 ELSE 0) + (IF kept THEN 0 ELSE 1)
            /\ keys' = IF kept THEN SD!AgedKeys ELSE keys
            /\ record' = [hash |-> SD!ContentHash, checked |-> cycle + 1,
                          verb |-> screen.verb, elapsed |-> screen.elapsed,
                          streak |-> IF step = "idle" THEN record.streak + 1 ELSE 0,
                          changed |-> CASE step = "first_observation" -> MaxCycles + 1
                                        [] step \in {"anomaly_reset", "active"} -> record.checked
                                        [] OTHER -> record.changed]
            /\ decision' = [transition |-> step, suppress |-> SD!Suppress, fired |-> SD!Fired]
            /\ seen' = [now |-> SD!Still,
                        quiet |-> IF \/ seen.now.output \/ seen.now.line
                                     \/ step \in {"first_observation", "anomaly_reset"}
                                    THEN 0 ELSE seen.quiet + 1,
                        burst |-> IF step \in {"idle", "anomaly_reset"}
                                    THEN MaxCycles + 1 ELSE seen.burst]
  BY DEF SD!Check, SD!NoTime, SD!StartOfActivity
<1> DEFINE anomaly == SD!Fired \/ approval
           step == SD!Transition(anomaly)
<1>2. cycle < MaxCycles /\ cycle' = cycle + 1 /\ screen' = screen
  BY DEF SD!Check
<1>3. /\ faults' \in Nat /\ faults' >= faults /\ (faults' = faults => kept)
  <2>1. faults \in Nat /\ faults' = faults + (IF approval THEN 1 ELSE 0) + (IF kept THEN 0 ELSE 1)
    BY <1>1 DEF SDInv, PaneTyped
  <2>2. CASE kept
    BY <2>1, <2>2
  <2>3. CASE ~kept
    BY <2>1, <2>3
  <2> QED BY <2>2, <2>3
<1>4. /\ seen'.now = SD!Still
      /\ seen'.quiet = IF \/ seen.now.output \/ seen.now.line
                          \/ step \in {"first_observation", "anomaly_reset"}
                         THEN 0 ELSE seen.quiet + 1
      /\ seen'.burst = IF step \in {"idle", "anomaly_reset"} THEN MaxCycles + 1 ELSE seen.burst
  BY <1>1
<1>5. seen' \in Histories
  <2>1. seen.quiet + 1 \in Nat /\ seen.burst \in 0 .. MaxCycles + 1 /\ MaxCycles + 1 \in 0 .. MaxCycles + 1
    BY DEF SDInv, PaneTyped, Histories, PaneBounds
  <2>2. SD!Still \in [output : BOOLEAN, line : BOOLEAN, ticked : BOOLEAN]
    BY DEF SD!Still
  <2>3. seen' = [now |-> SD!Still, quiet |-> seen'.quiet, burst |-> seen'.burst]
    BY <1>1
  <2>4. seen'.quiet \in Nat /\ seen'.burst \in 0 .. MaxCycles + 1
    BY <1>4, <2>1
  <2> QED BY <2>2, <2>3, <2>4 DEF Histories
<1>6. anomaly \in BOOLEAN
  OBVIOUS
<1> QED BY <1>1, <1>2, <1>3, <1>4, <1>5, <1>6 DEF Outcome

(* The transitions in terms of what was so before.                         *)
LEMMA Transitions ==
    ASSUME NEW anomaly \in BOOLEAN
    PROVE  /\ Outcome(anomaly) = "first_observation" <=> ~Recorded
           /\ Outcome(anomaly) = "anomaly_reset" <=> Recorded /\ anomaly
           /\ Outcome(anomaly) = "idle" <=> Recorded /\ ~anomaly /\ record.hash = SD!ContentHash
           /\ Outcome(anomaly) = "active" => Recorded /\ record.streak > 0
           /\ Outcome(anomaly) \in {"first_observation", "anomaly_reset", "idle", "active",
                                    "active_continuation"}
BY DEF Outcome, SD!Transition, Recorded

LEMMA CheckInv == ASSUME PaneBounds, SDInv, SD!Check PROVE SDInv'
<1>1. PICK approval \in BOOLEAN, kept \in BOOLEAN, anomaly \in BOOLEAN :
             /\ cycle < MaxCycles /\ cycle' = cycle + 1 /\ screen' = screen
             /\ faults' \in Nat /\ faults' >= faults /\ (faults' = faults => kept)
             /\ keys' = IF kept THEN SD!AgedKeys ELSE keys
             /\ record'.hash = SD!ContentHash /\ record'.checked = cycle + 1
             /\ record'.verb = screen.verb /\ record'.elapsed = screen.elapsed
             /\ record'.streak = IF Outcome(anomaly) = "idle" THEN record.streak + 1 ELSE 0
             /\ record'.changed = CASE Outcome(anomaly) = "first_observation" -> MaxCycles + 1
                                    [] Outcome(anomaly) \in {"anomaly_reset", "active"} -> record.checked
                                    [] OTHER -> record.changed
             /\ seen'.now = SD!Still
             /\ seen'.quiet = IF \/ seen.now.output \/ seen.now.line
                                 \/ Outcome(anomaly) \in {"first_observation", "anomaly_reset"}
                                THEN 0 ELSE seen.quiet + 1
             /\ seen'.burst = IF Outcome(anomaly) \in {"idle", "anomaly_reset"}
                                THEN MaxCycles + 1 ELSE seen.burst
             /\ seen' \in Histories
  BY CheckFacts
<1> DEFINE step == Outcome(anomaly)
<1>2. /\ step = "first_observation" <=> ~Recorded
      /\ step = "anomaly_reset" <=> Recorded /\ anomaly
      /\ step = "idle" <=> Recorded /\ ~anomaly /\ record.hash = SD!ContentHash
      /\ step = "active" => Recorded /\ record.streak > 0
      /\ step \in {"first_observation", "anomaly_reset", "idle", "active", "active_continuation"}
  BY Transitions
<1>3. /\ ~seen'.now.output /\ ~seen'.now.line /\ ~seen'.now.ticked
  BY <1>1 DEF SD!Still
<1>4. Recorded => /\ record.streak \in Nat /\ record.checked \in 0 .. MaxCycles
               /\ record.changed \in 0 .. MaxCycles + 1
  BY DEF SDInv, PaneTyped
<1>5. cycle \in Nat /\ seen.quiet \in Nat /\ MaxCycles \in Nat /\ seen.burst \in 0 .. MaxCycles + 1
      /\ faults \in Nat /\ screen \in Screens
  BY DEF SDInv, PaneTyped, Histories, PaneBounds
<1> HIDE DEF step
<1>6. /\ record'.streak \in Nat
      /\ step = "idle" => record'.streak = record.streak + 1
      /\ step # "idle" => record'.streak = 0
  BY <1>1, <1>2, <1>4 DEF step
<1>7. /\ step = "first_observation" => record'.changed = MaxCycles + 1
      /\ step \in {"anomaly_reset", "active"} => record'.changed = record.checked
      /\ step \in {"idle", "active_continuation"} => record'.changed = record.changed
  BY <1>1, <1>2 DEF step
<1>8. /\ step \in {"idle", "anomaly_reset"} => seen'.burst = MaxCycles + 1
      /\ step \notin {"idle", "anomaly_reset"} => seen'.burst = seen.burst
  BY <1>1 DEF step
<1>9. PaneTyped'
  <2>1. record'.changed \in 0 .. MaxCycles + 1
    BY <1>2, <1>4, <1>5, <1>7
  <2>2. record'.checked \in 0 .. MaxCycles /\ cycle' \in 0 .. MaxCycles
    BY <1>1, <1>5
  <2> QED BY <1>1, <1>5, <1>6, <2>1, <2>2 DEF PaneTyped, Recorded
<1>10. PaneRecordInv'
  <2>1. SD!ContentHash' = SD!ContentHash
    BY <1>1 DEF SD!ContentHash, SD!HasSpinnerLine
  <2>2. record'.streak >= seen'.quiet
    <3>1. CASE seen'.quiet = 0
      BY <1>6, <3>1
    <3>2. CASE seen'.quiet # 0
      <4>1. /\ ~seen.now.output /\ ~seen.now.line /\ step \notin {"first_observation", "anomaly_reset"}
            /\ seen'.quiet = seen.quiet + 1
        BY <1>1, <3>2 DEF step
      <4>2. Recorded /\ ~anomaly
        BY <1>2, <4>1
      <4>3. record.hash = SD!ContentHash /\ record.streak >= seen.quiet
        BY <4>1, <4>2 DEF SDInv, PaneRecordInv
      <4>4. record'.streak = record.streak + 1
        BY <1>2, <1>6, <4>2, <4>3
      <4> QED BY <1>4, <1>5, <4>1, <4>2, <4>3, <4>4
    <3> QED BY <3>1, <3>2
  <2> QED BY <1>1, <2>1, <2>2 DEF PaneRecordInv
<1>11. CutoffInv'
  <2>1. record'.checked <= cycle'
    BY <1>1, <1>5
  <2>2. record'.changed = MaxCycles + 1 \/ record'.changed <= record'.checked
    <3>1. Recorded => record.checked <= cycle
                   /\ (record.changed = MaxCycles + 1 \/ record.changed <= record.checked)
      BY DEF SDInv, CutoffInv
    <3> QED BY <1>1, <1>2, <1>4, <1>5, <1>7, <3>1
  <2>3. record'.changed = MaxCycles + 1 \/ seen'.burst = MaxCycles + 1 \/ record'.changed <= seen'.burst
    <3>1. CASE step = "active"
      BY <1>2, <1>7, <1>8, <3>1 DEF SDInv, CutoffInv
    <3>2. CASE step = "active_continuation"
      BY <1>2, <1>7, <1>8, <3>2 DEF SDInv, CutoffInv
    <3> QED BY <1>2, <1>7, <1>8, <3>1, <3>2
  <2>4. record'.streak > 0 => seen'.burst = MaxCycles + 1
    BY <1>6, <1>8
  <2> QED BY <2>1, <2>2, <2>3, <2>4 DEF CutoffInv
<1>12. KeysInv'
  <2>1. SD!AgedKeys' = SD!AgedKeys /\ SD!AgedKeys \subseteq {screen.old}
    BY <1>1 DEF SD!AgedKeys
  <2>2. faults' = 0 => keys' = SD!AgedKeys
    BY <1>1, <1>5
  <2> QED BY <1>1, <1>3, <2>1, <2>2 DEF SDInv, KeysInv
<1> QED BY <1>9, <1>10, <1>11, <1>12 DEF SDInv

LEMMA LoseRecordInv == ASSUME PaneBounds, SDInv, SD!LoseRecord PROVE SDInv'
<1>1. /\ record' = NoRecord /\ faults' = faults + 1 /\ seen' = [seen EXCEPT !.quiet = 0]
      /\ UNCHANGED <<screen, keys, decision, cycle>>
  BY DEF SD!LoseRecord
<1>2. seen' \in Histories /\ faults' \in Nat /\ faults' # 0
  BY <1>1 DEF SDInv, PaneTyped, Histories
<1>3. ~Recorded'
  BY <1>1 DEF Recorded
<1>4. PaneTyped' /\ PaneRecordInv' /\ CutoffInv'
  BY <1>1, <1>2, <1>3 DEF SDInv, PaneTyped, PaneRecordInv, CutoffInv
<1>5. KeysInv'
  BY <1>1, <1>2 DEF SDInv, KeysInv
<1> QED BY <1>4, <1>5 DEF SDInv

LEMMA SDInvariance == ASSUME PaneBounds PROVE SD!Spec => []SDInv
<1>1. SD!Init => SDInv
  <2> SUFFICES ASSUME SD!Init PROVE SDInv
    OBVIOUS
  <2>1. /\ screen = [text |-> 0, verb |-> NoVerb, elapsed |-> 0, old |-> 0, error |-> FALSE]
        /\ seen = [now |-> SD!Still, quiet |-> 0, burst |-> MaxCycles + 1]
        /\ record = NoRecord /\ cycle = 0 /\ faults = 0 /\ keys = {}
    BY DEF SD!Init, SD!NoTime
  <2>2. screen \in Screens /\ seen \in Histories /\ screen.old = 0 /\ ~seen.now.ticked
    BY <2>1 DEF Screens, Histories, SD!Still, PaneBounds
  <2>3. PaneTyped /\ PaneRecordInv /\ CutoffInv
    BY <2>1, <2>2 DEF PaneTyped, PaneRecordInv, CutoffInv, Recorded, PaneBounds
  <2>4. KeysInv
    BY <2>1, <2>2 DEF KeysInv
  <2> QED BY <2>3, <2>4 DEF SDInv
<1>2. SDInv /\ [SD!Next]_SD!vars => SDInv'
  <2> SUFFICES ASSUME SDInv, [SD!Next]_SD!vars PROVE SDInv'
    OBVIOUS
  <2>1. CASE SD!Next
    BY <2>1, OutputInv, ErrorTextInv, BeginInv, CountInv, FinishInv, CheckInv, LoseRecordInv
       DEF SD!Next
  <2>2. CASE UNCHANGED SD!vars
    BY <2>2 DEF SD!vars, SDInv, PaneTyped, PaneRecordInv, CutoffInv, KeysInv, Recorded, SD!ContentHash,
                SD!HasSpinnerLine, SD!AgedKeys
  <2> QED BY <2>1, <2>2
<1> QED BY <1>1, <1>2, PTL DEF SD!Spec

(* The idle streak recorded of a pane is at least the number of cycles for *)
(* which it has printed nothing and its lines have stood, however its      *)
(* spinner turned (inspect_anomaly_scan.py).                               *)
THEOREM QuietPanesAreCounted == ASSUME PaneBounds PROVE SD!Spec => []SD!QuietIsCounted
<1>1. SDInv => SD!QuietIsCounted
  BY DEF SDInv, PaneRecordInv, SD!QuietIsCounted, Recorded
<1> QED BY <1>1, SDInvariance, PTL

(* The cutoff from which messages of an active worker count is never later *)
(* than the cycle before the first output of that period, so that a report *)
(* sent in that very cycle counts (inspect_anomaly_scan.py).               *)
THEOREM CutoffsComeBeforeOutput == ASSUME PaneBounds PROVE SD!Spec => []SD!CutoffBeforeOutput
<1>1. SDInv => SD!CutoffBeforeOutput
  BY DEF SDInv, CutoffInv, SD!CutoffBeforeOutput, Recorded, SD!NoTime
<1> QED BY <1>1, SDInvariance, PTL

(* Only a cycle moves the clock.                                           *)
LEMMA ClockIsChecked ==
    ASSUME PaneBounds, SDInv, [SD!Next]_SD!vars, cycle' # cycle
    PROVE  decision'.suppress = SD!Suppress /\ decision'.fired = SD!Fired
<1>1. SD!Next
  BY DEF SD!vars
<1>2. SD!Check
  BY <1>1 DEF SD!Next, SD!Output, SD!ErrorText, SD!Begin, SD!Count, SD!Finish, SD!LoseRecord,
              SD!World
<1> QED BY <1>2, CheckFacts

(* In a cycle that has a record to compare with, an alarm is suppressed    *)
(* only for a spinner below the cap that has counted, or begun, since the  *)
(* cycle before (inspect_pane_state.py, inspect_anomaly_scan.py).          *)
THEOREM SuppressionsAreEarned ==
    ASSUME PaneBounds PROVE SD!Spec => [][SD!SuppressionIsEarned]_SD!vars
<1>1. SDInv /\ [SD!Next]_SD!vars => [SD!SuppressionIsEarned]_SD!vars
  <2> SUFFICES ASSUME SDInv, [SD!Next]_SD!vars, decision'.suppress, cycle' # cycle, Recorded
               PROVE  screen.elapsed < Cap /\ (seen.now.ticked \/ seen.now.line)
    BY DEF SD!SuppressionIsEarned, Recorded
  <2>1. decision'.suppress = SD!Suppress
    BY ClockIsChecked
  <2>2. SD!Suppress
    BY <2>1
  <2>3. /\ screen.elapsed < Cap
        /\ record.verb # screen.verb \/ screen.elapsed > record.elapsed
    BY <2>2 DEF SD!Suppress, Recorded
  <2>4. screen.elapsed \in Nat
    BY DEF SDInv, PaneTyped, Screens
  <2> QED BY <2>3, <2>4 DEF SDInv, PaneRecordInv
<1> QED BY <1>1, SDInvariance, PTL DEF SD!Spec

(* While the keys are kept, a retry past the threshold that still counts   *)
(* is reported in every cycle, and one whose line has not moved since the  *)
(* last cycle is not reported again (inspect_pane_state.py,                *)
(* inspect_anomaly_scan.py).                                               *)
THEOREM RetriesAreReported == ASSUME PaneBounds PROVE SD!Spec => [][SD!RetryIsReported]_SD!vars
<1>1. SDInv /\ [SD!Next]_SD!vars => [SD!RetryIsReported]_SD!vars
  <2> SUFFICES ASSUME SDInv, [SD!Next]_SD!vars, cycle' # cycle, screen.old >= Threshold, faults = 0
               PROVE  /\ seen.now.ticked => decision'.fired
                      /\ seen.now = SD!Still /\ cycle > 0 /\ ~screen.error => ~decision'.fired
    BY DEF SD!RetryIsReported
  <2>1. decision'.fired = SD!Fired
    BY ClockIsChecked
  <2>2. SD!AgedKeys = {screen.old}
    BY DEF SD!AgedKeys
  <2>3. seen.now.ticked => SD!Fired
    BY <2>2 DEF SDInv, KeysInv, SD!Fired
  <2>4. seen.now = SD!Still /\ cycle > 0 /\ ~screen.error => ~SD!Fired
    BY DEF SDInv, KeysInv, SD!Fired, SD!Still
  <2> QED BY <2>1, <2>3, <2>4
<1> QED BY <1>1, SDInvariance, PTL DEF SD!Spec
-----------------------------------------------------------------------------
(* The retro gate                                                          *)

(* There is an attempt to make: the program refuses every other number.    *)
AttemptsOK == MaxAttempts \in Nat \ {0}

GateWords == {"ack", "reply", "another's"}

(* What the dispatcher carries is the secretary's last word.               *)
CarriesLast(i) ==
    RG!HerLast(i) /\ carried = [body |-> heard[i].said, attempt |-> heard[i].attempt]

(* While the gate polls, she has not acknowledged, and what is carried is  *)
(* her last word if she has said one, unless it was lost.                  *)
PollingInv ==
    verdict.status = "polling" =>
        /\ attempt <= MaxAttempts
        /\ \A i \in RG!HerWords : heard[i].said = "reply"
        /\ carried # RG!Nothing => \E i \in RG!HerWords : CarriesLast(i)
        /\ losses = 0 /\ RG!HerWords # {} => carried # RG!Nothing

RGInv == RG!TypeOK /\ PollingInv /\ RG!VerdictIsHers

(* The words of a message.                                                 *)
LEMMA WordIs ==
    ASSUME NEW message \in RG!Message
    PROVE  /\ RG!Word(message) \in GateWords
           /\ message.from = "secretary" <=> RG!Word(message) # "another's"
           /\ message.from = "secretary" => RG!Word(message) = RG!Body(message)
           /\ RG!Body(message) \in {"ack", "reply"} /\ (RG!Body(message) = "ack" <=> message.ack)
BY DEF GateWords, RG!Word, RG!Body, RG!Message

LEMMA ArriveGateInv == ASSUME AttemptsOK, RGInv, RG!Arrive PROVE RGInv'
<1>1. /\ \E message \in RG!Message : inbox' = Append(inbox, message)
      /\ UNCHANGED <<attempt, carried, verdict, heard, losses>>
  BY DEF RG!Arrive
<1>2. RG!TypeOK'
  BY <1>1 DEF RGInv, RG!TypeOK
<1>3. PollingInv' /\ RG!VerdictIsHers'
  BY <1>1 DEF RGInv, PollingInv, CarriesLast, RG!VerdictIsHers, RG!HerWords, RG!HerLast
<1> QED BY <1>2, <1>3 DEF RGInv

LEMMA LoseStateInv == ASSUME AttemptsOK, RGInv, RG!LoseState PROVE RGInv'
<1>1. /\ verdict.status = "polling" /\ carried' = RG!Nothing /\ losses' = losses + 1
      /\ UNCHANGED <<inbox, attempt, verdict, heard>>
  BY DEF RG!LoseState
<1>2. losses \in Nat /\ losses' \in Nat /\ losses' # 0
  BY <1>1 DEF RGInv, RG!TypeOK
<1>3. RG!TypeOK'
  BY <1>1, <1>2 DEF RGInv, RG!TypeOK, RG!Nothing, AttemptsOK
<1>4. PollingInv' /\ RG!VerdictIsHers'
  BY <1>1, <1>2 DEF RGInv, PollingInv, RG!VerdictIsHers, RG!HerWords
<1> QED BY <1>3, <1>4 DEF RGInv

LEMMA ErrorGateInv == ASSUME AttemptsOK, RGInv, RG!Error PROVE RGInv'
<1>1. /\ verdict.status = "polling"
      /\ verdict' = [status |-> "error", raw |-> "none", attempts |-> attempt]
      /\ UNCHANGED <<inbox, attempt, carried, heard, losses>>
  BY DEF RG!Error
<1>2. attempt \in 0 .. MaxAttempts
  BY <1>1 DEF RGInv, RG!TypeOK, PollingInv, AttemptsOK
<1>3. RG!TypeOK'
  BY <1>1, <1>2 DEF RGInv, RG!TypeOK
<1>4. PollingInv' /\ RG!VerdictIsHers'
  BY <1>1 DEF PollingInv, RG!VerdictIsHers
<1> QED BY <1>3, <1>4 DEF RGInv

(* A set of positions in a sequence has a last one.                        *)
LEMMA GreatestOfSome ==
    ASSUME NEW n \in Nat, NEW S, S \subseteq 1 .. n, S # {}
    PROVE  \E i \in S : \A j \in S : j <= i
<1> DEFINE T == {n - i : i \in S}
           R == OpToRel(<, Nat)
<1>1. T \subseteq Nat /\ T # {} /\ S \subseteq Nat
  <2>1. \A i \in S : i \in Nat /\ n - i \in Nat
    OBVIOUS
  <2> QED BY <2>1
<1>2. IsWellFoundedOn(R, Nat)
  BY NatLessThanWellFounded
<1>3. \E x \in T : \A y \in T : ~(<<y, x>> \in R)
  <2> HIDE DEF R, T
  <2> QED BY <1>1, <1>2, WFMin
<1>4. \A x, y \in Nat : x < y => <<x, y>> \in R
  BY DEF OpToRel
<1>5. PICK i \in S : \A j \in S : ~(<<n - j, n - i>> \in R)
  BY <1>3
<1> HIDE DEF R
<1>6. ASSUME NEW j \in S PROVE j <= i
  <2>1. i \in Nat /\ j \in Nat /\ n - i \in Nat /\ n - j \in Nat
    OBVIOUS
  <2>2. ~(n - j < n - i)
    BY <1>4, <1>5, <2>1
  <2> QED BY <2>1, <2>2
<1> QED BY <1>6

(* What an attempt hears is added to what was heard, in order.             *)
LEMMA HeardMore ==
    ASSUME AttemptsOK, RG!TypeOK, attempt <= MaxAttempts,
           heard' = heard \o [i \in DOMAIN inbox |-> [said |-> RG!Word(inbox[i]), attempt |-> attempt]]
    PROVE  /\ heard' \in Seq([said : GateWords, attempt : 1 .. MaxAttempts])
           /\ Len(heard) \in Nat /\ Len(inbox) \in Nat /\ DOMAIN heard = 1 .. Len(heard)
           /\ DOMAIN inbox = 1 .. Len(inbox) /\ DOMAIN heard' = 1 .. Len(heard) + Len(inbox)
           /\ \A i \in DOMAIN heard : heard'[i] = heard[i]
           /\ \A i \in DOMAIN inbox : heard'[Len(heard) + i] = [said |-> RG!Word(inbox[i]), attempt |-> attempt]
<1> DEFINE more == [i \in DOMAIN inbox |-> [said |-> RG!Word(inbox[i]), attempt |-> attempt]]
           Heard == [said : GateWords, attempt : 1 .. MaxAttempts]
<1>1. /\ inbox \in Seq(RG!Message) /\ heard \in Seq(Heard) /\ attempt \in 1 .. MaxAttempts
  BY DEF RG!TypeOK, AttemptsOK, GateWords
<1>2. /\ Len(inbox) \in Nat /\ DOMAIN inbox = 1 .. Len(inbox)
      /\ \A i \in DOMAIN inbox : inbox[i] \in RG!Message
  BY <1>1
<1>3. more \in [1 .. Len(inbox) -> Heard]
  <2>1. \A i \in DOMAIN inbox : [said |-> RG!Word(inbox[i]), attempt |-> attempt] \in Heard
    BY <1>1, <1>2, WordIs
  <2> QED BY <1>2, <2>1
<1>4. more \in Seq(Heard) /\ Len(more) = Len(inbox)
      /\ \A i \in DOMAIN inbox : more[i] = [said |-> RG!Word(inbox[i]), attempt |-> attempt]
  <2>1. \A i \in DOMAIN inbox : more[i] = [said |-> RG!Word(inbox[i]), attempt |-> attempt]
    OBVIOUS
  <2> HIDE DEF more, Heard
  <2> QED BY <1>2, <1>3, <2>1
<1>5. heard' = heard \o more
  OBVIOUS
<1> HIDE DEF more, Heard
<1>6. /\ heard' \in Seq(Heard) /\ Len(heard) \in Nat /\ DOMAIN heard = 1 .. Len(heard)
      /\ DOMAIN heard' = 1 .. Len(heard) + Len(inbox)
      /\ \A i \in DOMAIN heard : heard'[i] = heard[i]
      /\ \A i \in 1 .. Len(inbox) : heard'[Len(heard) + i] = more[i]
  <2>1. /\ heard' \in Seq(Heard) /\ Len(heard') = Len(heard) + Len(more)
        /\ \A i \in 1 .. Len(heard') :
             heard'[i] = IF i <= Len(heard) THEN heard[i] ELSE more[i - Len(heard)]
    <3> DEFINE both == heard \o more
    <3>1. /\ both \in Seq(Heard) /\ Len(both) = Len(heard) + Len(more)
          /\ \A i \in 1 .. Len(heard) + Len(more) :
               both[i] = IF i <= Len(heard) THEN heard[i] ELSE more[i - Len(heard)]
      BY <1>1, <1>4, ConcatProperties, Zenon
    <3> HIDE DEF both
    <3>2. heard' = both
      BY <1>5 DEF both
    <3> QED BY <3>1, <3>2
  <2>2. Len(heard) \in Nat /\ DOMAIN heard = 1 .. Len(heard) /\ DOMAIN heard' = 1 .. Len(heard')
    BY <1>1, <2>1
  <2>3. Len(more) = Len(inbox) /\ Len(inbox) \in Nat
    BY <1>2, <1>4
  <2>4. \A i \in DOMAIN heard : heard'[i] = heard[i]
    BY <2>1, <2>2, <2>3
  <2>5. \A i \in 1 .. Len(inbox) : heard'[Len(heard) + i] = more[i]
    <3> SUFFICES ASSUME NEW i \in 1 .. Len(inbox) PROVE heard'[Len(heard) + i] = more[i]
      OBVIOUS
    <3>1. /\ Len(heard) + i \in 1 .. Len(heard') /\ ~(Len(heard) + i <= Len(heard))
          /\ Len(heard) + i - Len(heard) = i
      BY <2>1, <2>2, <2>3
    <3> QED BY <2>1, <3>1
  <2> QED BY <2>1, <2>2, <2>3, <2>4, <2>5
<1> QED BY <1>2, <1>4, <1>6 DEF Heard

LEMMA AttemptInv == ASSUME AttemptsOK, RGInv, RG!Attempt PROVE RGInv'
<1> DEFINE Acks == {i \in DOMAIN inbox : RG!IsSecretary(inbox[i]) /\ inbox[i].ack}
           Hers == {i \in DOMAIN inbox : RG!IsSecretary(inbox[i])}
           last == CHOOSE i \in Hers : \A j \in Hers : j <= i
           kept == IF Hers = {} THEN carried
                   ELSE [body |-> RG!Body(inbox[last]), attempt |-> attempt]
           n == Len(heard)
<1>1. /\ verdict.status = "polling" /\ inbox' = <<>> /\ attempt' = attempt + 1 /\ losses' = losses
      /\ carried' = kept
      /\ heard' = heard \o [i \in DOMAIN inbox |-> [said |-> RG!Word(inbox[i]), attempt |-> attempt]]
  BY DEF RG!Attempt
<1>2. \/ Acks # {} /\ verdict' = [status |-> "acked", raw |-> "ack", attempts |-> attempt]
      \/ /\ Acks = {} /\ attempt >= MaxAttempts /\ kept # RG!Nothing
         /\ verdict' = [status |-> "replied_no_ack", raw |-> kept.body, attempts |-> kept.attempt]
      \/ /\ Acks = {} /\ attempt >= MaxAttempts /\ kept = RG!Nothing
         /\ verdict' = [status |-> "timeout", raw |-> "none", attempts |-> MaxAttempts]
      \/ /\ Acks = {} /\ attempt < MaxAttempts
         /\ verdict' = [status |-> "polling", raw |-> "none", attempts |-> attempt]
  BY DEF RG!Attempt
<1>3. /\ RG!TypeOK /\ attempt \in 1 .. MaxAttempts /\ MaxAttempts \in Nat /\ losses \in Nat
      /\ \A i \in RG!HerWords : heard[i].said = "reply"
      /\ carried # RG!Nothing => \E i \in RG!HerWords : CarriesLast(i)
      /\ losses = 0 /\ RG!HerWords # {} => carried # RG!Nothing
  BY <1>1 DEF RGInv, PollingInv, RG!TypeOK, AttemptsOK
<1>4. /\ heard' \in Seq([said : GateWords, attempt : 1 .. MaxAttempts])
      /\ n \in Nat /\ Len(inbox) \in Nat /\ DOMAIN heard = 1 .. n
      /\ DOMAIN inbox = 1 .. Len(inbox) /\ DOMAIN heard' = 1 .. n + Len(inbox)
      /\ \A i \in DOMAIN heard : heard'[i] = heard[i]
      /\ \A i \in DOMAIN inbox : heard'[n + i] = [said |-> RG!Word(inbox[i]), attempt |-> attempt]
  BY <1>1, <1>3, HeardMore
<1>5. \A i \in DOMAIN inbox : inbox[i] \in RG!Message
  BY <1>3, <1>4 DEF RG!TypeOK
<1>51. \A i \in Hers : /\ RG!Word(inbox[i]) = RG!Body(inbox[i])
                       /\ RG!Body(inbox[i]) \in {"ack", "reply"}
                       /\ RG!Body(inbox[i]) = "ack" <=> inbox[i].ack
  BY <1>5, WordIs DEF RG!IsSecretary
<1>6. /\ RG!HerWords' \subseteq 1 .. n + Len(inbox) /\ RG!HerWords \subseteq 1 .. n
      /\ \A i \in 1 .. n : i \in RG!HerWords' <=> i \in RG!HerWords
      /\ \A i \in DOMAIN inbox : n + i \in RG!HerWords' <=> i \in Hers
  <2>1. /\ RG!HerWords' = {i \in DOMAIN heard' : heard'[i].said # "another's"}
        /\ RG!HerWords = {i \in DOMAIN heard : heard[i].said # "another's"}
    BY DEF RG!HerWords
  <2>2. \A i \in 1 .. n : i \in DOMAIN heard' /\ i \in DOMAIN heard
    BY <1>4
  <2>3. \A i \in DOMAIN inbox : n + i \in DOMAIN heard' /\ heard'[n + i].said = RG!Word(inbox[i])
    <3> SUFFICES ASSUME NEW i \in DOMAIN inbox
                 PROVE  n + i \in DOMAIN heard' /\ heard'[n + i].said = RG!Word(inbox[i])
      OBVIOUS
    <3>1. heard'[n + i] = [said |-> RG!Word(inbox[i]), attempt |-> attempt]
      BY <1>4
    <3>2. heard'[n + i].said = RG!Word(inbox[i])
      BY <3>1
    <3> QED BY <1>4, <3>2
  <2>4. \A i : i \in Hers <=> i \in DOMAIN inbox /\ inbox[i].from = "secretary"
    BY DEF RG!IsSecretary
  <2> HIDE DEF Hers, n
  <2>5. \A i \in DOMAIN inbox : inbox[i].from = "secretary" <=> RG!Word(inbox[i]) # "another's"
    BY <1>5, WordIs
  <2>6. \A i \in 1 .. n : i \in RG!HerWords' <=> i \in RG!HerWords
    BY <1>4, <2>1, <2>2
  <2>7. \A i \in DOMAIN inbox : n + i \in RG!HerWords' <=> i \in Hers
    BY <2>1, <2>3, <2>4, <2>5
  <2> QED BY <1>4, <2>1, <2>6, <2>7
<1>7. \A k \in 1 .. n + Len(inbox) : k \in 1 .. n \/ \E i \in DOMAIN inbox : k = n + i
  <2> SUFFICES ASSUME NEW k \in 1 .. n + Len(inbox), k \notin 1 .. n
               PROVE  \E i \in DOMAIN inbox : k = n + i
    OBVIOUS
  <2>1. k - n \in 1 .. Len(inbox) /\ k = n + (k - n)
    BY <1>4
  <2> QED BY <1>4, <2>1
<1>8. Hers # {} => /\ last \in Hers /\ last \in DOMAIN inbox /\ n + last \in RG!HerWords'
                   /\ \A k \in RG!HerWords' : k <= n + last
  <2> SUFFICES ASSUME Hers # {}
               PROVE  /\ last \in Hers /\ last \in DOMAIN inbox /\ n + last \in RG!HerWords'
                      /\ \A k \in RG!HerWords' : k <= n + last
    OBVIOUS
  <2>1. \E i \in Hers : \A j \in Hers : j <= i
    <3>1. Hers \subseteq 1 .. Len(inbox) /\ Len(inbox) \in Nat
      BY <1>4
    <3> HIDE DEF Hers
    <3> QED BY <3>1, GreatestOfSome
  <2>2. last \in Hers /\ \A j \in Hers : j <= last
    BY <2>1
  <2>3. last \in DOMAIN inbox /\ last \in Nat
    BY <1>4, <2>2
  <2> HIDE DEF last
  <2>4. ASSUME NEW k \in RG!HerWords' PROVE k <= n + last
    <3>1. CASE k \in 1 .. n
      BY <1>4, <2>3, <3>1
    <3>2. ASSUME NEW i \in DOMAIN inbox, k = n + i PROVE k <= n + last
      <4>1. i \in Hers /\ i <= last /\ i \in Nat
        BY <1>4, <1>6, <2>2, <3>2
      <4> QED BY <1>4, <2>3, <3>2, <4>1
    <3> QED BY <1>6, <1>7, <3>1, <3>2
  <2>5. n + last \in RG!HerWords'
    BY <1>6, <2>2, <2>3
  <2> QED BY <2>2, <2>3, <2>4, <2>5
<1>9. Hers = {} => RG!HerWords' = RG!HerWords
  BY <1>6, <1>7
<1>10. kept # RG!Nothing => \E i \in RG!HerWords' :
          /\ RG!HerLast(i)'
          /\ kept = [body |-> heard'[i].said, attempt |-> heard'[i].attempt]
  <2>1. CASE Hers = {}
    BY <1>3, <1>4, <1>6, <1>9, <2>1 DEF CarriesLast, RG!HerLast, RG!Body
  <2>2. CASE Hers # {}
    <3>1. PICK k \in RG!HerWords' : k = n + last /\ \A j \in RG!HerWords' : j <= k
      BY <1>8, <2>2
    <3>2. heard'[k] = [said |-> RG!Word(inbox[last]), attempt |-> attempt]
      BY <1>4, <1>8, <2>2, <3>1
    <3>3. kept = [body |-> RG!Body(inbox[last]), attempt |-> attempt]
      BY <2>2
    <3>4. RG!HerLast(k)'
      BY <3>1 DEF RG!HerLast
    <3>5. kept = [body |-> heard'[k].said, attempt |-> heard'[k].attempt]
      <4>1. RG!Word(inbox[last]) = RG!Body(inbox[last])
        BY <1>8, <1>51, <2>2
      <4> HIDE DEF kept, last
      <4> QED BY <3>2, <3>3, <4>1
    <3> QED BY <3>4, <3>5
  <2> QED BY <2>1, <2>2
<1>11. losses = 0 /\ RG!HerWords' # {} => kept # RG!Nothing
  <2>1. CASE Hers = {}
    BY <1>3, <1>9, <2>1
  <2>2. CASE Hers # {}
    BY <2>2 DEF RG!Body, RG!Nothing
  <2> QED BY <2>1, <2>2
<1>12. Acks = {} => \A i \in RG!HerWords' : heard'[i].said = "reply"
  <2> SUFFICES ASSUME Acks = {}, NEW k \in RG!HerWords' PROVE heard'[k].said = "reply"
    OBVIOUS
  <2>1. CASE k \in 1 .. n
    BY <1>3, <1>4, <1>6, <2>1
  <2>2. ASSUME NEW i \in DOMAIN inbox, k = n + i PROVE heard'[k].said = "reply"
    <3>1. i \in Hers
      BY <1>6, <2>2
    <3>2. ~inbox[i].ack
      BY <3>1
    <3>3. heard'[k] = [said |-> RG!Word(inbox[i]), attempt |-> attempt]
      BY <1>4, <2>2
    <3> QED BY <1>51, <3>1, <3>2, <3>3
  <2> QED BY <1>6, <1>7, <2>1, <2>2
<1>13. Acks # {} => \E i \in RG!HerWords' : heard'[i] = [said |-> "ack", attempt |-> attempt]
  <2> SUFFICES ASSUME NEW i \in Acks PROVE n + i \in RG!HerWords' 
                                           /\ heard'[n + i] = [said |-> "ack", attempt |-> attempt]
    OBVIOUS
  <2>1. i \in Hers /\ i \in DOMAIN inbox /\ inbox[i].ack
    OBVIOUS
  <2>2. n + i \in RG!HerWords' /\ heard'[n + i] = [said |-> RG!Word(inbox[i]), attempt |-> attempt]
    BY <1>4, <1>6, <2>1
  <2> QED BY <1>51, <2>1, <2>2
<1>14. kept \in [body : {"none", "ack", "reply"}, attempt : 0 .. MaxAttempts]
  BY <1>3 DEF RG!TypeOK, RG!Body
<1> HIDE DEF Acks, Hers, last, kept
<1>15. RG!TypeOK'
  BY <1>1, <1>2, <1>3, <1>4, <1>14 DEF RG!TypeOK, GateWords
<1>16. PollingInv'
  <2> SUFFICES ASSUME verdict'.status = "polling"
               PROVE  /\ attempt' <= MaxAttempts
                      /\ \A i \in RG!HerWords' : heard'[i].said = "reply"
                      /\ carried' # RG!Nothing => \E i \in RG!HerWords' : CarriesLast(i)'
                      /\ losses' = 0 /\ RG!HerWords' # {} => carried' # RG!Nothing
    BY DEF PollingInv, RG!Nothing
  <2>1. Acks = {} /\ attempt < MaxAttempts
    BY <1>2
  <2>2. carried' # RG!Nothing => \E i \in RG!HerWords' : CarriesLast(i)'
    BY <1>1, <1>10 DEF CarriesLast, RG!Body
  <2>3. attempt' <= MaxAttempts
    BY <1>1, <1>3, <2>1
  <2>4. losses' = 0 /\ RG!HerWords' # {} => carried' # RG!Nothing
    BY <1>1, <1>11 DEF RG!Nothing
  <2> QED BY <1>12, <2>1, <2>2, <2>3, <2>4
<1>17. RG!VerdictIsHers'
  <2>1. CASE Acks # {}
    BY <1>2, <1>13, <2>1 DEF RG!VerdictIsHers
  <2>2. CASE Acks = {} /\ attempt >= MaxAttempts /\ kept # RG!Nothing
    <3>1. PICK i \in RG!HerWords' :
             /\ RG!HerLast(i)'
             /\ kept = [body |-> heard'[i].said, attempt |-> heard'[i].attempt]
      BY <1>10, <2>2
    <3>2. i \in DOMAIN heard' /\ heard'[i] \in [said : GateWords, attempt : 1 .. MaxAttempts]
      <4>1. i \in 1 .. n + Len(inbox)
        BY <1>6, <3>1
      <4> DEFINE Heard == [said : GateWords, attempt : 1 .. MaxAttempts]
      <4>2. heard' \in Seq(Heard) /\ DOMAIN heard' = 1 .. n + Len(inbox)
        BY <1>4
      <4> HIDE DEF Heard
      <4>3. \A j \in DOMAIN heard' : heard'[j] \in Heard
        BY <4>2
      <4> QED BY <4>1, <4>2, <4>3 DEF Heard
    <3>3. verdict' = [status |-> "replied_no_ack", raw |-> kept.body, attempts |-> kept.attempt]
      BY <1>2, <1>3, <2>2
    <3>4. heard'[i] = [said |-> verdict'.raw, attempt |-> verdict'.attempts]
      BY <3>1, <3>2, <3>3
    <3> QED BY <1>12, <2>2, <3>1, <3>3, <3>4 DEF RG!VerdictIsHers
  <2>3. CASE Acks = {} /\ attempt >= MaxAttempts /\ kept = RG!Nothing
    BY <1>1, <1>2, <1>3, <1>11, <2>3 DEF RG!VerdictIsHers
  <2>4. CASE Acks = {} /\ attempt < MaxAttempts
    BY <1>2, <1>3, <2>4 DEF RG!VerdictIsHers
  <2> QED BY <1>2, <2>1, <2>2, <2>3, <2>4
<1> QED BY <1>15, <1>16, <1>17 DEF RGInv

LEMMA RGInvariance == ASSUME AttemptsOK PROVE RG!Spec => []RGInv
<1>1. RG!Init => RGInv
  <2> SUFFICES ASSUME RG!Init PROVE RGInv
    OBVIOUS
  <2>1. inbox = <<>> /\ heard = <<>> /\ attempt = 1 /\ losses = 0 /\ carried = RG!Nothing
        /\ verdict = [status |-> "polling", raw |-> "none", attempts |-> 0]
    BY DEF RG!Init
  <2>2. inbox \in Seq(RG!Message) /\ heard \in Seq([said : GateWords, attempt : 1 .. MaxAttempts])
    BY <2>1
  <2>3. RG!HerWords = {}
    BY <2>1 DEF RG!HerWords
  <2>4. RG!TypeOK
    BY <2>1, <2>2 DEF RG!TypeOK, RG!Nothing, AttemptsOK
  <2> QED BY <2>1, <2>3, <2>4 DEF RGInv, PollingInv, RG!VerdictIsHers, AttemptsOK
<1>2. RGInv /\ [RG!Next]_RG!vars => RGInv'
  <2> SUFFICES ASSUME RGInv, [RG!Next]_RG!vars PROVE RGInv'
    OBVIOUS
  <2>1. CASE RG!Next
    BY <2>1, ArriveGateInv, AttemptInv, LoseStateInv, ErrorGateInv DEF RG!Next
  <2>2. CASE UNCHANGED RG!vars
    BY <2>2 DEF RG!vars, RGInv, RG!TypeOK, PollingInv, CarriesLast, RG!VerdictIsHers,
                RG!HerWords, RG!HerLast
  <2> QED BY <2>1, <2>2
<1> QED BY <1>1, <1>2, PTL DEF RG!Spec

(* An acknowledgement that the gate reports is the secretary's and came in *)
(* the attempt it names; a reply without one is her last word, with its    *)
(* attempt, and she has not acknowledged in any; and a timeout means that  *)
(* she has said nothing, unless the dispatcher lost the state between two  *)
(* attempts (dispatcher_retro_gate.py).                                    *)
THEOREM VerdictsAreHers == ASSUME AttemptsOK PROVE RG!Spec => []RG!VerdictIsHers
<1>1. RGInv => RG!VerdictIsHers
  BY DEF RGInv
<1> QED BY <1>1, RGInvariance, PTL

-----------------------------------------------------------------------------
(* The scan for work                                                       *)

(* The two modules count alike.                                            *)
LEMMA CountsAgree == \A S : WD!Cardinality(S) = Cardinality(S)
BY DEF WD!Cardinality, Cardinality

(* The repositories are listed, the references are of them, and so on.     *)
WorldOK ==
    /\ Scanned \in Seq(WD!Repos) /\ Scanned # <<>>
    /\ ByName \in Seq(WD!Repos) /\ WD!Range(ByName) = WD!Repos
    /\ WD!Refs \subseteq WD!Repos \X Nat /\ IsFiniteSet(WD!Refs) /\ Outside \cap WD!Refs = {}
    /\ \A i \in Issues : /\ Attributes[i].labels \in Seq(STRING) /\ Attributes[i].milestone \in BOOLEAN
                         /\ Attributes[i].effort \in Nat /\ Attributes[i].updated \in Nat
    /\ TopN \in Nat \ {0} /\ OpenLimit \in Nat /\ RecentMerges \in Nat

-----------------------------------------------------------------------------
(* Least elements.                                                         *)
LEMMA LeastOfSome ==
    ASSUME NEW S, S \subseteq Nat, S # {}
    PROVE  \E i \in S : \A j \in S : i <= j
<1> DEFINE R == OpToRel(<, Nat)
<1>1. IsWellFoundedOn(R, Nat)
  BY NatLessThanWellFounded
<1>2. \E x \in S : \A y \in S : ~(<<y, x>> \in R)
  <2> HIDE DEF R
  <2> QED BY <1>1, WFMin
<1>3. \A x, y \in Nat : x < y => <<x, y>> \in R
  BY DEF OpToRel
<1>4. PICK i \in S : \A j \in S : ~(<<j, i>> \in R)
  BY <1>2
<1> HIDE DEF R
<1>5. ASSUME NEW j \in S PROVE i <= j
  <2>1. i \in Nat /\ j \in Nat
    OBVIOUS
  <2>2. ~(j < i)
    BY <1>3, <1>4, <2>1
  <2> QED BY <2>1, <2>2
<1> QED BY <1>5

(* A finite set that is totally ordered can be listed in its order.        *)
LEMMA Listing ==
    ASSUME NEW S, IsFiniteSet(S), NEW R,
           \A x \in S : <<x, x>> \notin R,
           \A x, y, z \in S : <<x, y>> \in R /\ <<y, z>> \in R => <<x, z>> \in R,
           \A x, y \in S : x # y => <<x, y>> \in R \/ <<y, x>> \in R
    PROVE  \E s \in [1 .. Cardinality(S) -> S] :
             \A j, k \in 1 .. Cardinality(S) : j < k => <<s[j], s[k]>> \in R
<1> DEFINE n == Cardinality(S)
           Below(x) == {y \in S : <<y, x>> \in R}
           f == [x \in S |-> Cardinality(Below(x)) + 1]
<1>1. n \in Nat
  BY FS_CardinalityType
<1>2. ASSUME NEW x \in S
      PROVE  IsFiniteSet(Below(x)) /\ Cardinality(Below(x)) \in Nat /\ Cardinality(Below(x)) < n
  <2>1. Below(x) \in SUBSET S /\ x \notin Below(x)
    OBVIOUS
  <2>2. IsFiniteSet(Below(x)) /\ Cardinality(Below(x)) <= n /\ Cardinality(Below(x)) # n
    BY <2>1, FS_Subset
  <2>3. Cardinality(Below(x)) \in Nat
    BY <2>2, FS_CardinalityType
  <2> HIDE DEF n, Below
  <2> QED BY <1>1, <2>2, <2>3
<1>3. ASSUME NEW x \in S, NEW y \in S, <<x, y>> \in R PROVE f[x] < f[y]
  <2>1. Below(x) \in SUBSET Below(y) /\ x \in Below(y) /\ x \notin Below(x)
    BY <1>3
  <2>2. Cardinality(Below(x)) <= Cardinality(Below(y)) /\ Cardinality(Below(x)) # Cardinality(Below(y))
    BY <1>2, <2>1, FS_Subset
  <2>3. Cardinality(Below(x)) \in Nat /\ Cardinality(Below(y)) \in Nat
    BY <1>2
  <2>4. f[x] = Cardinality(Below(x)) + 1 /\ f[y] = Cardinality(Below(y)) + 1
    OBVIOUS
  <2> HIDE DEF f, Below
  <2> QED BY <2>2, <2>3, <2>4
<1>4. f \in [S -> 1 .. n]
  <2>1. \A x \in S : Cardinality(Below(x)) + 1 \in 1 .. n
    <3> HIDE DEF n, Below
    <3> QED BY <1>1, <1>2
  <2> QED BY <2>1
<1> HIDE DEF f
<1>5. ASSUME NEW x \in S, NEW y \in S, x # y PROVE f[x] # f[y]
  <2>1. f[x] \in Nat /\ f[y] \in Nat
    <3> HIDE DEF n
    <3> QED BY <1>1, <1>4
  <2>2. f[x] < f[y] \/ f[y] < f[x]
    BY <1>3, <1>5
  <2> QED BY <2>1, <2>2
<1>6. f \in Surjection(S, 1 .. n)
  <2>1. f \in Injection(S, 1 .. n)
    BY <1>4, <1>5 DEF Injection, IsInjective
  <2>2. IsFiniteSet(1 .. n) /\ Cardinality(1 .. n) = n
    <3> HIDE DEF n
    <3> QED BY <1>1, FS_Interval
  <2> QED BY <2>1, <2>2, FS_Injection
<1> DEFINE s == [k \in 1 .. n |-> CHOOSE x \in S : f[x] = k]
<1>7. \A k \in 1 .. n : \E x \in S : f[x] = k
  BY <1>6 DEF Surjection
<1>8. \A k \in 1 .. n : s[k] \in S /\ f[s[k]] = k
  BY <1>7
<1>9. s \in [1 .. n -> S]
  BY <1>8
<1>10. ASSUME NEW j \in 1 .. n, NEW k \in 1 .. n, j < k PROVE <<s[j], s[k]>> \in R
  <2>1. s[j] # s[k] /\ s[j] \in S /\ s[k] \in S
    BY <1>1, <1>8, <1>10
  <2>2. ~(<<s[k], s[j]>> \in R)
    <3> SUFFICES ASSUME <<s[k], s[j]>> \in R PROVE FALSE
      OBVIOUS
    <3>1. f[s[k]] < f[s[j]]
      BY <1>3, <2>1
    <3>2. k < j
      BY <1>8, <3>1
    <3> HIDE DEF n, s
    <3> QED BY <1>1, <1>10, <3>2
  <2> QED BY <2>1, <2>2
<1> QED BY <1>9, <1>10
-----------------------------------------------------------------------------
(* The best ones of the candidates                                         *)

Found == [ref : Issues, blockers : SUBSET (WD!Refs \cup Outside), held : BOOLEAN]

(* An issue that was read has a priority.                                  *)
LEMMA PriorityGiven == ASSUME WorldOK, NEW i \in Found PROVE WD!Priority(i) \in 0 .. 2
<1> DEFINE labels == Attributes[i.ref].labels
           graded == {k \in DOMAIN labels : labels[k] \in DOMAIN WD!Level}
           earliest == CHOOSE k \in graded : \A l \in graded : k <= l
<1>1. labels \in Seq(STRING)
  BY DEF WorldOK, Found
<1>2. ASSUME graded # {} PROVE WD!Level[labels[earliest]] \in 0 .. 2
  <2>1. graded \subseteq Nat
    BY <1>1
  <2>2. \E k \in graded : \A l \in graded : k <= l
    <3> HIDE DEF graded
    <3> QED BY <1>2, <2>1, LeastOfSome
  <2>3. earliest \in graded
    <3> HIDE DEF graded
    <3> QED BY <2>2
  <2>4. labels[earliest] \in {"high", "medium", "low"}
    <3>1. DOMAIN WD!Level = {"high", "medium", "low"}
      BY DEF WD!Level
    <3> HIDE DEF earliest, labels
    <3> QED BY <2>3, <3>1
  <2> HIDE DEF earliest, labels
  <2> QED BY <2>4 DEF WD!Level
<1>3. WD!Priority(i) \in {WD!Level[labels[earliest]], 0, 1} /\ (graded = {} => WD!Priority(i) \in {0, 1})
  BY DEF WD!Priority
<1> HIDE DEF earliest, graded, labels
<1> QED BY <1>2, <1>3

(* What a candidate is.                                                    *)
CandidateShape ==
    [priority : 0 .. 2, unblocked : BOOLEAN, parallelizable : {TRUE},
     effort : Nat, milestone : BOOLEAN, updated : Nat, ref : Issues]

LEMMA CandidateTyped ==
    ASSUME WorldOK, NEW i \in Found, ~WD!Blocked(i)
    PROVE  WD!Candidate(i) \in CandidateShape
<1>1. WD!Priority(i) \in 0 .. 2
  BY PriorityGiven
<1>2. WD!Unblocked(i) \in BOOLEAN
  BY DEF WD!Unblocked
<1>3. WD!Parallelizable(i) = TRUE
  BY DEF WD!Parallelizable, WD!Blocked
<1>4. /\ i.ref \in Issues /\ Attributes[i.ref].milestone \in BOOLEAN
      /\ Attributes[i.ref].effort \in Nat /\ Attributes[i.ref].updated \in Nat
  BY DEF WorldOK, Found
<1> QED BY <1>1, <1>2, <1>3, <1>4 DEF WD!Candidate, CandidateShape

(* Its key is of eight numbers, of which the last two tell the issue.      *)
LEMMA KeyTyped ==
    ASSUME WorldOK, NEW c \in CandidateShape
    PROVE  /\ DOMAIN WD!SortKey(c) = 1 .. 8
           /\ \A k \in 1 .. 8 : WD!SortKey(c)[k] \in Int
           /\ c.ref = <<ByName[WD!SortKey(c)[7]], WD!SortKey(c)[8]>>
           /\ WD!SortKey(c)[2] = 1 - WD!Bit(c.unblocked)
<1>1. /\ 2 - c.priority \in Int /\ 10 - c.updated \in Int /\ c.effort \in Int
      /\ 1 - WD!Bit(c.unblocked) \in Int /\ 1 - WD!Bit(c.milestone) \in Int
      /\ 1 - WD!Bit(c.parallelizable /\ FreePanes > 0) \in Int
  BY DEF CandidateShape, WD!Bit
<1> DEFINE at7 == CHOOSE k \in DOMAIN ByName : ByName[k] = WD!Repo(c.ref)
<1>2. c.ref \in WD!Repos \X Nat
  BY DEF WorldOK, CandidateShape, WD!Refs
<1>3. at7 \in Nat /\ ByName[at7] = WD!Repo(c.ref)
  <2>1. \E k \in DOMAIN ByName : ByName[k] = WD!Repo(c.ref)
    <3>1. WD!Repo(c.ref) \in WD!Range(ByName)
      BY <1>2 DEF WorldOK, WD!Repo
    <3> QED BY <3>1 DEF WD!Range
  <2>2. at7 \in DOMAIN ByName /\ ByName[at7] = WD!Repo(c.ref)
    BY <2>1
  <2>3. DOMAIN ByName \subseteq Nat
    BY DEF WorldOK
  <2> QED BY <2>2, <2>3
<1>4. c.ref[2] \in Int /\ c.ref = <<WD!Repo(c.ref), c.ref[2]>>
  BY <1>2 DEF WD!Repo
<1> DEFINE a == 2 - c.priority
           b == 1 - WD!Bit(c.unblocked)
           d == 1 - WD!Bit(c.parallelizable /\ FreePanes > 0)
           e == 1 - WD!Bit(c.milestone)
           g == 10 - c.updated
<1>5. WD!SortKey(c) = <<a, b, d, c.effort, e, g, at7, c.ref[2]>>
  BY DEF WD!SortKey
<1> HIDE DEF at7, a, b, d, e, g
<1>6. DOMAIN WD!SortKey(c) = 1 .. 8
  BY <1>5
<1>7. \A k \in 1 .. 8 : WD!SortKey(c)[k] \in {a, b, d, c.effort, e, g, at7, c.ref[2]}
  BY <1>5
<1>8. WD!SortKey(c)[7] = at7 /\ WD!SortKey(c)[8] = c.ref[2] /\ WD!SortKey(c)[2] = b
  BY <1>5
<1>9. {a, b, d, c.effort, e, g, at7, c.ref[2]} \subseteq Int
  BY <1>1, <1>3, <1>4 DEF a, b, d, e, g
<1> QED BY <1>3, <1>4, <1>6, <1>7, <1>8, <1>9 DEF b
(* What Better says of two candidates, position by position.               *)
LEMMA BetterIs ==
    ASSUME WorldOK, NEW c \in CandidateShape, NEW d \in CandidateShape
    PROVE  WD!Better(c, d) <=> \E k \in 1 .. 8 : /\ WD!SortKey(c)[k] < WD!SortKey(d)[k]
                                             /\ \A l \in 1 .. k - 1 : WD!SortKey(c)[l] = WD!SortKey(d)[l]
BY KeyTyped DEF WD!Better

LEMMA BetterIrreflexive ==
    ASSUME WorldOK, NEW c \in CandidateShape
    PROVE  ~WD!Better(c, c)
<1>1. \A k \in 1 .. 8 : WD!SortKey(c)[k] \in Int
  BY KeyTyped
<1>2. \A k \in 1 .. 8 : ~(WD!SortKey(c)[k] < WD!SortKey(c)[k])
  BY <1>1
<1> QED BY <1>2, BetterIs

LEMMA BetterTransitive ==
    ASSUME WorldOK, NEW c \in CandidateShape, NEW d \in CandidateShape, NEW e \in CandidateShape,
           WD!Better(c, d), WD!Better(d, e)
    PROVE  WD!Better(c, e)
<1> DEFINE x == WD!SortKey(c)  y == WD!SortKey(d)  z == WD!SortKey(e)
<1>1. /\ \A k \in 1 .. 8 : x[k] \in Int /\ y[k] \in Int /\ z[k] \in Int
  BY KeyTyped
<1>2. PICK j \in 1 .. 8 : x[j] < y[j] /\ \A l \in 1 .. j - 1 : x[l] = y[l]
  BY BetterIs
<1>3. PICK k \in 1 .. 8 : y[k] < z[k] /\ \A l \in 1 .. k - 1 : y[l] = z[l]
  BY BetterIs
<1> HIDE DEF x, y, z
<1>4. CASE j <= k
  <2>1. \A l \in 1 .. j - 1 : x[l] = z[l]
    BY <1>2, <1>3, <1>4
  <2>2. x[j] < z[j]
    <3>1. CASE j = k
      BY <1>1, <1>2, <1>3, <3>1
    <3>2. CASE j # k
      <4>1. j \in 1 .. k - 1
        BY <1>4, <3>2
      <4> QED BY <1>1, <1>2, <1>3, <4>1
    <3> QED BY <3>1, <3>2
  <2> QED BY <2>1, <2>2, BetterIs DEF x, z
<1>5. CASE k < j
  <2>1. \A l \in 1 .. k - 1 : x[l] = z[l]
    BY <1>2, <1>3, <1>5
  <2>2. k \in 1 .. j - 1
    BY <1>5
  <2>3. x[k] < z[k]
    BY <1>1, <1>2, <1>3, <2>2
  <2> QED BY <2>1, <2>3, BetterIs DEF x, z
<1> QED BY <1>4, <1>5

LEMMA BetterTotal ==
    ASSUME WorldOK, NEW i \in Found, NEW j \in Found, ~WD!Blocked(i), ~WD!Blocked(j),
           WD!Candidate(i) # WD!Candidate(j)
    PROVE  WD!Better(WD!Candidate(i), WD!Candidate(j)) \/ WD!Better(WD!Candidate(j), WD!Candidate(i))
<1> DEFINE c == WD!Candidate(i)  d == WD!Candidate(j)
           x == WD!SortKey(c)  y == WD!SortKey(d)
           apart == {k \in 1 .. 8 : x[k] # y[k]}
<1>1. c \in CandidateShape /\ d \in CandidateShape
  BY CandidateTyped
<1>2. /\ \A k \in 1 .. 8 : x[k] \in Int /\ y[k] \in Int
      /\ c.ref = <<ByName[x[7]], x[8]>> /\ d.ref = <<ByName[y[7]], y[8]>>
      /\ x[2] = 1 - WD!Bit(c.unblocked) /\ y[2] = 1 - WD!Bit(d.unblocked)
  <2> HIDE DEF c, d
  <2> QED BY <1>1, KeyTyped
<1>3. c.ref # d.ref \/ c.unblocked # d.unblocked
  <2> SUFFICES ASSUME i.ref = j.ref, WD!Unblocked(i) = WD!Unblocked(j) PROVE WD!Candidate(i) = WD!Candidate(j)
    BY DEF WD!Candidate
  <2>1. WD!Priority(i) = WD!Priority(j)
    BY DEF WD!Priority
  <2>2. WD!Parallelizable(i) = TRUE /\ WD!Parallelizable(j) = TRUE
    BY DEF WD!Parallelizable, WD!Blocked
  <2> QED BY <2>1, <2>2 DEF WD!Candidate
<1>4. c.unblocked \in BOOLEAN /\ d.unblocked \in BOOLEAN
  BY <1>1 DEF CandidateShape
<1> HIDE DEF c, d, x, y
<1>5. apart # {}
  <2> SUFFICES ASSUME \A k \in 1 .. 8 : x[k] = y[k] PROVE FALSE
    OBVIOUS
  <2>1. x[7] = y[7] /\ x[8] = y[8] /\ x[2] = y[2]
    OBVIOUS
  <2>2. c.ref = d.ref
    BY <1>2, <2>1
  <2>3. 1 - WD!Bit(c.unblocked) = 1 - WD!Bit(d.unblocked)
    BY <1>2, <2>1
  <2>4. c.unblocked # d.unblocked
    BY <1>3, <2>2
  <2>5. (c.unblocked = TRUE /\ d.unblocked = FALSE) \/ (c.unblocked = FALSE /\ d.unblocked = TRUE)
    BY <1>4, <2>4
  <2> QED BY <2>3, <2>5 DEF WD!Bit
<1>6. PICK k \in apart : \A l \in apart : k <= l
  BY <1>5, LeastOfSome
<1>7. \A l \in 1 .. k - 1 : x[l] = y[l]
  <2> TAKE l \in 1 .. k - 1
  <2>1. l \in 1 .. 8 /\ ~(k <= l)
    BY <1>6
  <2> QED BY <1>6, <2>1
<1>8. x[k] < y[k] \/ y[k] < x[k]
  <2>1. x[k] \in Int /\ y[k] \in Int /\ x[k] # y[k]
    BY <1>2, <1>6
  <2> QED BY <2>1
<1> QED BY <1>1, <1>6, <1>7, <1>8, BetterIs DEF c, d, x, y
LEMMA CandidatesFinite ==
    ASSUME WorldOK, WD!AllIssues \subseteq Found
    PROVE  IsFiniteSet(WD!Candidates) /\ Cardinality(WD!Candidates) \in Nat
<1> DEFINE f == [c \in WD!Candidates |-> IF c.unblocked THEN <<c.ref, 1>> ELSE <<c.ref, 0>>]
           T == (Issues \X {0}) \cup (Issues \X {1})
           g0 == [p \in Issues \X {0} |-> p[1]]
           g1 == [p \in Issues \X {1} |-> p[1]]
<1>1. IsFiniteSet(Issues)
  <2>1. Issues \in SUBSET WD!Refs /\ IsFiniteSet(WD!Refs)
    BY DEF WD!Refs, WorldOK
  <2> QED BY <2>1, FS_Subset
<1>2. IsFiniteSet(T)
  <2>1. g0 \in Injection(Issues \X {0}, Issues) /\ g1 \in Injection(Issues \X {1}, Issues)
    BY DEF Injection, IsInjective
  <2>2. IsFiniteSet(Issues \X {0}) /\ IsFiniteSet(Issues \X {1})
    BY <1>1, <2>1, FS_Injection
  <2> QED BY <2>2, FS_Union
<1>3. ASSUME NEW c \in WD!Candidates
      PROVE  \E i \in Found : ~WD!Blocked(i) /\ c = WD!Candidate(i) /\ c \in CandidateShape
  <2>1. PICK i \in WD!AllIssues : ~WD!Blocked(i) /\ c = WD!Candidate(i)
    BY <1>3 DEF WD!Candidates
  <2>2. i \in Found
    BY <2>1
  <2> QED BY <2>1, <2>2, CandidateTyped
<1>4. \A c \in WD!Candidates : c.ref \in Issues /\ c.unblocked \in BOOLEAN
  BY <1>3 DEF CandidateShape
<1>5. f \in [WD!Candidates -> T]
  BY <1>4
<1>6. ASSUME NEW c \in WD!Candidates, NEW d \in WD!Candidates, f[c] = f[d] PROVE c = d
  <2>1. c.ref = d.ref /\ c.unblocked = d.unblocked
    BY <1>4, <1>6
  <2>2. PICK i \in Found : ~WD!Blocked(i) /\ c = WD!Candidate(i)
    BY <1>3
  <2>3. PICK j \in Found : ~WD!Blocked(j) /\ d = WD!Candidate(j)
    BY <1>3
  <2>4. i.ref = j.ref /\ WD!Unblocked(i) = WD!Unblocked(j)
    BY <2>1, <2>2, <2>3 DEF WD!Candidate
  <2>5. WD!Priority(i) = WD!Priority(j)
    BY <2>4 DEF WD!Priority
  <2>6. WD!Parallelizable(i) = TRUE /\ WD!Parallelizable(j) = TRUE
    BY <2>2, <2>3 DEF WD!Parallelizable, WD!Blocked
  <2> QED BY <2>2, <2>3, <2>4, <2>5, <2>6 DEF WD!Candidate
<1>7. f \in Injection(WD!Candidates, T)
  <2> HIDE DEF f
  <2> QED BY <1>5, <1>6 DEF Injection, IsInjective
<1>8. IsFiniteSet(WD!Candidates)
  <2> HIDE DEF f, T
  <2> QED BY <1>2, <1>7, FS_Injection
<1> QED BY <1>8, FS_CardinalityType

(* Every candidate has exactly one place in the ranking.                   *)
LEMMA RankingIs ==
    ASSUME WorldOK, WD!AllIssues \subseteq Found
    PROVE  /\ WD!Ranking \in [1 .. Cardinality(WD!Candidates) -> WD!Candidates]
           /\ \A j, k \in 1 .. Cardinality(WD!Candidates) : j < k => WD!Better(WD!Ranking[j], WD!Ranking[k])
           /\ \A c \in WD!Candidates : \E k \in 1 .. Cardinality(WD!Candidates) : WD!Ranking[k] = c
<1> DEFINE n == Cardinality(WD!Candidates)
           R == {p \in WD!Candidates \X WD!Candidates : WD!Better(p[1], p[2])}
<1>1. IsFiniteSet(WD!Candidates) /\ n \in Nat
  BY CandidatesFinite
<1>2. ASSUME NEW c \in WD!Candidates
      PROVE  c \in CandidateShape /\ \E i \in Found : ~WD!Blocked(i) /\ c = WD!Candidate(i)
  <2>1. PICK i \in WD!AllIssues : ~WD!Blocked(i) /\ c = WD!Candidate(i)
    BY <1>2 DEF WD!Candidates
  <2>2. i \in Found
    BY <2>1
  <2> QED BY <2>1, <2>2, CandidateTyped
<1>3. \A c, d \in WD!Candidates : <<c, d>> \in R <=> WD!Better(c, d)
  OBVIOUS
<1> HIDE DEF R
<1>4. \A c \in WD!Candidates : <<c, c>> \notin R
  BY <1>2, <1>3, BetterIrreflexive
<1>5. \A c, d, e \in WD!Candidates : <<c, d>> \in R /\ <<d, e>> \in R => <<c, e>> \in R
  BY <1>2, <1>3, BetterTransitive
<1>6. \A c, d \in WD!Candidates : c # d => <<c, d>> \in R \/ <<d, c>> \in R
  BY <1>2, <1>3, BetterTotal
<1>7. \E s \in [1 .. n -> WD!Candidates] : \A j, k \in 1 .. n : j < k => <<s[j], s[k]>> \in R
  BY <1>1, <1>4, <1>5, <1>6, Listing
<1>8. \E s \in [1 .. n -> WD!Candidates] : \A j, k \in DOMAIN s : j < k => WD!Better(s[j], s[k])
  <2> HIDE DEF n
  <2> QED BY <1>3, <1>7
<1>9. WD!Ranking \in [1 .. n -> WD!Candidates] /\ \A j, k \in 1 .. n : j < k => WD!Better(WD!Ranking[j], WD!Ranking[k])
  BY <1>8, CountsAgree DEF WD!Ranking
<1> HIDE DEF n
<1>10. ASSUME NEW j \in 1 .. n, NEW k \in 1 .. n, WD!Ranking[j] = WD!Ranking[k] PROVE j = k
  <2>1. ~WD!Better(WD!Ranking[j], WD!Ranking[j])
    BY <1>2, <1>9, BetterIrreflexive
  <2>2. ~(j < k) /\ ~(k < j)
    BY <1>9, <1>10, <2>1
  <2> QED BY <1>1, <2>2
<1>11. WD!Ranking \in Injection(1 .. n, WD!Candidates)
  BY <1>9, <1>10 DEF Injection, IsInjective
<1>12. Cardinality(1 .. n) = n
  BY <1>1, FS_Interval
<1>13. WD!Ranking \in Surjection(1 .. n, WD!Candidates)
  BY <1>1, <1>11, <1>12, FS_Injection DEF n
<1>14. \A c \in WD!Candidates : \E k \in 1 .. n : WD!Ranking[k] = c
  BY <1>13 DEF Surjection
<1> QED BY <1>9, <1>14 DEF n

(* A list of what is open that did not reach its limit is whole.           *)
LEMMA NewestIsAll ==
    ASSUME WorldOK, NEW S, S \subseteq WD!Refs, Cardinality(WD!Newest(S)) < OpenLimit
    PROVE  WD!Newest(S) = S
<1> DEFINE newer(ref) == {other \in S : other[2] > ref[2]}
           left == {Cardinality(newer(ref)) : ref \in S \ WD!Newest(S)}
<1>1. IsFiniteSet(S)
  BY FS_Subset DEF WorldOK
<1>2. \A ref \in S : IsFiniteSet(newer(ref)) /\ Cardinality(newer(ref)) \in Nat
  <2> TAKE ref \in S
  <2>1. newer(ref) \in SUBSET S
    OBVIOUS
  <2>2. IsFiniteSet(newer(ref))
    BY <1>1, <2>1, FS_Subset
  <2> QED BY <2>2, FS_CardinalityType
<1>3. \A ref \in S : ref[2] \in Nat
  BY DEF WorldOK
<1>4. \A ref \in S : Cardinality(newer(ref)) < OpenLimit <=> ref \in WD!Newest(S)
  BY CountsAgree DEF WD!Newest
<1>5. WD!Newest(S) \subseteq S
  BY DEF WD!Newest
<1> SUFFICES ASSUME S \ WD!Newest(S) # {} PROVE FALSE
  BY <1>5
<1>6. left \subseteq Nat /\ left # {}
  BY <1>2
<1>7. PICK least \in left : \A other \in left : least <= other
  BY <1>6, LeastOfSome
<1>8. PICK ref \in S \ WD!Newest(S) : \A other \in S \ WD!Newest(S) :
               Cardinality(newer(ref)) <= Cardinality(newer(other))
  <2>1. PICK ref \in S \ WD!Newest(S) : least = Cardinality(newer(ref))
    BY <1>7
  <2>2. \A other \in S \ WD!Newest(S) : least <= Cardinality(newer(other))
    BY <1>7
  <2> HIDE DEF newer
  <2> QED BY <2>1, <2>2
<1>9. newer(ref) \in SUBSET WD!Newest(S)
  <2> SUFFICES ASSUME NEW other \in newer(ref), other \notin WD!Newest(S) PROVE FALSE
    OBVIOUS
  <2>1. other \in S /\ other[2] > ref[2]
    OBVIOUS
  <2>2. newer(other) \in SUBSET newer(ref) /\ other \notin newer(other)
    BY <1>3, <2>1
  <2>3. Cardinality(newer(other)) <= Cardinality(newer(ref))
    BY <1>2, <2>2, FS_Subset
  <2>4. Cardinality(newer(other)) # Cardinality(newer(ref))
    BY <1>2, <2>2, FS_Subset
  <2>5. Cardinality(newer(ref)) <= Cardinality(newer(other))
    BY <1>8, <2>1
  <2>6. Cardinality(newer(ref)) \in Nat /\ Cardinality(newer(other)) \in Nat
    BY <1>2, <2>1
  <2> HIDE DEF newer
  <2> QED BY <2>3, <2>4, <2>5, <2>6
<1>10. IsFiniteSet(WD!Newest(S)) /\ Cardinality(WD!Newest(S)) \in Nat
  <2>1. IsFiniteSet(WD!Newest(S))
    BY <1>1, <1>5, FS_Subset
  <2> QED BY <2>1, FS_CardinalityType
<1>11. Cardinality(newer(ref)) <= Cardinality(WD!Newest(S))
  BY <1>9, <1>10, FS_Subset
<1>12. Cardinality(newer(ref)) < OpenLimit
  <2>1. OpenLimit \in Nat /\ Cardinality(newer(ref)) \in Nat
    BY <1>2 DEF WorldOK
  <2> HIDE DEF newer
  <2> QED BY <1>10, <1>11, <2>1
<1> QED BY <1>4, <1>8, <1>12
-----------------------------------------------------------------------------
(* What has been read so far                                               *)

Merge == [pr : Pulls, closed : SUBSET Issues, mentioned : SUBSET Issues]

ScanTypes ==
    /\ stage \in {"issues", "pulls", "merges", "rank", "done"}
    /\ repo \in 1 .. Len(Scanned)
    /\ truncated \in BOOLEAN
    /\ open \subseteq WD!Refs /\ held \subseteq Issues
    /\ blockers \in [Issues -> SUBSET (WD!Refs \cup Outside)]
    /\ merges \in [WD!Repos -> Seq(Merge)]
    /\ bundles \in [WD!Repos -> [issues : SUBSET Found, prs : SUBSET Pulls, merges : Seq(Merge)]]

(* The histories: what stayed is so now.                                   *)
HistoryInv ==
    /\ stayed \subseteq open
    /\ stayedShut \cap open = {}
    /\ linked \in [Issues -> SUBSET (WD!Refs \cup Outside)]
    /\ \A i \in Issues : linked[i] \subseteq blockers[i]

(* The lists of these repositories have been read.                         *)
IssuesRead(r) ==
    \E k \in 1 .. Len(Scanned) :
        Scanned[k] = r /\ (k < repo \/ stage = "rank" \/ (k = repo /\ stage \in {"pulls", "merges"}))
PullsRead(r) ==
    \E k \in 1 .. Len(Scanned) :
        Scanned[k] = r /\ (k < repo \/ stage = "rank" \/ (k = repo /\ stage = "merges"))

(* An issue was read with the blockers that it kept, what was read open    *)
(* has not been closed all through, and what was open all through has been *)
(* read, unless a list reached its limit.                                  *)
LinksInv == \A r \in WD!Repos : \A f \in bundles[r].issues : linked[f.ref] \subseteq f.blockers
SeenInv ==
    /\ \A r \in WD!Repos : \A f \in bundles[r].issues : f.ref \notin stayedShut
    /\ \A r \in WD!Repos : bundles[r].prs \cap stayedShut = {}
WholeInv ==
    ~truncated =>
        \A r \in WD!Repos :
            /\ IssuesRead(r) => \A i \in Issues \cap stayed :
                                    WD!Repo(i) = r => \E f \in bundles[r].issues : f.ref = i
            /\ PullsRead(r) => \A p \in Pulls \cap stayed : WD!Repo(p) = r => p \in bundles[r].prs

WDInv ==
    /\ ScanTypes /\ HistoryInv /\ WD!TriageIsTrue
    /\ stage # "done" => LinksInv /\ SeenInv /\ WholeInv

(* The repositories change: the histories shrink with them, and nothing    *)
(* that was read changes.                                                  *)
LEMMA ChangeWD ==
    ASSUME WorldOK, WDInv, WD!Change, WD!Witness,
           open' \subseteq WD!Refs, held' \subseteq Issues,
           blockers' \in [Issues -> SUBSET (WD!Refs \cup Outside)],
           merges' \in [WD!Repos -> Seq(Merge)]
    PROVE  WDInv'
<1>1. ScanTypes'
  BY DEF WDInv, ScanTypes, WD!Change
<1>2. HistoryInv'
  <2>1. stayed' \subseteq open' /\ stayedShut' \cap open' = {}
    BY DEF WDInv, HistoryInv, WD!Witness
  <2>2. linked' = [i \in Issues |-> linked[i] \cap blockers'[i]]
    BY DEF WD!Witness
  <2>3. linked \in [Issues -> SUBSET (WD!Refs \cup Outside)]
    BY DEF WDInv, HistoryInv
  <2>4. linked' \in [Issues -> SUBSET (WD!Refs \cup Outside)]
    BY <2>2, <2>3
  <2>5. \A i \in Issues : linked'[i] \subseteq blockers'[i]
    BY <2>2
  <2> QED BY <2>1, <2>4, <2>5 DEF HistoryInv
<1>3. stayed' \subseteq stayed /\ \A i \in Issues : linked'[i] \subseteq linked[i]
  BY DEF WD!Witness
<1>4. stayedShut' \subseteq stayedShut
  BY DEF WD!Witness
<1>5. stage' = stage /\ stage # "done" /\ repo' = repo /\ bundles' = bundles /\ truncated' = truncated
  BY DEF WD!Change
<1>6. WD!TriageIsTrue'
  BY <1>5 DEF WD!TriageIsTrue
<1>7. LinksInv /\ SeenInv /\ WholeInv
  BY <1>5 DEF WDInv
<1>8. LinksInv'
  <2>1. \A r \in WD!Repos : \A f \in bundles[r].issues : f.ref \in Issues
    BY DEF WDInv, ScanTypes, Found
  <2> QED BY <1>3, <1>5, <1>7, <2>1 DEF LinksInv
<1>9. SeenInv'
  BY <1>4, <1>5, <1>7 DEF SeenInv
<1>10. WholeInv'
  <2>1. \A r : (IssuesRead(r)' <=> IssuesRead(r)) /\ (PullsRead(r)' <=> PullsRead(r))
    BY <1>5 DEF IssuesRead, PullsRead
  <2> QED BY <1>3, <1>5, <1>7, <2>1 DEF WholeInv
<1> QED BY <1>1, <1>2, <1>6, <1>8, <1>9, <1>10 DEF WDInv

LEMMA MergePullWD ==
    ASSUME WorldOK, WDInv, NEW p \in Pulls, NEW closed \in SUBSET Issues,
           NEW mentioned \in SUBSET Issues, WD!MergePull(p, closed, mentioned)
    PROVE  WDInv'
<1>1. merges' \in [WD!Repos -> Seq(Merge)]
  <2> DEFINE m == [pr |-> p, closed |-> closed, mentioned |-> closed \cup mentioned]
  <2>1. m \in Merge
    BY DEF Merge
  <2>2. merges \in [WD!Repos -> Seq(Merge)] /\ merges' = [merges EXCEPT ![WD!Repo(p)] = Append(@, m)]
    BY DEF WDInv, ScanTypes, WD!MergePull
  <2> HIDE DEF m
  <2>3. \A r \in WD!Repos : Append(merges[r], m) \in Seq(Merge)
    BY <2>1, <2>2, AppendProperties
  <2> QED BY <2>2, <2>3
<1> QED BY <1>1, ChangeWD DEF WD!MergePull, WDInv, ScanTypes

LEMMA CloseOrReopenWD ==
    ASSUME WorldOK, WDInv, NEW ref \in WD!Refs, WD!CloseOrReopen(ref)
    PROVE  WDInv'
BY ChangeWD DEF WD!CloseOrReopen, WDInv, ScanTypes

LEMMA EditBlockersWD ==
    ASSUME WorldOK, WDInv, NEW i \in Issues, NEW ref \in WD!Refs, WD!EditBlockers(i, ref)
    PROVE  WDInv'
<1>1. blockers' \in [Issues -> SUBSET (WD!Refs \cup Outside)]
  BY DEF WD!EditBlockers, WDInv, ScanTypes
<1> QED BY <1>1, ChangeWD DEF WD!EditBlockers, WDInv, ScanTypes
(* A step of the scan reads one list of one repository.                    *)
LEMMA BundleStep ==
    ASSUME WDInv
    PROVE  /\ Scanned[repo] \in WD!Repos
           /\ \A issues \in SUBSET Found :
                  [bundles EXCEPT ![Scanned[repo]].issues = issues]
                    = [r \in WD!Repos |-> IF r = Scanned[repo]
                                      THEN [issues |-> issues, prs |-> bundles[r].prs, merges |-> bundles[r].merges]
                                      ELSE bundles[r]]
           /\ \A prs \in SUBSET Pulls :
                  [bundles EXCEPT ![Scanned[repo]].prs = prs]
                    = [r \in WD!Repos |-> IF r = Scanned[repo]
                                      THEN [issues |-> bundles[r].issues, prs |-> prs, merges |-> bundles[r].merges]
                                      ELSE bundles[r]]
           /\ \A some \in Seq(Merge) :
                  [bundles EXCEPT ![Scanned[repo]].merges = some]
                    = [r \in WD!Repos |-> IF r = Scanned[repo]
                                      THEN [issues |-> bundles[r].issues, prs |-> bundles[r].prs, merges |-> some]
                                      ELSE bundles[r]]
<1>1. bundles \in [WD!Repos -> [issues : SUBSET Found, prs : SUBSET Pulls, merges : Seq(Merge)]]
  BY DEF WDInv, ScanTypes
<1>2. repo \in DOMAIN Scanned
  BY DEF WDInv, ScanTypes, WorldOK
<1>3. Scanned[repo] \in WD!Repos
  BY <1>2 DEF WD!Repos, WD!Range
<1>4. \A issues \in SUBSET Found :
         [bundles EXCEPT ![Scanned[repo]].issues = issues]
           = [r \in WD!Repos |-> IF r = Scanned[repo]
                             THEN [issues |-> issues, prs |-> bundles[r].prs, merges |-> bundles[r].merges]
                             ELSE bundles[r]]
  <2> TAKE issues \in SUBSET Found
  <2>1. [bundles EXCEPT ![Scanned[repo]].issues = issues]
          = [bundles EXCEPT ![Scanned[repo]] = [bundles[Scanned[repo]] EXCEPT !.issues = issues]]
    OBVIOUS
  <2>2. [bundles[Scanned[repo]] EXCEPT !.issues = issues]
          = [issues |-> issues, prs |-> bundles[Scanned[repo]].prs, merges |-> bundles[Scanned[repo]].merges]
    BY <1>1, <1>3
  <2>3. DOMAIN bundles = WD!Repos
    BY <1>1
  <2> QED BY <1>1, <1>3, <2>1, <2>2, <2>3
<1>5. \A prs \in SUBSET Pulls :
         [bundles EXCEPT ![Scanned[repo]].prs = prs]
           = [r \in WD!Repos |-> IF r = Scanned[repo]
                             THEN [issues |-> bundles[r].issues, prs |-> prs, merges |-> bundles[r].merges]
                             ELSE bundles[r]]
  <2> TAKE prs \in SUBSET Pulls
  <2>1. [bundles EXCEPT ![Scanned[repo]].prs = prs]
          = [bundles EXCEPT ![Scanned[repo]] = [bundles[Scanned[repo]] EXCEPT !.prs = prs]]
    OBVIOUS
  <2>2. [bundles[Scanned[repo]] EXCEPT !.prs = prs]
          = [issues |-> bundles[Scanned[repo]].issues, prs |-> prs, merges |-> bundles[Scanned[repo]].merges]
    BY <1>1, <1>3
  <2>3. DOMAIN bundles = WD!Repos
    BY <1>1
  <2> QED BY <1>1, <1>3, <2>1, <2>2, <2>3
<1>6. \A some \in Seq(Merge) :
         [bundles EXCEPT ![Scanned[repo]].merges = some]
           = [r \in WD!Repos |-> IF r = Scanned[repo]
                             THEN [issues |-> bundles[r].issues, prs |-> bundles[r].prs, merges |-> some]
                             ELSE bundles[r]]
  <2> TAKE some \in Seq(Merge)
  <2>1. [bundles EXCEPT ![Scanned[repo]].merges = some]
          = [bundles EXCEPT ![Scanned[repo]] = [bundles[Scanned[repo]] EXCEPT !.merges = some]]
    OBVIOUS
  <2>2. [bundles[Scanned[repo]] EXCEPT !.merges = some]
          = [issues |-> bundles[Scanned[repo]].issues, prs |-> bundles[Scanned[repo]].prs, merges |-> some]
    BY <1>1, <1>3
  <2>3. DOMAIN bundles = WD!Repos
    BY <1>1
  <2> QED BY <1>1, <1>3, <2>1, <2>2, <2>3
<1> QED BY <1>3, <1>4, <1>5, <1>6

LEMMA FetchIssuesWD == ASSUME WorldOK, WDInv, WD!FetchIssues PROVE WDInv'
<1> DEFINE here == Scanned[repo]
           S == {i \in Issues \cap open : WD!Repo(i) = here}
           found == WD!Newest(S)
           read == {[ref |-> i, blockers |-> blockers[i], held |-> i \in held] : i \in found}
<1>1. /\ stage = "issues" /\ stage' = "pulls" /\ repo' = repo
      /\ bundles' = [bundles EXCEPT ![here].issues = read]
      /\ truncated' = (truncated \/ Cardinality(found) >= OpenLimit)
      /\ open' = open /\ blockers' = blockers /\ held' = held /\ merges' = merges
      /\ stayed' = stayed /\ stayedShut' = stayedShut /\ linked' = linked
  BY CountsAgree DEF WD!FetchIssues, WD!world, WD!history
<1>2. found \subseteq S /\ S \subseteq Issues \cap open
  BY DEF WD!Newest
<1>3. read \in SUBSET Found
  <2> HIDE DEF found
  <2> SUFFICES ASSUME NEW i \in found
               PROVE  [ref |-> i, blockers |-> blockers[i], held |-> i \in held] \in Found
    OBVIOUS
  <2>1. i \in Issues /\ (i \in held) \in BOOLEAN
    BY <1>2
  <2>2. blockers[i] \in SUBSET (WD!Refs \cup Outside)
    BY <2>1 DEF WDInv, ScanTypes
  <2> QED BY <2>1, <2>2 DEF Found
<1>4. \A f \in read : f.ref \in open /\ f.ref \in Issues /\ f.blockers = blockers[f.ref]
  <2> HIDE DEF found
  <2> QED BY <1>2
<1>5. \A i \in found : \E f \in read : f.ref = i
  <2> HIDE DEF found
  <2> TAKE i \in found
  <2> DEFINE f == [ref |-> i, blockers |-> blockers[i], held |-> i \in held]
  <2>1. f \in read
    OBVIOUS
  <2>2. f.ref = i
    OBVIOUS
  <2> HIDE DEF f, read
  <2> QED BY <2>1, <2>2
<1>6. Cardinality(found) < OpenLimit => found = S
  BY NewestIsAll DEF WD!Refs
<1>7. Cardinality(found) \in Nat
  <2>1. S \in SUBSET WD!Refs /\ IsFiniteSet(WD!Refs)
    BY DEF WorldOK, WD!Refs
  <2>2. IsFiniteSet(found)
    <3> HIDE DEF found, S
    <3>1. found \in SUBSET WD!Refs
      BY <1>2, <2>1
    <3> QED BY <2>1, <3>1, FS_Subset
  <2> HIDE DEF found
  <2> QED BY <2>2, FS_CardinalityType
<1> HIDE DEF found, read
<1>8. /\ here \in WD!Repos /\ bundles'[here].issues = read
      /\ \A r \in WD!Repos : r # here => bundles'[r].issues = bundles[r].issues
      /\ \A r \in WD!Repos : bundles'[r].prs = bundles[r].prs
  <2>1. bundles' = [r \in WD!Repos |-> IF r = here
                        THEN [issues |-> read, prs |-> bundles[r].prs, merges |-> bundles[r].merges]
                        ELSE bundles[r]]
    BY <1>1, <1>3, BundleStep
  <2> QED BY <2>1, BundleStep
<1>9. ScanTypes'
  <2>1. bundles' \in [WD!Repos -> [issues : SUBSET Found, prs : SUBSET Pulls, merges : Seq(Merge)]]
    BY <1>1, <1>3 DEF WDInv, ScanTypes
  <2>2. truncated' \in BOOLEAN
    BY <1>1
  <2> QED BY <1>1, <2>1, <2>2 DEF WDInv, ScanTypes
<1>10. HistoryInv'
  BY <1>1 DEF WDInv, HistoryInv
<1>11. WD!TriageIsTrue'
  BY <1>1 DEF WD!TriageIsTrue
<1>12. LinksInv /\ SeenInv /\ WholeInv /\ HistoryInv
  BY <1>1 DEF WDInv
<1>13. LinksInv'
  BY <1>1, <1>4, <1>8, <1>12 DEF LinksInv, HistoryInv
<1>14. SeenInv'
  BY <1>1, <1>4, <1>8, <1>12 DEF SeenInv, HistoryInv
<1>15. WholeInv'
  <2> SUFFICES ASSUME ~truncated', NEW r \in WD!Repos
               PROVE  /\ IssuesRead(r)' => \A i \in Issues \cap stayed :
                                    WD!Repo(i) = r => \E f \in bundles'[r].issues : f.ref = i
                      /\ PullsRead(r)' => \A p \in Pulls \cap stayed : WD!Repo(p) = r => p \in bundles'[r].prs
    BY <1>1 DEF WholeInv
  <2>1. ~truncated /\ found = S
    <3>1. ~truncated /\ ~(Cardinality(found) >= OpenLimit)
      BY <1>1
    <3>2. OpenLimit \in Nat
      BY DEF WorldOK
    <3> QED BY <1>6, <1>7, <3>1, <3>2
  <2>2. PullsRead(r)' => PullsRead(r)
    BY <1>1 DEF PullsRead
  <2>3. r # here => (IssuesRead(r)' => IssuesRead(r))
    BY <1>1 DEF IssuesRead
  <2>4. PullsRead(r)' => \A p \in Pulls \cap stayed : WD!Repo(p) = r => p \in bundles'[r].prs
    BY <1>8, <1>12, <2>1, <2>2 DEF WholeInv
  <2>5. CASE r = here
    <3>1. \A i \in Issues \cap stayed : WD!Repo(i) = r => i \in found
      BY <1>12, <2>1, <2>5 DEF HistoryInv
    <3> QED BY <1>5, <1>8, <2>4, <2>5, <3>1
  <2>6. CASE r # here
    BY <1>8, <1>12, <2>1, <2>3, <2>4, <2>6 DEF WholeInv
  <2> QED BY <2>5, <2>6
<1> QED BY <1>9, <1>10, <1>11, <1>13, <1>14, <1>15 DEF WDInv

LEMMA FetchPullsWD == ASSUME WorldOK, WDInv, WD!FetchPulls PROVE WDInv'
<1> DEFINE here == Scanned[repo]
           S == {p \in Pulls \cap open : WD!Repo(p) = here}
           found == WD!Newest(S)
<1>1. /\ stage = "pulls" /\ stage' = "merges" /\ repo' = repo
      /\ bundles' = [bundles EXCEPT ![here].prs = found]
      /\ truncated' = (truncated \/ Cardinality(found) >= OpenLimit)
      /\ open' = open /\ blockers' = blockers /\ held' = held /\ merges' = merges
      /\ stayed' = stayed /\ stayedShut' = stayedShut /\ linked' = linked
  BY CountsAgree DEF WD!FetchPulls, WD!world, WD!history
<1>2. found \subseteq S /\ S \subseteq Pulls \cap open
  BY DEF WD!Newest
<1>3. found \in SUBSET Pulls
  BY <1>2
<1>6. Cardinality(found) < OpenLimit => found = S
  BY NewestIsAll DEF WD!Refs
<1>7. Cardinality(found) \in Nat
  <2>1. S \in SUBSET WD!Refs /\ IsFiniteSet(WD!Refs)
    BY DEF WorldOK, WD!Refs
  <2>2. IsFiniteSet(found)
    <3> HIDE DEF found, S
    <3>1. found \in SUBSET WD!Refs
      BY <1>2, <2>1
    <3> QED BY <2>1, <3>1, FS_Subset
  <2> HIDE DEF found
  <2> QED BY <2>2, FS_CardinalityType
<1> HIDE DEF found
<1>8. /\ here \in WD!Repos /\ bundles'[here].prs = found
      /\ \A r \in WD!Repos : r # here => bundles'[r].prs = bundles[r].prs
      /\ \A r \in WD!Repos : bundles'[r].issues = bundles[r].issues
  <2>1. bundles' = [r \in WD!Repos |-> IF r = here
                        THEN [issues |-> bundles[r].issues, prs |-> found, merges |-> bundles[r].merges]
                        ELSE bundles[r]]
    BY <1>1, <1>3, BundleStep
  <2> QED BY <2>1, BundleStep
<1>9. ScanTypes'
  <2>1. bundles' \in [WD!Repos -> [issues : SUBSET Found, prs : SUBSET Pulls, merges : Seq(Merge)]]
    BY <1>1, <1>3 DEF WDInv, ScanTypes
  <2>2. truncated' \in BOOLEAN
    BY <1>1
  <2> QED BY <1>1, <2>1, <2>2 DEF WDInv, ScanTypes
<1>10. HistoryInv'
  BY <1>1 DEF WDInv, HistoryInv
<1>11. WD!TriageIsTrue'
  BY <1>1 DEF WD!TriageIsTrue
<1>12. LinksInv /\ SeenInv /\ WholeInv /\ HistoryInv
  BY <1>1 DEF WDInv
<1>13. LinksInv'
  BY <1>1, <1>8, <1>12 DEF LinksInv
<1>14. SeenInv'
  BY <1>1, <1>2, <1>8, <1>12 DEF SeenInv, HistoryInv
<1>15. WholeInv'
  <2> SUFFICES ASSUME ~truncated', NEW r \in WD!Repos
               PROVE  /\ IssuesRead(r)' => \A i \in Issues \cap stayed :
                                    WD!Repo(i) = r => \E f \in bundles'[r].issues : f.ref = i
                      /\ PullsRead(r)' => \A p \in Pulls \cap stayed : WD!Repo(p) = r => p \in bundles'[r].prs
    BY <1>1 DEF WholeInv
  <2>1. ~truncated /\ found = S
    <3>1. ~truncated /\ ~(Cardinality(found) >= OpenLimit)
      BY <1>1
    <3>2. OpenLimit \in Nat
      BY DEF WorldOK
    <3> QED BY <1>6, <1>7, <3>1, <3>2
  <2>2. IssuesRead(r)' => IssuesRead(r)
    BY <1>1 DEF IssuesRead
  <2>3. r # here => (PullsRead(r)' => PullsRead(r))
    BY <1>1 DEF PullsRead
  <2>4. IssuesRead(r)' => \A i \in Issues \cap stayed :
                            WD!Repo(i) = r => \E f \in bundles'[r].issues : f.ref = i
    BY <1>8, <1>12, <2>1, <2>2 DEF WholeInv
  <2>5. CASE r = here
    <3>1. \A p \in Pulls \cap stayed : WD!Repo(p) = r => p \in found
      BY <1>12, <2>1, <2>5 DEF HistoryInv
    <3> QED BY <1>8, <2>4, <2>5, <3>1
  <2>6. CASE r # here
    BY <1>8, <1>12, <2>1, <2>3, <2>4, <2>6 DEF WholeInv
  <2> QED BY <2>5, <2>6
<1> QED BY <1>9, <1>10, <1>11, <1>13, <1>14, <1>15 DEF WDInv

LEMMA FetchMergesWD == ASSUME WorldOK, WDInv, WD!FetchMerges PROVE WDInv'
<1> DEFINE here == Scanned[repo]
           all == merges[here]
           from == IF Len(all) > RecentMerges THEN Len(all) - RecentMerges + 1 ELSE 1
           some == SubSeq(all, from, Len(all))
<1>1. /\ stage = "merges"
      /\ bundles' = [bundles EXCEPT ![here].merges = some]
      /\ IF repo < Len(Scanned) THEN repo' = repo + 1 /\ stage' = "issues" ELSE repo' = repo /\ stage' = "rank"
      /\ open' = open /\ blockers' = blockers /\ held' = held /\ merges' = merges
      /\ stayed' = stayed /\ stayedShut' = stayedShut /\ linked' = linked /\ truncated' = truncated
  BY DEF WD!FetchMerges, WD!world, WD!history
<1>2. here \in WD!Repos
  BY BundleStep
<1>3. some \in Seq(Merge)
  <2>1. all \in Seq(Merge) /\ Len(all) \in Nat
    BY <1>2, LenProperties DEF WDInv, ScanTypes
  <2>2. RecentMerges \in Nat
    BY DEF WorldOK
  <2> HIDE DEF all
  <2>3. from \in Int /\ from >= 1
    BY <2>1, <2>2
  <2> HIDE DEF from
  <2>4. \A i \in from .. Len(all) : all[i] \in Merge
    BY <2>1, <2>3
  <2> QED BY <2>1, <2>3, <2>4, SubSeqProperties
<1> HIDE DEF some
<1>4. \A r \in WD!Repos : bundles'[r].issues = bundles[r].issues /\ bundles'[r].prs = bundles[r].prs
  <2>1. bundles' = [r \in WD!Repos |-> IF r = here
                        THEN [issues |-> bundles[r].issues, prs |-> bundles[r].prs, merges |-> some]
                        ELSE bundles[r]]
    BY <1>1, <1>3, BundleStep
  <2> QED BY <2>1
<1>5. Len(Scanned) \in Nat /\ repo \in 1 .. Len(Scanned)
  BY DEF WorldOK, WDInv, ScanTypes
<1>6. ScanTypes'
  <2>1. bundles' \in [WD!Repos -> [issues : SUBSET Found, prs : SUBSET Pulls, merges : Seq(Merge)]]
    BY <1>1, <1>3 DEF WDInv, ScanTypes
  <2>2. repo' \in 1 .. Len(Scanned) /\ stage' \in {"issues", "rank"}
    BY <1>1, <1>5
  <2> QED BY <1>1, <2>1, <2>2 DEF WDInv, ScanTypes
<1>7. \A r : (IssuesRead(r)' => IssuesRead(r)) /\ (PullsRead(r)' => PullsRead(r))
  <2>1. ASSUME NEW k \in 1 .. Len(Scanned), k < repo' \/ stage' = "rank" \/ (k = repo' /\ stage' \in {"pulls", "merges"})
        PROVE  k < repo \/ k = repo
    BY <1>1, <1>5, <2>1
  <2> QED BY <1>1, <2>1 DEF IssuesRead, PullsRead
<1>8. HistoryInv' /\ WD!TriageIsTrue'
  BY <1>1 DEF WDInv, HistoryInv, WD!TriageIsTrue
<1>9. LinksInv /\ SeenInv /\ WholeInv
  BY <1>1 DEF WDInv
<1>10. LinksInv' /\ SeenInv'
  BY <1>1, <1>4, <1>9 DEF LinksInv, SeenInv
<1>11. WholeInv'
  BY <1>1, <1>4, <1>7, <1>9 DEF WholeInv
<1> QED BY <1>6, <1>8, <1>10, <1>11 DEF WDInv

LEMMA FetchFailsWD == ASSUME WDInv, WD!FetchFails PROVE WDInv'
BY DEF WDInv, ScanTypes, HistoryInv, WD!TriageIsTrue, WD!FetchFails, WD!world, WD!history
(* What an issue was read with, when every list has been read.             *)
LEMMA ScanIsDone ==
    ASSUME WorldOK, WDInv, stage = "rank"
    PROVE  /\ WD!AllIssues \subseteq Found
           /\ WD!OpenRefs \subseteq WD!Refs /\ WD!OpenRefs \cap stayedShut = {}
           /\ \A i \in WD!AllIssues : linked[i.ref] \subseteq i.blockers
           /\ ~truncated => stayed \subseteq WD!OpenRefs
           /\ ~truncated => \A i \in Issues \cap stayed : \E f \in WD!AllIssues : f.ref = i
<1>1. /\ bundles \in [WD!Repos -> [issues : SUBSET Found, prs : SUBSET Pulls, merges : Seq(Merge)]]
      /\ stayed \subseteq WD!Refs
  BY DEF WDInv, ScanTypes, HistoryInv
<1>2. LinksInv /\ SeenInv /\ WholeInv
  BY DEF WDInv
<1>3. \A r \in WD!Repos : bundles[r].issues \subseteq Found /\ bundles[r].prs \subseteq Pulls
  BY <1>1
<1>4. WD!AllIssues \subseteq Found
  BY <1>3 DEF WD!AllIssues
<1>5. WD!OpenRefs \subseteq WD!Refs
  BY <1>3, <1>4 DEF WD!OpenRefs, Found, WD!Refs
<1>6. WD!OpenRefs \cap stayedShut = {}
  BY <1>2 DEF WD!OpenRefs, SeenInv, WD!AllIssues
<1>7. \A i \in WD!AllIssues : linked[i.ref] \subseteq i.blockers
  BY <1>2 DEF LinksInv, WD!AllIssues
<1>8. \A r \in WD!Repos : IssuesRead(r) /\ PullsRead(r)
  <2> TAKE r \in WD!Repos
  <2>1. PICK k \in 1 .. Len(Scanned) : Scanned[k] = r
    BY DEF WD!Repos, WD!Range, WorldOK
  <2> QED BY <2>1 DEF IssuesRead, PullsRead
<1>9. \A ref \in WD!Refs : WD!Repo(ref) \in WD!Repos
  BY DEF WorldOK, WD!Repo
<1>10. ASSUME ~truncated, NEW i \in Issues \cap stayed PROVE \E f \in WD!AllIssues : f.ref = i
  <2>1. WD!Repo(i) \in WD!Repos
    BY <1>1, <1>9
  <2>2. \E f \in bundles[WD!Repo(i)].issues : f.ref = i
    BY <1>2, <1>8, <1>10, <2>1 DEF WholeInv
  <2> QED BY <2>1, <2>2 DEF WD!AllIssues
<1>11. ASSUME ~truncated, NEW p \in Pulls \cap stayed PROVE p \in WD!OpenRefs
  <2>1. WD!Repo(p) \in WD!Repos
    BY <1>1, <1>9
  <2>2. p \in bundles[WD!Repo(p)].prs
    BY <1>2, <1>8, <1>11, <2>1 DEF WholeInv
  <2> QED BY <2>1, <2>2 DEF WD!OpenRefs
<1>12. ~truncated => stayed \subseteq WD!OpenRefs
  <2> SUFFICES ASSUME ~truncated, NEW ref \in stayed PROVE ref \in WD!OpenRefs
    OBVIOUS
  <2>1. ref \in Issues \/ ref \in Pulls
    BY <1>1 DEF WD!Refs
  <2>2. CASE ref \in Issues
    <3>1. \E f \in WD!AllIssues : f.ref = ref
      BY <1>10, <2>2
    <3> QED BY <3>1 DEF WD!OpenRefs
  <2>3. CASE ref \in Pulls
    BY <1>11, <2>3
  <2> QED BY <2>1, <2>2, <2>3
<1> QED BY <1>4, <1>5, <1>6, <1>7, <1>10, <1>12

LEMMA RankWD == ASSUME WorldOK, WDInv, WD!Rank PROVE WDInv'
<1> DEFINE n == Cardinality(WD!Candidates)
           m == IF n < TopN THEN n ELSE TopN
           top == SubSeq(WD!Ranking, 1, m)
           excluded == {i \in WD!AllIssues : WD!Blocked(i)}
           cut == (Issues \cap stayed) \ {i.ref : i \in WD!Range(top) \cup excluded}
<1>1. WD!AllIssues \subseteq Found
  BY ScanIsDone DEF WD!Rank
<1>2. n \in Nat /\ TopN \in Nat \ {0}
  BY <1>1, CandidatesFinite DEF WorldOK
<1>3. m \in Nat /\ m <= n /\ (m = 0 => n = 0)
  <2> HIDE DEF n
  <2> QED BY <1>2
<1>4. WD!Ranking \in [1 .. n -> WD!Candidates] /\ \A c \in WD!Candidates : \E k \in 1 .. n : WD!Ranking[k] = c
  BY <1>1, RankingIs
<1>5. WD!Ranking \in Seq(WD!Candidates) /\ Len(WD!Ranking) = n
  <2> HIDE DEF n
  <2> QED BY <1>2, <1>4
<1>6. /\ stage = "rank" /\ stage' = "done"
      /\ report' = [top |-> top, dropped |-> Len(WD!Ranking) - Len(top), excluded |-> excluded]
      /\ exit' = IF top = <<>> THEN "no candidates" ELSE "candidates found"
      /\ stayed' = stayed /\ stayedShut' = stayedShut /\ linked' = linked
      /\ truncated' = truncated /\ bundles' = bundles /\ repo' = repo
      /\ open' = open /\ blockers' = blockers /\ held' = held /\ merges' = merges
  <2> DEFINE size == IF Len(WD!Ranking) < TopN THEN Len(WD!Ranking) ELSE TopN
             best == SubSeq(WD!Ranking, 1, size)
  <2>1. /\ stage = "rank" /\ stage' = "done"
        /\ report' = [top |-> best, dropped |-> Len(WD!Ranking) - Len(best), excluded |-> excluded]
        /\ exit' = IF best = <<>> THEN "no candidates" ELSE "candidates found"
        /\ UNCHANGED <<WD!world, repo, bundles, truncated, changes, WD!history>>
    BY DEF WD!Rank
  <2>2. size = m
    BY <1>5
  <2>3. best = top
    BY <2>2
  <2> HIDE DEF size, best, top, excluded
  <2> QED BY <2>1, <2>3 DEF WD!world, WD!history
<1> HIDE DEF n, m
<1>7. /\ Len(top) = m /\ top \in Seq(WD!Candidates)
      /\ \A k \in 1 .. m : top[k] = WD!Ranking[k]
  <2>1. \A k \in 1 .. m : WD!Ranking[k] \in WD!Candidates
    BY <1>2, <1>3, <1>4
  <2>2. /\ SubSeq(WD!Ranking, 1, m) \in Seq(WD!Candidates)
        /\ Len(SubSeq(WD!Ranking, 1, m)) = IF 1 <= m THEN m - 1 + 1 ELSE 0
        /\ \A k \in 1 .. m - 1 + 1 : SubSeq(WD!Ranking, 1, m)[k] = WD!Ranking[1 + k - 1]
    BY <1>3, <2>1, SubSeqProperties
  <2>3. \A k \in 1 .. m : 1 + k - 1 = k
    OBVIOUS
  <2> QED BY <1>3, <2>2, <2>3
<1> HIDE DEF top
<1>8. WD!Range(top) = {WD!Ranking[k] : k \in 1 .. m}
  BY <1>3, <1>7 DEF WD!Range
<1>9. /\ WD!OpenRefs \subseteq WD!Refs /\ WD!OpenRefs \cap stayedShut = {}
      /\ \A i \in WD!AllIssues : linked[i.ref] \subseteq i.blockers
      /\ ~truncated => stayed \subseteq WD!OpenRefs
      /\ ~truncated => \A i \in Issues \cap stayed : \E f \in WD!AllIssues : f.ref = i
  BY <1>6, ScanIsDone
(* Nothing blocked is proposed. *)
<1>10. ASSUME ~truncated, NEW c \in WD!Range(top) PROVE linked[c.ref] \cap stayed = {}
  <2>1. c \in WD!Candidates
    BY <1>7, <1>10 DEF WD!Range
  <2>2. PICK i \in WD!AllIssues : ~WD!Blocked(i) /\ c = WD!Candidate(i)
    BY <2>1 DEF WD!Candidates
  <2>3. c.ref = i.ref /\ i.blockers \cap WD!OpenRefs = {}
    BY <2>2 DEF WD!Candidate, WD!Blocked, WD!OpenBlocking
  <2> QED BY <1>9, <1>10, <2>2, <2>3
(* Nothing free is excluded. *)
<1>11. ASSUME NEW i \in excluded PROVE i.held \/ i.blockers \ (stayedShut \cup Outside) # {}
  <2>1. i \in WD!AllIssues /\ (i.held \/ i.blockers \cap WD!OpenRefs # {})
    BY <1>11 DEF WD!Blocked, WD!OpenBlocking
  <2>2. Outside \cap WD!Refs = {}
    BY DEF WorldOK
  <2> QED BY <1>9, <2>1, <2>2
(* What was cut off is counted. *)
<1>12. ASSUME ~truncated, NEW ref \in cut
       PROVE  \E k \in m + 1 .. n : WD!Ranking[k].ref = ref
  <2>1. PICK i \in WD!AllIssues : i.ref = ref
    BY <1>9, <1>12
  <2>2. ~WD!Blocked(i)
    BY <1>12, <2>1
  <2>3. WD!Candidate(i) \in WD!Candidates /\ WD!Candidate(i).ref = ref
    BY <2>1, <2>2 DEF WD!Candidates, WD!Candidate
  <2>4. PICK k \in 1 .. n : WD!Ranking[k] = WD!Candidate(i)
    BY <1>4, <2>3
  <2>5. k \notin 1 .. m
    <3> SUFFICES ASSUME k \in 1 .. m PROVE FALSE
      OBVIOUS
    <3>1. WD!Ranking[k] \in WD!Range(top)
      BY <1>8
    <3>2. ref \in {c.ref : c \in WD!Range(top) \cup excluded}
      BY <2>3, <2>4, <3>1
    <3> QED BY <1>12, <3>2
  <2>6. k \in m + 1 .. n
    BY <1>2, <1>3, <2>5
  <2> QED BY <2>3, <2>4, <2>6
<1> HIDE DEF cut
<1>13. ASSUME ~truncated PROVE Cardinality(cut) <= n - m
  <2> DEFINE f == [ref \in cut |-> CHOOSE k \in m + 1 .. n : WD!Ranking[k].ref = ref]
  <2>1. \A ref \in cut : f[ref] \in m + 1 .. n /\ WD!Ranking[f[ref]].ref = ref
    BY <1>12, <1>13
  <2>2. f \in [cut -> m + 1 .. n]
    BY <2>1
  <2> HIDE DEF f
  <2>3. f \in Injection(cut, m + 1 .. n)
    BY <2>1, <2>2 DEF Injection, IsInjective
  <2>4. IsFiniteSet(m + 1 .. n) /\ Cardinality(m + 1 .. n) = n - m
    <3>1. /\ IsFiniteSet(m + 1 .. n)
          /\ Cardinality(m + 1 .. n) = IF m + 1 > n THEN 0 ELSE n - (m + 1) + 1
      BY <1>2, <1>3, FS_Interval
    <3> QED BY <1>2, <1>3, <3>1
  <2> QED BY <2>3, <2>4, FS_Injection
<1>14. ASSUME ~truncated, top = <<>> PROVE cut = {}
  <2>1. Len(top) = 0
    BY <1>14
  <2>2. n = 0
    BY <1>3, <1>7, <2>1
  <2> QED BY <1>3, <1>12, <1>14, <2>2
<1>15. WD!TriageIsTrue'
  <2> SUFFICES ASSUME ~truncated
               PROVE  /\ \A i \in WD!Range(report'.top) : ~(linked'[i.ref] \cap stayed' # {})
                      /\ \A i \in report'.excluded : i.held \/ i.blockers \ (stayedShut' \cup Outside) # {}
                      /\ Cardinality((Issues \cap stayed') \ {i.ref : i \in WD!Range(report'.top) \cup report'.excluded})
                           <= report'.dropped
                      /\ exit' = "no candidates" =>
                           Issues \cap stayed' \subseteq {i.ref : i \in WD!Range(report'.top) \cup report'.excluded}
    BY <1>6, CountsAgree DEF WD!TriageIsTrue, WD!StillBlocked, WD!MayBeBlocked, WD!Listed
  <2>1. report'.top = top /\ report'.excluded = excluded /\ report'.dropped = n - m
    BY <1>5, <1>6, <1>7
  <2>2. exit' = "no candidates" => top = <<>>
    BY <1>6
  <2> HIDE DEF excluded
  <2>3. \A c \in WD!Range(top) : ~(linked[c.ref] \cap stayed # {})
    BY <1>10
  <2>4. \A i \in excluded : i.held \/ i.blockers \ (stayedShut \cup Outside) # {}
    BY <1>11
  <2>5. Cardinality((Issues \cap stayed) \ {i.ref : i \in WD!Range(top) \cup excluded}) <= n - m
    BY <1>13 DEF cut
  <2>6. exit' = "no candidates" => Issues \cap stayed \subseteq {i.ref : i \in WD!Range(top) \cup excluded}
    BY <1>14, <2>2 DEF cut
  <2> QED BY <1>6, <2>1, <2>3, <2>4, <2>5, <2>6
<1>16. ScanTypes' /\ HistoryInv'
  BY <1>6 DEF WDInv, ScanTypes, HistoryInv
<1> QED BY <1>6, <1>15, <1>16 DEF WDInv

-----------------------------------------------------------------------------
LEMMA WDInvariance == ASSUME WorldOK PROVE WD!Spec => []WDInv
<1>1. ASSUME WD!Init PROVE WDInv
  <2>1. ScanTypes
    <3>1. 1 \in 1 .. Len(Scanned)
      BY DEF WorldOK
    <3>2. <<>> \in Seq(Merge)
      OBVIOUS
    <3>3. bundles \in [WD!Repos -> [issues : SUBSET Found, prs : SUBSET Pulls, merges : Seq(Merge)]]
      BY <1>1, <3>2 DEF WD!Init, WD!NoFetch
    <3>4. merges \in [WD!Repos -> Seq(Merge)]
      BY <1>1, <3>2 DEF WD!Init
    <3>5. blockers \in [Issues -> SUBSET (WD!Refs \cup Outside)]
      BY <1>1 DEF WD!Init
    <3> QED BY <1>1, <3>1, <3>3, <3>4, <3>5 DEF ScanTypes, WD!Init
  <2>2. HistoryInv
    BY <1>1, <2>1 DEF WD!Init, HistoryInv, ScanTypes
  <2>3. LinksInv /\ SeenInv
    BY <1>1 DEF WD!Init, WD!NoFetch, LinksInv, SeenInv
  <2>4. WholeInv
    <3>1. \A r \in WD!Repos : ~IssuesRead(r) /\ ~PullsRead(r)
      BY <1>1 DEF WD!Init, IssuesRead, PullsRead
    <3> QED BY <3>1 DEF WholeInv
  <2>5. WD!TriageIsTrue
    BY <1>1 DEF WD!Init, WD!TriageIsTrue
  <2> QED BY <2>1, <2>2, <2>3, <2>4, <2>5 DEF WDInv
<1>2. ASSUME WDInv, [WD!Next]_WD!vars PROVE WDInv'
  <2>1. ASSUME NEW p \in Pulls, NEW closed \in SUBSET Issues, NEW mentioned \in SUBSET Issues,
               WD!MergePull(p, closed, mentioned)
        PROVE  WDInv'
    BY <1>2, <2>1, MergePullWD
  <2>2. ASSUME NEW ref \in WD!Refs, WD!CloseOrReopen(ref) PROVE WDInv'
    BY <1>2, <2>2, CloseOrReopenWD
  <2>3. ASSUME NEW i \in Issues, NEW ref \in WD!Refs, WD!EditBlockers(i, ref) PROVE WDInv'
    BY <1>2, <2>3, EditBlockersWD
  <2>4. CASE WD!FetchIssues
    BY <1>2, <2>4, FetchIssuesWD
  <2>5. CASE WD!FetchPulls
    BY <1>2, <2>5, FetchPullsWD
  <2>6. CASE WD!FetchMerges
    BY <1>2, <2>6, FetchMergesWD
  <2>7. CASE WD!FetchFails
    BY <1>2, <2>7, FetchFailsWD
  <2>8. CASE WD!Rank
    BY <1>2, <2>8, RankWD
  <2>9. CASE UNCHANGED WD!vars
    <3>1. /\ ScanTypes' /\ HistoryInv' /\ WD!TriageIsTrue'
      BY <1>2, <2>9 DEF WD!vars, WDInv, ScanTypes, HistoryInv, WD!TriageIsTrue, WD!StillBlocked, WD!MayBeBlocked, WD!Listed
    <3>2. LinksInv' = LinksInv /\ SeenInv' = SeenInv /\ WholeInv' = WholeInv
      BY <2>9 DEF WD!vars, LinksInv, SeenInv, WholeInv, IssuesRead, PullsRead
    <3> QED BY <1>2, <2>9, <3>1, <3>2 DEF WDInv, WD!vars
  <2> QED BY <1>2, <2>1, <2>2, <2>3, <2>4, <2>5, <2>6, <2>7, <2>8, <2>9 DEF WD!Next
<1> QED BY <1>1, <1>2, PTL DEF WD!Spec

(* What a scan says is true, for any repositories, limits and changes      *)
(* during the scan: nothing that something open blocked all through is     *)
(* proposed, nothing that was free all through is excluded, and what was   *)
(* open all through is proposed, excluded or counted as cut off, unless a  *)
(* list reached its limit.                                                 *)
THEOREM TriageSaysTheTruth == ASSUME WorldOK PROVE WD!Spec => []WD!TriageIsTrue
<1>1. WDInv => WD!TriageIsTrue
  BY DEF WDInv
<1> QED BY <1>1, WDInvariance, PTL
-----------------------------------------------------------------------------
(* The drift check and the sweep                                           *)


Drift == UK!Drifted(status, note, waited)

(* The scan: what has lasted so far is drift now, the classes that are     *)
(* done have reported theirs, and the rows of the one it is at hold its.   *)
ScanInv ==
    /\ scan.at = 0 => lasting = {}
    /\ lasting \subseteq Drift
    /\ scan.at # 0 => \A t \in Tasks : <<"queued_stale", t>> \in lasting
                                         => <<"queued_stale", t>> \in scan.report
    /\ \A i \in 1 .. 3, t \in Tasks :
           i < scan.at /\ <<UK!Order[i], t>> \in lasting => <<UK!Order[i], t>> \in scan.report
    /\ scan.read => /\ scan.at \in 1 .. 3
                    /\ \A t \in Tasks : <<UK!Order[scan.at], t>> \in lasting => t \in scan.rows

(* The sweep: what has been visible since it began has an item that has    *)
(* not ended among those that it read.                                     *)
SweepInv ==
    /\ \A t \in DOMAIN sweep.items : sweep.items[t] \in {"IN_PROGRESS", "REVIEW"}
    /\ steady \subseteq DOMAIN sweep.items
    /\ swept = {}

UKInv == UK!TypeOK /\ ScanInv /\ SweepInv

(* The four classes and their order.                                       *)
LEMMA OrderIs ==
    /\ UK!Order[1] = "live_run_missing_worker_file"
    /\ UK!Order[2] = "completed_run_worker_file_present"
    /\ UK!Order[3] = "terminal_nonarchived_worker_file"
    /\ \A i \in 1 .. 3 : i = 1 \/ i = 2 \/ i = 3
    /\ \A i, j \in 1 .. 3 : UK!Order[i] = UK!Order[j] => i = j
    /\ \A i \in 1 .. 3 : UK!Order[i] \in UK!Classes /\ UK!Order[i] # "queued_stale"
<1>1. /\ UK!Order[1] = "live_run_missing_worker_file"
      /\ UK!Order[2] = "completed_run_worker_file_present"
      /\ UK!Order[3] = "terminal_nonarchived_worker_file"
  BY DEF UK!Order
<1>2. \A i \in 1 .. 3 : i = 1 \/ i = 2 \/ i = 3
  OBVIOUS
<1> QED BY <1>1, <1>2 DEF UK!Classes

LEMMA DriftIs ==
    \A c, t : <<c, t>> \in Drift <=>
        /\ t \in Tasks
        /\ \/ c = "queued_stale" /\ status[t] = "queued" /\ waited[t]
           \/ c = UK!Order[1] /\ status[t] \in UK!Visible /\ note[t] # "live"
           \/ c = UK!Order[2] /\ status[t] = "completed" /\ note[t] = "live"
           \/ c = UK!Order[3] /\ status[t] \in {"failed", "abandoned"} /\ note[t] = "live"
BY OrderIs DEF Drift, UK!Drifted

LEMMA DriftHasClass ==
    ASSUME NEW d \in Drift
    PROVE  \E t \in Tasks : d = <<"queued_stale", t>> \/ \E i \in 1 .. 3 : d = <<UK!Order[i], t>>
<1>1. \E t \in Tasks : \/ d = <<"queued_stale", t>> \/ d = <<UK!Order[1], t>>
                       \/ d = <<UK!Order[2], t>> \/ d = <<UK!Order[3], t>>
  BY OrderIs DEF Drift, UK!Drifted
<1> QED BY <1>1

(* What the system changes is followed.                                    *)
LEMMA FollowInv ==
    ASSUME UKInv, UK!Follow, scan' = scan, sweep'.items = sweep.items, swept' = swept
    PROVE  ScanInv' /\ SweepInv'
<1>1. /\ lasting' \subseteq lasting /\ lasting' \subseteq Drift'
      /\ scan.at = 0 => lasting' = {}
      /\ steady' \subseteq steady
  BY DEF UK!Follow, Drift
<1>2. ScanInv'
  BY <1>1 DEF UKInv, ScanInv
<1>3. SweepInv'
  BY <1>1 DEF UKInv, SweepInv
<1> QED BY <1>2, <1>3

(* What changes neither the runs nor the notes leaves the drift.           *)
LEMMA SameDrift ==
    ASSUME status' = status, note' = note, waited' = waited
    PROVE  Drift' = Drift
BY DEF Drift

LEMMA SetRunStatusInv == ASSUME UKInv, NEW t \in Tasks, UK!SetStatus(t) PROVE UKInv'
<1>1. /\ scan' = scan /\ sweep' = sweep /\ swept' = swept /\ UK!Follow /\ old' = old
      /\ commits < MaxCommits /\ commits' = commits + 1 /\ waited' = [waited EXCEPT ![t] = FALSE]
  BY DEF UK!SetStatus
<1>2. PICK s \in UK!Statuses \ {status[t]}, renders \in BOOLEAN, archives \in BOOLEAN :
        /\ status' = [status EXCEPT ![t] = s]
        /\ items' = IF renders THEN UK!Rendered(status') ELSE items
        /\ note' = IF s = "completed" /\ archives /\ note[t] = "live"
                   THEN [note EXCEPT ![t] = "archived"] ELSE note
  BY DEF UK!SetStatus
<1>3. UK!TypeOK'
  <2>1. status' \in [Tasks -> UK!Statuses \cup {"none"}] /\ waited' \in [Tasks -> BOOLEAN]
    BY <1>1, <1>2 DEF UKInv, UK!TypeOK
  <2>2. note' \in [Tasks -> {"none", "live", "archived"}]
    BY <1>2 DEF UKInv, UK!TypeOK
  <2>3. \A u \in Tasks : waited'[u] => status'[u] = "queued"
    BY <1>1, <1>2 DEF UKInv, UK!TypeOK
  <2>4. DOMAIN items' \subseteq Tasks /\ \A u \in DOMAIN items' : items'[u] \in {"IN_PROGRESS", "REVIEW"}
    BY <1>2 DEF UKInv, UK!TypeOK, UK!Rendered
  <2>5. commits' \in Nat
    BY <1>1 DEF UKInv, UK!TypeOK
  <2> QED BY <1>1, <2>1, <2>2, <2>3, <2>4, <2>5 DEF UKInv, UK!TypeOK
<1> QED BY <1>1, <1>3, FollowInv DEF UKInv

LEMMA WriteNoteInv == ASSUME UKInv, NEW t \in Tasks, UK!WriteNote(t) PROVE UKInv'
<1>1. UK!TypeOK'
  BY DEF UKInv, UK!TypeOK, UK!WriteNote
<1> QED BY <1>1, FollowInv DEF UKInv, UK!WriteNote

LEMMA TimePassesInv == ASSUME UKInv, NEW t \in Tasks, UK!TimePasses(t) PROVE UKInv'
<1>1. UK!TypeOK'
  <2>1. /\ waited' \in [Tasks -> BOOLEAN] /\ old' \in [Tasks -> BOOLEAN]
        /\ \A u \in Tasks : waited'[u] => status[u] = "queued"
    BY DEF UKInv, UK!TypeOK, UK!TimePasses
  <2> QED BY <2>1 DEF UKInv, UK!TypeOK, UK!TimePasses
<1> QED BY <1>1, FollowInv DEF UKInv, UK!TimePasses

LEMMA ScanStartInv == ASSUME UKInv, UK!ScanStart PROVE UKInv'
<1>1. /\ scan' = [at |-> 1, rows |-> {}, read |-> FALSE, report |->
                   {<<"queued_stale", t>> : t \in {t \in Tasks : status[t] = "queued" /\ waited[t]}}]
      /\ lasting' = Drift /\ Drift' = Drift
      /\ UNCHANGED <<status, waited, note, old, items, sweep, commits, steady, swept>>
  BY SameDrift DEF UK!ScanStart, Drift
<1>2. UK!TypeOK'
  <2>1. scan'.report \in SUBSET (UK!Classes \X Tasks)
    BY <1>1 DEF UK!Classes
  <2>2. scan' \in [at : 0 .. 4, rows : SUBSET Tasks, read : BOOLEAN,
                   report : SUBSET (UK!Classes \X Tasks)]
    BY <1>1, <2>1
  <2> QED BY <1>1, <2>2 DEF UKInv, UK!TypeOK
<1>3. ScanInv'
  <2>1. \A t \in Tasks : <<"queued_stale", t>> \in lasting' => <<"queued_stale", t>> \in scan'.report
    BY <1>1, DriftIs, OrderIs
  <2> QED BY <1>1, <2>1 DEF ScanInv
<1>4. SweepInv'
  BY <1>1 DEF UKInv, SweepInv
<1> QED BY <1>2, <1>3, <1>4 DEF UKInv

(* The rows of a class hold every run with a drift of the class.           *)
LEMMA RowsHoldDrift ==
    ASSUME NEW i \in 1 .. 3, NEW t \in Tasks, <<UK!Order[i], t>> \in Drift
    PROVE  t \in UK!Rows(UK!Order[i])
<1>1. \/ UK!Order[i] = UK!Order[1] /\ status[t] \in UK!Visible
      \/ UK!Order[i] = UK!Order[2] /\ status[t] = "completed"
      \/ UK!Order[i] = UK!Order[3] /\ status[t] \in {"failed", "abandoned"}
  BY DriftIs, OrderIs
<1> QED BY <1>1, OrderIs DEF UK!Rows

(* What drifts and is in the rows is found when the files are looked at.   *)
LEMMA FoundIfDrifted ==
    ASSUME NEW i \in 1 .. 3, NEW t \in Tasks, <<UK!Order[i], t>> \in Drift,
           NEW rows, t \in rows
    PROVE  <<UK!Order[i], t>> \in UK!Found(UK!Order[i], rows)
<1>1. (note[t] = "live") = (UK!Order[i] # "live_run_missing_worker_file")
  BY DriftIs, OrderIs
<1> QED BY <1>1 DEF UK!Found

LEMMA ScanRowsInv == ASSUME UKInv, UK!ScanRows PROVE UKInv'
<1>1. /\ scan.at \in 1 .. 3 /\ scan' = [scan EXCEPT !.rows = UK!Rows(UK!Order[scan.at]), !.read = TRUE]
      /\ UNCHANGED <<status, waited, note, old, items, sweep, commits, lasting, steady, swept>>
  BY DEF UK!ScanRows
<1>2. UK!Rows(UK!Order[scan.at]) \subseteq Tasks
  BY DEF UK!Rows
<1>3. UK!TypeOK'
  BY <1>1, <1>2 DEF UKInv, UK!TypeOK
<1>4. /\ scan'.at = scan.at /\ scan'.report = scan.report /\ scan'.rows = UK!Rows(UK!Order[scan.at])
      /\ Drift' = Drift
  BY <1>1, SameDrift DEF UKInv, UK!TypeOK
<1>5. \A t \in Tasks : <<UK!Order[scan.at], t>> \in lasting => t \in UK!Rows(UK!Order[scan.at])
  BY <1>1, RowsHoldDrift DEF UKInv, ScanInv
<1>6. ScanInv'
  BY <1>1, <1>4, <1>5 DEF UKInv, ScanInv
<1>7. SweepInv'
  BY <1>1 DEF UKInv, SweepInv
<1> QED BY <1>3, <1>6, <1>7 DEF UKInv

LEMMA ScanFilesInv == ASSUME UKInv, UK!ScanFiles PROVE UKInv'
<1> DEFINE found == UK!Found(UK!Order[scan.at], scan.rows)
<1>1. /\ scan.read
      /\ scan' = [scan EXCEPT !.report = scan.report \cup found,
                              !.at = scan.at + 1, !.rows = {}, !.read = FALSE]
      /\ UNCHANGED <<status, waited, note, old, items, sweep, commits, lasting, steady, swept>>
  BY DEF UK!ScanFiles
<1>2. scan.at \in 1 .. 3 /\ scan.rows \in SUBSET Tasks
  BY <1>1 DEF UKInv, ScanInv, UK!TypeOK
<1>3. found \in SUBSET (UK!Classes \X Tasks)
  BY <1>2, OrderIs DEF UK!Found
<1>4. /\ scan'.report = scan.report \cup found /\ scan'.at = scan.at + 1 /\ ~scan'.read
      /\ Drift' = Drift
  BY <1>1, SameDrift DEF UKInv, UK!TypeOK
<1>5. UK!TypeOK'
  <2>1. scan' \in [at : 0 .. 4, rows : SUBSET Tasks, read : BOOLEAN,
                   report : SUBSET (UK!Classes \X Tasks)]
    <3>1. scan \in [at : 0 .. 4, rows : SUBSET Tasks, read : BOOLEAN,
                    report : SUBSET (UK!Classes \X Tasks)]
      BY DEF UKInv, UK!TypeOK
    <3>2. scan.at + 1 \in 0 .. 4 /\ scan.report \cup found \in SUBSET (UK!Classes \X Tasks)
      BY <1>2, <1>3, <3>1
    <3> HIDE DEF found
    <3> QED BY <1>1, <3>1, <3>2
  <2> QED BY <1>1, <2>1 DEF UKInv, UK!TypeOK
<1>6. \A t \in Tasks : <<UK!Order[scan.at], t>> \in lasting => <<UK!Order[scan.at], t>> \in found
  <2> SUFFICES ASSUME NEW t \in Tasks, <<UK!Order[scan.at], t>> \in lasting
               PROVE  <<UK!Order[scan.at], t>> \in found
    OBVIOUS
  <2>1. t \in scan.rows /\ <<UK!Order[scan.at], t>> \in Drift
    BY <1>1 DEF UKInv, ScanInv
  <2> QED BY <1>2, <2>1, FoundIfDrifted
<1> HIDE DEF found
<1>7. \A i \in 1 .. 3, t \in Tasks :
        i < scan.at + 1 /\ <<UK!Order[i], t>> \in lasting => <<UK!Order[i], t>> \in scan'.report
  <2> SUFFICES ASSUME NEW i \in 1 .. 3, NEW t \in Tasks, i < scan.at + 1,
                      <<UK!Order[i], t>> \in lasting
               PROVE  <<UK!Order[i], t>> \in scan'.report
    OBVIOUS
  <2>1. i < scan.at \/ i = scan.at
    BY <1>2
  <2> QED BY <1>4, <1>6, <2>1 DEF UKInv, ScanInv
<1>8. ScanInv'
  BY <1>1, <1>2, <1>4, <1>7 DEF UKInv, ScanInv
<1>9. SweepInv'
  BY <1>1 DEF UKInv, SweepInv
<1> QED BY <1>5, <1>8, <1>9 DEF UKInv

LEMMA ScanPrintsInv == ASSUME UKInv, UK!ScanPrints PROVE UKInv'
<1>1. /\ scan' = [at |-> 0, rows |-> {}, read |-> FALSE, report |-> {}] /\ lasting' = {}
      /\ UNCHANGED <<status, waited, note, old, items, sweep, commits, steady, swept>>
  BY DEF UK!ScanPrints, UK!NoScan
<1>2. UK!TypeOK'
  BY <1>1 DEF UKInv, UK!TypeOK
<1>3. ScanInv'
  BY <1>1 DEF ScanInv
<1>4. SweepInv'
  BY <1>1 DEF UKInv, SweepInv
<1> QED BY <1>2, <1>3, <1>4 DEF UKInv

LEMMA SweepStartInv == ASSUME UKInv, NEW orphans \in BOOLEAN, UK!SweepStart(orphans) PROVE UKInv'
<1>1. /\ sweep' = [on |-> TRUE, orphans |-> orphans, items |-> items,
                   todo |-> {t \in Tasks : note[t] = "live"}]
      /\ steady' = UK!Steady(status, items)
      /\ UNCHANGED <<status, waited, note, old, items, scan, commits, lasting, swept>>
  BY DEF UK!SweepStart
<1>2. sweep'.on = TRUE /\ sweep'.items = items /\ sweep'.todo \subseteq Tasks
  BY <1>1
<1>3. UK!TypeOK'
  BY <1>1, <1>2 DEF UKInv, UK!TypeOK
<1>4. ScanInv'
  BY <1>1, SameDrift DEF UKInv, ScanInv
<1>5. SweepInv'
  BY <1>1, <1>2 DEF UKInv, SweepInv, UK!TypeOK, UK!Steady
<1> QED BY <1>3, <1>4, <1>5 DEF UKInv

LEMMA SweepOneInv == ASSUME UKInv, NEW t \in Tasks, UK!SweepOne(t) PROVE UKInv'
<1>1. /\ note' = IF UK!Stale(t) THEN [note EXCEPT ![t] = "archived"] ELSE note
      /\ swept' = IF UK!Stale(t) /\ t \in steady THEN swept \cup {t} ELSE swept
      /\ sweep' = [sweep EXCEPT !.todo = sweep.todo \ {t}]
      /\ UNCHANGED <<status, waited, old, items, scan, commits>> /\ UK!Follow
  BY DEF UK!SweepOne
<1>2. ~(UK!Stale(t) /\ t \in steady)
  BY DEF UKInv, SweepInv, UK!Stale
<1>3. swept' = swept /\ sweep'.items = sweep.items
  BY <1>1, <1>2
<1>4. UK!TypeOK'
  <2>1. note' \in [Tasks -> {"none", "live", "archived"}]
    BY <1>1 DEF UKInv, UK!TypeOK
  <2>2. sweep'.todo \subseteq Tasks /\ sweep'.on \in BOOLEAN
    BY <1>1 DEF UKInv, UK!TypeOK
  <2> QED BY <1>1, <2>1, <2>2 DEF UKInv, UK!TypeOK
<1> QED BY <1>1, <1>3, <1>4, FollowInv DEF UKInv

LEMMA SweepEndsInv == ASSUME UKInv, UK!SweepEnds PROVE UKInv'
<1>1. /\ sweep' = [on |-> FALSE, orphans |-> FALSE, items |-> <<>>, todo |-> {}] /\ steady' = {}
      /\ UNCHANGED <<status, waited, note, old, items, scan, commits, lasting, swept>>
  BY DEF UK!SweepEnds, UK!NoSweep
<1>2. sweep'.on = FALSE /\ DOMAIN sweep'.items = {} /\ sweep'.todo = {}
  BY <1>1
<1>3. UK!TypeOK'
  BY <1>1, <1>2 DEF UKInv, UK!TypeOK
<1>4. ScanInv'
  BY <1>1, SameDrift DEF UKInv, ScanInv
<1>5. SweepInv'
  BY <1>1, <1>2 DEF UKInv, SweepInv
<1> QED BY <1>3, <1>4, <1>5 DEF UKInv

LEMMA UKInvariance == UK!Spec => []UKInv
<1>1. UK!Init => UKInv
  <2> SUFFICES ASSUME UK!Init PROVE UKInv
    OBVIOUS
  <2>1. /\ scan = [at |-> 0, rows |-> {}, read |-> FALSE, report |-> {}] /\ items = <<>>
        /\ sweep = [on |-> FALSE, orphans |-> FALSE, items |-> <<>>, todo |-> {}]
        /\ lasting = {} /\ steady = {} /\ swept = {} /\ commits = 0
    BY DEF UK!Init, UK!NoScan, UK!NoSweep
  <2>2. DOMAIN items = {} /\ DOMAIN sweep.items = {} /\ sweep.todo = {} /\ sweep.on = FALSE
    BY <2>1
  <2>3. UK!TypeOK
    <3>1. scan \in [at : 0 .. 4, rows : SUBSET Tasks, read : BOOLEAN,
                    report : SUBSET (UK!Classes \X Tasks)]
      BY <2>1
    <3>2. commits \in Nat
      BY <2>1
    <3> QED BY <2>2, <3>1, <3>2 DEF UK!Init, UK!TypeOK
  <2>4. ScanInv
    BY <2>1 DEF ScanInv
  <2>5. SweepInv
    BY <2>1, <2>2 DEF SweepInv
  <2> QED BY <2>3, <2>4, <2>5 DEF UKInv
<1>2. UKInv /\ [UK!Next]_UK!vars => UKInv'
  <2> SUFFICES ASSUME UKInv, [UK!Next]_UK!vars PROVE UKInv'
    OBVIOUS
  <2>1. CASE UK!Next
    BY <2>1, SetRunStatusInv, WriteNoteInv, TimePassesInv, ScanStartInv, ScanRowsInv, ScanFilesInv,
       ScanPrintsInv, SweepStartInv, SweepOneInv, SweepEndsInv DEF UK!Next
  <2>2. CASE UNCHANGED UK!vars
    BY <2>2 DEF UK!vars, UKInv, UK!TypeOK, ScanInv, SweepInv, Drift
  <2> QED BY <2>1, <2>2
<1> QED BY <1>1, <1>2, PTL DEF UK!Spec

(* A drift that is there from the beginning of the scan to its end is in   *)
(* its report, whatever the runs and the notes do between its reads        *)
(* (check_state_drift.py).                                                 *)
THEOREM LastingDriftShows == UK!Spec => []UK!LastingDriftIsReported
<1>1. UKInv => UK!LastingDriftIsReported
  <2> SUFFICES ASSUME UKInv, scan.at = 4, NEW d \in lasting PROVE d \in scan.report
    BY DEF UK!LastingDriftIsReported
  <2>1. PICK t \in Tasks : d = <<"queued_stale", t>> \/ \E i \in 1 .. 3 : d = <<UK!Order[i], t>>
    BY DriftHasClass DEF UKInv, ScanInv
  <2>2. CASE d = <<"queued_stale", t>>
    BY <2>2 DEF UKInv, ScanInv
  <2>3. ASSUME NEW i \in 1 .. 3, d = <<UK!Order[i], t>> PROVE d \in scan.report
    BY <2>3 DEF UKInv, ScanInv
  <2> QED BY <2>1, <2>2, <2>3
<1> QED BY <1>1, UKInvariance, PTL

(* The sweep archives no note of a run that could be seen in the database  *)
(* and in the file ever since the sweep began (sweep_stale_workers.py).    *)
THEOREM SweepSpares == UK!Spec => []UK!SweepSparesVisible
<1>1. UKInv => UK!SweepSparesVisible
  BY DEF UKInv, SweepInv, UK!SweepSparesVisible
<1> QED BY <1>1, UKInvariance, PTL
-----------------------------------------------------------------------------
(* The pruning of the settings                                             *)

PruningAt(pcs) == pruning.pc \in pcs
CurrentStep == Head(pruning.todo)
Subject == SP!FileOf(CurrentStep)

(* What is written over parses: a command has read it so, and nobody else  *)
(* tears a file.                                                           *)
FileInv ==
    /\ \A f \in SP!Files : "forbidden" \notin settings[f]
    /\ PruningAt({"backup", "truncate"}) => settings[Subject] # SP!Torn
    /\ PruningAt({"write"}) => settings[Subject] = SP!Torn

(* What is written has nothing forbidden, and what was added if it is read *)
(* with it.                                                                *)
TargetInv ==
    PruningAt({"backup", "truncate", "write"}) =>
        /\ "forbidden" \notin pruning.target
        /\ Subject = "user" /\ "added later" \in pruning.read => "added later" \in pruning.target

BackupInv ==
    /\ \A f \in SP!Files \ (clash \cup overtaken) : replaced[f] \subseteq SP!Backups(f)
    /\ \A f \in SP!Files : SP!Torn \notin replaced[f]
    /\ replaced \in [SP!Files -> SUBSET (SUBSET SP!AllEntries)]

(* What a command is about to write over, if it is what it has read, is in *)
(* a back-up.  An edit only adds: it does not bring back what was read.    *)
HeldInv ==
    /\ PruningAt({"backup", "truncate"}) => pruning.read \subseteq settings[Subject]
    /\ /\ PruningAt({"truncate"}) /\ pruning.keep /\ Subject \notin clash
       /\ settings[Subject] = pruning.read /\ settings[Subject] # SP!Absent
       => settings[Subject] \in SP!Backups(Subject)

EditInv ==
    edits # 0 /\ "user" \notin overtaken =>
        /\ "added later" \in settings["user"] \/ settings["user"] = SP!Torn
        /\ PruningAt({"write"}) /\ Subject = "user" => "added later" \in pruning.target

SPInv == SP!TypeOK /\ FileInv /\ TargetInv /\ BackupInv /\ HeldInv /\ EditInv

LEMMA Names ==
    /\ SP!Files = {"secretary", "dispatcher", "user"} /\ SP!Roles = {"secretary", "dispatcher"}
    /\ "forbidden" \notin SP!Torn /\ "added later" \notin SP!Torn /\ SP!Torn \subseteq SP!AllEntries
BY DEF SP!Files, SP!Roles, SP!Torn, SP!AllEntries

(* A command that runs is at a step on a file.                             *)
LEMMA AtAStep ==
    ASSUME SP!TypeOK, pruning.pc # "off"
    PROVE  /\ CurrentStep \in SP!StepNames /\ Subject \in SP!Files
           /\ Subject = "user" <=> CurrentStep \notin SP!Roles
           /\ settings[Subject] \in SUBSET SP!AllEntries /\ SP!Now = settings[Subject]
<1>1. pruning.todo \in Seq(SP!StepNames) /\ pruning.todo # <<>>
  BY DEF SP!TypeOK
<1>2. CurrentStep \in SP!StepNames
  BY <1>1 DEF CurrentStep
<1>3. Subject \in SP!Files /\ (Subject = "user" <=> CurrentStep \notin SP!Roles)
  BY <1>2, Names DEF Subject, SP!FileOf, SP!StepNames, SP!Roles
<1> QED BY <1>2, <1>3 DEF SP!TypeOK, SP!Now, CurrentStep, Subject

(* The back-ups stay when nothing is backed up.                            *)
LEMMA SameBackups ==
    ASSUME BackupInv, backup' = backup, replaced' = replaced, clash' = clash, overtaken' = overtaken
    PROVE  BackupInv'
BY DEF BackupInv, SP!Backups

(* Nothing is about to be written over.                                    *)
LEMMA NothingHeld ==
    ASSUME pruning'.pc \notin {"backup", "truncate"}
    PROVE  HeldInv'
BY DEF HeldInv, PruningAt

(* The end of a step: the next one is read, or the command is over.        *)
LEMMA PassedFacts ==
    ASSUME SP!TypeOK, pruning.pc # "off", NEW rc \in {0, 2}, pruning' = SP!Passed(rc)
    PROVE  /\ pruning' \in [todo : Seq(SP!StepNames),
                            pc : {"off", "read", "backup", "truncate", "write"},
                            path : BOOLEAN, keep : BOOLEAN, read : SUBSET SP!AllEntries,
                            target : SUBSET SP!AllEntries, rc : {0, 2}]
           /\ pruning'.pc # "off" => pruning'.todo # <<>>
           /\ pruning'.pc \in {"off", "read"}
<1> DEFINE pcNext == IF Len(pruning.todo) = 1 THEN "off" ELSE "read"
           rcNext == IF pruning.rc = 0 THEN rc ELSE pruning.rc
<1>1. pruning' = [pruning EXCEPT !.todo = Tail(pruning.todo), !.rc = rcNext, !.read = {}, !.target = {},
                                 !.pc = pcNext]
  BY DEF SP!Passed
<1>2. pruning.todo \in Seq(SP!StepNames) /\ pruning.todo # <<>>
  BY DEF SP!TypeOK
<1>3. /\ Tail(pruning.todo) \in Seq(SP!StepNames)
      /\ pcNext # "off" => Tail(pruning.todo) # <<>>
  <2>1. Len(pruning.todo) \in Nat /\ Len(pruning.todo) # 0
    BY <1>2
  <2>2. Tail(pruning.todo) \in Seq(SP!StepNames) /\ Len(Tail(pruning.todo)) = Len(pruning.todo) - 1
    BY <1>2
  <2>3. Len(pruning.todo) # 1 => Tail(pruning.todo) # <<>>
    <3>1. Len(<<>>) = 0
      OBVIOUS
    <3>2. Tail(pruning.todo) = <<>> => Len(pruning.todo) - 1 = 0
      BY <2>2, <3>1
    <3> QED BY <2>1, <3>2
  <2> QED BY <2>2, <2>3
<1>4. rcNext \in {0, 2} /\ pcNext \in {"off", "read"}
  BY DEF SP!TypeOK
<1> HIDE DEF pcNext, rcNext
<1>5. /\ pruning'.todo = Tail(pruning.todo) /\ pruning'.pc = pcNext
      /\ pruning' \in [todo : Seq(SP!StepNames),
                       pc : {"off", "read", "backup", "truncate", "write"},
                       path : BOOLEAN, keep : BOOLEAN, read : SUBSET SP!AllEntries,
                       target : SUBSET SP!AllEntries, rc : {0, 2}]
  BY <1>1, <1>3, <1>4 DEF SP!TypeOK
<1> QED BY <1>3, <1>4, <1>5

LEMMA RunCommandInv ==
    ASSUME SPInv, NEW roles \in SP!Steps, NEW user \in SP!UserSteps, NEW path \in BOOLEAN,
           NEW keep \in BOOLEAN, SP!Run(roles \o user, path, keep)
    PROVE  SPInv'
<1>1. /\ roles \o user # <<>> /\ prunings' = prunings + 1
      /\ pruning' = [SP!NoCommand EXCEPT !.todo = roles \o user, !.pc = "read", !.path = path, !.keep = keep]
      /\ UNCHANGED <<settings, override, asked, backup, second, edits, kills, replaced, clash, overtaken>>
  BY DEF SP!Run, SP!setting, SP!history
<1>2. roles \o user \in Seq(SP!StepNames)
  <2>1. {"secretary", "dispatcher", "sandbox", "allowlist"} \subseteq SP!StepNames
    BY DEF SP!StepNames, SP!Roles
  <2>2. roles = <<>> \/ roles = <<"secretary", "dispatcher">>
    BY DEF SP!Steps
  <2>3. roles \in Seq(SP!StepNames)
    <3>1. CASE roles = <<>>
      BY <3>1
    <3>2. CASE roles = <<"secretary", "dispatcher">>
      BY <2>1, <3>2
    <3> QED BY <2>2, <3>1, <3>2
  <2>4. user = <<>> \/ user = <<"sandbox">> \/ user = <<"allowlist">> \/ user = <<"sandbox", "allowlist">>
    BY DEF SP!UserSteps
  <2>5. user \in Seq(SP!StepNames)
    <3>1. CASE user = <<>>
      BY <3>1
    <3>2. CASE user = <<"sandbox">>
      BY <2>1, <3>2
    <3>3. CASE user = <<"allowlist">>
      BY <2>1, <3>3
    <3>4. CASE user = <<"sandbox", "allowlist">>
      BY <2>1, <3>4
    <3> QED BY <2>4, <3>1, <3>2, <3>3, <3>4
  <2> QED BY <2>3, <2>5
<1> DEFINE steps == roles \o user
<1> HIDE DEF steps
<1>3. /\ pruning' = [todo |-> steps, pc |-> "read", path |-> path, keep |-> keep,
                     read |-> {}, target |-> {}, rc |-> 0]
  BY <1>1 DEF steps, SP!NoCommand
<1>4. SP!TypeOK'
  <2>1. pruning' \in [todo : Seq(SP!StepNames), pc : {"off", "read", "backup", "truncate", "write"},
                      path : BOOLEAN, keep : BOOLEAN, read : SUBSET SP!AllEntries,
                      target : SUBSET SP!AllEntries, rc : {0, 2}]
    BY <1>2, <1>3 DEF steps
  <2>2. pruning'.todo # <<>> /\ prunings' \in Nat
    BY <1>1, <1>3 DEF steps, SPInv, SP!TypeOK
  <2> QED BY <1>1, <2>1, <2>2 DEF SPInv, SP!TypeOK
<1>5. ~PruningAt({"backup", "truncate"})' /\ ~PruningAt({"write"})' /\ ~PruningAt({"backup", "truncate", "write"})'
  BY <1>3 DEF PruningAt
<1>6. FileInv' /\ TargetInv' /\ EditInv'
  BY <1>1, <1>5 DEF SPInv, FileInv, TargetInv, EditInv
<1>7. BackupInv' /\ HeldInv'
  BY <1>1, <1>3, SameBackups, NothingHeld DEF SPInv
<1> QED BY <1>4, <1>6, <1>7 DEF SPInv

LEMMA StepEndsInv == ASSUME SPInv, SP!StepEnds PROVE SPInv'
<1>1. PICK rc \in {0, 2} : pruning' = SP!Passed(rc)
  BY DEF SP!StepEnds
<1>2. /\ pruning.pc = "read"
      /\ UNCHANGED <<settings, override, asked, backup, second, prunings, edits, kills,
                     replaced, clash, overtaken>>
  BY DEF SP!StepEnds, SP!setting, SP!bounds, SP!history
<1>3. SP!TypeOK' /\ pruning'.pc \in {"off", "read"}
  BY <1>1, <1>2, PassedFacts DEF SPInv, SP!TypeOK
<1>4. ~PruningAt({"backup", "truncate"})' /\ ~PruningAt({"write"})' /\ ~PruningAt({"backup", "truncate", "write"})'
  BY <1>3 DEF PruningAt
<1>5. FileInv' /\ TargetInv' /\ EditInv'
  BY <1>2, <1>4 DEF SPInv, FileInv, TargetInv, EditInv
<1>6. BackupInv' /\ HeldInv'
  BY <1>2, <1>3, SameBackups, NothingHeld DEF SPInv
<1> QED BY <1>3, <1>5, <1>6 DEF SPInv

LEMMA KillInv == ASSUME SPInv, SP!Kill PROVE SPInv'
<1>1. /\ pruning' = [todo |-> <<>>, pc |-> "off", path |-> FALSE, keep |-> FALSE,
                     read |-> {}, target |-> {}, rc |-> 0]
      /\ kills' = kills + 1
      /\ UNCHANGED <<settings, override, asked, backup, second, prunings, edits,
                     replaced, clash, overtaken>>
  BY DEF SP!Kill, SP!NoCommand, SP!setting, SP!history
<1>2. SP!TypeOK'
  <2>1. /\ pruning' \in [todo : Seq(SP!StepNames), pc : {"off", "read", "backup", "truncate", "write"},
                         path : BOOLEAN, keep : BOOLEAN, read : SUBSET SP!AllEntries,
                         target : SUBSET SP!AllEntries, rc : {0, 2}]
        /\ pruning'.pc = "off"
    BY <1>1
  <2>2. kills' \in Nat
    BY <1>1 DEF SPInv, SP!TypeOK
  <2> QED BY <1>1, <2>1, <2>2 DEF SPInv, SP!TypeOK
<1>3. ~PruningAt({"backup", "truncate"})' /\ ~PruningAt({"write"})' /\ ~PruningAt({"backup", "truncate", "write"})'
  BY <1>1 DEF PruningAt
<1>4. FileInv' /\ TargetInv' /\ EditInv'
  BY <1>1, <1>3 DEF SPInv, FileInv, TargetInv, EditInv
<1>5. BackupInv' /\ HeldInv'
  BY <1>1, SameBackups, NothingHeld DEF SPInv
<1> QED BY <1>2, <1>4, <1>5 DEF SPInv

(* The target of a step that is neither refused nor skipped.               *)
LEMMA TargetFacts ==
    ASSUME SPInv, pruning.pc = "read", ~SP!Refused(CurrentStep), ~SP!Skipped(CurrentStep)
    PROVE  /\ SP!Target(CurrentStep) \in SUBSET SP!AllEntries
           /\ SP!Now # SP!Torn
           /\ "forbidden" \notin SP!Target(CurrentStep)
           /\ Subject = "user" /\ "added later" \in SP!Now => "added later" \in SP!Target(CurrentStep)
<1>1. /\ CurrentStep \in SP!StepNames /\ Subject \in SP!Files
      /\ Subject = "user" <=> CurrentStep \notin SP!Roles
      /\ SP!Now \in SUBSET SP!AllEntries /\ SP!Now = settings[Subject]
  BY AtAStep DEF SPInv
<1>2. SP!Now # SP!Torn
  BY DEF SP!Refused, SP!RoleRefused
<1>3. "forbidden" \notin SP!Now
  BY <1>1 DEF SPInv, FileInv
<1>4. CASE CurrentStep \in SP!Roles
  <2>1. SP!Target(CurrentStep) = SP!RoleTarget(CurrentStep)
    BY <1>4 DEF SP!Target, SP!Roles
  <2>2. "forbidden" \notin override[CurrentStep] /\ override[CurrentStep] \in SUBSET SP!AllEntries
    BY <1>4 DEF SP!Refused, SP!RoleRefused, SPInv, SP!TypeOK
  <2>3. asked \in {"renga", "broker"}
    BY DEF SPInv, SP!TypeOK, SP!Transports
  <2>4. SP!RoleTarget(CurrentStep) \in SUBSET SP!AllEntries /\ "forbidden" \notin SP!RoleTarget(CurrentStep)
    BY <2>2, <2>3 DEF SP!RoleTarget, SP!AllEntries
  <2> QED BY <1>1, <1>2, <1>4, <2>1, <2>4
<1>5. CASE CurrentStep = "sandbox"
  <2>1. SP!Target(CurrentStep) = SP!SandboxTarget
    BY <1>5 DEF SP!Target, SP!Roles
  <2>2. /\ SP!SandboxTarget \in SUBSET SP!AllEntries /\ "forbidden" \notin SP!SandboxTarget
        /\ "added later" \in SP!Now => "added later" \in SP!SandboxTarget
    BY <1>1, <1>3 DEF SP!SandboxTarget, SP!Entries, SP!AllEntries, SP!Absent
  <2> QED BY <1>2, <2>1, <2>2
<1>6. CASE CurrentStep = "allowlist"
  <2>1. SP!Target(CurrentStep) = SP!AllowTarget
    BY <1>6 DEF SP!Target, SP!Roles
  <2>2. /\ SP!AllowTarget \in SUBSET SP!AllEntries /\ "forbidden" \notin SP!AllowTarget
        /\ "added later" \in SP!Now => "added later" \in SP!AllowTarget
    BY <1>1, <1>3 DEF SP!AllowTarget, SP!Entries, SP!AllEntries, SP!Absent, SP!Transports
  <2> QED BY <1>2, <2>1, <2>2
<1> QED BY <1>1, <1>4, <1>5, <1>6 DEF SP!StepNames

LEMMA DecideInv == ASSUME SPInv, SP!Decide PROVE SPInv'
<1> DEFINE target == SP!Target(CurrentStep)
<1>1. /\ pruning.pc = "read" /\ ~SP!Skipped(CurrentStep) /\ ~SP!Refused(CurrentStep)
      /\ pruning' = [pruning EXCEPT !.read = SP!Now, !.target = target, !.pc = "backup"]
      /\ UNCHANGED <<settings, override, asked, backup, second, prunings, edits, kills,
                     replaced, clash, overtaken>>
  BY DEF SP!Decide, CurrentStep, SP!setting, SP!bounds, SP!history
<1>2. /\ target \in SUBSET SP!AllEntries /\ SP!Now # SP!Torn /\ "forbidden" \notin target
      /\ Subject = "user" /\ "added later" \in SP!Now => "added later" \in target
  BY <1>1, TargetFacts
<1>2a. Subject = "user" /\ "added later" \in SP!Now => "added later" \in target
  BY <1>1, TargetFacts
<1>3. SP!Now \in SUBSET SP!AllEntries /\ SP!Now = settings[Subject]
  BY <1>1, AtAStep DEF SPInv
<1> HIDE DEF target
<1>4. /\ pruning'.todo = pruning.todo /\ pruning'.pc = "backup"
      /\ pruning'.read = SP!Now /\ pruning'.target = target
      /\ pruning' \in [todo : Seq(SP!StepNames), pc : {"off", "read", "backup", "truncate", "write"},
                       path : BOOLEAN, keep : BOOLEAN, read : SUBSET SP!AllEntries,
                       target : SUBSET SP!AllEntries, rc : {0, 2}]
  BY <1>1, <1>2, <1>3 DEF SPInv, SP!TypeOK
<1>5. SP!TypeOK'
  BY <1>1, <1>4 DEF SPInv, SP!TypeOK
<1>6. Subject' = Subject
  BY <1>4 DEF Subject, SP!FileOf, CurrentStep
<1>7. FileInv'
  BY <1>1, <1>2, <1>3, <1>4, <1>6 DEF SPInv, FileInv, PruningAt
<1>8. TargetInv'
  BY <1>2, <1>2a, <1>4, <1>6 DEF TargetInv
<1>9. EditInv'
  BY <1>1, <1>4 DEF SPInv, EditInv, PruningAt
<1>10. BackupInv'
  BY <1>1, SameBackups DEF SPInv
<1>11. HeldInv'
  BY <1>1, <1>3, <1>4, <1>6 DEF HeldInv, PruningAt
<1> QED BY <1>5, <1>7, <1>8, <1>9, <1>10, <1>11 DEF SPInv

LEMMA BackupStepInv == ASSUME SPInv, SP!Backup PROVE SPInv'
<1> DEFINE f == Subject
           k == <<f, second>>
<1>1. /\ pruning.pc = "backup" /\ pruning' = [pruning EXCEPT !.pc = "truncate"]
      /\ UNCHANGED <<settings, override, asked, second, prunings, edits, kills, replaced, overtaken>>
      /\ \/ /\ backup' = [j \in DOMAIN backup \cup {k} |-> IF j = k THEN SP!Now ELSE backup[j]]
            /\ clash' = IF k \in DOMAIN backup THEN clash \cup {f} ELSE clash
         \/ ~(pruning.keep /\ SP!Now # SP!Absent) /\ UNCHANGED <<backup, clash>>
  BY DEF SP!Backup, Subject, CurrentStep, SP!setting, SP!bounds
<1>2. /\ f \in SP!Files /\ SP!Now = settings[f] /\ SP!Now \in SUBSET SP!AllEntries /\ SP!Now # SP!Torn
  BY <1>1, AtAStep DEF SPInv, FileInv, PruningAt
<1>3. /\ pruning'.todo = pruning.todo /\ pruning'.pc = "truncate"
      /\ pruning'.read = pruning.read /\ pruning'.target = pruning.target
      /\ pruning'.keep = pruning.keep
      /\ pruning' \in [todo : Seq(SP!StepNames), pc : {"off", "read", "backup", "truncate", "write"},
                       path : BOOLEAN, keep : BOOLEAN, read : SUBSET SP!AllEntries,
                       target : SUBSET SP!AllEntries, rc : {0, 2}]
  BY <1>1 DEF SPInv, SP!TypeOK
<1>4. Subject' = Subject
  BY <1>3 DEF Subject, SP!FileOf, CurrentStep
<1>5. SP!TypeOK'
  <2>1. \A j \in DOMAIN backup' : j[1] \in SP!Files /\ j[2] \in 1 .. second
    <3>1. \A j \in DOMAIN backup : j[1] \in SP!Files /\ j[2] \in 1 .. second
      BY DEF SPInv, SP!TypeOK
    <3>2. DOMAIN backup' \subseteq DOMAIN backup \cup {k}
      BY <1>1
    <3>3. k[1] \in SP!Files /\ k[2] \in 1 .. second
      BY <1>2 DEF SPInv, SP!TypeOK
    <3> QED BY <3>1, <3>2, <3>3
  <2> QED BY <1>1, <1>3, <2>1 DEF SPInv, SP!TypeOK
<1>6. FileInv'
  BY <1>1, <1>2, <1>3, <1>4 DEF SPInv, FileInv, PruningAt
<1>7. TargetInv'
  BY <1>1, <1>3, <1>4 DEF SPInv, TargetInv, PruningAt
<1>8. EditInv'
  BY <1>1, <1>3 DEF SPInv, EditInv, PruningAt
<1> HIDE DEF f, k
<1>9. CASE ~(pruning.keep /\ SP!Now # SP!Absent) /\ UNCHANGED <<backup, clash>>
  <2>1. BackupInv'
    BY <1>1, <1>9, SameBackups DEF SPInv
  <2>2. HeldInv'
    BY <1>1, <1>2, <1>3, <1>4, <1>9 DEF SPInv, HeldInv, PruningAt, f
  <2> QED BY <1>5, <1>6, <1>7, <1>8, <2>1, <2>2 DEF SPInv
<1>10. CASE /\ backup' = [j \in DOMAIN backup \cup {k} |-> IF j = k THEN SP!Now ELSE backup[j]]
            /\ clash' = IF k \in DOMAIN backup THEN clash \cup {f} ELSE clash
  <2>1. /\ \A j \in DOMAIN backup : j \in DOMAIN backup' /\ (j # k => backup'[j] = backup[j])
        /\ k \in DOMAIN backup' /\ backup'[k] = SP!Now
    BY <1>10
  <2>2. k[1] = f
    BY DEF k
  <2>3. ASSUME NEW g \in SP!Files \ (clash' \cup overtaken'), NEW c \in replaced'[g]
        PROVE  c \in SP!Backups(g)'
    <3>1. g \notin clash /\ g \notin overtaken /\ c \in replaced[g]
      BY <1>1, <1>10, <2>3
    <3>2. PICK j \in DOMAIN backup : j[1] = g /\ backup[j] = c
      BY <2>3, <3>1 DEF SPInv, BackupInv, SP!Backups
    <3>3. j # k
      <4>1. j = k => g = f /\ k \in DOMAIN backup
        BY <2>2, <3>2
      <4> QED BY <1>10, <2>3, <4>1
    <3> QED BY <2>1, <3>2, <3>3 DEF SP!Backups
  <2>4. BackupInv'
    BY <1>1, <2>3 DEF SPInv, BackupInv
  <2>5. \E j \in DOMAIN backup' : j[1] = Subject' /\ backup'[j] = SP!Now
    BY <1>4, <2>1, <2>2 DEF f
  <2>6. SP!Now \in SP!Backups(Subject)'
    BY <2>5 DEF SP!Backups
  <2>7. HeldInv'
    BY <1>1, <1>2, <1>3, <1>4, <2>5, <2>6 DEF SPInv, HeldInv, PruningAt, f
  <2> QED BY <1>5, <1>6, <1>7, <1>8, <2>4, <2>7 DEF SPInv
<1> QED BY <1>1, <1>9, <1>10

LEMMA TruncateInv == ASSUME SPInv, SP!Truncate PROVE SPInv'
<1> DEFINE f == Subject
<1>1. /\ pruning.pc = "truncate" /\ pruning' = [pruning EXCEPT !.pc = "write"]
      /\ overtaken' = IF SP!Now = pruning.read THEN overtaken ELSE overtaken \cup {f}
      /\ replaced' = IF pruning.keep /\ SP!Now # SP!Absent
                     THEN [replaced EXCEPT ![f] = replaced[f] \cup {SP!Now}] ELSE replaced
      /\ settings' = [settings EXCEPT ![f] = SP!Torn]
      /\ UNCHANGED <<override, asked, backup, second, prunings, edits, kills, clash>>
  BY DEF SP!Truncate, Subject, CurrentStep, SP!setting, SP!bounds
<1>2. f \in SP!Files /\ SP!Now = settings[f] /\ SP!Now # SP!Torn /\ SP!Now \in SUBSET SP!AllEntries
  BY <1>1, AtAStep DEF SPInv, FileInv, PruningAt
<1>3. /\ pruning'.todo = pruning.todo /\ pruning'.pc = "write"
      /\ pruning'.read = pruning.read /\ pruning'.target = pruning.target
      /\ pruning' \in [todo : Seq(SP!StepNames), pc : {"off", "read", "backup", "truncate", "write"},
                       path : BOOLEAN, keep : BOOLEAN, read : SUBSET SP!AllEntries,
                       target : SUBSET SP!AllEntries, rc : {0, 2}]
  BY <1>1 DEF SPInv, SP!TypeOK
<1>4. Subject' = Subject
  BY <1>3 DEF Subject, SP!FileOf, CurrentStep
<1>5. /\ settings' \in [SP!Files -> SUBSET SP!AllEntries]
      /\ settings'[f] = SP!Torn /\ \A g \in SP!Files \ {f} : settings'[g] = settings[g]
  BY <1>1, <1>2, Names DEF SPInv, SP!TypeOK
<1>6. SP!TypeOK'
  BY <1>1, <1>3, <1>5 DEF SPInv, SP!TypeOK
<1>7. FileInv'
  BY <1>1, <1>3, <1>4, <1>5, Names DEF SPInv, FileInv, PruningAt
<1>8. TargetInv'
  BY <1>1, <1>3, <1>4 DEF SPInv, TargetInv, PruningAt
<1>9. EditInv'
  <2> SUFFICES ASSUME edits # 0, "user" \notin overtaken'
               PROVE  /\ "added later" \in settings'["user"] \/ settings'["user"] = SP!Torn
                      /\ f = "user" => "added later" \in pruning.target
    BY <1>1, <1>3, <1>4 DEF EditInv, PruningAt
  <2>1. "user" \notin overtaken /\ (f = "user" => SP!Now = pruning.read)
    BY <1>1
  <2>2. "added later" \in settings["user"] \/ settings["user"] = SP!Torn
    BY <2>1 DEF SPInv, EditInv
  <2>3. CASE f = "user"
    <3>1. "added later" \in pruning.read
      BY <1>2, <2>1, <2>2, <2>3
    <3> QED BY <1>1, <1>5, <2>3, <3>1 DEF SPInv, TargetInv, PruningAt
  <2>4. CASE f # "user"
    BY <1>5, <2>2, <2>4, Names
  <2> QED BY <2>3, <2>4
<1>10. BackupInv'
  <2> HIDE DEF f
  <2>1. replaced \in [SP!Files -> SUBSET (SUBSET SP!AllEntries)] /\ \A g : SP!Backups(g)' = SP!Backups(g)
    BY <1>1 DEF SPInv, BackupInv, SP!Backups
  <2>2. CASE ~(pruning.keep /\ SP!Now # SP!Absent)
    BY <1>1, <2>1, <2>2 DEF SPInv, BackupInv
  <2>3. CASE pruning.keep /\ SP!Now # SP!Absent
    <3>1. /\ replaced' \in [SP!Files -> SUBSET (SUBSET SP!AllEntries)]
          /\ replaced'[f] = replaced[f] \cup {SP!Now}
          /\ \A g \in SP!Files \ {f} : replaced'[g] = replaced[g]
      BY <1>1, <1>2, <2>1, <2>3
    <3>2. \A g \in SP!Files : SP!Torn \notin replaced'[g]
      BY <1>2, <3>1 DEF SPInv, BackupInv
    <3>3. overtaken \subseteq overtaken' /\ (f \notin overtaken' => SP!Now = pruning.read)
      BY <1>1
    <3>4. f \notin clash \cup overtaken' => SP!Now \in SP!Backups(f)
      BY <1>1, <1>2, <2>3, <3>3 DEF SPInv, HeldInv, PruningAt, f
    <3>5. ASSUME NEW g \in SP!Files \ (clash \cup overtaken') PROVE replaced'[g] \subseteq SP!Backups(g)
      <4>1. replaced[g] \subseteq SP!Backups(g)
        BY <3>3, <3>5 DEF SPInv, BackupInv
      <4> QED BY <3>1, <3>4, <3>5, <4>1
    <3> QED BY <1>1, <2>1, <3>1, <3>2, <3>5 DEF BackupInv
  <2> QED BY <2>2, <2>3
<1>11. HeldInv'
  BY <1>3, NothingHeld
<1> QED BY <1>6, <1>7, <1>8, <1>9, <1>10, <1>11 DEF SPInv

LEMMA WriteInv == ASSUME SPInv, SP!Write PROVE SPInv'
<1> DEFINE f == Subject
<1>1. /\ pruning.pc = "write" /\ pruning' = SP!Passed(0)
      /\ settings' = [settings EXCEPT ![f] = pruning.target]
      /\ UNCHANGED <<override, asked, backup, second, prunings, edits, kills,
                     replaced, clash, overtaken>>
  BY DEF SP!Write, Subject, CurrentStep, SP!setting, SP!bounds, SP!history
<1>2. f \in SP!Files /\ pruning.target \in SUBSET SP!AllEntries /\ "forbidden" \notin pruning.target
  BY <1>1, AtAStep DEF SPInv, TargetInv, PruningAt, SP!TypeOK
<1>3. /\ settings' \in [SP!Files -> SUBSET SP!AllEntries]
      /\ settings'[f] = pruning.target /\ \A g \in SP!Files \ {f} : settings'[g] = settings[g]
  BY <1>1, <1>2 DEF SPInv, SP!TypeOK
<1>4. SP!TypeOK' /\ pruning'.pc \in {"off", "read"}
  BY <1>1, <1>3, PassedFacts DEF SPInv, SP!TypeOK
<1>5. ~PruningAt({"backup", "truncate"})' /\ ~PruningAt({"write"})' /\ ~PruningAt({"backup", "truncate", "write"})'
  BY <1>4 DEF PruningAt
<1>6. FileInv' /\ TargetInv'
  BY <1>2, <1>3, <1>5 DEF SPInv, FileInv, TargetInv
<1>7. EditInv'
  <2> SUFFICES ASSUME edits # 0, "user" \notin overtaken
               PROVE  "added later" \in settings'["user"] \/ settings'["user"] = SP!Torn
    BY <1>1, <1>5 DEF EditInv
  <2>1. CASE f = "user"
    BY <1>1, <1>3, <2>1 DEF SPInv, EditInv, PruningAt
  <2>2. CASE f # "user"
    BY <1>3, <2>2, Names DEF SPInv, EditInv
  <2> QED BY <2>1, <2>2
<1>8. BackupInv' /\ HeldInv'
  BY <1>1, <1>4, SameBackups, NothingHeld DEF SPInv
<1> QED BY <1>4, <1>6, <1>7, <1>8 DEF SPInv

LEMMA TickInv == ASSUME SPInv, SP!Tick PROVE SPInv'
<1>1. /\ second' = second + 1
      /\ UNCHANGED <<settings, override, asked, backup, pruning, prunings, edits, kills,
                     replaced, clash, overtaken>>
  BY DEF SP!Tick, SP!setting, SP!bounds, SP!history
<1>2. SP!TypeOK'
  BY <1>1 DEF SPInv, SP!TypeOK
<1>3. FileInv' /\ TargetInv' /\ EditInv'
  BY <1>1 DEF SPInv, FileInv, TargetInv, EditInv, PruningAt, Subject, CurrentStep, SP!FileOf
<1>4. BackupInv'
  BY <1>1, SameBackups DEF SPInv
<1>5. HeldInv'
  BY <1>1 DEF SPInv, HeldInv, PruningAt, Subject, CurrentStep, SP!FileOf, SP!Backups
<1> QED BY <1>2, <1>3, <1>4, <1>5 DEF SPInv

LEMMA EditStepInv == ASSUME SPInv, SP!Edit PROVE SPInv'
<1>1. /\ settings["user"] \notin {SP!Torn, SP!Absent} /\ edits' = edits + 1
      /\ settings' = [settings EXCEPT !["user"] = settings["user"] \cup {"added later"}]
      /\ UNCHANGED <<override, asked, backup, second, pruning, prunings, kills,
                     replaced, clash, overtaken>>
  BY DEF SP!Edit, SP!setting, SP!history
<1>2. /\ settings'["user"] = settings["user"] \cup {"added later"}
      /\ \A f \in SP!Files \ {"user"} : settings'[f] = settings[f]
      /\ settings' \in [SP!Files -> SUBSET SP!AllEntries]
  BY <1>1, Names DEF SPInv, SP!TypeOK, SP!AllEntries
<1>3. SP!TypeOK'
  <2>1. edits' \in Nat
    <3>1. edits \in Nat
      BY DEF SPInv, SP!TypeOK
    <3>2. edits' = edits + 1
      BY DEF SP!Edit
    <3> QED BY <3>1, <3>2
  <2> QED BY <1>1, <1>2, <2>1 DEF SPInv, SP!TypeOK
<1>4. settings'["user"] # SP!Torn
  BY <1>2, Names
<1>5. Subject' = Subject /\ \A pcs : PruningAt(pcs)' = PruningAt(pcs)
  BY <1>1 DEF Subject, CurrentStep, SP!FileOf, PruningAt
<1>6. PruningAt({"backup", "truncate", "write"}) => Subject \in SP!Files
  BY AtAStep DEF SPInv, PruningAt
<1>7. FileInv'
  <2>1. \A f \in SP!Files : "forbidden" \notin settings'[f]
    <3>1. ASSUME NEW f \in SP!Files PROVE "forbidden" \notin settings'[f]
      <4>1. "forbidden" \notin settings[f] /\ "forbidden" \notin {"added later"}
        BY DEF SPInv, FileInv
      <4> QED BY <1>2, <4>1
    <3> QED BY <3>1
  <2>2. PruningAt({"backup", "truncate"}) => settings'[Subject] # SP!Torn
    BY <1>2, <1>4, <1>6 DEF SPInv, FileInv, PruningAt
  <2>3. PruningAt({"write"}) => settings'[Subject] = SP!Torn
    BY <1>1, <1>2, <1>6 DEF SPInv, FileInv, PruningAt
  <2> QED BY <1>5, <2>1, <2>2, <2>3 DEF FileInv
<1>8. TargetInv'
  BY <1>1, <1>5 DEF SPInv, TargetInv
<1>9. EditInv'
  <2>1. ~(PruningAt({"write"}) /\ Subject = "user")
    BY <1>1 DEF SPInv, FileInv
  <2> QED BY <1>2, <1>5, <2>1 DEF EditInv
<1>10. BackupInv'
  BY <1>1, SameBackups DEF SPInv
<1>11. HeldInv'
  <2>1. \A f : SP!Backups(f)' = SP!Backups(f)
    BY <1>1 DEF SP!Backups
  <2>2. CASE Subject = "user"
    <3>1. PruningAt({"backup", "truncate"}) => pruning.read \subseteq settings["user"]
      BY <2>2 DEF SPInv, HeldInv
    <3>2. PruningAt({"backup", "truncate"}) => pruning.read \subseteq settings'["user"]
      BY <1>2, <3>1
    <3>3. PruningAt({"truncate"}) => PruningAt({"backup", "truncate"})
      BY DEF PruningAt
    <3>4. /\ PruningAt({"truncate"}) /\ pruning.keep /\ "user" \notin clash
          /\ settings'["user"] = pruning.read
          => settings'["user"] \in SP!Backups("user")
      <4> SUFFICES ASSUME PruningAt({"truncate"}), pruning.keep, "user" \notin clash,
                          settings'["user"] = pruning.read
                   PROVE  settings'["user"] \in SP!Backups("user")
        OBVIOUS
      <4>1. settings'["user"] = settings["user"]
        BY <1>2, <3>1, <3>3
      <4>2. settings["user"] # SP!Absent /\ settings["user"] = pruning.read
        BY <1>1, <4>1
      <4> QED BY <2>2, <4>1, <4>2 DEF SPInv, HeldInv
    <3> QED BY <1>1, <1>5, <2>1, <2>2, <3>2, <3>4 DEF HeldInv
  <2>3. CASE Subject # "user"
    <3>1. PruningAt({"backup", "truncate", "write"}) => settings'[Subject] = settings[Subject]
      BY <1>2, <1>6, <2>3
    <3>2. /\ PruningAt({"backup", "truncate"}) => PruningAt({"backup", "truncate", "write"})
          /\ PruningAt({"truncate"}) => PruningAt({"backup", "truncate", "write"})
      BY DEF PruningAt
    <3> QED BY <1>1, <1>5, <2>1, <3>1, <3>2 DEF SPInv, HeldInv
  <2> QED BY <2>2, <2>3
<1> QED BY <1>3, <1>7, <1>8, <1>9, <1>10, <1>11 DEF SPInv

LEMMA SPInvariance == SP!Spec => []SPInv
<1>1. SP!Init => SPInv
  <2> SUFFICES ASSUME SP!Init PROVE SPInv
    OBVIOUS
  <2>1. /\ pruning = [todo |-> <<>>, pc |-> "off", path |-> FALSE, keep |-> FALSE,
                      read |-> {}, target |-> {}, rc |-> 0]
        /\ asked \in SP!Transports /\ backup = <<>> /\ second = 1
        /\ prunings = 0 /\ edits = 0 /\ kills = 0
        /\ replaced = [f \in SP!Files |-> {}] /\ clash = {} /\ overtaken = {}
    BY DEF SP!Init, SP!NoCommand
  <2>2. settings \in [SP!Files -> SUBSET SP!AllEntries] /\ \A f \in SP!Files : "forbidden" \notin settings[f]
    <3>1. PICK dispatcher \in {SP!Absent, {"own", "path", "stale"}},
               user \in {SP!Absent, {"retired", "broker", "own"}} :
             settings = [secretary |-> {"template", "renga", "stale"}, dispatcher |-> dispatcher,
                     user |-> user]
      BY DEF SP!Init
    <3>2. /\ dispatcher \in SUBSET SP!AllEntries /\ "forbidden" \notin dispatcher
          /\ user \in SUBSET SP!AllEntries /\ "forbidden" \notin user
          /\ {"template", "renga", "stale"} \in SUBSET SP!AllEntries
      BY DEF SP!AllEntries, SP!Absent
    <3>3. /\ DOMAIN settings = SP!Files /\ settings["secretary"] = {"template", "renga", "stale"}
          /\ settings["dispatcher"] = dispatcher /\ settings["user"] = user
      BY <3>1, Names
    <3>4. \A f \in SP!Files : settings[f] \in SUBSET SP!AllEntries /\ "forbidden" \notin settings[f]
      <4>1. /\ settings["secretary"] \in SUBSET SP!AllEntries /\ "forbidden" \notin settings["secretary"]
            /\ settings["dispatcher"] \in SUBSET SP!AllEntries /\ "forbidden" \notin settings["dispatcher"]
            /\ settings["user"] \in SUBSET SP!AllEntries /\ "forbidden" \notin settings["user"]
        BY <3>2, <3>3
      <4> QED BY <4>1, Names
    <3>5. settings = [f \in SP!Files |-> settings[f]]
      BY <3>1, <3>3
    <3> QED BY <3>4, <3>5
  <2>3. override \in [SP!Roles -> SUBSET SP!AllEntries]
    <3>1. PICK entries \in {{"extension"}, {"forbidden"}, SP!Torn} :
             override = [secretary |-> {}, dispatcher |-> entries]
      BY DEF SP!Init
    <3>2. entries \in SUBSET SP!AllEntries
      BY DEF SP!AllEntries
    <3>3. DOMAIN override = SP!Roles /\ override["secretary"] = {} /\ override["dispatcher"] = entries
      BY <3>1, Names
    <3>4. \A f \in SP!Roles : override[f] \in SUBSET SP!AllEntries
      <4>1. override["secretary"] \in SUBSET SP!AllEntries /\ override["dispatcher"] \in SUBSET SP!AllEntries
        BY <3>2, <3>3
      <4> QED BY <4>1, Names
    <3>5. override = [f \in SP!Roles |-> override[f]]
      BY <3>1, <3>3
    <3> QED BY <3>4, <3>5
  <2>4. SP!TypeOK
    <3>1. /\ pruning \in [todo : Seq(SP!StepNames), pc : {"off", "read", "backup", "truncate", "write"},
                          path : BOOLEAN, keep : BOOLEAN, read : SUBSET SP!AllEntries,
                          target : SUBSET SP!AllEntries, rc : {0, 2}]
          /\ pruning.pc = "off"
      BY <2>1
    <3>2. DOMAIN backup = {}
      BY <2>1
    <3> QED BY <2>1, <2>2, <2>3, <3>1, <3>2 DEF SP!TypeOK
  <2>5. FileInv /\ TargetInv /\ EditInv
    BY <2>1, <2>2 DEF FileInv, TargetInv, EditInv, PruningAt
  <2>6. BackupInv
    BY <2>1 DEF BackupInv
  <2>7. HeldInv
    BY <2>1 DEF HeldInv, PruningAt
  <2> QED BY <2>4, <2>5, <2>6, <2>7 DEF SPInv
<1>2. SPInv /\ [SP!Next]_SP!vars => SPInv'
  <2> SUFFICES ASSUME SPInv, [SP!Next]_SP!vars PROVE SPInv'
    OBVIOUS
  <2>1. CASE SP!Next
    BY <2>1, RunCommandInv, StepEndsInv, DecideInv, BackupStepInv, TruncateInv, WriteInv, TickInv,
       EditStepInv, KillInv DEF SP!Next
  <2>2. CASE UNCHANGED SP!vars
    <3>1. UNCHANGED <<settings, override, asked, backup, second, pruning, prunings, edits, kills,
                      replaced, clash, overtaken>>
      BY <2>2 DEF SP!vars
    <3>2. SP!TypeOK'
      BY <3>1 DEF SPInv, SP!TypeOK
    <3>3. FileInv' /\ TargetInv' /\ EditInv'
      BY <3>1 DEF SPInv, FileInv, TargetInv, EditInv, PruningAt, Subject, CurrentStep, SP!FileOf
    <3>4. BackupInv'
      BY <3>1, SameBackups DEF SPInv
    <3>5. HeldInv'
      BY <3>1 DEF SPInv, HeldInv, PruningAt, Subject, CurrentStep, SP!FileOf, SP!Backups
    <3> QED BY <3>2, <3>3, <3>4, <3>5 DEF SPInv
  <2> QED BY <2>1, <2>2
<1> QED BY <1>1, <1>2, PTL DEF SP!Spec

(* What a pruning with back-ups finds in a file when it writes over it is  *)
(* in a back-up, unless the file was edited since the read or two back-ups *)
(* of it fell in one second; a torn file is never written over; what the   *)
(* user added stays unless it was added between a read and a write; and    *)
(* nothing forbidden is written (org_setup_prune.py).                      *)
THEOREM PruningLosesNothing == SP!Spec => []SP!PruneLosesNothing
<1>1. SPInv => SP!PruneLosesNothing
  <2> SUFFICES ASSUME SPInv PROVE SP!PruneLosesNothing
    OBVIOUS
  <2>1. \A f \in SP!Files \ (clash \cup overtaken) : replaced[f] \subseteq SP!Backups(f)
    BY DEF SPInv, BackupInv
  <2>2. \A f \in SP!Files : SP!Torn \notin replaced[f]
    BY DEF SPInv, BackupInv
  <2>3. edits > 0 /\ "user" \notin overtaken => "added later" \in settings["user"] \/ settings["user"] = SP!Torn
    <3>1. edits \in Nat
      BY DEF SPInv, SP!TypeOK
    <3>2. edits > 0 => edits # 0
      BY <3>1
    <3> QED BY <3>2 DEF SPInv, EditInv
  <2>4. \A f \in SP!Files : "forbidden" \notin settings[f]
    BY DEF SPInv, FileInv
  <2> QED BY <2>1, <2>2, <2>3, <2>4 DEF SP!PruneLosesNothing
<1> QED BY <1>1, SPInvariance, PTL
-----------------------------------------------------------------------------
(* The watcher of the messages                                             *)

(* There is a number of messages, and a threshold.                         *)
QueueBounds == MaxMessage \in Nat /\ StaleSec \in Nat

Und(p) == {m \in QW!Messages : p[m] = "undelivered"}
OnLease(p) == {m \in QW!Messages : p[m] = "claimed"}
Wait(p) == {m \in QW!Messages : p[m] \in QW!Waiting}
ItemsOf(s) == {s[i] : i \in DOMAIN s}
Distinct(s) == \A i, j \in DOMAIN s : s[i] = s[j] => i = j

(* The records there are, and by how much each one changes the number of   *)
(* the messages that wait.                                                 *)
IsRecord(r) ==
    \/ \E m \in QW!Messages : r \in {QW!Enqueued(m), QW!Delivered(m), QW!Reaped(m)}
    \/ \E S \in SUBSET QW!Messages : S # {} /\ r = QW!Claimed(QW!InOrder(S))
    \/ \E n \in Nat : r = QW!Drained(n)
Events == {"message_enqueued", "claimed", "lease_reaped", "delivered", "queue_drained"}
Records == {r \in [event : Events, ids : Seq(QW!Messages), count : Nat] : IsRecord(r)}
Worth(r) ==
    IF r.event = "message_enqueued" THEN 1
    ELSE IF r.event = "delivered" THEN 0 - 1
    ELSE IF r.event = "queue_drained" THEN 0 - r.count ELSE 0

Accounts == [pending : Seq(QW!Messages), delivered : Nat, oldClaimed : SUBSET QW!Messages,
             oldUnclaimed : Nat, loss : BOOLEAN]
Scans == [enqueued : Nat, delivered : Nat, claimed : Seq(QW!Messages)]
Balance(a) == QW!Backlog(a) + a.oldUnclaimed + Cardinality(a.oldClaimed)

(* The watcher counts alike.                                               *)
LEMMA QueueCounts == \A S : QW!Cardinality(S) = Cardinality(S)
BY DEF QW!Cardinality, Cardinality

LEMMA QueueRanges == \A s : QW!Range(s) = ItemsOf(s)
BY DEF QW!Range, ItemsOf

LEMMA FewMessages ==
    ASSUME QueueBounds, NEW S \in SUBSET QW!Messages
    PROVE  IsFiniteSet(S) /\ Cardinality(S) \in Nat
<1>1. IsFiniteSet(QW!Messages)
  BY FS_Interval DEF QueueBounds, QW!Messages
<1>2. IsFiniteSet(S)
  BY <1>1, FS_Subset
<1> QED BY <1>2, FS_CardinalityType

(* The ids of a set of messages in their order.                            *)
LEMMA InOrderIs ==
    ASSUME QueueBounds, NEW S \in SUBSET QW!Messages
    PROVE  LET ids == QW!InOrder(S) IN
           /\ ids \in Seq(QW!Messages) /\ Len(ids) = Cardinality(S) /\ ItemsOf(ids) = S
           /\ \A i, j \in 1 .. Cardinality(S) : i < j => ids[i] < ids[j]
<1> DEFINE R == {q \in QW!Messages \X QW!Messages : q[1] < q[2]}
           n == Cardinality(S)
           ids == QW!InOrder(S)
<1>1. IsFiniteSet(S) /\ n \in Nat
  BY FewMessages
<1>2. \A x, y \in S : <<x, y>> \in R <=> x < y
  OBVIOUS
<1>3. S \subseteq Nat
  BY DEF QW!Messages
<1>4. \E s \in [1 .. n -> S] : \A j, k \in 1 .. n : j < k => <<s[j], s[k]>> \in R
  <2>1. \A x \in S : <<x, x>> \notin R
    BY <1>2, <1>3
  <2>2. \A x, y, z \in S : <<x, y>> \in R /\ <<y, z>> \in R => <<x, z>> \in R
    BY <1>2, <1>3
  <2>3. \A x, y \in S : x # y => <<x, y>> \in R \/ <<y, x>> \in R
    BY <1>2, <1>3
  <2> HIDE DEF R
  <2> QED BY <1>1, <2>1, <2>2, <2>3, Listing
<1>5. \E s \in [1 .. n -> S] : \A i, j \in DOMAIN s : i < j => s[i] < s[j]
  <2> HIDE DEF n, R
  <2> QED BY <1>2, <1>4
<1>6. ids \in [1 .. n -> S] /\ \A i, j \in DOMAIN ids : i < j => ids[i] < ids[j]
  BY <1>5, QueueCounts DEF QW!InOrder
<1> HIDE DEF ids
<1>12. \A i, j \in 1 .. n : i < j => ids[i] < ids[j]
  <2> HIDE DEF n
  <2> QED BY <1>6
<1>7. ids \in Injection(1 .. n, S)
  <2>1. ASSUME NEW i \in 1 .. n, NEW j \in 1 .. n, ids[i] = ids[j] PROVE i = j
    <3>1. ids[i] \in S /\ i \in Nat /\ j \in Nat
      <4> HIDE DEF n
      <4> QED BY <1>1, <1>6
    <3>4. ids[i] \in Nat
      BY <1>3, <3>1
    <3>2. ~(ids[i] < ids[j]) /\ ~(ids[j] < ids[i])
      BY <2>1, <3>4
    <3>3. ~(i < j) /\ ~(j < i)
      BY <1>12, <3>2
    <3> QED BY <3>1, <3>3
  <2> QED BY <1>6, <2>1 DEF Injection, IsInjective
<1>8. Cardinality(1 .. n) = n
  <2> HIDE DEF n
  <2> QED BY <1>1, FS_Interval
<1>9. ids \in Surjection(1 .. n, S)
  BY <1>1, <1>7, <1>8, FS_Injection
<1>10. ItemsOf(ids) = S
  BY <1>6, <1>9 DEF Surjection, ItemsOf
<1>11. ids \in Seq(QW!Messages) /\ Len(ids) = n
  <2> HIDE DEF n
  <2> QED BY <1>1, <1>6
<1> QED BY <1>10, <1>11, <1>12 DEF ids

(* An element is dropped from a list.                                      *)
LEMMA DroppedIs ==
    ASSUME NEW S, NEW s \in Seq(S), NEW i \in DOMAIN s
    PROVE  /\ QW!Dropped(s, i) \in Seq(S) /\ Len(QW!Dropped(s, i)) = Len(s) - 1
           /\ \A k \in 1 .. Len(s) - 1 : QW!Dropped(s, i)[k] = IF k < i THEN s[k] ELSE s[k + 1]
<1> DEFINE a == SubSeq(s, 1, i - 1)
           b == SubSeq(s, i + 1, Len(s))
<1>1. i \in 1 .. Len(s) /\ Len(s) \in Nat
  OBVIOUS
<1>2. a \in Seq(S) /\ Len(a) = i - 1 /\ \A k \in 1 .. i - 1 : a[k] = s[k]
  BY <1>1
<1>3. b \in Seq(S) /\ Len(b) = Len(s) - i /\ \A k \in 1 .. Len(s) - i : b[k] = s[i + k]
  BY <1>1
<1> HIDE DEF a, b
<1>4. a \o b \in Seq(S) /\ Len(a \o b) = Len(s) - 1
  BY <1>1, <1>2, <1>3
<1>5. ASSUME NEW k \in 1 .. Len(s) - 1 PROVE (a \o b)[k] = IF k < i THEN s[k] ELSE s[k + 1]
  <2>1. CASE k < i
    BY <1>1, <1>2, <1>3, <2>1
  <2>2. CASE ~(k < i)
    <3>1. (a \o b)[k] = b[k - (i - 1)]
      <4>1. a \in Seq(S) /\ b \in Seq(S) /\ Len(a) = i - 1 /\ Len(b) = Len(s) - i
        BY <1>2, <1>3
      <4>2. k \in 1 .. Len(a) + Len(b) /\ ~(k <= Len(a)) /\ k - Len(a) = k - (i - 1)
        BY <1>1, <2>2, <4>1
      <4>3. (a \o b)[k] = IF k <= Len(a) THEN a[k] ELSE b[k - Len(a)]
        BY <4>1, <4>2, ConcatProperties
      <4> QED BY <4>2, <4>3
    <3>2. k - (i - 1) \in 1 .. Len(s) - i /\ i + (k - (i - 1)) = k + 1
      BY <1>1, <2>2
    <3>3. b[k - (i - 1)] = s[i + (k - (i - 1))]
      BY <1>3, <3>2
    <3> QED BY <2>2, <3>1, <3>2, <3>3
  <2> QED BY <2>1, <2>2
<1> QED BY <1>4, <1>5 DEF a, b, QW!Dropped

LEMMA WithoutIs ==
    ASSUME NEW S, NEW ids \in Seq(S), Distinct(ids), NEW m
    PROVE  /\ QW!Without(ids, m) \in Seq(S) /\ Distinct(QW!Without(ids, m))
           /\ ItemsOf(QW!Without(ids, m)) = ItemsOf(ids) \ {m}
<1>1. CASE m \notin ItemsOf(ids)
  BY <1>1, QueueRanges DEF QW!Without
<1>2. CASE m \in ItemsOf(ids)
  <2> DEFINE i == CHOOSE i \in DOMAIN ids : ids[i] = m
             w == QW!Dropped(ids, i)
  <2>1. i \in DOMAIN ids /\ ids[i] = m
    BY <1>2 DEF ItemsOf
  <2>2. QW!Without(ids, m) = w
    BY <1>2, QueueRanges DEF QW!Without
  <2> HIDE DEF i
  <2>3. /\ w \in Seq(S) /\ Len(w) = Len(ids) - 1
        /\ \A k \in 1 .. Len(ids) - 1 : w[k] = IF k < i THEN ids[k] ELSE ids[k + 1]
    BY <2>1, DroppedIs
  <2> HIDE DEF w
  <2>4. DOMAIN ids = 1 .. Len(ids) /\ DOMAIN w = 1 .. Len(ids) - 1 /\ Len(ids) \in Nat /\ i \in 1 .. Len(ids)
    BY <2>1, <2>3
  <2>5. ASSUME NEW k \in DOMAIN w
        PROVE  \E j \in DOMAIN ids : w[k] = ids[j] /\ j # i /\ j = IF k < i THEN k ELSE k + 1
    BY <2>3, <2>4
  <2>6. Distinct(w)
    <3> SUFFICES ASSUME NEW k \in DOMAIN w, NEW l \in DOMAIN w, w[k] = w[l] PROVE k = l
      BY DEF Distinct
    <3>1. PICK j \in DOMAIN ids : w[k] = ids[j] /\ j = IF k < i THEN k ELSE k + 1
      BY <2>5
    <3>2. PICK h \in DOMAIN ids : w[l] = ids[h] /\ h = IF l < i THEN l ELSE l + 1
      BY <2>5
    <3>3. j = h
      BY <3>1, <3>2 DEF Distinct
    <3> QED BY <2>4, <3>1, <3>2, <3>3
  <2>7. ASSUME NEW k \in DOMAIN w PROVE w[k] \in ItemsOf(ids) /\ w[k] # m
    BY <2>1, <2>5 DEF ItemsOf, Distinct
  <2>8. ASSUME NEW j \in DOMAIN ids, ids[j] # m PROVE \E k \in DOMAIN w : w[k] = ids[j]
    <3>1. j # i
      BY <2>1, <2>8
    <3>2. CASE j < i
      BY <2>3, <2>4, <3>2
    <3>3. CASE j > i
      <4>1. j - 1 \in DOMAIN w /\ ~(j - 1 < i) /\ (j - 1) + 1 = j
        BY <2>4, <3>3
      <4> QED BY <2>3, <2>4, <4>1
    <3> QED BY <2>4, <3>1, <3>2, <3>3
  <2>9. ItemsOf(w) = ItemsOf(ids) \ {m}
    BY <2>7, <2>8 DEF ItemsOf
  <2> QED BY <2>2, <2>3, <2>6, <2>9
<1> QED BY <1>1, <1>2

(* A list goes on with another one that has nothing of it.                 *)
LEMMA BothLists ==
    ASSUME NEW S, NEW s \in Seq(S), NEW t \in Seq(S), Distinct(s), Distinct(t), ItemsOf(s) \cap ItemsOf(t) = {}
    PROVE  s \o t \in Seq(S) /\ Distinct(s \o t) /\ ItemsOf(s \o t) = ItemsOf(s) \cup ItemsOf(t)
<1> DEFINE u == s \o t
<1>1. /\ u \in Seq(S) /\ Len(u) = Len(s) + Len(t) /\ Len(s) \in Nat /\ Len(t) \in Nat
      /\ DOMAIN s = 1 .. Len(s) /\ DOMAIN t = 1 .. Len(t) /\ DOMAIN u = 1 .. Len(s) + Len(t)
      /\ \A k \in 1 .. Len(s) + Len(t) : u[k] = IF k <= Len(s) THEN s[k] ELSE t[k - Len(s)]
  OBVIOUS
<1> HIDE DEF u
<1>2. ASSUME NEW k \in DOMAIN u
      PROVE  \/ k \in DOMAIN s /\ u[k] = s[k] /\ u[k] \in ItemsOf(s)
             \/ k - Len(s) \in DOMAIN t /\ u[k] = t[k - Len(s)] /\ u[k] \in ItemsOf(t)
  BY <1>1 DEF ItemsOf
<1>3. Distinct(u)
  <2> SUFFICES ASSUME NEW k \in DOMAIN u, NEW l \in DOMAIN u, u[k] = u[l] PROVE k = l
    BY DEF Distinct
  <2>1. \/ k \in DOMAIN s /\ l \in DOMAIN s /\ s[k] = s[l]
        \/ k - Len(s) \in DOMAIN t /\ l - Len(s) \in DOMAIN t /\ t[k - Len(s)] = t[l - Len(s)]
    BY <1>2
  <2>2. k = l \/ k - Len(s) = l - Len(s)
    BY <2>1 DEF Distinct
  <2> QED BY <1>1, <2>2
<1>4. \A k \in DOMAIN s : k \in DOMAIN u /\ u[k] = s[k]
  BY <1>1
<1>5. \A k \in DOMAIN t : k + Len(s) \in DOMAIN u /\ u[k + Len(s)] = t[k]
  BY <1>1
<1>6. ItemsOf(u) = ItemsOf(s) \cup ItemsOf(t)
  BY <1>2, <1>4, <1>5 DEF ItemsOf
<1> QED BY <1>1, <1>3, <1>6 DEF u

LEMMA DistinctIds ==
    ASSUME QueueBounds, NEW S \in SUBSET QW!Messages
    PROVE  Distinct(QW!InOrder(S))
<1> DEFINE ids == QW!InOrder(S)
<1>1. /\ ids \in Seq(QW!Messages) /\ Len(ids) \in Nat
      /\ \A i, j \in 1 .. Len(ids) : i < j => ids[i] < ids[j]
  BY InOrderIs
<1> HIDE DEF ids
<1> SUFFICES ASSUME NEW i \in DOMAIN ids, NEW j \in DOMAIN ids, ids[i] = ids[j], i # j PROVE FALSE
  BY DEF Distinct, ids
<1>4. ids[i] \in QW!Messages
  BY <1>1
<1>2. ids[i] \in Nat
  BY <1>4 DEF QW!Messages
<1>3. ids[i] < ids[j] \/ ids[j] < ids[i]
  BY <1>1
<1> QED BY <1>2, <1>3

(* What is on lease after a record.                                        *)
Leased(r, C) ==
    IF r.event = "claimed" THEN C \cup ItemsOf(r.ids)
    ELSE IF r.event \in {"lease_reaped", "delivered"} THEN C \ {r.ids[1]} ELSE C

LEMMA RecordCases ==
    ASSUME QueueBounds, NEW r \in Records
    PROVE  \/ \E m \in QW!Messages : r.event = "message_enqueued" /\ r.ids = <<m>>
           \/ \E m \in QW!Messages : r.event = "delivered" /\ r.ids = <<m>>
           \/ \E m \in QW!Messages : r.event = "lease_reaped" /\ r.ids = <<m>>
           \/ /\ r.event = "claimed" /\ ItemsOf(r.ids) \subseteq QW!Messages /\ r.ids \in Seq(QW!Messages)
              /\ r.ids = QW!InOrder(ItemsOf(r.ids))
           \/ r.event = "queue_drained" /\ r.count \in Nat
<1>1. IsRecord(r)
  BY DEF Records
<1>2. CASE \E m \in QW!Messages : r \in {QW!Enqueued(m), QW!Delivered(m), QW!Reaped(m)}
  BY <1>2 DEF QW!Enqueued, QW!Delivered, QW!Reaped
<1>3. ASSUME NEW S \in SUBSET QW!Messages, r = QW!Claimed(QW!InOrder(S))
      PROVE  /\ r.event = "claimed" /\ ItemsOf(r.ids) \subseteq QW!Messages /\ r.ids \in Seq(QW!Messages)
             /\ r.ids = QW!InOrder(ItemsOf(r.ids))
  <2>1. r.event = "claimed" /\ r.ids = QW!InOrder(S)
    BY <1>3 DEF QW!Claimed
  <2> QED BY <2>1, InOrderIs
<1>4. CASE \E n \in Nat : r = QW!Drained(n)
  BY <1>4 DEF QW!Drained
<1> QED BY <1>1, <1>2, <1>3, <1>4 DEF IsRecord

LEMMA ScanStep ==
    ASSUME QueueBounds, NEW a \in Scans, Distinct(a.claimed), NEW r \in Records
    PROVE  LET b == QW!PreScan(a, r) IN
           /\ b \in Scans /\ Distinct(b.claimed) /\ ItemsOf(b.claimed) = Leased(r, ItemsOf(a.claimed))
           /\ b.enqueued - b.delivered = (a.enqueued - a.delivered) + Worth(r)
<1> DEFINE b == QW!PreScan(a, r)
<1>1. CASE \E m \in QW!Messages : r.event = "message_enqueued" /\ r.ids = <<m>>
  <2>1. b = [a EXCEPT !.enqueued = @ + 1]
    BY <1>1 DEF QW!PreScan
  <2> QED BY <1>1, <2>1 DEF Scans, Leased, Worth
<1>2. ASSUME NEW m \in QW!Messages, r.event \in {"lease_reaped", "delivered"}, r.ids = <<m>>
      PROVE  /\ b \in Scans /\ Distinct(b.claimed) /\ ItemsOf(b.claimed) = Leased(r, ItemsOf(a.claimed))
             /\ b.enqueued - b.delivered = (a.enqueued - a.delivered) + Worth(r)
  <2>1. b = IF r.event = "delivered" THEN [a EXCEPT !.claimed = QW!Without(@, m), !.delivered = @ + 1]
            ELSE [a EXCEPT !.claimed = QW!Without(@, m)]
    BY <1>2 DEF QW!PreScan
  <2>2. /\ QW!Without(a.claimed, m) \in Seq(QW!Messages) /\ Distinct(QW!Without(a.claimed, m))
        /\ ItemsOf(QW!Without(a.claimed, m)) = ItemsOf(a.claimed) \ {m}
    BY WithoutIs DEF Scans
  <2>3. /\ b.claimed = QW!Without(a.claimed, m) /\ b.enqueued = a.enqueued
        /\ b.delivered = IF r.event = "delivered" THEN a.delivered + 1 ELSE a.delivered
        /\ DOMAIN b = DOMAIN a
    BY <2>1 DEF Scans
  <2>4. a.enqueued \in Nat /\ a.delivered \in Nat
    BY DEF Scans
  <2>5. b \in Scans
    <3>1. CASE r.event = "delivered"
      <4>1. b = [a EXCEPT !.claimed = QW!Without(@, m), !.delivered = @ + 1]
        BY <2>1, <3>1
      <4>2. a.delivered + 1 \in Nat
        BY <2>4
      <4> HIDE DEF b
      <4> QED BY <2>2, <4>1, <4>2 DEF Scans
    <3>2. CASE r.event # "delivered"
      BY <2>1, <2>2, <3>2 DEF Scans
    <3> QED BY <3>1, <3>2
  <2> HIDE DEF b
  <2>6. b.enqueued - b.delivered = (a.enqueued - a.delivered) + Worth(r)
    BY <1>2, <2>3, <2>4 DEF Worth
  <2>7. r.ids[1] = m
    BY <1>2
  <2>8. Leased(r, ItemsOf(a.claimed)) = ItemsOf(a.claimed) \ {m}
    BY <1>2, <2>7 DEF Leased
  <2> QED BY <2>2, <2>3, <2>5, <2>6, <2>8
<1>3. CASE /\ r.event = "claimed" /\ ItemsOf(r.ids) \subseteq QW!Messages
           /\ r.ids = QW!InOrder(ItemsOf(r.ids))
  <2> DEFINE new == QW!InOrder(ItemsOf(r.ids) \ ItemsOf(a.claimed))
  <2>1. b = [a EXCEPT !.claimed = @ \o new]
    BY <1>3, QueueRanges DEF QW!PreScan
  <2>2. new \in Seq(QW!Messages) /\ Distinct(new) /\ ItemsOf(new) = ItemsOf(r.ids) \ ItemsOf(a.claimed)
    BY <1>3, InOrderIs, DistinctIds
  <2> HIDE DEF new
  <2>3. /\ a.claimed \o new \in Seq(QW!Messages) /\ Distinct(a.claimed \o new)
        /\ ItemsOf(a.claimed \o new) = ItemsOf(a.claimed) \cup ItemsOf(r.ids)
    BY <2>2, BothLists DEF Scans
  <2>4. b.claimed = a.claimed \o new /\ b \in Scans /\ b.enqueued = a.enqueued /\ b.delivered = a.delivered
    BY <2>1, <2>3 DEF Scans
  <2> QED BY <1>3, <2>3, <2>4 DEF Leased, Worth, Scans
<1>4. CASE r.event = "queue_drained" /\ r.count \in Nat
  <2>1. b = [a EXCEPT !.delivered = @ + r.count]
    BY <1>4 DEF QW!PreScan
  <2> QED BY <1>4, <2>1 DEF Scans, Leased, Worth
<1> QED BY <1>1, <1>2, <1>3, <1>4, RecordCases

LEMMA LeastIs ==
    ASSUME NEW m \in Nat, NEW n \in Nat
    PROVE  /\ QW!Least(m, n) \in Nat /\ QW!Least(m, n) <= m /\ QW!Least(m, n) <= n
           /\ QW!Least(m, n) = m \/ QW!Least(m, n) = n
BY DEF QW!Least

(* The ids of a claim that the accounts take for old ones.                 *)
ClaimedOld(a, ids) == {ids[i] : i \in 1 .. QW!Least(a.oldUnclaimed, Len(ids))}

LEMMA ClaimIs ==
    ASSUME QueueBounds, NEW a \in Accounts, NEW ids \in Seq(QW!Messages), Distinct(ids)
    PROVE  LET b == QW!ClaimOldest(a, ids)
               n == QW!Least(a.oldUnclaimed, Len(ids)) IN
           /\ b \in Accounts /\ b.loss = a.loss /\ b.pending = a.pending /\ b.delivered = a.delivered
           /\ b.oldUnclaimed = a.oldUnclaimed - n /\ b.oldClaimed = a.oldClaimed \cup ClaimedOld(a, ids)
           /\ n \in Nat /\ n <= Len(ids) /\ n <= a.oldUnclaimed
           /\ Cardinality(ClaimedOld(a, ids)) = n
<1> DEFINE b == QW!ClaimOldest(a, ids)
           n == QW!Least(a.oldUnclaimed, Len(ids))
           T == ClaimedOld(a, ids)
           part == SubSeq(ids, 1, n)
<1>1. a.oldUnclaimed \in Nat /\ Len(ids) \in Nat
  BY DEF Accounts
<1>2. n \in Nat /\ n <= Len(ids) /\ n <= a.oldUnclaimed
  BY <1>1 DEF QW!Least
<1>3. b = [a EXCEPT !.oldUnclaimed = @ - n, !.oldClaimed = @ \cup ItemsOf(part)]
  BY QueueRanges DEF QW!ClaimOldest
<1>4. T = {ids[i] : i \in 1 .. n}
  BY DEF ClaimedOld
<1> HIDE DEF n, T
<1>5. DOMAIN part = 1 .. n /\ \A i \in 1 .. n : part[i] = ids[i]
  BY <1>2
<1> HIDE DEF part
<1>6. ItemsOf(part) = T
  BY <1>4, <1>5 DEF ItemsOf
<1>7. T \subseteq QW!Messages
  <2>1. \A i \in 1 .. n : i \in DOMAIN ids
    BY <1>1, <1>2
  <2> QED BY <1>4, <2>1
<1>8. /\ b.loss = a.loss /\ b.pending = a.pending /\ b.delivered = a.delivered
      /\ b.oldUnclaimed = a.oldUnclaimed - n /\ b.oldClaimed = a.oldClaimed \cup T
  BY <1>3, <1>6 DEF Accounts
<1>9. b \in Accounts
  <2>1. a.oldUnclaimed - n \in Nat
    BY <1>1, <1>2
  <2>2. a.oldClaimed \cup T \in SUBSET QW!Messages
    BY <1>7 DEF Accounts
  <2>3. b = [a EXCEPT !.oldUnclaimed = a.oldUnclaimed - n, !.oldClaimed = a.oldClaimed \cup T]
    BY <1>3, <1>6
  <2> HIDE DEF b
  <2> QED BY <2>1, <2>2, <2>3 DEF Accounts
<1>10. Cardinality(T) = n
  <2> DEFINE f == [i \in 1 .. n |-> ids[i]]
  <2>1. f \in Surjection(1 .. n, T)
    BY <1>4 DEF Surjection
  <2>2. f \in Injection(1 .. n, T)
    <3>1. \A i \in 1 .. n : i \in DOMAIN ids
      BY <1>1, <1>2
    <3>2. \A i, j \in 1 .. n : ids[i] = ids[j] => i = j
      BY <3>1 DEF Distinct
    <3> QED BY <1>4, <3>2 DEF Injection, IsInjective
  <2> HIDE DEF f
  <2>3. IsFiniteSet(1 .. n) /\ Cardinality(1 .. n) = n
    BY <1>2, FS_Interval
  <2> QED BY <2>1, <2>2, <2>3, FS_Surjection
<1> QED BY <1>2, <1>8, <1>9, <1>10 DEF b, n, T

LEMMA BalanceIs == ASSUME QueueBounds, NEW a \in Accounts PROVE Balance(a) \in Int
<1>1. a.oldClaimed \in SUBSET QW!Messages /\ Len(a.pending) \in Nat /\ a.delivered \in Nat /\ a.oldUnclaimed \in Nat
  BY DEF Accounts
<1>2. Cardinality(a.oldClaimed) \in Nat
  BY <1>1, FewMessages
<1> QED BY <1>1, <1>2 DEF Balance, QW!Backlog

(* A record seen while watching changes the balance by its worth, or by    *)
(* less when a claim is of messages that count as claimed already.         *)
LEMMA LiveStep ==
    ASSUME QueueBounds, NEW a \in Accounts, ~a.loss, NEW r \in Records
    PROVE  LET b == QW!Live(a, r) IN
           /\ b \in Accounts /\ ~b.loss
           /\ Balance(b) <= Balance(a) + Worth(r)
           /\ (r.event = "claimed" => ItemsOf(r.ids) \cap a.oldClaimed = {}) => Balance(b) = Balance(a) + Worth(r)
           /\ b.pending = IF r.event = "message_enqueued" THEN Append(a.pending, r.ids[1]) ELSE a.pending
<1> DEFINE b == QW!Live(a, r)
           Right == /\ b \in Accounts /\ ~b.loss
                    /\ Balance(b) <= Balance(a) + Worth(r)
                    /\ (r.event = "claimed" => ItemsOf(r.ids) \cap a.oldClaimed = {})
                          => Balance(b) = Balance(a) + Worth(r)
                    /\ b.pending = IF r.event = "message_enqueued" THEN Append(a.pending, r.ids[1]) ELSE a.pending
<1>1. /\ a.pending \in Seq(QW!Messages) /\ a.delivered \in Nat /\ a.oldClaimed \in SUBSET QW!Messages
      /\ a.oldUnclaimed \in Nat /\ a.loss \in BOOLEAN /\ Len(a.pending) \in Nat
  BY DEF Accounts
<1>2. IsFiniteSet(a.oldClaimed) /\ Cardinality(a.oldClaimed) \in Nat
  BY <1>1, FewMessages
<1>3. Balance(a) = (Len(a.pending) - a.delivered) + a.oldUnclaimed + Cardinality(a.oldClaimed) /\ Balance(a) \in Int
  BY <1>1, <1>2 DEF Balance, QW!Backlog
<1>4. \A m \in a.oldClaimed : Cardinality(a.oldClaimed \ {m}) = Cardinality(a.oldClaimed) - 1
  BY <1>2, FS_RemoveElement
<1>5. Balance(b) = (Len(b.pending) - b.delivered) + b.oldUnclaimed + Cardinality(b.oldClaimed)
  BY DEF Balance, QW!Backlog
<1>6. ASSUME NEW m \in QW!Messages, r.event = "message_enqueued", r.ids = <<m>> PROVE Right
  <2>1. b = [a EXCEPT !.pending = Append(@, m)]
    BY <1>6 DEF QW!Live
  <2>2. Append(a.pending, m) \in Seq(QW!Messages) /\ Len(Append(a.pending, m)) = Len(a.pending) + 1
    BY <1>1
  <2>3. /\ b.pending = Append(a.pending, m) /\ b.delivered = a.delivered /\ b.oldClaimed = a.oldClaimed
        /\ b.oldUnclaimed = a.oldUnclaimed /\ b.loss = a.loss /\ b \in Accounts
    BY <2>1, <2>2 DEF Accounts
  <2>4. Worth(r) = 1 /\ r.ids[1] = m
    BY <1>6 DEF Worth
  <2> HIDE DEF b
  <2>5. Balance(b) = Balance(a) + 1
    BY <1>1, <1>2, <1>3, <1>5, <2>2, <2>3
  <2> QED BY <1>3, <1>6, <2>3, <2>4, <2>5
<1>7. ASSUME NEW m \in QW!Messages, r.event = "delivered", r.ids = <<m>> PROVE Right
  <2>1. r.ids[1] = m /\ Worth(r) = 0 - 1
    BY <1>7 DEF Worth
  <2>2. b = IF m \in a.oldClaimed THEN [a EXCEPT !.oldClaimed = @ \ {m}]
            ELSE IF a.oldUnclaimed > 0 THEN [a EXCEPT !.oldUnclaimed = @ - 1]
            ELSE [a EXCEPT !.delivered = @ + 1]
    BY <1>7, <2>1 DEF QW!Live
  <2>3. b \in Accounts /\ b.loss = a.loss /\ b.pending = a.pending /\ Balance(b) = Balance(a) - 1
    <3>1. CASE m \in a.oldClaimed
      <4>1. b = [a EXCEPT !.oldClaimed = a.oldClaimed \ {m}]
        BY <2>2, <3>1
      <4>2. /\ b \in Accounts /\ b.loss = a.loss /\ b.pending = a.pending /\ b.delivered = a.delivered
            /\ b.oldUnclaimed = a.oldUnclaimed /\ b.oldClaimed = a.oldClaimed \ {m}
        BY <1>1, <4>1 DEF Accounts
      <4> HIDE DEF b
      <4>3. Cardinality(b.oldClaimed) = Cardinality(a.oldClaimed) - 1
        BY <1>4, <3>1, <4>2
      <4>4. Balance(b) = (Len(a.pending) - a.delivered) + b.oldUnclaimed + Cardinality(b.oldClaimed)
        BY <1>5, <4>2
      <4>5. a.loss = b.loss /\ b \in Accounts /\ b.pending = a.pending /\ b.oldUnclaimed = a.oldUnclaimed
        BY <4>2
      <4> QED BY <1>1, <1>2, <1>3, <4>3, <4>4, <4>5
    <3>2. CASE m \notin a.oldClaimed /\ a.oldUnclaimed > 0
      <4>1. b = [a EXCEPT !.oldUnclaimed = a.oldUnclaimed - 1] /\ a.oldUnclaimed - 1 \in Nat
        BY <1>1, <2>2, <3>2
      <4>2. /\ b \in Accounts /\ b.loss = a.loss /\ b.pending = a.pending /\ b.delivered = a.delivered
            /\ b.oldUnclaimed = a.oldUnclaimed - 1 /\ b.oldClaimed = a.oldClaimed
        BY <1>1, <4>1 DEF Accounts
      <4> HIDE DEF b
      <4> QED BY <1>1, <1>2, <1>3, <1>5, <4>2
    <3>3. CASE m \notin a.oldClaimed /\ ~(a.oldUnclaimed > 0)
      <4>1. b = [a EXCEPT !.delivered = a.delivered + 1] /\ a.delivered + 1 \in Nat
        BY <1>1, <2>2, <3>3
      <4>2. /\ b \in Accounts /\ b.loss = a.loss /\ b.pending = a.pending /\ b.delivered = a.delivered + 1
            /\ b.oldUnclaimed = a.oldUnclaimed /\ b.oldClaimed = a.oldClaimed
        BY <1>1, <4>1 DEF Accounts
      <4> HIDE DEF b
      <4> QED BY <1>1, <1>2, <1>3, <1>5, <4>2
    <3> QED BY <3>1, <3>2, <3>3
  <2> HIDE DEF b
  <2> QED BY <1>3, <1>7, <2>1, <2>3
<1>8. ASSUME NEW m \in QW!Messages, r.event = "lease_reaped", r.ids = <<m>> PROVE Right
  <2>1. r.ids[1] = m /\ Worth(r) = 0
    BY <1>8 DEF Worth
  <2>2. b = IF m \in a.oldClaimed THEN [a EXCEPT !.oldClaimed = @ \ {m}, !.oldUnclaimed = @ + 1] ELSE a
    BY <1>8, <2>1 DEF QW!Live
  <2>3. b \in Accounts /\ b.loss = a.loss /\ b.pending = a.pending /\ Balance(b) = Balance(a)
    <3>1. CASE m \in a.oldClaimed
      <4>1. /\ b = [a EXCEPT !.oldClaimed = a.oldClaimed \ {m}, !.oldUnclaimed = a.oldUnclaimed + 1]
            /\ a.oldUnclaimed + 1 \in Nat
        BY <1>1, <2>2, <3>1
      <4>2. /\ b \in Accounts /\ b.loss = a.loss /\ b.pending = a.pending /\ b.delivered = a.delivered
            /\ b.oldUnclaimed = a.oldUnclaimed + 1 /\ b.oldClaimed = a.oldClaimed \ {m}
        BY <1>1, <4>1 DEF Accounts
      <4> HIDE DEF b
      <4>3. Cardinality(b.oldClaimed) = Cardinality(a.oldClaimed) - 1
        BY <1>4, <3>1, <4>2
      <4>4. Balance(b) = (Len(a.pending) - a.delivered) + b.oldUnclaimed + Cardinality(b.oldClaimed)
        BY <1>5, <4>2
      <4>5. Balance(b) = (Len(a.pending) - a.delivered) + (a.oldUnclaimed + 1) + (Cardinality(a.oldClaimed) - 1)
        BY <4>2, <4>3, <4>4
      <4>6. Len(a.pending) - a.delivered \in Int /\ a.oldUnclaimed \in Int /\ Cardinality(a.oldClaimed) \in Int
        BY <1>1, <1>2
      <4>7. \A x, u, c \in Int : x + (u + 1) + (c - 1) = x + u + c
        OBVIOUS
      <4>8. (Len(a.pending) - a.delivered) + (a.oldUnclaimed + 1) + (Cardinality(a.oldClaimed) - 1)
              = (Len(a.pending) - a.delivered) + a.oldUnclaimed + Cardinality(a.oldClaimed)
        BY <4>6, <4>7, Zenon
      <4>9. Balance(b) = Balance(a)
        BY <1>3, <4>5, <4>8
      <4> QED BY <4>2, <4>9
    <3>2. CASE m \notin a.oldClaimed
      BY <2>2, <3>2
    <3> QED BY <3>1, <3>2
  <2> HIDE DEF b
  <2> QED BY <1>3, <1>8, <2>1, <2>3
<1>9. ASSUME r.event = "claimed", r.ids \in Seq(QW!Messages), ItemsOf(r.ids) \subseteq QW!Messages,
             r.ids = QW!InOrder(ItemsOf(r.ids))
      PROVE  Right
  <2> DEFINE n == QW!Least(a.oldUnclaimed, Len(r.ids))
             T == ClaimedOld(a, r.ids)
  <2>1. b = QW!ClaimOldest(a, r.ids) /\ Worth(r) = 0
    BY <1>9 DEF QW!Live, Worth
  <2>2. Distinct(r.ids)
    BY <1>9, DistinctIds
  <2>3. /\ b \in Accounts /\ b.loss = a.loss /\ b.pending = a.pending /\ b.delivered = a.delivered
        /\ b.oldUnclaimed = a.oldUnclaimed - n /\ b.oldClaimed = a.oldClaimed \cup T
        /\ n \in Nat /\ n <= Len(r.ids) /\ Cardinality(T) = n
    BY <1>9, <2>1, <2>2, ClaimIs
  <2>4. T \subseteq ItemsOf(r.ids)
    <3>1. \A i \in 1 .. n : i \in DOMAIN r.ids
      BY <1>9, <2>3
    <3> QED BY <3>1 DEF ClaimedOld, ItemsOf
  <2> HIDE DEF b, n, T
  <2>5. /\ IsFiniteSet(T) /\ IsFiniteSet(a.oldClaimed \cap T) /\ Cardinality(a.oldClaimed \cap T) \in Nat
    BY <1>9, <2>4, FewMessages
  <2>6. Cardinality(a.oldClaimed \cup T) = Cardinality(a.oldClaimed) + n - Cardinality(a.oldClaimed \cap T)
    BY <1>2, <2>3, <2>5, FS_Union
  <2>7. Balance(b) = Balance(a) - Cardinality(a.oldClaimed \cap T)
    <3>1. Balance(b) = (Len(a.pending) - a.delivered) + (a.oldUnclaimed - n) + Cardinality(a.oldClaimed \cup T)
      BY <1>5, <2>3
    <3>2. PICK x \in Int, y \in Int, z \in Int :
              /\ x = Len(a.pending) - a.delivered /\ y = Cardinality(a.oldClaimed)
              /\ z = Cardinality(a.oldClaimed \cap T)
      BY <1>1, <1>2, <2>5
    <3>3. a.oldUnclaimed \in Int /\ n \in Int
      BY <1>1, <2>3
    <3>4. Balance(a) = x + a.oldUnclaimed + y
      BY <1>3, <3>2
    <3>5. Balance(b) = x + (a.oldUnclaimed - n) + (y + n - z)
      BY <2>6, <3>1, <3>2
    <3> QED BY <3>2, <3>3, <3>4, <3>5
  <2>8. ItemsOf(r.ids) \cap a.oldClaimed = {} => Cardinality(a.oldClaimed \cap T) = 0
    <3>1. ItemsOf(r.ids) \cap a.oldClaimed = {} => a.oldClaimed \cap T = {}
      BY <2>4
    <3> QED BY <3>1, FS_EmptySet
  <2>9. Balance(b) <= Balance(a) + Worth(r)
    BY <1>3, <2>1, <2>5, <2>7
  <2>10. ItemsOf(r.ids) \cap a.oldClaimed = {} => Balance(b) = Balance(a) + Worth(r)
    BY <1>3, <2>1, <2>7, <2>8
  <2> QED BY <1>9, <2>3, <2>9, <2>10
<1>10. ASSUME r.event = "queue_drained", r.count \in Nat PROVE Right
  <2> DEFINE n == QW!Least(a.oldUnclaimed, r.count)
  <2>1. /\ b = [a EXCEPT !.oldUnclaimed = a.oldUnclaimed - n, !.delivered = a.delivered + (r.count - n)]
        /\ Worth(r) = 0 - r.count
    BY <1>10 DEF QW!Live, Worth
  <2>2. n \in Nat /\ a.oldUnclaimed - n \in Nat /\ a.delivered + (r.count - n) \in Nat
    <3>1. n \in Nat /\ n <= a.oldUnclaimed /\ n <= r.count
      BY <1>1, <1>10, LeastIs
    <3> HIDE DEF n
    <3>2. a.oldUnclaimed - n \in Nat
      BY <1>1, <3>1
    <3>3. r.count - n \in Nat
      BY <1>10, <3>1
    <3> QED BY <1>1, <3>1, <3>2, <3>3
  <2> HIDE DEF n
  <2>3. /\ b \in Accounts /\ b.loss = a.loss /\ b.pending = a.pending /\ b.oldClaimed = a.oldClaimed
        /\ b.oldUnclaimed = a.oldUnclaimed - n /\ b.delivered = a.delivered + (r.count - n)
    BY <1>1, <2>1, <2>2 DEF Accounts
  <2> HIDE DEF b
  <2>4. Balance(b) = Balance(a) - r.count
    <3>1. Balance(b) = (Len(a.pending) - (a.delivered + (r.count - n))) + (a.oldUnclaimed - n) + Cardinality(a.oldClaimed)
      BY <1>5, <2>3
    <3>2. n \in Int /\ r.count \in Int
      BY <1>10, <2>2
    <3>3. Len(a.pending) \in Int /\ a.delivered \in Int /\ a.oldUnclaimed \in Int /\ Cardinality(a.oldClaimed) \in Int
      BY <1>1, <1>2
    <3>4. PICK x \in Int, d \in Int, c \in Int : x = Len(a.pending) /\ d = a.delivered /\ c = Cardinality(a.oldClaimed)
      BY <3>3
    <3>5. PICK u \in Int, k \in Int, l \in Int : u = a.oldUnclaimed /\ k = r.count /\ l = n
      BY <3>2, <3>3
    <3>6. Balance(b) = (x - (d + (k - l))) + (u - l) + c
      BY <3>1, <3>4, <3>5, Zenon
    <3>7. Balance(a) = (x - d) + u + c
      BY <1>3, <3>4, <3>5, Zenon
    <3>8. Balance(b) = Balance(a) - k
      BY <3>6, <3>7
    <3> QED BY <3>5, <3>8
  <2> QED BY <1>3, <1>10, <2>1, <2>3, <2>4
<1> HIDE DEF b
<1> QED BY <1>6, <1>7, <1>8, <1>9, <1>10, RecordCases DEF b

(* What a change of the broker does, in the words of its record: a message *)
(* comes, the oldest are taken on a lease, one is delivered or given back, *)
(* or all that are not on a lease are taken.                               *)
Comes(p, r, q, m) ==
    r = QW!Enqueued(m) /\ p[m] = "new" /\ Und(q) = Und(p) \cup {m} /\ OnLease(q) = OnLease(p)
Taken(p, r, q, S) ==
    /\ r = QW!Claimed(QW!InOrder(S)) /\ S # {} /\ S \subseteq Und(p)
    /\ \A m \in S, o \in Und(p) : o < m => o \in S
    /\ Und(q) = Und(p) \ S /\ OnLease(q) = OnLease(p) \cup S
Handed(p, r, q, m) ==
    r = QW!Delivered(m) /\ m \in OnLease(p) /\ Und(q) = Und(p) /\ OnLease(q) = OnLease(p) \ {m}
Returned(p, r, q, m) ==
    r = QW!Reaped(m) /\ m \in OnLease(p) /\ Und(q) = Und(p) \cup {m} /\ OnLease(q) = OnLease(p) \ {m}
Emptied(p, r, q) ==
    r = QW!Drained(Cardinality(Und(p))) /\ Und(q) = {} /\ OnLease(q) = OnLease(p)
Fills(p) == \A m, o \in QW!Messages : o < m /\ p[m] # "new" => p[o] # "new"
Moves(p, r, q) ==
    /\ \/ \E m \in QW!Messages : Comes(p, r, q, m) \/ Handed(p, r, q, m) \/ Returned(p, r, q, m)
       \/ \E S \in SUBSET QW!Messages : Taken(p, r, q, S)
       \/ Emptied(p, r, q)
    /\ \A m \in QW!Messages : p[m] # "new" => q[m] # "new"
    /\ Fills(p) => Fills(q)

(* What waits is what is undelivered or on a lease.                        *)
LEMMA WaitIs ==
    ASSUME QueueBounds, NEW p
    PROVE  /\ Wait(p) = Und(p) \cup OnLease(p) /\ Und(p) \cap OnLease(p) = {}
           /\ IsFiniteSet(Und(p)) /\ IsFiniteSet(OnLease(p)) /\ IsFiniteSet(Wait(p))
           /\ Cardinality(Und(p)) \in Nat /\ Cardinality(OnLease(p)) \in Nat /\ Cardinality(Wait(p)) \in Nat
           /\ Cardinality(Wait(p)) = Cardinality(Und(p)) + Cardinality(OnLease(p))
<1>1. Und(p) \in SUBSET QW!Messages /\ OnLease(p) \in SUBSET QW!Messages /\ Wait(p) \in SUBSET QW!Messages
  BY DEF Und, OnLease, Wait
<1>2. Wait(p) = Und(p) \cup OnLease(p) /\ Und(p) \cap OnLease(p) = {}
  BY DEF Und, OnLease, Wait, QW!Waiting
<1>3. /\ IsFiniteSet(Und(p)) /\ IsFiniteSet(OnLease(p)) /\ IsFiniteSet(Wait(p))
      /\ Cardinality(Und(p)) \in Nat /\ Cardinality(OnLease(p)) \in Nat /\ Cardinality(Wait(p)) \in Nat
  BY <1>1, FewMessages
<1>4. Cardinality(Wait(p)) = Cardinality(Und(p)) + Cardinality(OnLease(p))
  <2>1. Cardinality(Und(p) \cup OnLease(p)) = Cardinality(Und(p)) + Cardinality(OnLease(p)) - Cardinality(Und(p) \cap OnLease(p))
    BY <1>3, FS_Union
  <2>2. Cardinality(Und(p) \cap OnLease(p)) = 0
    BY <1>2, FS_EmptySet
  <2> QED BY <1>2, <1>3, <2>1, <2>2
<1> QED BY <1>2, <1>3, <1>4

(* A change moves as many messages as its record is worth, and leaves on   *)
(* lease what the record says.                                             *)
LEMMA MoveIs ==
    ASSUME QueueBounds, NEW p, NEW r, NEW q, Moves(p, r, q)
    PROVE  /\ Cardinality(Wait(q)) = Cardinality(Wait(p)) + Worth(r)
           /\ OnLease(q) = Leased(r, OnLease(p))
           /\ r.event = "claimed" => ItemsOf(r.ids) \subseteq Und(p)
<1> DEFINE Right == /\ Cardinality(Wait(q)) = Cardinality(Wait(p)) + Worth(r)
                    /\ OnLease(q) = Leased(r, OnLease(p))
                    /\ r.event = "claimed" => ItemsOf(r.ids) \subseteq Und(p)
<1>1. /\ Cardinality(Wait(p)) = Cardinality(Und(p)) + Cardinality(OnLease(p))
      /\ Cardinality(Und(p)) \in Nat /\ Cardinality(OnLease(p)) \in Nat
      /\ IsFiniteSet(Und(p)) /\ IsFiniteSet(OnLease(p)) /\ Und(p) \cap OnLease(p) = {}
      /\ Und(p) \subseteq QW!Messages /\ OnLease(p) \subseteq QW!Messages
  BY WaitIs DEF Und, OnLease
<1>2. Cardinality(Wait(q)) = Cardinality(Und(q)) + Cardinality(OnLease(q))
  BY WaitIs
<1>3. ASSUME NEW m \in QW!Messages, Comes(p, r, q, m) PROVE Right
  <2>1. r.event = "message_enqueued"
    BY <1>3 DEF Comes, QW!Enqueued
  <2>2. m \notin Und(p) /\ Und(q) = Und(p) \cup {m} /\ OnLease(q) = OnLease(p)
    BY <1>3 DEF Comes, Und
  <2>3. Cardinality(Und(q)) = Cardinality(Und(p)) + 1
    BY <1>1, <2>2, FS_AddElement
  <2> QED BY <1>1, <1>2, <2>1, <2>2, <2>3 DEF Worth, Leased
<1>4. ASSUME NEW S \in SUBSET QW!Messages, Taken(p, r, q, S) PROVE Right
  <2>1. r.event = "claimed" /\ r.ids = QW!InOrder(S)
    BY <1>4 DEF Taken, QW!Claimed
  <2>2. ItemsOf(r.ids) = S
    BY <2>1, InOrderIs
  <2>3. S \subseteq Und(p) /\ Und(q) = Und(p) \ S /\ OnLease(q) = OnLease(p) \cup S
    BY <1>4 DEF Taken
  <2>4. Wait(q) = Wait(p)
    <3>1. Wait(p) = Und(p) \cup OnLease(p) /\ Wait(q) = Und(q) \cup OnLease(q)
      BY WaitIs
    <3> QED BY <2>3, <3>1
  <2>5. Cardinality(Wait(q)) = Cardinality(Wait(p)) + Worth(r)
    <3>1. Cardinality(Wait(p)) \in Int
      BY <1>1
    <3> QED BY <2>1, <2>4, <3>1 DEF Worth
  <2> QED BY <2>1, <2>2, <2>3, <2>5 DEF Leased
<1>5. ASSUME NEW m \in QW!Messages, Handed(p, r, q, m) \/ Returned(p, r, q, m) PROVE Right
  <2>1. m \in OnLease(p) /\ OnLease(q) = OnLease(p) \ {m} /\ m \notin Und(p)
    BY <1>1, <1>5 DEF Handed, Returned
  <2>2. \/ r.event = "delivered" /\ Und(q) = Und(p)
        \/ r.event = "lease_reaped" /\ Und(q) = Und(p) \cup {m}
    BY <1>5 DEF Handed, Returned, QW!Delivered, QW!Reaped
  <2>3. r.ids[1] = m
    BY <1>5 DEF Handed, Returned, QW!Delivered, QW!Reaped
  <2>4. Cardinality(OnLease(q)) = Cardinality(OnLease(p)) - 1
    BY <1>1, <2>1, FS_RemoveElement
  <2>5. Cardinality(Und(p) \cup {m}) = Cardinality(Und(p)) + 1
    BY <1>1, <2>1, FS_AddElement
  <2>6. Cardinality(Wait(q)) = Cardinality(Wait(p)) + Worth(r)
    <3>1. CASE r.event = "delivered" /\ Und(q) = Und(p)
      BY <1>1, <1>2, <2>4, <3>1 DEF Worth
    <3>2. CASE r.event = "lease_reaped" /\ Und(q) = Und(p) \cup {m}
      BY <1>1, <1>2, <2>4, <2>5, <3>2 DEF Worth
    <3> QED BY <2>2, <3>1, <3>2
  <2> QED BY <2>1, <2>2, <2>3, <2>6 DEF Leased
<1>6. ASSUME Emptied(p, r, q) PROVE Right
  <2>1. r.event = "queue_drained" /\ r.count = Cardinality(Und(p)) /\ Und(q) = {} /\ OnLease(q) = OnLease(p)
    BY <1>6 DEF Emptied, QW!Drained
  <2>2. Cardinality(Und(q)) = 0
    BY <2>1, FS_EmptySet
  <2>3. Cardinality(Wait(q)) = Cardinality(Wait(p)) + Worth(r)
    <3>1. Worth(r) = 0 - Cardinality(Und(p))
      BY <2>1 DEF Worth
    <3>2. Cardinality(Wait(q)) = Cardinality(OnLease(p))
      BY <1>1, <1>2, <2>1, <2>2
    <3> QED BY <1>1, <3>1, <3>2
  <2> QED BY <2>1, <2>3 DEF Leased
<1> QED BY <1>3, <1>4, <1>5, <1>6 DEF Moves

(* What the records that wait are worth, one after the other.              *)
Sums(s, u) ==
    /\ s \in [0 .. Len(u) -> Int] /\ s[0] = 0
    /\ \A k \in 1 .. Len(u) : s[k] = s[k - 1] + Worth(u[k])

LEMMA WorthIs == ASSUME NEW r \in Records PROVE Worth(r) \in Int
BY DEF Worth, Records

LEMMA SumsGrow ==
    ASSUME NEW u \in Seq(Records), NEW s, Sums(s, u), NEW r \in Records
    PROVE  \E t : Sums(t, Append(u, r)) /\ t[Len(u) + 1] = s[Len(u)] + Worth(r)
<1> DEFINE n == Len(u)
           v == Append(u, r)
           t == [k \in 0 .. n + 1 |-> IF k <= n THEN s[k] ELSE s[n] + Worth(r)]
<1>1. /\ n \in Nat /\ Len(v) = n + 1 /\ v[n + 1] = r /\ \A k \in 1 .. n : v[k] = u[k]
  OBVIOUS
<1>2. s \in [0 .. n -> Int] /\ s[0] = 0 /\ \A k \in 1 .. n : s[k] = s[k - 1] + Worth(u[k])
  BY DEF Sums
<1>3. Worth(r) \in Int
  BY WorthIs
<1> HIDE DEF n, v
<1>4. t \in [0 .. n + 1 -> Int]
  <2>1. \A k \in 0 .. n + 1 : (k <= n => s[k] \in Int) /\ s[n] + Worth(r) \in Int
    BY <1>1, <1>2, <1>3
  <2> QED BY <2>1
<1>5. t[0] = 0
  BY <1>1, <1>2
<1>6. ASSUME NEW k \in 1 .. n + 1 PROVE t[k] = t[k - 1] + Worth(v[k])
  <2>1. CASE k <= n
    <3>1. t[k] = s[k] /\ t[k - 1] = s[k - 1] /\ v[k] = u[k] /\ k \in 1 .. n
      BY <1>1, <2>1
    <3> QED BY <1>2, <3>1
  <2>2. CASE k = n + 1
    BY <1>1, <2>2
  <2> QED BY <1>1, <2>1, <2>2
<1>7. t[n + 1] = s[n] + Worth(r)
  BY <1>1
<1> HIDE DEF t
<1>8. Sums(t, v)
  BY <1>1, <1>4, <1>5, <1>6 DEF Sums
<1> QED BY <1>7, <1>8 DEF n, v

LEMMA SumsDrop ==
    ASSUME NEW u \in Seq(Records), NEW s, Sums(s, u), NEW i \in DOMAIN u
    PROVE  \E t : /\ Sums(t, QW!Dropped(u, i))
                  /\ t[Len(QW!Dropped(u, i))] = s[Len(u)] - Worth(u[i])
<1> DEFINE n == Len(u)
           v == QW!Dropped(u, i)
           w == Worth(u[i])
           t == [k \in 0 .. n - 1 |-> IF k < i THEN s[k] ELSE s[k + 1] - w]
<1>1. n \in Nat /\ i \in 1 .. n
  OBVIOUS
<1>2. Len(v) = n - 1 /\ \A k \in 1 .. n - 1 : v[k] = IF k < i THEN u[k] ELSE u[k + 1]
  BY DroppedIs
<1>3. s \in [0 .. n -> Int] /\ s[0] = 0 /\ \A k \in 1 .. n : s[k] = s[k - 1] + Worth(u[k])
  BY DEF Sums
<1>4. w \in Int
  BY WorthIs
<1>5. \A k \in 1 .. n : Worth(u[k]) \in Int
  BY WorthIs
<1>6. s[i] = s[i - 1] + w
  BY <1>1, <1>3
<1> HIDE DEF n, v, w
<1>7. t \in [0 .. n - 1 -> Int]
  <2>1. \A k \in 0 .. n - 1 : s[k] \in Int /\ s[k + 1] \in Int
    BY <1>1, <1>3
  <2> QED BY <1>4, <2>1
<1>8. t[0] = 0
  BY <1>1, <1>3
<1>9. ASSUME NEW k \in 1 .. n - 1 PROVE t[k] = t[k - 1] + Worth(v[k])
  <2>1. CASE k < i
    <3>1. t[k] = s[k] /\ t[k - 1] = s[k - 1] /\ v[k] = u[k] /\ k \in 1 .. n
      BY <1>1, <1>2, <2>1
    <3> QED BY <1>3, <3>1
  <2>2. CASE i < k
    <3>1. t[k] = s[k + 1] - w /\ t[k - 1] = s[k] - w /\ v[k] = u[k + 1] /\ k + 1 \in 1 .. n
      BY <1>1, <1>2, <2>2
    <3>2. (k + 1) - 1 = k /\ k \in 0 .. n
      BY <1>1
    <3>3. s[k + 1] = s[k] + Worth(u[k + 1])
      BY <1>3, <3>1, <3>2
    <3>4. s[k] \in Int /\ Worth(u[k + 1]) \in Int
      BY <1>3, <1>5, <3>1, <3>2
    <3> QED BY <1>4, <3>1, <3>3, <3>4
  <2>3. CASE k = i
    <3>1. t[k] = s[k + 1] - w /\ t[k - 1] = s[k - 1] /\ v[k] = u[k + 1] /\ k + 1 \in 1 .. n
      BY <1>1, <1>2, <2>3
    <3>2. (k + 1) - 1 = k /\ k - 1 \in 0 .. n
      BY <1>1
    <3>3. s[k + 1] = s[k] + Worth(u[k + 1])
      BY <1>3, <3>1, <3>2
    <3>4. s[k - 1] \in Int /\ Worth(u[k + 1]) \in Int
      BY <1>3, <1>5, <3>1, <3>2
    <3>5. s[k] = s[k - 1] + w
      BY <1>6, <2>3
    <3> QED BY <1>4, <3>1, <3>3, <3>4, <3>5
  <2> QED BY <1>1, <2>1, <2>2, <2>3
<1>10. t[n - 1] = s[n] - w
  <2>1. CASE i = n
    <3>1. t[n - 1] = s[n - 1] /\ s[n - 1] \in Int
      BY <1>1, <1>3, <2>1
    <3> QED BY <1>4, <1>6, <2>1, <3>1
  <2>2. CASE i < n
    BY <1>1, <2>2
  <2> QED BY <1>1, <2>1, <2>2
<1> HIDE DEF t
<1>11. Sums(t, v)
  <2>1. 0 .. Len(v) = 0 .. n - 1 /\ 1 .. Len(v) = 1 .. n - 1
    BY <1>2
  <2> QED BY <1>7, <1>8, <1>9, <2>1 DEF Sums
<1> QED BY <1>2, <1>10, <1>11 DEF n, v, w

(* The state of the queue, the journal and the accounts.                   *)
QueueTypes ==
    /\ place \in [QW!Messages -> QW!Places] /\ sent \in [QW!Messages -> Nat] /\ clock \in Nat
    /\ unlogged \in Seq(Records)
    /\ journal \in Scans /\ Distinct(journal.claimed) /\ acct \in Accounts
    /\ watch \in {"off", "watching", "STAGNATION", "BROKER_RESTART_LOSS"}

(* A change of the broker and its record.                                  *)
Changed(r) ==
    /\ Moves(place, r, place') /\ place' \in [QW!Messages -> QW!Places]
    /\ unlogged' = Append(unlogged, r)
    /\ UNCHANGED <<journal, acct, orderly, clock, watch, polled>>
    /\ \/ \E m \in QW!Messages : r = QW!Enqueued(m) /\ place[m] = "new" /\ sent' = [sent EXCEPT ![m] = clock]
       \/ r.event # "message_enqueued" /\ sent' = sent

LEMMA ChangesAre ==
    ASSUME QueueBounds, QueueTypes,
           QW!Enqueue \/ QW!Claim \/ QW!Deliver \/ QW!Reap \/ QW!Drain
    PROVE  \E r \in Records : Changed(r)
<1> USE DEF QueueTypes
<1>1. ASSUME NEW m \in QW!Messages, place[m] = "new", \A o \in 1 .. m - 1 : place[o] # "new",
             sent' = [sent EXCEPT ![m] = clock],
             QW!Change([place EXCEPT ![m] = "undelivered"], QW!Enqueued(m))
      PROVE  QW!Enqueued(m) \in Records /\ Changed(QW!Enqueued(m))
  <2>1. place' = [place EXCEPT ![m] = "undelivered"]
    BY <1>1 DEF QW!Change
  <2>2. Und(place') = Und(place) \cup {m} /\ OnLease(place') = OnLease(place)
    BY <1>1, <2>1 DEF Und, OnLease
  <2>3. Fills(place) => Fills(place')
    <3>1. ASSUME Fills(place), NEW n \in QW!Messages, NEW o \in QW!Messages, o < n, place'[n] # "new"
          PROVE  place'[o] # "new"
      <4>1. CASE n = m
        <5>1. o \in 1 .. m - 1
          BY <3>1, <4>1 DEF QW!Messages
        <5> QED BY <1>1, <2>1, <5>1
      <4>2. CASE n # m
        BY <2>1, <3>1, <4>2 DEF Fills
      <4> QED BY <4>1, <4>2
    <3> QED BY <3>1 DEF Fills
  <2>4. \A o \in QW!Messages : place[o] # "new" => place'[o] # "new"
    BY <2>1
  <2>5. Moves(place, QW!Enqueued(m), place')
    BY <1>1, <2>2, <2>3, <2>4 DEF Moves, Comes
  <2>6. QW!Enqueued(m) \in Records
    <3>1. <<m>> \in Seq(QW!Messages)
      OBVIOUS
    <3>2. QW!Enqueued(m) \in [event : Events, ids : Seq(QW!Messages), count : Nat]
      BY <3>1 DEF QW!Enqueued, Events
    <3> QED BY <3>2 DEF Records, IsRecord
  <2>7. place' \in [QW!Messages -> QW!Places]
    BY <2>1 DEF QW!Places
  <2>8. unlogged' = Append(unlogged, QW!Enqueued(m)) /\ UNCHANGED <<journal, acct, orderly, clock, watch, polled>>
    BY <1>1 DEF QW!Change, QW!journalVars
  <2> QED BY <1>1, <2>5, <2>6, <2>7, <2>8 DEF Changed
<1>2. ASSUME NEW last \in QW!Undelivered, UNCHANGED sent,
             LET S == {m \in QW!Undelivered : m <= last} IN
             QW!Change([m \in QW!Messages |-> IF m \in S THEN "claimed" ELSE place[m]], QW!Claimed(QW!InOrder(S)))
      PROVE  \E r \in Records : Changed(r)
  <2> DEFINE S == {m \in QW!Undelivered : m <= last}
             r == QW!Claimed(QW!InOrder(S))
  <2>1. place' = [m \in QW!Messages |-> IF m \in S THEN "claimed" ELSE place[m]]
    BY <1>2 DEF QW!Change
  <2>2. unlogged' = Append(unlogged, r) /\ UNCHANGED <<journal, acct, orderly, clock, watch, polled>>
    BY <1>2 DEF QW!Change, QW!journalVars
  <2>3. QW!Undelivered = Und(place) /\ Und(place) \subseteq QW!Messages /\ QW!Messages \subseteq Nat
    BY DEF QW!Undelivered, Und, QW!Messages
  <2>13. S \subseteq Und(place) /\ last \in Nat /\ \A o \in Und(place) : o \in Nat
    BY <2>3
  <2>14. \A o \in QW!Undelivered : o \in S <=> o <= last
    OBVIOUS
  <2>4. S \in SUBSET QW!Messages /\ S # {} /\ S \subseteq Und(place)
    BY <2>3, <2>13, <2>14
  <2>5. ASSUME NEW m \in S, NEW o \in Und(place), o < m PROVE o \in S
    <3>1. m \in Nat /\ m <= last /\ o \in Nat /\ last \in Nat
      BY <2>13
    <3> QED BY <2>3, <2>5, <2>14, <3>1
  <2> HIDE DEF S
  <2>6. Und(place') = Und(place) \ S /\ OnLease(place') = OnLease(place) \cup S
    BY <2>1, <2>4 DEF Und, OnLease
  <2>7. \A o \in QW!Messages : (place[o] # "new" => place'[o] # "new") /\ (place'[o] # "new" => place[o] # "new")
    BY <2>1, <2>4 DEF Und
  <2>8. Taken(place, r, place', S)
    BY <2>4, <2>5, <2>6 DEF Taken
  <2>9. Moves(place, r, place')
    BY <2>4, <2>7, <2>8 DEF Moves, Fills
  <2>10. r \in Records
    <3>1. QW!InOrder(S) \in Seq(QW!Messages)
      BY <2>4, InOrderIs
    <3>2. r \in [event : Events, ids : Seq(QW!Messages), count : Nat]
      BY <3>1 DEF QW!Claimed, Events
    <3> QED BY <2>4, <3>2 DEF Records, IsRecord
  <2>11. place' \in [QW!Messages -> QW!Places]
    BY <2>1 DEF QW!Places
  <2>12. r.event # "message_enqueued"
    BY DEF QW!Claimed
  <2> HIDE DEF r
  <2> QED BY <1>2, <2>2, <2>9, <2>10, <2>11, <2>12 DEF Changed
<1>3. ASSUME NEW m \in QW!Messages, place[m] = "claimed", UNCHANGED sent,
             \/ QW!Change([place EXCEPT ![m] = "delivered"], QW!Delivered(m))
             \/ QW!Change([place EXCEPT ![m] = "undelivered"], QW!Reaped(m))
      PROVE  \E r \in Records : Changed(r)
  <2>0. PICK r, to : /\ \/ r = QW!Delivered(m) /\ to = "delivered"
                        \/ r = QW!Reaped(m) /\ to = "undelivered"
                     /\ place' = [place EXCEPT ![m] = to] /\ unlogged' = Append(unlogged, r)
    BY <1>3 DEF QW!Change
  <2>1. place' = [place EXCEPT ![m] = to]
    BY <2>0
  <2>2. unlogged' = Append(unlogged, r) /\ UNCHANGED <<journal, acct, orderly, clock, watch, polled>>
    BY <1>3, <2>0 DEF QW!Change, QW!journalVars
  <2>3. /\ m \in OnLease(place) /\ OnLease(place') = OnLease(place) \ {m}
        /\ Und(place') = IF to = "undelivered" THEN Und(place) \cup {m} ELSE Und(place)
    BY <1>3, <2>0, <2>1 DEF Und, OnLease
  <2>4. \A o \in QW!Messages : (place[o] # "new" => place'[o] # "new") /\ (place'[o] # "new" => place[o] # "new")
    BY <1>3, <2>0, <2>1
  <2>5. Handed(place, r, place', m) \/ Returned(place, r, place', m)
    BY <2>0, <2>3 DEF Handed, Returned
  <2>6. Moves(place, r, place')
    BY <2>4, <2>5 DEF Moves, Fills
  <2>7. r \in Records
    <3>1. <<m>> \in Seq(QW!Messages)
      OBVIOUS
    <3>2. r \in [event : Events, ids : Seq(QW!Messages), count : Nat]
      <4>1. CASE r = QW!Delivered(m)
        BY <3>1, <4>1 DEF QW!Delivered, Events
      <4>2. CASE r = QW!Reaped(m)
        BY <3>1, <4>2 DEF QW!Reaped, Events
      <4> QED BY <2>0, <4>1, <4>2
    <3> QED BY <2>0, <3>2 DEF Records, IsRecord
  <2>8. place' \in [QW!Messages -> QW!Places]
    BY <1>3, <2>0, <2>1 DEF QW!Places
  <2>9. r.event # "message_enqueued"
    BY <2>0 DEF QW!Delivered, QW!Reaped
  <2> QED BY <1>3, <2>2, <2>6, <2>7, <2>8, <2>9 DEF Changed
<1>4. ASSUME UNCHANGED sent,
             QW!Change([m \in QW!Messages |-> IF m \in QW!Undelivered THEN "delivered" ELSE place[m]],
                       QW!Drained(QW!Cardinality(QW!Undelivered)))
      PROVE  \E r \in Records : Changed(r)
  <2> DEFINE r == QW!Drained(Cardinality(Und(place)))
  <2>1. QW!Undelivered = Und(place)
    BY DEF QW!Undelivered, Und
  <2>2. place' = [m \in QW!Messages |-> IF m \in Und(place) THEN "delivered" ELSE place[m]]
    BY <1>4, <2>1 DEF QW!Change
  <2>3. unlogged' = Append(unlogged, r) /\ UNCHANGED <<journal, acct, orderly, clock, watch, polled>>
    BY <1>4, <2>1, QueueCounts DEF QW!Change, QW!journalVars
  <2>4. Und(place') = {} /\ OnLease(place') = OnLease(place)
    BY <2>2 DEF Und, OnLease
  <2>5. \A o \in QW!Messages : (place[o] # "new" => place'[o] # "new") /\ (place'[o] # "new" => place[o] # "new")
    BY <2>2 DEF Und
  <2>6. Moves(place, r, place')
    BY <2>4, <2>5 DEF Moves, Fills, Emptied
  <2>7. r \in Records
    <3>1. Cardinality(Und(place)) \in Nat
      BY WaitIs
    <3>2. r \in [event : Events, ids : Seq(QW!Messages), count : Nat]
      BY <3>1 DEF QW!Drained, Events
    <3> QED BY <3>1, <3>2 DEF Records, IsRecord
  <2>8. place' \in [QW!Messages -> QW!Places]
    BY <2>2 DEF QW!Places
  <2>9. r.event # "message_enqueued"
    BY DEF QW!Drained
  <2> HIDE DEF r
  <2> QED BY <1>4, <2>3, <2>6, <2>7, <2>8, <2>9 DEF Changed
<1>5. CASE QW!Enqueue
  BY <1>1, <1>5 DEF QW!Enqueue
<1>6. CASE QW!Claim
  BY <1>2, <1>6 DEF QW!Claim
<1>7. CASE QW!Deliver
  BY <1>3, <1>7 DEF QW!Deliver
<1>8. CASE QW!Reap
  BY <1>3, <1>8 DEF QW!Reap
<1>9. CASE QW!Drain
  BY <1>4, <1>9 DEF QW!Drain
<1> QED BY <1>5, <1>6, <1>7, <1>8, <1>9

(* The accounts when the watch starts: what the scan counted, and none of  *)
(* the messages of the session.                                            *)
LEMMA OpeningIs ==
    ASSUME QueueBounds, QueueTypes
    PROVE  LET o == QW!Opening IN
           /\ o \in Accounts /\ ~o.loss /\ o.pending = <<>>
           /\ Balance(o) = journal.enqueued - journal.delivered
           /\ Len(journal.claimed) = Cardinality(ItemsOf(journal.claimed))
           /\ Len(journal.claimed) <= journal.enqueued - journal.delivered
                => o.delivered = 0 /\ o.oldClaimed = ItemsOf(journal.claimed)
<1> DEFINE o == QW!Opening
           c == journal.claimed
           e == journal.enqueued
           d == journal.delivered
           backlog == QW!AtLeastZero(e - d)
           within == IF Len(c) > backlog THEN SubSeq(c, 1, backlog) ELSE c
<1>1. /\ c \in Seq(QW!Messages) /\ Distinct(c) /\ e \in Nat /\ d \in Nat /\ Len(c) \in Nat
  BY DEF QueueTypes, Scans
<1>2. o = [pending |-> <<>>, delivered |-> QW!AtLeastZero(d - e), oldClaimed |-> ItemsOf(within),
           oldUnclaimed |-> QW!AtLeastZero(backlog - Len(within)), loss |-> FALSE]
  BY QueueRanges DEF QW!Opening
<1> HIDE DEF o, c, e, d
<1>3. backlog \in Nat /\ backlog = IF e - d > 0 THEN e - d ELSE 0
  BY <1>1 DEF QW!AtLeastZero
<1> HIDE DEF backlog
<1>4. /\ within \in Seq(QW!Messages) /\ Len(within) <= backlog /\ Len(within) \in Nat /\ (Len(c) <= backlog => within = c)
      /\ \A i \in DOMAIN within : i \in DOMAIN c /\ within[i] = c[i]
  BY <1>1, <1>3
<1> HIDE DEF within
<1>5. Distinct(within)
  BY <1>1, <1>4 DEF Distinct
<1>6. ASSUME NEW s \in Seq(QW!Messages), Distinct(s) PROVE Cardinality(ItemsOf(s)) = Len(s)
  <2>1. s \in Surjection(1 .. Len(s), ItemsOf(s)) /\ s \in Injection(1 .. Len(s), ItemsOf(s))
    BY <1>6 DEF Distinct, ItemsOf, Surjection, Injection, IsInjective
  <2>2. Len(s) \in Nat
    OBVIOUS
  <2>3. IsFiniteSet(1 .. Len(s)) /\ Cardinality(1 .. Len(s)) = Len(s)
    BY <2>2, FS_Interval
  <2> QED BY <2>1, <2>3, FS_Surjection
<1>7. Cardinality(ItemsOf(within)) = Len(within) /\ Cardinality(ItemsOf(c)) = Len(c)
  BY <1>1, <1>4, <1>5, <1>6
<1>8. QW!AtLeastZero(backlog - Len(within)) = backlog - Len(within) /\ backlog - Len(within) \in Nat
  BY <1>3, <1>4 DEF QW!AtLeastZero
<1>9. /\ QW!AtLeastZero(d - e) \in Nat /\ backlog - QW!AtLeastZero(d - e) = e - d
      /\ (e - d >= 0 => QW!AtLeastZero(d - e) = 0 /\ backlog = e - d)
  BY <1>1, <1>3 DEF QW!AtLeastZero
<1>10. ItemsOf(within) \in SUBSET QW!Messages
  BY <1>4 DEF ItemsOf
<1>11. /\ o.pending = <<>> /\ o.delivered = QW!AtLeastZero(d - e) /\ o.oldClaimed = ItemsOf(within)
       /\ o.oldUnclaimed = backlog - Len(within) /\ ~o.loss
  BY <1>2, <1>8
<1>12. o \in Accounts
  <2>1. <<>> \in Seq(QW!Messages)
    OBVIOUS
  <2> QED BY <1>2, <1>8, <1>9, <1>10, <2>1 DEF Accounts
<1>13. Balance(o) = e - d
  <2>1. Balance(o) = (Len(<<>>) - QW!AtLeastZero(d - e)) + (backlog - Len(within)) + Len(within)
    BY <1>7, <1>11 DEF Balance, QW!Backlog
  <2>2. Len(<<>>) = 0
    OBVIOUS
  <2> QED BY <1>1, <1>3, <1>4, <1>9, <2>1, <2>2
<1>14. Len(c) <= e - d => o.delivered = 0 /\ o.oldClaimed = ItemsOf(c)
  <2> SUFFICES ASSUME Len(c) <= e - d PROVE o.delivered = 0 /\ o.oldClaimed = ItemsOf(c)
    OBVIOUS
  <2>1. e - d >= 0
    BY <1>1
  <2>2. within = c
    BY <1>4, <1>9, <2>1
  <2> QED BY <1>9, <1>11, <2>1, <2>2
<1> QED BY <1>7, <1>11, <1>12, <1>13, <1>14 DEF o, c, e, d

(* A restart of the broker seen while watching.                            *)
LEMMA RestartIs ==
    ASSUME NEW a \in Accounts
    PROVE  LET b == QW!Live(a, QW!Started) IN
           b \in Accounts /\ (b.loss \/ b = QW!NoAccounts)
<1> DEFINE b == QW!Live(a, QW!Started)
<1>1. (b = a /\ a.loss) \/ b = [a EXCEPT !.loss = TRUE] \/ b = QW!NoAccounts
  BY DEF QW!Live, QW!Started
<1>2. QW!NoAccounts \in Accounts
  <2>1. <<>> \in Seq(QW!Messages)
    OBVIOUS
  <2> QED BY <2>1 DEF QW!NoAccounts, Accounts
<1> HIDE DEF b
<1>3. ASSUME b = [a EXCEPT !.loss = TRUE] PROVE b \in Accounts /\ b.loss
  <2>1. b \in Accounts
    BY <1>3, Zenon DEF Accounts
  <2>2. b.loss
    BY <1>3, Zenon DEF Accounts
  <2> QED BY <2>1, <2>2, Zenon
<1> QED BY <1>1, <1>2, <1>3 DEF b

LEMMA NothingCounted ==
    /\ QW!NoScan \in Scans /\ Distinct(QW!NoScan.claimed) /\ ItemsOf(QW!NoScan.claimed) = {}
    /\ QW!NoScan.enqueued - QW!NoScan.delivered = 0
    /\ QW!NoAccounts \in Accounts /\ Balance(QW!NoAccounts) = 0
    /\ QW!NoAccounts.pending = <<>> /\ QW!NoAccounts.oldClaimed = {} /\ QW!NoAccounts.oldUnclaimed = 0
<1>1. <<>> \in Seq(QW!Messages) /\ Len(<<>>) = 0 /\ DOMAIN <<>> = {}
  OBVIOUS
<1>2. Cardinality({}) = 0
  BY FS_EmptySet
<1>3. QW!NoScan.claimed = <<>>
  BY DEF QW!NoScan
<1> QED BY <1>1, <1>2, <1>3 DEF QW!NoScan, QW!NoAccounts, Scans, Accounts, Balance, QW!Backlog, Distinct, ItemsOf

(* What a written record leaves in the scan or in the accounts.            *)
LEMMA WrittenIs ==
    ASSUME QueueBounds, QueueTypes, NEW r \in Records, QW!Written(r)
    PROVE  /\ journal' \in Scans /\ Distinct(journal.claimed)' /\ acct' \in Accounts
           /\ watch = "off" =>
                /\ journal'.enqueued - journal'.delivered = (journal.enqueued - journal.delivered) + Worth(r)
                /\ ItemsOf(journal'.claimed) = Leased(r, ItemsOf(journal.claimed))
           /\ watch = "watching" => acct' = QW!Live(acct, r)
           /\ watch = "watching" /\ ~acct'.loss => ~acct.loss
<1>1. CASE watch = "off"
  <2>1. journal' = QW!PreScan(journal, r) /\ acct' = acct
    BY <1>1 DEF QW!Written
  <2>2. journal \in Scans /\ Distinct(journal.claimed) /\ acct \in Accounts
    BY DEF QueueTypes
  <2>3. LET b == QW!PreScan(journal, r) IN
        /\ b \in Scans /\ Distinct(b.claimed) /\ ItemsOf(b.claimed) = Leased(r, ItemsOf(journal.claimed))
        /\ b.enqueued - b.delivered = (journal.enqueued - journal.delivered) + Worth(r)
    BY <2>2, ScanStep
  <2> QED BY <1>1, <2>1, <2>2, <2>3
<1>2. CASE watch # "off"
  <2>1. acct' = QW!Live(acct, r) /\ journal' = journal
    BY <1>2 DEF QW!Written
  <2>2. journal \in Scans /\ Distinct(journal.claimed) /\ acct \in Accounts
    BY DEF QueueTypes
  <2>3. CASE acct.loss
    <3>1. acct' = acct
      BY <2>1, <2>3 DEF QW!Live
    <3> QED BY <1>2, <2>1, <2>2, <2>3, <3>1
  <2>4. CASE ~acct.loss
    <3>1. acct' \in Accounts
      BY <2>1, <2>2, <2>4, LiveStep
    <3> QED BY <1>2, <2>1, <2>2, <2>4, <3>1
  <2> QED BY <2>3, <2>4
<1> QED BY <1>1, <1>2

LEMMA StartedIs ==
    ASSUME QueueTypes, QW!Written(QW!Started)
    PROVE  /\ journal' \in Scans /\ Distinct(journal.claimed)' /\ acct' \in Accounts
           /\ watch = "off" => journal' = QW!NoScan
           /\ watch = "watching" /\ ~acct'.loss => acct' = QW!NoAccounts
<1>1. journal \in Scans /\ Distinct(journal.claimed) /\ acct \in Accounts
  BY DEF QueueTypes
<1>2. CASE watch = "off"
  <2>1. journal' = QW!PreScan(journal, QW!Started) /\ acct' = acct
    BY <1>2 DEF QW!Written
  <2>2. journal' = QW!NoScan
    BY <2>1 DEF QW!PreScan, QW!Started
  <2> QED BY <1>1, <1>2, <2>1, <2>2, NothingCounted
<1>3. CASE watch # "off"
  <2>1. acct' = QW!Live(acct, QW!Started) /\ journal' = journal
    BY <1>3 DEF QW!Written
  <2>2. acct' \in Accounts /\ (acct'.loss \/ acct' = QW!NoAccounts)
    BY <1>1, <2>1, RestartIs
  <2> QED BY <1>1, <1>3, <2>1, <2>2
<1> QED BY <1>2, <1>3

(* Nothing of the queue waits when the broker has restarted.               *)
LEMMA NothingWaits ==
    ASSUME QueueTypes, QW!Restart
    PROVE  /\ place' \in [QW!Messages -> QW!Places] /\ Wait(place') = {} /\ OnLease(place') = {}
           /\ \A m \in QW!Messages : place'[m] # "new" <=> place[m] # "new"
<1>1. place' = [m \in QW!Messages |-> IF place[m] \in QW!Waiting THEN "lost" ELSE place[m]]
  BY DEF QW!Restart
<1> QED BY <1>1 DEF QueueTypes, Wait, OnLease, QW!Waiting, QW!Places

LEMMA QueueIsTyped ==
    ASSUME QueueBounds, QueueTypes, [QW!Next]_QW!vars
    PROVE  QueueTypes'
<1> USE DEF QueueTypes
<1>1. CASE QW!Enqueue \/ QW!Claim \/ QW!Deliver \/ QW!Reap \/ QW!Drain
  <2>1. PICK r \in Records : Changed(r)
    BY <1>1, ChangesAre
  <2>2. unlogged' \in Seq(Records)
    BY <2>1 DEF Changed
  <2>3. sent' \in [QW!Messages -> Nat]
    BY <2>1 DEF Changed
  <2> QED BY <2>1, <2>2, <2>3 DEF Changed
<1>2. CASE QW!Journal
  <2>1. PICK i \in DOMAIN unlogged : QW!Written(unlogged[i]) /\ unlogged' = QW!Dropped(unlogged, i)
    BY <1>2 DEF QW!Journal
  <2>2. unlogged[i] \in Records /\ unlogged' \in Seq(Records)
    BY <2>1, DroppedIs
  <2>3. journal' \in Scans /\ Distinct(journal.claimed)' /\ acct' \in Accounts
    BY <2>1, <2>2, WrittenIs
  <2> QED BY <1>2, <2>2, <2>3 DEF QW!Journal
<1>3. CASE QW!Restart
  <2>1. journal' \in Scans /\ Distinct(journal.claimed)' /\ acct' \in Accounts
    BY <1>3, StartedIs DEF QW!Restart
  <2> QED BY <1>3, <2>1, NothingWaits DEF QW!Restart
<1>4. CASE QW!StartWatch
  <2>1. journal' \in Scans /\ Distinct(journal.claimed)' /\ acct' \in Accounts
    BY <1>4, OpeningIs, NothingCounted DEF QW!StartWatch
  <2> QED BY <1>4, <2>1 DEF QW!StartWatch, QW!brokerVars
<1>5. CASE QW!Poll
  BY <1>5 DEF QW!Poll, QW!brokerVars, QW!journalVars
<1>6. CASE QW!Tick
  <2>1. clock' \in Nat
    BY <1>6 DEF QW!Tick
  <2> QED BY <1>6, <2>1 DEF QW!Tick, QW!brokerVars, QW!journalVars
<1>7. CASE UNCHANGED QW!vars
  BY <1>7 DEF QW!vars
<1> QED BY <1>1, <1>2, <1>3, <1>4, <1>5, <1>6, <1>7 DEF QW!Next

(* The accounts count at most what waits and has not been counted: all     *)
(* that waits, less what the records still to be written will bring.       *)
CountsMatch(s) ==
    LET due == Cardinality(Wait(place)) - s[Len(unlogged)] IN
    /\ watch = "off" => journal.enqueued - journal.delivered = due
    /\ watch = "watching" /\ ~acct.loss => Balance(acct) <= due
SumsAgree == \E s : Sums(s, unlogged) /\ CountsMatch(s)

LEMMA SumsHold ==
    ASSUME QueueBounds, QueueTypes, SumsAgree, [QW!Next]_QW!vars
    PROVE  SumsAgree'
<1>0. PICK s : Sums(s, unlogged) /\ CountsMatch(s)
  BY DEF SumsAgree
<1> DEFINE n == Len(unlogged)
<1>t. /\ unlogged \in Seq(Records) /\ n \in Nat /\ journal \in Scans /\ acct \in Accounts
      /\ journal.enqueued \in Nat /\ journal.delivered \in Nat
  BY DEF QueueTypes, Scans
<1>s. s[n] \in Int /\ s[0] = 0
  BY <1>0, <1>t DEF Sums
<1>w. Cardinality(Wait(place)) \in Nat
  BY WaitIs
<1>1. CASE QW!Enqueue \/ QW!Claim \/ QW!Deliver \/ QW!Reap \/ QW!Drain
  <2>1. PICK r \in Records : Changed(r)
    BY <1>1, ChangesAre
  <2>2. unlogged' = Append(unlogged, r) /\ Len(unlogged') = n + 1 /\ UNCHANGED <<journal, acct, watch>>
    BY <1>t, <2>1 DEF Changed
  <2>3. PICK t : Sums(t, unlogged') /\ t[n + 1] = s[n] + Worth(r)
    BY <1>0, <1>t, <2>2, SumsGrow
  <2>4. Cardinality(Wait(place')) = Cardinality(Wait(place)) + Worth(r)
    BY <2>1, MoveIs DEF Changed
  <2>5. Worth(r) \in Int
    BY WorthIs
  <2>6. Cardinality(Wait(place')) - t[Len(unlogged')] = Cardinality(Wait(place)) - s[n]
    BY <1>s, <1>w, <2>2, <2>3, <2>4, <2>5
  <2>7. CountsMatch(t)'
    BY <1>0, <2>2, <2>6 DEF CountsMatch
  <2> QED BY <2>3, <2>7 DEF SumsAgree
<1>2. CASE QW!Journal
  <2>1. PICK i \in DOMAIN unlogged : QW!Written(unlogged[i]) /\ unlogged' = QW!Dropped(unlogged, i)
    BY <1>2 DEF QW!Journal
  <2>2. UNCHANGED <<place, watch>>
    BY <1>2 DEF QW!Journal
  <2> DEFINE r == unlogged[i]
  <2>3. r \in Records
    BY <1>t
  <2>4. PICK t : Sums(t, unlogged') /\ t[Len(unlogged')] = s[n] - Worth(r)
    BY <1>0, <1>t, <2>1, SumsDrop
  <2>5. Worth(r) \in Int
    BY <2>3, WorthIs
  <2>6. Cardinality(Wait(place')) - t[Len(unlogged')] = (Cardinality(Wait(place)) - s[n]) + Worth(r)
    BY <1>s, <1>w, <2>2, <2>4, <2>5
  <2>7. /\ watch = "off" => journal'.enqueued - journal'.delivered = (journal.enqueued - journal.delivered) + Worth(r)
        /\ watch = "watching" => acct' = QW!Live(acct, r)
        /\ watch = "watching" /\ ~acct'.loss => ~acct.loss
    BY <2>1, <2>3, WrittenIs
  <2> HIDE DEF r, n
  <2>8. watch = "off" => (journal.enqueued - journal.delivered)' = (Cardinality(Wait(place)) - s[n]) + Worth(r)
    BY <1>0, <2>7 DEF CountsMatch, n
  <2>9. ASSUME watch = "watching", ~acct'.loss PROVE Balance(acct') <= (Cardinality(Wait(place)) - s[n]) + Worth(r)
    <3>1. ~acct.loss /\ acct' = QW!Live(acct, r)
      BY <2>7, <2>9
    <3>2. Balance(acct) <= Cardinality(Wait(place)) - s[n]
      BY <1>0, <2>9, <3>1 DEF CountsMatch, n
    <3>3. Balance(acct') <= Balance(acct) + Worth(r) /\ acct' \in Accounts
      BY <1>t, <2>3, <3>1, LiveStep
    <3>4. Balance(acct) \in Int /\ Balance(acct') \in Int
      BY <1>t, <3>3, BalanceIs
    <3>5. s[n] \in Int
      BY <1>s
    <3> QED BY <1>w, <2>5, <3>2, <3>3, <3>4, <3>5
  <2>10. CountsMatch(t)'
    BY <2>2, <2>6, <2>8, <2>9 DEF CountsMatch
  <2> QED BY <2>4, <2>10 DEF SumsAgree
<1>3. CASE QW!Restart
  <2>1. unlogged = <<>> /\ UNCHANGED <<unlogged, watch>> /\ QW!Written(QW!Started)
    BY <1>3 DEF QW!Restart
  <2>2. n = 0 /\ s[n] = 0 /\ Len(unlogged') = 0
    BY <1>s, <2>1
  <2>3. Cardinality(Wait(place')) = 0
    BY <1>3, NothingWaits, FS_EmptySet
  <2>4. /\ watch = "off" => journal' = QW!NoScan
        /\ watch = "watching" /\ ~acct'.loss => acct' = QW!NoAccounts
    BY <2>1, StartedIs
  <2>5. Cardinality(Wait(place')) - s[Len(unlogged')] = 0
    BY <2>2, <2>3
  <2>6. CountsMatch(s)'
    BY <2>1, <2>4, <2>5, NothingCounted DEF CountsMatch
  <2> QED BY <1>0, <2>1, <2>6 DEF SumsAgree
<1>4. CASE QW!StartWatch
  <2>1. watch = "off" /\ acct' = QW!Opening /\ watch' = "watching" /\ UNCHANGED <<unlogged, place>>
    BY <1>4 DEF QW!StartWatch, QW!brokerVars
  <2>2. Balance(acct') = journal.enqueued - journal.delivered
    BY <2>1, OpeningIs
  <2>3. journal.enqueued - journal.delivered = Cardinality(Wait(place)) - s[n]
    BY <1>0, <2>1 DEF CountsMatch
  <2>4. Cardinality(Wait(place)) - s[n] \in Int
    BY <1>s, <1>w
  <2>5. Balance(acct') <= Cardinality(Wait(place)) - s[n]
    BY <2>2, <2>3, <2>4
  <2>6. CountsMatch(s)'
    BY <2>1, <2>5 DEF CountsMatch
  <2> QED BY <1>0, <2>1, <2>6 DEF SumsAgree
<1>5. CASE QW!Poll
  <2>1. watch = "watching" /\ watch' # "off" /\ UNCHANGED <<unlogged, place, journal, acct>>
    BY <1>5 DEF QW!Poll, QW!brokerVars, QW!journalVars
  <2>2. CountsMatch(s)'
    BY <1>0, <2>1 DEF CountsMatch
  <2> QED BY <1>0, <2>1, <2>2 DEF SumsAgree
<1>6. CASE QW!Tick \/ UNCHANGED QW!vars
  <2>1. UNCHANGED <<unlogged, place, journal, acct, watch>>
    BY <1>6 DEF QW!Tick, QW!brokerVars, QW!journalVars, QW!vars
  <2>2. CountsMatch(s)'
    BY <1>0, <2>1 DEF CountsMatch
  <2> QED BY <1>0, <2>1, <2>2 DEF SumsAgree
<1> QED BY <1>1, <1>2, <1>3, <1>4, <1>5, <1>6 DEF QW!Next

(* A message's record is still to be written.                              *)
Coming(m) == \E i \in DOMAIN unlogged : unlogged[i] = QW!Enqueued(m)

(* The accounts list the messages of the session by their age, and what    *)
(* else waits is as old as the first of them.                              *)
Aged ==
    /\ \A i, j \in DOMAIN acct.pending : i < j => sent[acct.pending[i]] <= sent[acct.pending[j]]
    /\ \A i \in DOMAIN acct.pending : place[acct.pending[i]] # "new"
    /\ \A m \in Wait(place) : m \notin ItemsOf(acct.pending) /\ ~Coming(m) =>
          \A j \in DOMAIN acct.pending : sent[m] <= sent[acct.pending[j]]
AgesAgree ==
    /\ \A m \in QW!Messages : sent[m] <= clock
    /\ \A m \in QW!Messages : Coming(m) => sent[m] = clock /\ place[m] # "new"
    /\ watch = "watching" /\ ~acct.loss => Aged

LEMMA EnqueuedIs ==
    ASSUME NEW r \in Records, r.event = "message_enqueued"
    PROVE  \E m \in QW!Messages : r = QW!Enqueued(m) /\ r.ids[1] = m
<1>1. \A S : QW!Claimed(QW!InOrder(S)).event = "claimed"
  BY DEF QW!Claimed
<1>2. \A n : QW!Drained(n).event = "queue_drained"
  BY DEF QW!Drained
<1>3. PICK m \in QW!Messages : r \in {QW!Enqueued(m), QW!Delivered(m), QW!Reaped(m)}
  BY <1>1, <1>2 DEF Records, IsRecord
<1>4. r = QW!Enqueued(m)
  BY <1>3 DEF QW!Delivered, QW!Reaped
<1>5. QW!Enqueued(m).ids[1] = m
  BY DEF QW!Enqueued
<1> QED BY <1>4, <1>5

LEMMA EnqueuedOne == \A m, o : QW!Enqueued(m) = QW!Enqueued(o) => m = o
<1>1. \A m : QW!Enqueued(m).ids[1] = m
  BY DEF QW!Enqueued
<1> QED BY <1>1

(* What is to come after a change, and after a record has been written.    *)
LEMMA ComingGrows ==
    ASSUME QueueTypes, NEW r, unlogged' = Append(unlogged, r), NEW m
    PROVE  Coming(m)' <=> Coming(m) \/ r = QW!Enqueued(m)
<1>1. unlogged \in Seq(Records) /\ Len(unlogged) \in Nat
  BY DEF QueueTypes
<1>2. /\ Len(unlogged') = Len(unlogged) + 1 /\ unlogged'[Len(unlogged) + 1] = r
      /\ DOMAIN unlogged = 1 .. Len(unlogged) /\ DOMAIN unlogged' = 1 .. Len(unlogged) + 1
      /\ \A k \in 1 .. Len(unlogged) : unlogged'[k] = unlogged[k]
  BY <1>1
<1>3. \A k \in DOMAIN unlogged' : k \in DOMAIN unlogged \/ k = Len(unlogged) + 1
  BY <1>1, <1>2
<1>4. Len(unlogged) + 1 \in DOMAIN unlogged' /\ \A k \in DOMAIN unlogged : k \in DOMAIN unlogged'
  BY <1>1, <1>2
<1> QED BY <1>2, <1>3, <1>4 DEF Coming

LEMMA ComingShrinks ==
    ASSUME QueueTypes, NEW i \in DOMAIN unlogged, unlogged' = QW!Dropped(unlogged, i), NEW m
    PROVE  (Coming(m)' => Coming(m)) /\ (Coming(m) => Coming(m)' \/ unlogged[i] = QW!Enqueued(m))
<1>1. unlogged \in Seq(Records) /\ Len(unlogged) \in Nat /\ i \in 1 .. Len(unlogged) /\ DOMAIN unlogged = 1 .. Len(unlogged)
  BY DEF QueueTypes
<1>2. /\ DOMAIN unlogged' = 1 .. Len(unlogged) - 1
      /\ \A k \in 1 .. Len(unlogged) - 1 : unlogged'[k] = IF k < i THEN unlogged[k] ELSE unlogged[k + 1]
  BY <1>1, DroppedIs
<1>3. ASSUME NEW k \in DOMAIN unlogged' PROVE \E j \in DOMAIN unlogged : unlogged'[k] = unlogged[j]
  <2>1. CASE k < i
    BY <1>1, <1>2, <2>1
  <2>2. CASE ~(k < i)
    <3>1. k + 1 \in DOMAIN unlogged /\ unlogged'[k] = unlogged[k + 1]
      BY <1>1, <1>2, <2>2
    <3> QED BY <3>1
  <2> QED BY <2>1, <2>2
<1>4. ASSUME NEW j \in DOMAIN unlogged, j # i PROVE \E k \in DOMAIN unlogged' : unlogged'[k] = unlogged[j]
  <2>1. CASE j < i
    BY <1>1, <1>2, <2>1
  <2>2. CASE j > i
    <3>1. j - 1 \in DOMAIN unlogged' /\ ~(j - 1 < i) /\ (j - 1) + 1 = j
      BY <1>1, <1>2, <2>2
    <3> QED BY <1>2, <3>1
  <2> QED BY <1>1, <1>4, <2>1, <2>2
<1> QED BY <1>3, <1>4 DEF Coming

LEMMA MovesWait ==
    ASSUME QueueBounds, NEW p, NEW r, NEW q, Moves(p, r, q), NEW m \in Wait(q), m \notin Wait(p)
    PROVE  r = QW!Enqueued(m)
<1>1. /\ Wait(p) = Und(p) \cup OnLease(p) /\ Wait(q) = Und(q) \cup OnLease(q)
  BY WaitIs
<1>2. ASSUME NEW o \in QW!Messages, Comes(p, r, q, o) PROVE r = QW!Enqueued(m)
  <2>1. m = o
    BY <1>1, <1>2 DEF Comes
  <2> QED BY <1>2, <2>1 DEF Comes
<1> QED BY <1>1, <1>2 DEF Moves, Taken, Handed, Returned, Emptied

LEMMA AgesHold ==
    ASSUME QueueBounds, QueueTypes, AgesAgree, [QW!Next]_QW!vars
    PROVE  AgesAgree'
<1>t. /\ sent \in [QW!Messages -> Nat] /\ clock \in Nat /\ acct.pending \in Seq(QW!Messages) /\ unlogged \in Seq(Records)
      /\ \A m \in QW!Messages : sent[m] \in Nat
  BY DEF QueueTypes, Accounts
<1>p. \A i \in DOMAIN acct.pending : acct.pending[i] \in QW!Messages
  BY <1>t
<1>w. Wait(place) \subseteq QW!Messages
  BY DEF Wait
<1>1. CASE QW!Enqueue \/ QW!Claim \/ QW!Deliver \/ QW!Reap \/ QW!Drain
  <2>1. PICK r \in Records : Changed(r)
    BY <1>1, ChangesAre
  <2>2. Moves(place, r, place') /\ unlogged' = Append(unlogged, r) /\ UNCHANGED <<acct, clock, watch>>
    BY <2>1 DEF Changed
  <2>3. \A m \in QW!Messages : place[m] # "new" => place'[m] # "new"
    BY <2>2 DEF Moves
  <2>4. \A m : Coming(m)' <=> Coming(m) \/ r = QW!Enqueued(m)
    BY <2>2, ComingGrows
  <2>5. \A m \in Wait(place') : m \in Wait(place) \/ r = QW!Enqueued(m)
    BY <2>2, MovesWait
  <2>w. Wait(place') \subseteq QW!Messages
    BY DEF Wait
  <2>6. CASE r.event # "message_enqueued" /\ sent' = sent
    <3>1. \A m : r # QW!Enqueued(m)
      BY <2>6 DEF QW!Enqueued
    <3>2. \A m : Coming(m)' <=> Coming(m)
      BY <2>4, <3>1
    <3>3. \A m \in Wait(place') : m \in Wait(place)
      BY <2>5, <3>1
    <3>4. Aged => Aged'
      BY <1>p, <2>2, <2>3, <2>6, <3>2, <3>3 DEF Aged
    <3>5. \A m \in QW!Messages : Coming(m)' => sent'[m] = clock' /\ place'[m] # "new"
      BY <2>2, <2>3, <2>6, <3>2 DEF AgesAgree
    <3> QED BY <2>2, <2>6, <3>4, <3>5 DEF AgesAgree
  <2>7. ASSUME NEW m \in QW!Messages, r = QW!Enqueued(m), place[m] = "new", sent' = [sent EXCEPT ![m] = clock]
        PROVE  AgesAgree'
    <3>1. \A o \in QW!Messages : sent'[o] = IF o = m THEN clock ELSE sent[o]
      BY <1>t, <2>7
    <3>2. \A o : Coming(o)' <=> Coming(o) \/ o = m
      BY <2>4, <2>7, EnqueuedOne
    <3>3. ~Coming(m)
      BY <2>7 DEF AgesAgree
    <3>4. place'[m] # "new"
      <4>1. \E o \in QW!Messages : Comes(place, r, place', o)
        <5>1. r.event = "message_enqueued"
          BY <2>7 DEF QW!Enqueued
        <5> QED BY <2>2, <5>1 DEF Moves, Taken, Handed, Returned, Emptied, QW!Claimed, QW!Delivered, QW!Reaped, QW!Drained
      <4>2. m \in Und(place')
        BY <2>7, <4>1, EnqueuedOne DEF Comes
      <4> QED BY <4>2 DEF Und
    <3>5. \A o \in QW!Messages : sent'[o] <= clock'
      BY <1>t, <2>2, <3>1 DEF AgesAgree
    <3>6. \A o \in QW!Messages : Coming(o)' => sent'[o] = clock' /\ place'[o] # "new"
      BY <2>2, <2>3, <3>1, <3>2, <3>4 DEF AgesAgree
    <3>7. ASSUME Aged PROVE Aged'
      <4>1. \A i \in DOMAIN acct.pending : acct.pending[i] # m
        BY <2>7, <3>7 DEF Aged
      <4>2. \A i \in DOMAIN acct.pending : sent'[acct.pending[i]] = sent[acct.pending[i]]
        BY <1>p, <3>1, <4>1
      <4>3. \A i, j \in DOMAIN acct.pending : i < j => sent'[acct.pending[i]] <= sent'[acct.pending[j]]
        BY <3>7, <4>2 DEF Aged
      <4>4. \A i \in DOMAIN acct.pending : place'[acct.pending[i]] # "new"
        BY <1>p, <2>3, <3>7 DEF Aged
      <4>5. ASSUME NEW o \in Wait(place'), o \notin ItemsOf(acct.pending), ~Coming(o)', NEW j \in DOMAIN acct.pending
            PROVE  sent'[o] <= sent'[acct.pending[j]]
        <5>1. o # m /\ ~Coming(o) /\ o \in Wait(place)
          BY <2>5, <2>7, <3>2, <4>5, EnqueuedOne
        <5>2. sent[o] <= sent[acct.pending[j]] /\ sent'[o] = sent[o]
          BY <1>w, <3>1, <3>7, <4>5, <5>1 DEF Aged
        <5> QED BY <4>2, <5>2
      <4> QED BY <2>2, <4>3, <4>4, <4>5 DEF Aged
    <3> QED BY <2>2, <3>5, <3>6, <3>7 DEF AgesAgree
  <2> QED BY <2>1, <2>6, <2>7 DEF Changed
<1>2. CASE QW!Journal
  <2>1. PICK i \in DOMAIN unlogged : QW!Written(unlogged[i]) /\ unlogged' = QW!Dropped(unlogged, i)
    BY <1>2 DEF QW!Journal
  <2>2. UNCHANGED <<place, sent, clock, watch>>
    BY <1>2 DEF QW!Journal
  <2> DEFINE r == unlogged[i]
  <2>3. r \in Records
    BY <1>t
  <2>4. \A m : (Coming(m)' => Coming(m)) /\ (Coming(m) => Coming(m)' \/ r = QW!Enqueued(m))
    BY <2>1, ComingShrinks
  <2>5. /\ watch = "watching" => acct' = QW!Live(acct, r)
        /\ watch = "watching" /\ ~acct'.loss => ~acct.loss
    BY <2>1, <2>3, WrittenIs
  <2>c. \A m : r = QW!Enqueued(m) => Coming(m)
    BY <2>1 DEF Coming
  <2> HIDE DEF r
  <2>6. ASSUME watch = "watching", ~acct'.loss PROVE Aged'
    <3>1. ~acct.loss /\ acct' = QW!Live(acct, r) /\ Aged
      BY <2>5, <2>6 DEF AgesAgree
    <3>2. acct'.pending = IF r.event = "message_enqueued" THEN Append(acct.pending, r.ids[1]) ELSE acct.pending
      BY <2>3, <3>1, LiveStep DEF QueueTypes
    <3>3. CASE r.event # "message_enqueued"
      <4>1. acct'.pending = acct.pending /\ \A m : r # QW!Enqueued(m)
        BY <3>2, <3>3 DEF QW!Enqueued
      <4>2. \A m : Coming(m)' <=> Coming(m)
        BY <2>4, <4>1
      <4> QED BY <2>2, <3>1, <4>1, <4>2 DEF Aged
    <3>4. CASE r.event = "message_enqueued"
      <4>1. PICK m \in QW!Messages : r = QW!Enqueued(m) /\ r.ids[1] = m
        BY <2>3, <3>4, EnqueuedIs
      <4> DEFINE s == acct.pending
                 t == acct'.pending
                 n == Len(acct.pending)
      <4>2. t = Append(s, m) /\ n \in Nat
        BY <1>t, <3>2, <3>4, <4>1
      <4>3. /\ DOMAIN s = 1 .. n /\ DOMAIN t = 1 .. n + 1 /\ t[n + 1] = m
            /\ \A k \in 1 .. n : t[k] = s[k]
        BY <1>t, <4>2
      <4>4. sent[m] = clock /\ place[m] # "new"
        BY <2>c, <4>1 DEF AgesAgree
      <4>5. \A k \in DOMAIN s : sent[s[k]] <= clock
        BY <1>p DEF AgesAgree
      <4>a. /\ \A k, l \in DOMAIN s : k < l => sent[s[k]] <= sent[s[l]]
            /\ \A k \in DOMAIN s : place[s[k]] # "new"
            /\ \A o \in Wait(place) : o \notin ItemsOf(s) /\ ~Coming(o) => \A j \in DOMAIN s : sent[o] <= sent[s[j]]
        BY <3>1 DEF Aged
      <4>i. ItemsOf(s) \cup {m} = ItemsOf(t)
        <5>1. \A k \in DOMAIN t : (k \in DOMAIN s /\ t[k] = s[k]) \/ t[k] = m
          BY <4>2, <4>3
        <5>2. n + 1 \in DOMAIN t /\ \A k \in DOMAIN s : k \in DOMAIN t /\ t[k] = s[k]
          BY <4>2, <4>3
        <5> QED BY <4>3, <5>1, <5>2 DEF ItemsOf
      <4> HIDE DEF s, t, n
      <4>6. ASSUME NEW k \in DOMAIN t, NEW l \in DOMAIN t, k < l PROVE sent[t[k]] <= sent[t[l]]
        <5>1. k \in DOMAIN s /\ t[k] = s[k]
          BY <4>2, <4>3, <4>6
        <5>2. CASE l \in DOMAIN s
          BY <4>3, <4>6, <4>a, <5>1, <5>2
        <5>3. CASE l = n + 1
          BY <4>3, <4>4, <4>5, <5>1, <5>3
        <5> QED BY <4>2, <4>3, <5>2, <5>3
      <4>7. ASSUME NEW k \in DOMAIN t PROVE place[t[k]] # "new"
        <5>1. CASE k \in DOMAIN s
          BY <4>3, <4>a, <5>1
        <5>2. CASE k = n + 1
          BY <4>3, <4>4, <5>2
        <5> QED BY <4>2, <4>3, <5>1, <5>2
      <4>8. ASSUME NEW o \in Wait(place), o \notin ItemsOf(t), ~Coming(o)', NEW j \in DOMAIN t
            PROVE  sent[o] <= sent[t[j]]
        <5>1. o # m /\ o \notin ItemsOf(s)
          BY <4>8, <4>i
        <5>2. ~Coming(o)
          BY <2>4, <4>1, <4>8, <5>1, EnqueuedOne
        <5>3. CASE j \in DOMAIN s
          BY <4>3, <4>a, <5>1, <5>2, <5>3
        <5>4. CASE j = n + 1
          BY <1>w, <4>3, <4>4, <5>4 DEF AgesAgree
        <5> QED BY <4>2, <4>3, <5>3, <5>4
      <4> QED BY <2>2, <4>6, <4>7, <4>8 DEF Aged, t
    <3> QED BY <3>3, <3>4
  <2> QED BY <2>2, <2>4, <2>6 DEF AgesAgree
<1>3. CASE QW!Restart
  <2>1. UNCHANGED <<unlogged, sent, clock, watch>> /\ QW!Written(QW!Started)
    BY <1>3 DEF QW!Restart
  <2>2. \A m \in QW!Messages : place[m] # "new" => place'[m] # "new"
    BY <1>3, NothingWaits
  <2>3. \A m : Coming(m)' <=> Coming(m)
    BY <2>1 DEF Coming
  <2>4. watch = "watching" /\ ~acct'.loss => acct'.pending = <<>>
    BY <2>1, StartedIs, NothingCounted
  <2>5. watch = "watching" /\ ~acct'.loss => Aged'
    BY <2>4 DEF Aged
  <2> QED BY <2>1, <2>2, <2>3, <2>5 DEF AgesAgree
<1>4. CASE QW!StartWatch
  <2>1. UNCHANGED <<unlogged, sent, clock, place>> /\ acct' = QW!Opening
    BY <1>4 DEF QW!StartWatch, QW!brokerVars
  <2>2. \A m : Coming(m)' <=> Coming(m)
    BY <2>1 DEF Coming
  <2>3. acct'.pending = <<>>
    BY <2>1, OpeningIs
  <2>4. Aged'
    BY <2>3 DEF Aged
  <2> QED BY <2>1, <2>2, <2>4 DEF AgesAgree
<1>5. CASE QW!Tick
  <2>1. unlogged = <<>> /\ clock' = clock + 1 /\ UNCHANGED <<unlogged, sent, place, acct, watch>>
    BY <1>5 DEF QW!Tick, QW!brokerVars, QW!journalVars
  <2>2. \A m : ~Coming(m) /\ ~Coming(m)'
    BY <2>1 DEF Coming
  <2>3. \A m \in QW!Messages : sent'[m] <= clock'
    BY <1>t, <2>1 DEF AgesAgree
  <2>4. Aged => Aged'
    BY <2>1, <2>2 DEF Aged
  <2> QED BY <2>1, <2>2, <2>3, <2>4 DEF AgesAgree
<1>6. CASE QW!Poll \/ UNCHANGED QW!vars
  <2>1. UNCHANGED <<unlogged, sent, place, acct, clock>> /\ (watch' = "watching" => watch = "watching")
    BY <1>6 DEF QW!Poll, QW!brokerVars, QW!journalVars, QW!vars
  <2>2. \A m : Coming(m)' <=> Coming(m)
    BY <2>1 DEF Coming
  <2>3. Aged => Aged'
    BY <2>1, <2>2 DEF Aged
  <2> QED BY <2>1, <2>2, <2>3 DEF AgesAgree
<1> QED BY <1>1, <1>2, <1>3, <1>4, <1>5, <1>6 DEF QW!Next

(* The messages of before the watch are a first part of the queue: those   *)
(* that the accounts know to be on a lease are of them, those they take    *)
(* for unclaimed are at most those of them that are undelivered, and none  *)
(* of the session is among them.                                           *)
Covers(a, Old, p) ==
    /\ \A m \in Old : p[m] # "new" /\ \A o \in QW!Messages : o < m => o \in Old
    /\ a.oldClaimed \subseteq Old \cap OnLease(p)
    /\ a.oldUnclaimed <= Cardinality(Old \cap Und(p))
    /\ ItemsOf(a.pending) \cap Old = {}

LEMMA FewOld ==
    ASSUME QueueBounds, NEW A \in SUBSET QW!Messages, NEW B \in SUBSET A
    PROVE  Cardinality(A) \in Nat /\ Cardinality(B) \in Nat /\ Cardinality(B) <= Cardinality(A)
<1>1. IsFiniteSet(A) /\ IsFiniteSet(B) /\ Cardinality(A) \in Nat /\ Cardinality(B) \in Nat
  BY FewMessages
<1> QED BY <1>1, FS_Subset

(* A claim takes the old messages first.                                   *)
LEMMA OldGoFirst ==
    ASSUME QueueBounds, NEW a \in Accounts, NEW p, NEW q, NEW r, NEW S \in SUBSET QW!Messages, Taken(p, r, q, S),
           NEW Old \in SUBSET QW!Messages, Covers(a, Old, p)
    PROVE  ClaimedOld(a, QW!InOrder(S)) \subseteq Old \cap S
<1> DEFINE ids == QW!InOrder(S)
           n == QW!Least(a.oldUnclaimed, Len(ids))
           X == Old \cap Und(p)
<1>1. /\ ids \in Seq(QW!Messages) /\ Len(ids) = Cardinality(S) /\ ItemsOf(ids) = S /\ Len(ids) \in Nat
      /\ \A i, j \in 1 .. Len(ids) : i < j => ids[i] < ids[j]
  BY InOrderIs
<1>2. ClaimedOld(a, ids) = {ids[i] : i \in 1 .. n}
  BY DEF ClaimedOld
<1> HIDE DEF ids
<1>3. a.oldUnclaimed \in Nat
  BY DEF Accounts
<1>4. n \in Nat /\ n <= Len(ids) /\ n <= a.oldUnclaimed
  BY <1>1, <1>3 DEF QW!Least
<1> HIDE DEF n
<1>5. /\ \A m \in S, o \in Und(p) : o < m => o \in S
      /\ S \subseteq Und(p)
  BY DEF Taken
<1>6. QW!Messages \subseteq Nat /\ S \subseteq QW!Messages /\ X \subseteq QW!Messages /\ X \subseteq Und(p)
  BY DEF QW!Messages, Und
<1>7. \A m \in Old : \A o \in QW!Messages : o < m => o \in Old
  BY DEF Covers
<1>8. a.oldUnclaimed <= Cardinality(X)
  BY DEF Covers
<1>9. ASSUME NEW k \in 1 .. n, ids[k] \notin Old PROVE FALSE
  <2>1. k \in 1 .. Len(ids) /\ k \in Nat /\ k <= n /\ k - 1 \in Nat /\ k - 1 < k
    BY <1>1, <1>4
  <2>9. k \in DOMAIN ids
    BY <1>1, <2>1
  <2>10. ids[k] \in S
    BY <1>1, <2>9 DEF ItemsOf
  <2>2. ids[k] \in S /\ ids[k] \in Nat
    BY <1>6, <2>10
  <2> DEFINE Y == {ids[j] : j \in 1 .. k - 1}
             f == [j \in 1 .. k - 1 |-> ids[j]]
  <2>3. ASSUME NEW x \in X PROVE x \in Y
    <3>1. x \in Nat /\ x \in Old /\ x \in Und(p) /\ ids[k] \in QW!Messages
      BY <1>6, <2>2
    <3>2. ~(ids[k] < x) /\ x # ids[k]
      BY <1>7, <1>9, <3>1
    <3>3. x < ids[k]
      BY <2>2, <3>1, <3>2
    <3>4. x \in S
      BY <1>5, <2>2, <3>1, <3>3
    <3>5. PICK j \in 1 .. Len(ids) : x = ids[j]
      BY <1>1, <3>4 DEF ItemsOf
    <3>6. ~(k < j) /\ j # k
      <4>1. ~(ids[k] < ids[j]) /\ ids[j] # ids[k]
        BY <3>2, <3>5
      <4> QED BY <1>1, <2>1, <4>1
    <3>7. j \in 1 .. k - 1
      BY <2>1, <3>6
    <3> QED BY <3>5, <3>7
  <2>4. f \in Surjection(1 .. k - 1, Y)
    BY DEF Surjection
  <2>5. IsFiniteSet(1 .. k - 1) /\ Cardinality(1 .. k - 1) = k - 1
    BY <2>1, FS_Interval
  <2> HIDE DEF f, Y
  <2>6. IsFiniteSet(Y) /\ Cardinality(Y) <= k - 1
    BY <2>4, <2>5, FS_Surjection
  <2>7. Cardinality(X) <= Cardinality(Y)
    BY <2>3, <2>6, FS_Subset
  <2>8. Cardinality(X) \in Nat /\ Cardinality(Y) \in Nat
    BY <1>6, <2>6, FewMessages, FS_CardinalityType
  <2> QED BY <1>3, <1>4, <1>8, <2>1, <2>6, <2>7, <2>8
<1>10. \A k \in 1 .. n : ids[k] \in S
  <2>1. \A k \in 1 .. n : k \in DOMAIN ids
    BY <1>1, <1>4
  <2> QED BY <1>1, <2>1 DEF ItemsOf
<1> QED BY <1>2, <1>9, <1>10 DEF ids

LEMMA CoversStep ==
    ASSUME QueueBounds, NEW a \in Accounts, ~a.loss, NEW r \in Records, NEW p, NEW q, Moves(p, r, q),
           NEW Old \in SUBSET QW!Messages, Covers(a, Old, p)
    PROVE  Covers(QW!Live(a, r), Old, q)
<1> DEFINE b == QW!Live(a, r)
<1>1. /\ a.pending \in Seq(QW!Messages) /\ a.oldClaimed \in SUBSET QW!Messages /\ a.oldUnclaimed \in Nat
  BY DEF Accounts
<1>2. b.pending = IF r.event = "message_enqueued" THEN Append(a.pending, r.ids[1]) ELSE a.pending
  BY LiveStep
<1>3. /\ \A m \in Old : p[m] # "new" /\ \A o \in QW!Messages : o < m => o \in Old
      /\ a.oldClaimed \subseteq Old \cap OnLease(p)
      /\ a.oldUnclaimed <= Cardinality(Old \cap Und(p))
      /\ ItemsOf(a.pending) \cap Old = {}
  BY DEF Covers
<1>4. \A m \in Old : q[m] # "new" /\ \A o \in QW!Messages : o < m => o \in Old
  BY <1>3 DEF Moves
<1>5. /\ Cardinality(Old \cap Und(p)) \in Nat /\ Cardinality(Old \cap Und(q)) \in Nat
      /\ IsFiniteSet(Old \cap Und(p)) /\ IsFiniteSet(Old \cap Und(q))
  BY FewMessages
<1>6. Und(p) \subseteq Und(q) => Cardinality(Old \cap Und(p)) <= Cardinality(Old \cap Und(q))
  BY FewOld
<1> DEFINE Right == /\ b.oldClaimed \subseteq Old \cap OnLease(q)
                    /\ b.oldUnclaimed <= Cardinality(Old \cap Und(q))
                    /\ ItemsOf(b.pending) \cap Old = {}
<1>7. ASSUME NEW m \in QW!Messages, Comes(p, r, q, m) PROVE Right
  <2>1. r.event = "message_enqueued" /\ r.ids[1] = m
    BY <1>7 DEF Comes, QW!Enqueued
  <2>2. b = [a EXCEPT !.pending = Append(@, m)]
    BY <2>1 DEF QW!Live
  <2>3. b.oldClaimed = a.oldClaimed /\ b.oldUnclaimed = a.oldUnclaimed /\ b.pending = Append(a.pending, m)
    BY <2>2 DEF Accounts
  <2>4. ItemsOf(Append(a.pending, m)) = ItemsOf(a.pending) \cup {m}
    <3> DEFINE s == a.pending
               n == Len(a.pending)
               t == Append(s, m)
    <3>1. /\ n \in Nat /\ DOMAIN s = 1 .. n /\ DOMAIN t = 1 .. n + 1 /\ t[n + 1] = m /\ \A k \in 1 .. n : t[k] = s[k]
      BY <1>1
    <3> HIDE DEF s, n, t
    <3>2. \A k \in DOMAIN t : (k \in DOMAIN s /\ t[k] = s[k]) \/ t[k] = m
      BY <3>1
    <3>3. n + 1 \in DOMAIN t /\ \A k \in DOMAIN s : k \in DOMAIN t /\ t[k] = s[k]
      BY <3>1
    <3>4. ItemsOf(t) = ItemsOf(s) \cup {m}
      BY <3>1, <3>2, <3>3 DEF ItemsOf
    <3> QED BY <3>4 DEF s, t
  <2>5. m \notin Old
    BY <1>3, <1>7 DEF Comes
  <2>6. OnLease(q) = OnLease(p) /\ Und(p) \subseteq Und(q)
    BY <1>7 DEF Comes
  <2>7. b.oldUnclaimed <= Cardinality(Old \cap Und(q))
    BY <1>1, <1>3, <1>5, <1>6, <2>3, <2>6
  <2> HIDE DEF b
  <2> QED BY <1>3, <2>3, <2>4, <2>5, <2>6, <2>7
<1>8. ASSUME NEW S \in SUBSET QW!Messages, Taken(p, r, q, S) PROVE Right
  <2> DEFINE ids == QW!InOrder(S)
             n == QW!Least(a.oldUnclaimed, Len(ids))
             X == Old \cap Und(p)
  <2>1. r.event = "claimed" /\ r.ids = ids
    BY <1>8 DEF Taken, QW!Claimed
  <2>2. ids \in Seq(QW!Messages) /\ Distinct(ids) /\ Len(ids) = Cardinality(S)
    BY InOrderIs, DistinctIds
  <2>3. b = QW!ClaimOldest(a, ids)
    BY <2>1 DEF QW!Live
  <2>4. /\ b.pending = a.pending /\ b.oldUnclaimed = a.oldUnclaimed - n
        /\ b.oldClaimed = a.oldClaimed \cup ClaimedOld(a, ids)
    BY <2>2, <2>3, ClaimIs
  <2>5. ClaimedOld(a, ids) \subseteq Old \cap S
    BY <1>8, OldGoFirst
  <2>6. Und(q) = Und(p) \ S /\ OnLease(q) = OnLease(p) \cup S
    BY <1>8 DEF Taken
  <2>7. b.oldClaimed \subseteq Old \cap OnLease(q)
    BY <1>3, <2>4, <2>5, <2>6
  <2>8. IsFiniteSet(S) /\ Cardinality(S) \in Nat
    BY FewMessages
  <2>9. Cardinality(X \ S) = Cardinality(X) - Cardinality(X \cap S) /\ Cardinality(X \cap S) <= Cardinality(S)
        /\ Cardinality(X \cap S) \in Nat
    <3>1. Cardinality(X \ S) = Cardinality(X) - Cardinality(X \cap S)
      BY <1>5, FS_Difference
    <3>2. Cardinality(X \cap S) \in Nat /\ Cardinality(X \cap S) <= Cardinality(S)
      BY FewOld
    <3> QED BY <3>1, <3>2
  <2>10. Old \cap Und(q) = X \ S
    BY <2>6
  <2>11. n = a.oldUnclaimed \/ n = Cardinality(S)
    BY <2>2 DEF QW!Least
  <2> HIDE DEF n, b, ids
  <2>12. b.oldUnclaimed <= Cardinality(Old \cap Und(q))
    <3>1. CASE n = a.oldUnclaimed
      BY <1>1, <1>5, <2>4, <3>1
    <3>2. CASE n = Cardinality(S)
      <4>1. b.oldUnclaimed = a.oldUnclaimed - Cardinality(S)
        BY <2>4, <3>2
      <4>2. Cardinality(Old \cap Und(q)) = Cardinality(X) - Cardinality(X \cap S)
        BY <2>9, <2>10
      <4>3. a.oldUnclaimed <= Cardinality(X) /\ Cardinality(X) \in Nat
        BY <1>3, <1>5
      <4> HIDE DEF X
      <4> QED BY <1>1, <2>8, <2>9, <4>1, <4>2, <4>3
    <3> QED BY <2>11, <3>1, <3>2
  <2> QED BY <1>3, <2>4, <2>7, <2>12
<1>9. ASSUME NEW m \in QW!Messages, Handed(p, r, q, m) PROVE Right
  <2>1. r.event = "delivered" /\ r.ids[1] = m
    BY <1>9 DEF Handed, QW!Delivered
  <2>2. Und(q) = Und(p) /\ OnLease(q) = OnLease(p) \ {m}
    BY <1>9 DEF Handed
  <2>3. b = IF m \in a.oldClaimed THEN [a EXCEPT !.oldClaimed = @ \ {m}]
            ELSE IF a.oldUnclaimed > 0 THEN [a EXCEPT !.oldUnclaimed = @ - 1]
            ELSE [a EXCEPT !.delivered = @ + 1]
    BY <2>1 DEF QW!Live
  <2>4. /\ b.oldClaimed = a.oldClaimed \ {m} /\ b.pending = a.pending
        /\ b.oldUnclaimed = a.oldUnclaimed \/ (b.oldUnclaimed = a.oldUnclaimed - 1)
    <3>1. CASE m \in a.oldClaimed
      <4>1. b = [a EXCEPT !.oldClaimed = a.oldClaimed \ {m}]
        BY <2>3, <3>1
      <4> QED BY <4>1 DEF Accounts
    <3>2. CASE m \notin a.oldClaimed /\ a.oldUnclaimed > 0
      <4>1. b = [a EXCEPT !.oldUnclaimed = a.oldUnclaimed - 1] /\ a.oldClaimed \ {m} = a.oldClaimed
        BY <2>3, <3>2
      <4> QED BY <4>1 DEF Accounts
    <3>3. CASE m \notin a.oldClaimed /\ ~(a.oldUnclaimed > 0)
      <4>1. b = [a EXCEPT !.delivered = a.delivered + 1] /\ a.oldClaimed \ {m} = a.oldClaimed
        BY <2>3, <3>3
      <4> QED BY <4>1 DEF Accounts
    <3> QED BY <3>1, <3>2, <3>3
  <2> HIDE DEF b
  <2>5. b.oldUnclaimed <= Cardinality(Old \cap Und(q))
    BY <1>1, <1>3, <1>5, <2>2, <2>4
  <2> QED BY <1>3, <2>2, <2>4, <2>5
<1>10. ASSUME NEW m \in QW!Messages, Returned(p, r, q, m) PROVE Right
  <2>1. r.event = "lease_reaped" /\ r.ids[1] = m
    BY <1>10 DEF Returned, QW!Reaped
  <2>2. Und(q) = Und(p) \cup {m} /\ OnLease(q) = OnLease(p) \ {m} /\ m \in OnLease(p) /\ m \notin Und(p)
    BY <1>10 DEF Returned, OnLease, Und
  <2>3. b = IF m \in a.oldClaimed THEN [a EXCEPT !.oldClaimed = @ \ {m}, !.oldUnclaimed = @ + 1] ELSE a
    BY <2>1 DEF QW!Live
  <2>4. CASE m \in a.oldClaimed
    <3>1. b = [a EXCEPT !.oldClaimed = a.oldClaimed \ {m}, !.oldUnclaimed = a.oldUnclaimed + 1]
      BY <2>3, <2>4
    <3>2. b.oldClaimed = a.oldClaimed \ {m} /\ b.oldUnclaimed = a.oldUnclaimed + 1 /\ b.pending = a.pending
      BY <3>1 DEF Accounts
    <3> HIDE DEF b
    <3>3. Old \cap Und(q) = (Old \cap Und(p)) \cup {m} /\ m \notin Old \cap Und(p)
      BY <1>3, <2>2, <2>4
    <3>4. Cardinality(Old \cap Und(q)) = Cardinality(Old \cap Und(p)) + 1
      BY <1>5, <3>3, FS_AddElement
    <3>5. b.oldUnclaimed <= Cardinality(Old \cap Und(q))
      BY <1>1, <1>3, <1>5, <3>2, <3>4
    <3> QED BY <1>3, <2>2, <3>2, <3>5
  <2>5. CASE m \notin a.oldClaimed
    <3>1. b = a
      BY <2>3, <2>5
    <3> HIDE DEF b
    <3>2. b.oldUnclaimed <= Cardinality(Old \cap Und(q))
      BY <1>1, <1>3, <1>5, <1>6, <2>2, <3>1
    <3> QED BY <1>3, <2>2, <2>5, <3>1, <3>2
  <2> QED BY <2>4, <2>5
<1>11. ASSUME Emptied(p, r, q) PROVE Right
  <2>1. r.event = "queue_drained" /\ r.count = Cardinality(Und(p)) /\ Und(q) = {} /\ OnLease(q) = OnLease(p)
    BY <1>11 DEF Emptied, QW!Drained
  <2> DEFINE n == QW!Least(a.oldUnclaimed, r.count)
  <2>2. b = [a EXCEPT !.oldUnclaimed = a.oldUnclaimed - n, !.delivered = a.delivered + (r.count - n)]
    BY <2>1 DEF QW!Live
  <2>3. Cardinality(Und(p)) \in Nat /\ Cardinality(Old \cap Und(p)) <= Cardinality(Und(p))
    <3>1. Und(p) \in SUBSET QW!Messages
      BY DEF Und
    <3> QED BY <3>1, FewOld
  <2>4. n = a.oldUnclaimed
    BY <1>1, <1>3, <1>5, <2>1, <2>3 DEF QW!Least
  <2>5. b.oldUnclaimed = a.oldUnclaimed - n /\ b.oldClaimed = a.oldClaimed /\ b.pending = a.pending
    BY <2>2 DEF Accounts
  <2> HIDE DEF n, b
  <2>6. b.oldUnclaimed = 0
    BY <1>1, <2>4, <2>5
  <2> QED BY <1>3, <1>5, <2>1, <2>5, <2>6
<1> HIDE DEF b
<1>12. Right
  BY <1>7, <1>8, <1>9, <1>10, <1>11 DEF Moves
<1> QED BY <1>4, <1>12 DEF Covers, b

(* While the records come in the order of the changes, the scan and the    *)
(* accounts are what the queue was when the last of those written was      *)
(* made: there is a line of states P from that one to the present.         *)
LineOf(P) ==
    /\ P[Len(unlogged) + 1] = place
    /\ \A k \in 1 .. Len(unlogged) : Moves(P[k], unlogged[k], P[k + 1])
    /\ Fills(P[1])
SeenAs(p) ==
    /\ watch = "off" => /\ journal.enqueued - journal.delivered = Cardinality(Wait(p))
                        /\ ItemsOf(journal.claimed) = OnLease(p)
    /\ watch = "watching" /\ ~acct.loss => /\ Balance(acct) = Cardinality(Wait(p))
                                           /\ \E Old \in SUBSET QW!Messages : Covers(acct, Old, p)
PastAgrees == orderly => \E P : LineOf(P) /\ SeenAs(P[1])

LEMMA LineGrows ==
    ASSUME QueueTypes, NEW r, unlogged' = Append(unlogged, r), Moves(place, r, place'), NEW P, LineOf(P)
    PROVE  \E R : LineOf(R)' /\ R[1] = P[1]
<1> DEFINE n == Len(unlogged)
<1>0. PICK R : R = [k \in 1 .. n + 2 |-> IF k <= n + 1 THEN P[k] ELSE place']
  OBVIOUS
<1>1. /\ n \in Nat /\ Len(unlogged') = n + 1 /\ unlogged'[n + 1] = r /\ \A k \in 1 .. n : unlogged'[k] = unlogged[k]
  BY DEF QueueTypes
<1> HIDE DEF n
<1>2. P[n + 1] = place /\ Fills(P[1]) /\ \A k \in 1 .. n : Moves(P[k], unlogged[k], P[k + 1])
  BY DEF LineOf, n
<1>6. \A k \in 1 .. n + 2 : R[k] = IF k <= n + 1 THEN P[k] ELSE place'
  BY <1>0 DEF n
<1>3. R[(n + 1) + 1] = place' /\ R[1] = P[1] /\ R[n + 1] = P[n + 1]
  BY <1>1, <1>6
<1>4. ASSUME NEW k \in 1 .. n + 1 PROVE Moves(R[k], unlogged'[k], R[k + 1])
  <2>1. CASE k <= n
    <3>1. k \in 1 .. n /\ R[k] = P[k] /\ R[k + 1] = P[k + 1] /\ unlogged'[k] = unlogged[k]
      BY <1>1, <1>6, <2>1
    <3> QED BY <1>2, <3>1
  <2>2. CASE k = n + 1
    <3>1. R[k] = place /\ R[k + 1] = place' /\ unlogged'[k] = r
      BY <1>1, <1>2, <1>3, <2>2
    <3> QED BY <3>1
  <2> QED BY <1>1, <2>1, <2>2
<1>5. LineOf(R)'
  BY <1>1, <1>2, <1>3, <1>4 DEF LineOf
<1> QED BY <1>3, <1>5

LEMMA LineShrinks ==
    ASSUME QueueTypes, 1 \in DOMAIN unlogged, unlogged' = QW!Dropped(unlogged, 1), UNCHANGED place, NEW P, LineOf(P)
    PROVE  \E R : LineOf(R)' /\ R[1] = P[2] /\ Moves(P[1], unlogged[1], P[2])
<1> DEFINE n == Len(unlogged)
<1>0. PICK R : R = [k \in 1 .. n |-> P[k + 1]]
  OBVIOUS
<1>1. n \in Nat /\ 1 <= n
  BY DEF QueueTypes
<1>2. Len(unlogged') = n - 1 /\ \A k \in 1 .. n - 1 : unlogged'[k] = unlogged[k + 1]
  <2>1. \A k \in 1 .. n - 1 : ~(k < 1)
    BY <1>1
  <2> QED BY <2>1, DroppedIs DEF QueueTypes
<1> HIDE DEF n
<1>3. P[n + 1] = place /\ Fills(P[1]) /\ \A k \in 1 .. n : Moves(P[k], unlogged[k], P[k + 1])
  BY DEF LineOf, n
<1>9. \A k \in 1 .. n : R[k] = P[k + 1]
  BY <1>0 DEF n
<1>4. Moves(P[1], unlogged[1], P[2])
  <2>1. 1 \in 1 .. n /\ 1 + 1 = 2
    BY <1>1
  <2> QED BY <1>3, <2>1
<1>5. R[1] = P[2] /\ R[(n - 1) + 1] = place'
  <2>1. R[1] = P[1 + 1] /\ R[n] = P[n + 1] /\ (n - 1) + 1 = n
    BY <1>1, <1>9
  <2> QED BY <1>3, <2>1
<1>6. Fills(R[1])
  BY <1>3, <1>4, <1>5 DEF Moves
<1>7. ASSUME NEW k \in 1 .. n - 1 PROVE Moves(R[k], unlogged'[k], R[k + 1])
  <2>1. k + 1 \in 1 .. n /\ k \in 1 .. n
    BY <1>1
  <2>2. R[k] = P[k + 1] /\ R[k + 1] = P[(k + 1) + 1] /\ unlogged'[k] = unlogged[k + 1]
    BY <1>2, <1>9, <2>1
  <2> QED BY <1>3, <2>1, <2>2
<1>8. LineOf(R)'
  BY <1>2, <1>5, <1>6, <1>7 DEF LineOf
<1> QED BY <1>4, <1>5, <1>8

(* What the watch starts with.                                             *)
LEMMA OpeningCovers ==
    ASSUME QueueBounds, QueueTypes, NEW p, Fills(p),
           journal.enqueued - journal.delivered = Cardinality(Wait(p)), ItemsOf(journal.claimed) = OnLease(p)
    PROVE  /\ Balance(QW!Opening) = Cardinality(Wait(p))
           /\ \E Old \in SUBSET QW!Messages : Covers(QW!Opening, Old, p)
<1> DEFINE o == QW!Opening
           Old == {m \in QW!Messages : p[m] # "new"}
<1>1. /\ o \in Accounts /\ o.pending = <<>> /\ Balance(o) = Cardinality(Wait(p))
      /\ Len(journal.claimed) = Cardinality(OnLease(p))
      /\ Len(journal.claimed) <= Cardinality(Wait(p)) => o.delivered = 0 /\ o.oldClaimed = OnLease(p)
  BY OpeningIs
<1>2. /\ Cardinality(Wait(p)) = Cardinality(Und(p)) + Cardinality(OnLease(p))
      /\ Cardinality(Und(p)) \in Nat /\ Cardinality(OnLease(p)) \in Nat
  BY WaitIs
<1>3. o.delivered = 0 /\ o.oldClaimed = OnLease(p)
  BY <1>1, <1>2
<1>4. o.oldUnclaimed \in Nat
  BY <1>1 DEF Accounts
<1> HIDE DEF o
<1>5. o.oldUnclaimed = Cardinality(Und(p))
  <2>1. Len(<<>>) = 0
    OBVIOUS
  <2>2. Balance(o) = (0 - 0) + o.oldUnclaimed + Cardinality(OnLease(p))
    BY <1>1, <1>3, <2>1 DEF Balance, QW!Backlog
  <2> QED BY <1>1, <1>2, <1>4, <2>2
<1>6. Und(p) \subseteq Old /\ OnLease(p) \subseteq Old
  BY DEF Und, OnLease
<1>7. \A m \in Old : p[m] # "new" /\ \A l \in QW!Messages : l < m => l \in Old
  BY DEF Fills
<1>8. Old \cap Und(p) = Und(p) /\ ItemsOf(o.pending) = {}
  BY <1>1, <1>6 DEF ItemsOf
<1>9. Old \in SUBSET QW!Messages
  OBVIOUS
<1> HIDE DEF Old
<1>10. Covers(o, Old, p)
  <2>1. o.oldClaimed \subseteq Old \cap OnLease(p)
    BY <1>3, <1>6
  <2>2. o.oldUnclaimed <= Cardinality(Old \cap Und(p))
    <3>1. Cardinality(Old \cap Und(p)) = o.oldUnclaimed
      BY <1>5, <1>8
    <3> QED BY <1>4, <3>1
  <2>3. ItemsOf(o.pending) \cap Old = {}
    BY <1>8
  <2> QED BY <1>7, <2>1, <2>2, <2>3 DEF Covers
<1> QED BY <1>1, <1>9, <1>10 DEF o

LEMMA PastHolds ==
    ASSUME QueueBounds, QueueTypes, PastAgrees, [QW!Next]_QW!vars
    PROVE  PastAgrees'
<1> SUFFICES ASSUME orderly' PROVE \E R : LineOf(R)' /\ SeenAs(R[1])'
  BY DEF PastAgrees
<1>t. /\ unlogged \in Seq(Records) /\ acct \in Accounts
      /\ journal.enqueued \in Nat /\ journal.delivered \in Nat
  BY DEF QueueTypes, Scans
<1>1. CASE QW!Enqueue \/ QW!Claim \/ QW!Deliver \/ QW!Reap \/ QW!Drain
  <2>1. PICK r \in Records : Changed(r)
    BY <1>1, ChangesAre
  <2>2. orderly /\ Moves(place, r, place') /\ unlogged' = Append(unlogged, r) /\ UNCHANGED <<journal, acct, watch>>
    BY <2>1 DEF Changed
  <2>3. PICK P : LineOf(P) /\ SeenAs(P[1])
    BY <2>2 DEF PastAgrees
  <2>4. PICK R : LineOf(R)' /\ R[1] = P[1]
    BY <2>2, <2>3, LineGrows
  <2>5. SeenAs(R[1])'
    BY <2>2, <2>3, <2>4 DEF SeenAs
  <2> QED BY <2>4, <2>5
<1>2. CASE QW!Journal
  <2>1. PICK i \in DOMAIN unlogged : /\ QW!Written(unlogged[i]) /\ unlogged' = QW!Dropped(unlogged, i)
                                     /\ orderly' = (orderly /\ i = 1)
    BY <1>2 DEF QW!Journal
  <2>2. UNCHANGED <<place, watch>>
    BY <1>2 DEF QW!Journal
  <2>3. orderly /\ i = 1
    BY <2>1
  <2>4. PICK P : LineOf(P) /\ SeenAs(P[1])
    BY <2>3 DEF PastAgrees
  <2> DEFINE r == unlogged[1]
  <2>5. 1 \in DOMAIN unlogged /\ unlogged' = QW!Dropped(unlogged, 1) /\ QW!Written(r)
    BY <2>1, <2>3
  <2>6. r \in Records
    BY <1>t, <2>5
  <2>7. PICK R : LineOf(R)' /\ R[1] = P[2] /\ Moves(P[1], r, P[2])
    BY <2>2, <2>4, <2>5, LineShrinks
  <2> DEFINE p == P[1]
             q == P[2]
  <2> HIDE DEF r, p, q
  <2>8. /\ Cardinality(Wait(q)) = Cardinality(Wait(p)) + Worth(r)
        /\ OnLease(q) = Leased(r, OnLease(p))
        /\ r.event = "claimed" => ItemsOf(r.ids) \subseteq Und(p)
    BY <2>7, MoveIs DEF p, q
  <2>9. /\ watch = "off" =>
             /\ journal'.enqueued - journal'.delivered = (journal.enqueued - journal.delivered) + Worth(r)
             /\ ItemsOf(journal'.claimed) = Leased(r, ItemsOf(journal.claimed))
        /\ watch = "watching" => acct' = QW!Live(acct, r)
        /\ watch = "watching" /\ ~acct'.loss => ~acct.loss
    BY <2>5, <2>6, WrittenIs
  <2>10. ASSUME watch = "off"
         PROVE  (journal.enqueued - journal.delivered)' = Cardinality(Wait(q)) /\ ItemsOf(journal'.claimed) = OnLease(q)
    BY <2>4, <2>8, <2>9, <2>10 DEF SeenAs, p
  <2>11. ASSUME watch = "watching", ~acct'.loss
         PROVE  /\ Balance(acct') = Cardinality(Wait(q))
                /\ \E Old \in SUBSET QW!Messages : Covers(acct', Old, q)
    <3>1. ~acct.loss /\ acct' = QW!Live(acct, r)
      BY <2>9, <2>11
    <3>2. PICK Old \in SUBSET QW!Messages : Covers(acct, Old, p)
      BY <2>4, <2>11, <3>1 DEF SeenAs, p
    <3>3. Covers(acct', Old, q)
      BY <1>t, <2>6, <2>7, <3>1, <3>2, CoversStep DEF p, q
    <3>4. r.event = "claimed" => ItemsOf(r.ids) \cap acct.oldClaimed = {}
      BY <2>8, <3>2, WaitIs DEF Covers
    <3>5. Balance(acct') = Balance(acct) + Worth(r)
      BY <1>t, <2>6, <3>1, <3>4, LiveStep
    <3>6. Balance(acct) = Cardinality(Wait(p))
      BY <2>4, <2>11, <3>1 DEF SeenAs, p
    <3> QED BY <2>8, <3>3, <3>5, <3>6
  <2>12. SeenAs(R[1])'
    <3>1. SeenAs(q)'
      BY <2>2, <2>10, <2>11 DEF SeenAs
    <3> QED BY <2>7, <3>1 DEF q
  <2> QED BY <2>7, <2>12
<1>3. CASE QW!Restart
  <2>1. unlogged = <<>> /\ UNCHANGED <<unlogged, watch, orderly>> /\ QW!Written(QW!Started)
    BY <1>3 DEF QW!Restart
  <2>2. Len(unlogged) = 0
    BY <2>1
  <2>3. PICK P : LineOf(P) /\ SeenAs(P[1])
    BY <2>1 DEF PastAgrees
  <2>4. Fills(place)
    BY <2>2, <2>3 DEF LineOf
  <2>5. Wait(place') = {} /\ OnLease(place') = {} /\ \A m \in QW!Messages : place'[m] # "new" <=> place[m] # "new"
    BY <1>3, NothingWaits
  <2>6. Fills(place')
    BY <2>4, <2>5 DEF Fills
  <2>12. PICK R : R = [k \in {1} |-> place']
    OBVIOUS
  <2>7. LineOf(R)'
    <3>1. R[1] = place' /\ Len(unlogged') = 0
      BY <2>1, <2>2, <2>12
    <3>2. \A k \in 1 .. Len(unlogged') : FALSE
      BY <3>1
    <3> QED BY <2>6, <3>1, <3>2 DEF LineOf
  <2>8. /\ watch = "off" => journal' = QW!NoScan
        /\ watch = "watching" /\ ~acct'.loss => acct' = QW!NoAccounts
    BY <2>1, StartedIs
  <2>9. Cardinality(Wait(place')) = 0
    BY <2>5, FS_EmptySet
  <2>10. Covers(QW!NoAccounts, {}, place')
    <3>1. Cardinality({} \cap Und(place')) = 0
      <4>1. {} \cap Und(place') = {}
        OBVIOUS
      <4> QED BY <4>1, FS_EmptySet
    <3>2. ItemsOf(<<>>) \cap {} = {}
      OBVIOUS
    <3> QED BY <3>1, <3>2, NothingCounted DEF Covers
  <2>13. R[1] = place'
    BY <2>12
  <2>11. SeenAs(R[1])'
    BY <2>1, <2>5, <2>8, <2>9, <2>10, <2>13, NothingCounted DEF SeenAs
  <2> QED BY <2>7, <2>11
<1>4. CASE QW!StartWatch
  <2>1. watch = "off" /\ acct' = QW!Opening /\ watch' = "watching" /\ UNCHANGED <<unlogged, place, orderly>>
    BY <1>4 DEF QW!StartWatch, QW!brokerVars
  <2>2. PICK P : LineOf(P) /\ SeenAs(P[1])
    BY <2>1 DEF PastAgrees
  <2>3. LineOf(P)'
    BY <2>1, <2>2 DEF LineOf
  <2> DEFINE p == P[1]
  <2>4. Fills(p) /\ journal.enqueued - journal.delivered = Cardinality(Wait(p)) /\ ItemsOf(journal.claimed) = OnLease(p)
    BY <2>1, <2>2 DEF LineOf, SeenAs
  <2> HIDE DEF p
  <2>5. Balance(acct') = Cardinality(Wait(p)) /\ \E Old \in SUBSET QW!Messages : Covers(acct', Old, p)
    BY <2>1, <2>4, OpeningCovers
  <2>6. SeenAs(p)'
    BY <2>1, <2>5 DEF SeenAs
  <2> QED BY <2>3, <2>6 DEF p
<1>5. CASE QW!Poll \/ QW!Tick \/ UNCHANGED QW!vars
  <2>1. /\ UNCHANGED <<unlogged, place, orderly, journal, acct>>
        /\ (watch' = "off" => watch = "off") /\ (watch' = "watching" => watch = "watching")
    BY <1>5 DEF QW!Poll, QW!Tick, QW!brokerVars, QW!journalVars, QW!vars
  <2>2. PICK P : LineOf(P) /\ SeenAs(P[1])
    BY <2>1 DEF PastAgrees
  <2>3. LineOf(P)'
    BY <2>1, <2>2 DEF LineOf
  <2>4. SeenAs(P[1])'
    BY <2>1, <2>2 DEF SeenAs
  <2> QED BY <2>3, <2>4
<1> QED BY <1>1, <1>2, <1>3, <1>4, <1>5 DEF QW!Next

QueueAgrees == QueueTypes /\ SumsAgree /\ AgesAgree /\ PastAgrees

LEMMA QueueStarts == ASSUME QueueBounds, QW!Init PROVE QueueAgrees
<1> USE DEF QW!Init
<1>0. watch = "off" /\ unlogged = <<>> /\ Len(unlogged) = 0 /\ DOMAIN unlogged = {}
  OBVIOUS
<1>1. QueueTypes
  <2>1. unlogged \in Seq(Records)
    OBVIOUS
  <2>2. place \in [QW!Messages -> QW!Places] /\ sent \in [QW!Messages -> Nat] /\ clock \in Nat
    BY DEF QW!Places
  <2> QED BY <2>1, <2>2, NothingCounted DEF QueueTypes
<1>2. Wait(place) = {} /\ OnLease(place) = {} /\ Fills(place)
  BY DEF Wait, OnLease, Fills, QW!Waiting
<1>3. Cardinality(Wait(place)) = 0
  BY <1>2, FS_EmptySet
<1>4. SumsAgree
  <2> DEFINE s == [k \in 0 .. 0 |-> 0]
  <2>1. s[0] = 0 /\ s \in [0 .. 0 -> Int]
    OBVIOUS
  <2> HIDE DEF s
  <2>2. Sums(s, unlogged)
    <3>1. \A k \in 1 .. Len(unlogged) : FALSE
      BY <1>0
    <3> QED BY <1>0, <2>1, <3>1 DEF Sums
  <2>3. CountsMatch(s)
    BY <1>0, <1>3, <2>1, NothingCounted DEF CountsMatch
  <2> QED BY <2>2, <2>3 DEF SumsAgree
<1>5. AgesAgree
  <2>1. \A m : ~Coming(m)
    BY <1>0 DEF Coming
  <2>2. \A m \in QW!Messages : sent[m] <= clock
    OBVIOUS
  <2> QED BY <1>0, <2>1, <2>2 DEF AgesAgree
<1>6. PastAgrees
  <2> DEFINE P == [k \in {1} |-> place]
  <2>1. P[1] = place
    OBVIOUS
  <2> HIDE DEF P
  <2>2. LineOf(P)
    <3>1. \A k \in 1 .. Len(unlogged) : FALSE
      BY <1>0
    <3> QED BY <1>0, <1>2, <2>1, <3>1 DEF LineOf
  <2>3. SeenAs(P[1])
    BY <1>0, <1>2, <1>3, <2>1, NothingCounted DEF SeenAs
  <2> QED BY <2>2, <2>3 DEF PastAgrees
<1> QED BY <1>1, <1>4, <1>5, <1>6 DEF QueueAgrees

(* With all journalled the accounts count at most what waits, and as many  *)
(* when the records came in the order of the changes.                      *)
LEMMA BalanceBelow ==
    ASSUME QueueBounds, QueueAgrees, QW!Settled, watch = "watching", ~acct.loss
    PROVE  Balance(acct) <= Cardinality(Wait(place))
<1>1. PICK s : Sums(s, unlogged) /\ CountsMatch(s)
  BY DEF QueueAgrees, SumsAgree
<1>2. Len(unlogged) = 0
  BY DEF QW!Settled
<1>3. s[0] = 0
  BY <1>1 DEF Sums
<1>4. Balance(acct) <= Cardinality(Wait(place)) - 0
  BY <1>1, <1>2, <1>3 DEF CountsMatch
<1> QED BY <1>4, WaitIs

LEMMA SettledPast ==
    ASSUME QueueAgrees, QW!Settled, orderly, watch = "watching", ~acct.loss
    PROVE  /\ Balance(acct) = Cardinality(Wait(place))
           /\ \E Old \in SUBSET QW!Messages : Covers(acct, Old, place)
<1>1. PICK P : LineOf(P) /\ SeenAs(P[1])
  BY DEF QueueAgrees, PastAgrees
<1>2. Len(unlogged) = 0
  BY DEF QW!Settled
<1>3. P[1] = place
  BY <1>1, <1>2 DEF LineOf
<1> QED BY <1>1, <1>3 DEF SeenAs

LEMMA BalanceShows == ASSUME QueueBounds, QueueAgrees PROVE QW!AccountsBalance
<1> SUFFICES ASSUME watch = "watching", QW!Settled, orderly, ~acct.loss
             PROVE  QW!Backlog(acct) + acct.oldUnclaimed + QW!Cardinality(acct.oldClaimed)
                      = QW!Cardinality({m \in QW!Messages : place[m] \in QW!Waiting})
  BY DEF QW!AccountsBalance
<1>1. Balance(acct) = Cardinality(Wait(place))
  BY SettledPast
<1> QED BY <1>1, QueueCounts DEF Balance, Wait

(* A report of stagnation is true: were none of the messages that wait     *)
(* old, they would all be of the session and behind the one reported,      *)
(* fewer than the accounts count.                                          *)
LEMMA ReportIsTrue ==
    ASSUME QueueBounds, QueueAgrees, QW!Settled, watch = "watching", ~acct.loss, QW!Overdue(acct)
    PROVE  \E m \in QW!Messages : place[m] \in QW!Waiting /\ clock - sent[m] > StaleSec
<1> SUFFICES ASSUME \A m \in QW!Messages : place[m] \in QW!Waiting => ~(clock - sent[m] > StaleSec)
             PROVE  FALSE
  OBVIOUS
<1> DEFINE t == acct.pending
           d == acct.delivered
           n == Len(t)
<1>1. /\ t \in Seq(QW!Messages) /\ d \in Nat /\ n \in Nat /\ acct \in Accounts /\ acct.oldUnclaimed \in Nat
      /\ acct.oldClaimed \in SUBSET QW!Messages /\ clock \in Nat /\ StaleSec \in Nat
      /\ \A m \in QW!Messages : sent[m] \in Nat
  BY DEF QueueAgrees, QueueTypes, Accounts, QueueBounds
<1>2. n - d > 0 /\ clock - sent[t[d + 1]] > StaleSec
  BY DEF QW!Overdue, QW!Backlog
<1>3. \A m : ~Coming(m)
  BY DEF QW!Settled, Coming
<1>4. /\ \A i, j \in DOMAIN t : i < j => sent[t[i]] <= sent[t[j]]
      /\ \A m \in Wait(place) : m \notin ItemsOf(t) => \A j \in DOMAIN t : sent[m] <= sent[t[j]]
  BY <1>3 DEF QueueAgrees, AgesAgree, Aged
<1>5. Balance(acct) <= Cardinality(Wait(place)) /\ Balance(acct) = (n - d) + acct.oldUnclaimed + Cardinality(acct.oldClaimed)
  BY BalanceBelow DEF Balance, QW!Backlog
<1> HIDE DEF n, t, d
<1>6. d + 1 \in DOMAIN t /\ DOMAIN t = 1 .. n
  <2>1. DOMAIN t = 1 .. n
    BY <1>1 DEF n
  <2> QED BY <1>1, <1>2, <2>1
<1>7. t[d + 1] \in QW!Messages
  BY <1>1, <1>6
<1> DEFINE Y == {t[j] : j \in d + 2 .. n}
           f == [j \in d + 2 .. n |-> t[j]]
<1>8. ASSUME NEW m \in Wait(place) PROVE m \in Y
  <2>1. m \in QW!Messages /\ place[m] \in QW!Waiting
    BY DEF Wait
  <2>2. sent[m] \in Nat /\ sent[t[d + 1]] \in Nat /\ ~(clock - sent[m] > StaleSec)
    BY <1>1, <1>7, <2>1
  <2>3. ~(sent[m] <= sent[t[d + 1]])
    BY <1>1, <1>2, <2>2
  <2>4. m \in ItemsOf(t)
    BY <1>4, <1>6, <2>3
  <2>5. PICK j \in DOMAIN t : m = t[j]
    BY <2>4 DEF ItemsOf
  <2>6. ~(j < d + 1) /\ j # d + 1
    BY <1>4, <1>6, <2>2, <2>3, <2>5
  <2>7. j \in d + 2 .. n
    BY <1>1, <1>6, <2>6
  <2> QED BY <2>5, <2>7
<1>9. f \in Surjection(d + 2 .. n, Y)
  BY DEF Surjection
<1>10. IsFiniteSet(d + 2 .. n) /\ Cardinality(d + 2 .. n) = (n - d) - 1
  <2>1. d + 2 \in Int /\ n \in Int /\ n - d > 0 /\ d \in Int
    BY <1>1, <1>2
  <2>2. IsFiniteSet(d + 2 .. n) /\ Cardinality(d + 2 .. n) = IF d + 2 > n THEN 0 ELSE n - (d + 2) + 1
    BY <2>1, FS_Interval
  <2> QED BY <2>1, <2>2
<1> HIDE DEF f, Y
<1>11. IsFiniteSet(Y) /\ Cardinality(Y) <= (n - d) - 1
  BY <1>9, <1>10, FS_Surjection
<1>12. Cardinality(Wait(place)) <= Cardinality(Y)
  BY <1>8, <1>11, FS_Subset
<1>13. Cardinality(Wait(place)) \in Nat /\ Cardinality(Y) \in Nat /\ Cardinality(acct.oldClaimed) \in Nat
  BY <1>1, <1>11, WaitIs, FewMessages, FS_CardinalityType
<1> QED BY <1>1, <1>5, <1>11, <1>12, <1>13

(* A round without a report: what waits is of before the watch.            *)
LEMMA QuietIsTrue ==
    ASSUME QueueBounds, QueueAgrees, QW!Settled, orderly, watch = "watching", ~acct.loss, ~QW!Overdue(acct),
           \A m \in QW!Range(acct.pending) : clock - sent[m] > StaleSec
    PROVE  \A m \in QW!Range(acct.pending) : place[m] \notin QW!Waiting
<1>1. Balance(acct) = Cardinality(Wait(place))
  BY SettledPast
<1>2. PICK Old \in SUBSET QW!Messages : Covers(acct, Old, place)
  BY SettledPast
<1>3. /\ acct.pending \in Seq(QW!Messages) /\ acct.delivered \in Nat /\ acct.oldUnclaimed \in Nat
      /\ acct.oldClaimed \in SUBSET QW!Messages /\ Len(acct.pending) \in Nat
  BY DEF QueueAgrees, QueueTypes, Accounts
<1>4. QW!Range(acct.pending) = ItemsOf(acct.pending) /\ ItemsOf(acct.pending) \subseteq QW!Messages
  BY <1>3, QueueRanges DEF ItemsOf
<1>5. ~(Len(acct.pending) - acct.delivered > 0)
  <2> SUFFICES ASSUME Len(acct.pending) - acct.delivered > 0 PROVE FALSE
    OBVIOUS
  <2>1. acct.delivered + 1 \in DOMAIN acct.pending
    BY <1>3
  <2>2. clock - sent[acct.pending[acct.delivered + 1]] > StaleSec
    BY <1>4, <2>1 DEF ItemsOf
  <2> QED BY <2>2 DEF QW!Overdue, QW!Backlog
<1>6. /\ acct.oldClaimed \subseteq Old \cap OnLease(place)
      /\ acct.oldUnclaimed <= Cardinality(Old \cap Und(place))
      /\ ItemsOf(acct.pending) \cap Old = {}
  BY <1>2 DEF Covers
<1> DEFINE A == Old \cap Und(place)
           B == Old \cap OnLease(place)
<1>7. /\ Cardinality(acct.oldClaimed) <= Cardinality(B) /\ Cardinality(acct.oldClaimed) \in Nat
      /\ Cardinality(B) \in Nat /\ Cardinality(A) \in Nat /\ IsFiniteSet(A) /\ IsFiniteSet(B)
  <2>1. A \in SUBSET QW!Messages /\ B \in SUBSET QW!Messages
    OBVIOUS
  <2> QED BY <1>6, <2>1, FewOld, FewMessages
<1>8. Cardinality(A \cup B) = Cardinality(A) + Cardinality(B) /\ A \cup B = Old \cap Wait(place)
  <2>1. A \cap B = {} /\ A \cup B = Old \cap Wait(place)
    BY WaitIs
  <2>2. Cardinality(A \cup B) = Cardinality(A) + Cardinality(B) - Cardinality(A \cap B)
    BY <1>7, FS_Union
  <2>3. Cardinality(A \cap B) = 0
    BY <2>1, FS_EmptySet
  <2> QED BY <1>7, <2>1, <2>2, <2>3
<1>9. Balance(acct) = (Len(acct.pending) - acct.delivered) + acct.oldUnclaimed + Cardinality(acct.oldClaimed)
  BY DEF Balance, QW!Backlog
<1> HIDE DEF A, B
<1>10. Cardinality(Wait(place)) \in Nat /\ IsFiniteSet(Wait(place))
  BY WaitIs
<1>11. Cardinality(Wait(place)) <= Cardinality(A \cup B)
  <2>1. acct.oldUnclaimed <= Cardinality(A)
    BY <1>6 DEF A
  <2> QED BY <1>1, <1>3, <1>5, <1>7, <1>8, <1>9, <1>10, <2>1
<1>12. Old \cap Wait(place) = Wait(place)
  <2>1. (Old \cap Wait(place)) \subseteq Wait(place) /\ Cardinality(Wait(place)) <= Cardinality(Old \cap Wait(place))
    BY <1>8, <1>11
  <2> HIDE DEF Wait
  <2>2. IsFiniteSet(Old \cap Wait(place)) /\ Cardinality(Old \cap Wait(place)) <= Cardinality(Wait(place))
        /\ (Cardinality(Old \cap Wait(place)) = Cardinality(Wait(place)) => Old \cap Wait(place) = Wait(place))
    BY <1>10, <2>1, FS_Subset
  <2>3. Cardinality(Old \cap Wait(place)) \in Nat
    BY <2>2, FS_CardinalityType
  <2> QED BY <1>10, <2>1, <2>2, <2>3
<1> SUFFICES ASSUME NEW m \in ItemsOf(acct.pending) PROVE place[m] \notin QW!Waiting
  BY <1>4
<1>13. m \notin Wait(place) /\ m \in QW!Messages
  BY <1>4, <1>6, <1>12
<1> QED BY <1>13 DEF Wait

LEMMA AlarmsAreTrue ==
    ASSUME QueueBounds, QueueAgrees, [QW!Next]_QW!vars
    PROVE  QW!AlarmIsTrue /\ QW!OverdueIsReported
<1>1. CASE QW!Poll
  <2>1. /\ watch = "watching" /\ UNCHANGED <<place, sent, unlogged, orderly, acct, clock>>
        /\ watch' = IF acct.loss THEN "BROKER_RESTART_LOSS" ELSE IF QW!Overdue(acct) THEN "STAGNATION" ELSE "watching"
    BY <1>1 DEF QW!Poll, QW!brokerVars, QW!journalVars
  <2>2. QW!AlarmIsTrue
    <3>1. watch' = "STAGNATION" => ~acct.loss /\ QW!Overdue(acct)
      BY <2>1
    <3> QED BY <2>1, <3>1, ReportIsTrue DEF QW!AlarmIsTrue
  <2>3. QW!OverdueIsReported
    <3>1. watch' = "watching" => ~acct.loss /\ ~QW!Overdue(acct)
      BY <2>1
    <3> QED BY <2>1, <3>1, QuietIsTrue DEF QW!OverdueIsReported
  <2> QED BY <2>2, <2>3
<1>2. CASE QW!Next /\ ~QW!Poll
  <2>1. ~(~polled /\ polled') /\ ~(watch = "watching" /\ watch' = "STAGNATION")
    <3>1. CASE QW!Enqueue \/ QW!Claim \/ QW!Deliver \/ QW!Reap \/ QW!Drain
      <4>1. UNCHANGED <<watch, polled>>
        BY <3>1, ChangesAre DEF QueueAgrees, Changed
      <4> QED BY <4>1
    <3>2. CASE QW!Journal \/ QW!Restart
      <4>1. UNCHANGED <<watch, polled>>
        BY <3>2 DEF QW!Journal, QW!Restart
      <4> QED BY <4>1
    <3>3. CASE QW!StartWatch
      BY <3>3 DEF QW!StartWatch
    <3>4. CASE QW!Tick
      BY <3>4 DEF QW!Tick
    <3> QED BY <1>2, <3>1, <3>2, <3>3, <3>4 DEF QW!Next
  <2> QED BY <2>1 DEF QW!AlarmIsTrue, QW!OverdueIsReported
<1>3. CASE UNCHANGED QW!vars
  BY <1>3 DEF QW!vars, QW!AlarmIsTrue, QW!OverdueIsReported
<1> QED BY <1>1, <1>2, <1>3

(* The accounts of the watcher balance, its alarms are true, and a round   *)
(* without one leaves no message of the session that waits.                *)
THEOREM QueueIsWatched ==
    ASSUME QueueBounds
    PROVE  QW!Spec => []QueueAgrees /\ []QW!AccountsBalance
<1>1. QW!Init => QueueAgrees
  BY QueueStarts
<1>2. QueueAgrees /\ [QW!Next]_QW!vars => QueueAgrees'
  BY QueueIsTyped, SumsHold, AgesHold, PastHolds DEF QueueAgrees
<1>3. QueueAgrees => QW!AccountsBalance
  BY BalanceShows
<1> QED BY <1>1, <1>2, <1>3, PTL DEF QW!Spec

-----------------------------------------------------------------------------
(* The programs side by side                                               *)

(* A behaviour is all of the chosen program, or nothing of a program that  *)
(* is not chosen.                                                          *)
LEMMA SidecarsAlone ==
    Spec => \/ [](chosen = "sidecars") /\ SC!Spec
            \/ []~(chosen = "sidecars")
<1>1. Init /\ chosen = "sidecars" => SC!Init
  BY DEF Init
<1>2. [Next]_vars /\ chosen = "sidecars" => (chosen = "sidecars")' /\ [SC!Next]_SC!vars
  BY DEF Next, vars, varSidecar, SC!vars
<1>3. [Next]_vars /\ ~(chosen = "sidecars") => (~(chosen = "sidecars"))'
  BY DEF Next, vars
<1> QED BY <1>1, <1>2, <1>3, PTL DEF Spec, SC!Spec

LEMMA DashboardAlone ==
    Spec => \/ [](chosen = "dashboard") /\ DB!Spec
            \/ []~(chosen = "dashboard")
<1>1. Init /\ chosen = "dashboard" => DB!Init
  BY DEF Init
<1>2. [Next]_vars /\ chosen = "dashboard" => (chosen = "dashboard")' /\ [DB!Next]_DB!vars
  BY DEF Next, vars, varDashboard, DB!vars
<1>3. [Next]_vars /\ ~(chosen = "dashboard") => (~(chosen = "dashboard"))'
  BY DEF Next, vars
<1> QED BY <1>1, <1>2, <1>3, PTL DEF Spec, DB!Spec

LEMMA OpeningAlone ==
    Spec => \/ [](chosen = "opening") /\ DD!Spec
            \/ []~(chosen = "opening")
<1>1. Init /\ chosen = "opening" => DD!Init
  BY DEF Init
<1>2. [Next]_vars /\ chosen = "opening" => (chosen = "opening")' /\ [DD!Next]_DD!vars
  BY DEF Next, vars, varDbDiscovery, DD!vars
<1>3. [Next]_vars /\ ~(chosen = "opening") => (~(chosen = "opening"))'
  BY DEF Next, vars
<1> QED BY <1>1, <1>2, <1>3, PTL DEF Spec, DD!Spec

LEMMA SendingAlone ==
    Spec => \/ [](chosen = "sending") /\ PS!Spec
            \/ []~(chosen = "sending")
<1>1. Init /\ chosen = "sending" => PS!Init
  BY DEF Init
<1>2. [Next]_vars /\ chosen = "sending" => (chosen = "sending")' /\ [PS!Next]_PS!vars
  BY DEF Next, vars, varPeerSend, PS!vars
<1>3. [Next]_vars /\ ~(chosen = "sending") => (~(chosen = "sending"))'
  BY DEF Next, vars
<1> QED BY <1>1, <1>2, <1>3, PTL DEF Spec, PS!Spec

LEMMA MessagesAlone ==
    Spec => \/ [](chosen = "messages") /\ QW!Spec
            \/ []~(chosen = "messages")
<1>1. Init /\ chosen = "messages" => QW!Init
  BY DEF Init
<1>2. [Next]_vars /\ chosen = "messages" => (chosen = "messages")' /\ [QW!Next]_QW!vars
  BY DEF Next, vars, varQueueWatcher, QW!vars
<1>3. [Next]_vars /\ ~(chosen = "messages") => (~(chosen = "messages"))'
  BY DEF Next, vars
<1> QED BY <1>1, <1>2, <1>3, PTL DEF Spec, QW!Spec

LEMMA PanesAlone ==
    Spec => \/ [](chosen = "panes") /\ SD!Spec
            \/ []~(chosen = "panes")
<1>1. Init /\ chosen = "panes" => SD!Init
  BY DEF Init
<1>2. [Next]_vars /\ chosen = "panes" => (chosen = "panes")' /\ [SD!Next]_SD!vars
  BY DEF Next, vars, varStallDetection, SD!vars
<1>3. [Next]_vars /\ ~(chosen = "panes") => (~(chosen = "panes"))'
  BY DEF Next, vars
<1> QED BY <1>1, <1>2, <1>3, PTL DEF Spec, SD!Spec

LEMMA GateAlone ==
    Spec => \/ [](chosen = "gate") /\ RG!Spec
            \/ []~(chosen = "gate")
<1>1. Init /\ chosen = "gate" => RG!Init
  BY DEF Init
<1>2. [Next]_vars /\ chosen = "gate" => (chosen = "gate")' /\ [RG!Next]_RG!vars
  BY DEF Next, vars, varRetroGate, RG!vars
<1>3. [Next]_vars /\ ~(chosen = "gate") => (~(chosen = "gate"))'
  BY DEF Next, vars
<1> QED BY <1>1, <1>2, <1>3, PTL DEF Spec, RG!Spec

LEMMA DiscoveryAlone ==
    Spec => \/ [](chosen = "discovery") /\ WD!Spec
            \/ []~(chosen = "discovery")
<1>1. Init /\ chosen = "discovery" => WD!Init
  BY DEF Init
<1>2. [Next]_vars /\ chosen = "discovery" => (chosen = "discovery")' /\ [WD!Next]_WD!vars
  BY DEF Next, vars, varWorkDiscovery, WD!vars
<1>3. [Next]_vars /\ ~(chosen = "discovery") => (~(chosen = "discovery"))'
  BY DEF Next, vars
<1> QED BY <1>1, <1>2, <1>3, PTL DEF Spec, WD!Spec

LEMMA SettingsAlone ==
    Spec => \/ [](chosen = "settings") /\ SP!Spec
            \/ []~(chosen = "settings")
<1>1. Init /\ chosen = "settings" => SP!Init
  BY DEF Init
<1>2. [Next]_vars /\ chosen = "settings" => (chosen = "settings")' /\ [SP!Next]_SP!vars
  BY DEF Next, vars, varSetupPrune, SP!vars
<1>3. [Next]_vars /\ ~(chosen = "settings") => (~(chosen = "settings"))'
  BY DEF Next, vars
<1> QED BY <1>1, <1>2, <1>3, PTL DEF Spec, SP!Spec

LEMMA UpkeepAlone ==
    Spec => \/ [](chosen = "upkeep") /\ UK!Spec
            \/ []~(chosen = "upkeep")
<1>1. Init /\ chosen = "upkeep" => UK!Init
  BY DEF Init
<1>2. [Next]_vars /\ chosen = "upkeep" => (chosen = "upkeep")' /\ [UK!Next]_UK!vars
  BY DEF Next, vars, varUpkeep, UK!vars
<1>3. [Next]_vars /\ ~(chosen = "upkeep") => (~(chosen = "upkeep"))'
  BY DEF Next, vars
<1> QED BY <1>1, <1>2, <1>3, PTL DEF Spec, UK!Spec

(* The stop commands stop only programs of their own, and the newest       *)
(* watcher is found by its file, in every behaviour of the programs.       *)
THEOREM StopsAreSafe == Spec => []OwnProgramIsStopped
BY SidecarsAlone, StopsOnlyItsOwn, NewestCanBeFound, PTL DEF OwnProgramIsStopped

(* A quiet client shows the state there is, events of one checkout are in  *)
(* one database, and a database stays half made only after a kill.         *)
THEOREM ReadersFindTheState == Spec => []StateIsFound
BY DashboardAlone, OpeningAlone, ClientsAreCurrent, EventsStayTogether, OnlyKillsLeaveHalves, PTL
   DEF StateIsFound

(* What peer_notify and the retro gate say of messages is true.            *)
THEOREM WordsAreTrue == ASSUME AttemptsOK PROVE Spec => []MessagesAreTrue
BY SendingAlone, GateAlone, ToldTruly, VerdictsAreHers, PTL DEF MessagesAreTrue

(* What a scan for work reports is true of what was so throughout, for any *)
(* repositories, limits and changes.                                       *)
THEOREM ReportsAreTrue == ASSUME WorldOK PROVE Spec => []DiscoveryIsTrue
BY DiscoveryAlone, TriageSaysTheTruth, PTL DEF DiscoveryIsTrue

(* What pruning writes over can be had back, drift that lasts is reported  *)
(* and the sweep spares what is visible, in every behaviour of the         *)
(* programs.                                                               *)
THEOREM CommandsDoNoHarm == Spec => []UpkeepIsSafe
BY SettingsAlone, UpkeepAlone, PruningLosesNothing, LastingDriftShows, SweepSpares, PTL
   DEF UpkeepIsSafe

(* A worker that stands still is noticed, one that works is left alone: in *)
(* every state the streak and the cutoff, and in every cycle what it       *)
(* reports and what it suppresses.                                         *)
THEOREM PanesAreWatched == ASSUME PaneBounds PROVE Spec => WorkersAreWatched
<1>1. [Next]_vars /\ chosen = "panes" /\ [SD!SuppressionIsEarned]_SD!vars /\ [SD!RetryIsReported]_SD!vars
        => [chosen = "panes" => SD!SuppressionIsEarned /\ SD!RetryIsReported]_vars
  <2> SUFFICES ASSUME [Next]_vars, chosen = "panes", UNCHANGED SD!vars PROVE UNCHANGED vars
    OBVIOUS
  <2>1. CASE Next
    BY <2>1 DEF Next, vars, varStallDetection, SD!vars
  <2> QED BY <2>1
<1>2. ~(chosen = "panes") => [chosen = "panes" => SD!SuppressionIsEarned /\ SD!RetryIsReported]_vars
  OBVIOUS
<1> QED
  BY <1>1, <1>2, PanesAlone, QuietPanesAreCounted, CutoffsComeBeforeOutput, SuppressionsAreEarned,
     RetriesAreReported, PTL DEF Spec, WorkersAreWatched

(* The secretary's watcher counts what waits, its alarms are true, and a   *)
(* round without one leaves no message of the session that waits too long. *)
THEOREM MessagesAreWatched == ASSUME QueueBounds PROVE Spec => SecretaryIsAlarmed
<1>1. [Next]_vars /\ chosen = "messages" /\ QueueAgrees /\ [QW!Next]_QW!vars
        => [chosen = "messages" => QW!AlarmIsTrue /\ QW!OverdueIsReported]_vars
  BY AlarmsAreTrue
<1>2. ~(chosen = "messages") => [chosen = "messages" => QW!AlarmIsTrue /\ QW!OverdueIsReported]_vars
  OBVIOUS
<1>3. QW!Spec => [][QW!Next]_QW!vars
  BY PTL DEF QW!Spec
<1> QED
  BY <1>1, <1>2, <1>3, MessagesAlone, QueueIsWatched, PTL DEF Spec, SecretaryIsAlarmed
=============================================================================
