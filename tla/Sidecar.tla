------------------------------ MODULE Sidecar -------------------------------
(***************************************************************************)
(* The pid files of two background processes of one checkout, the queue     *)
(* watcher (tools/secretary_queue_watcher.py) and the dashboard server     *)
(* (dashboard/server.py), and the commands that stop them (--stop of the    *)
(* former, tools/stop_dashboard.py).  A pid file outlives a process that   *)
(* is killed, and the system gives its pid to another one.  The commands    *)
(* therefore ask who has the pid now before they send a signal.             *)
(***************************************************************************)
EXTENDS Naturals, FiniteSets

CONSTANTS Pids, Brokers, NoRecord, MaxStarts

Tools == {"watcher", "server"}
Records == [pid : Pids, broker : Brokers]
Processes == [program : Tools \cup {"other"}, broker : Brokers,
              phase : {"starting", "running", "ending"}]
NoProcess == [program |-> "none", broker |-> "none", phase |-> "none"]

VARIABLES
    proc,    \* proc[p]: the process that has pid p
    file,    \* file[t]: the pid file of tool t
    stop,    \* the stop command: phase, tool, its environment, what it read
    starts,  \* bound on the processes that start
    newest,  \* history: the last process to write the watcher's file, while it runs
    raced,   \* history: newest wrote while a stop command was at work
    hit      \* history: programs that were sent a signal by the stop of each tool

vars == <<proc, file, stop, starts, newest, raced, hit>>

NoStop == [phase |-> "none", tool |-> "watcher", env |-> "unset", record |-> NoRecord]
Gone(p) == proc' = [proc EXCEPT ![p] = NoProcess]

Init ==
    /\ proc = [p \in Pids |-> NoProcess]
    /\ file = [t \in Tools |-> NoRecord]
    /\ stop = NoStop
    /\ starts = 0 /\ newest = NoRecord /\ raced = FALSE
    /\ hit = [t \in Tools |-> {}]
-----------------------------------------------------------------------------
(* Processes. *)

(* A process starts under a pid that is free.  The pids go round, so that  *)
(* one is not reused within the instant between the check of an identity   *)
(* and the signal.                                                         *)
Start(p, program, broker) ==
    /\ proc[p] = NoProcess /\ starts < MaxStarts
    /\ ~(stop.phase = "verified" /\ stop.record.pid = p)
    /\ starts' = starts + 1
    /\ proc' = [proc EXCEPT ![p] = [program |-> program, broker |-> broker, phase |-> "starting"]]
    /\ UNCHANGED <<file, stop, newest, raced, hit>>

(* write_pid_file of the watcher, and the first lines of the server's main. *)
WritePidFile(p) ==
    /\ proc[p] # NoProcess /\ proc[p].program \in Tools /\ proc[p].phase = "starting"
    /\ LET record == [pid |-> p, broker |-> proc[p].broker] IN
       /\ file' = [file EXCEPT ![proc[p].program] = record]
       /\ IF proc[p].program = "watcher"
          THEN newest' = record /\ raced' = (stop.phase # "none")
          ELSE UNCHANGED <<newest, raced>>
    /\ proc' = [proc EXCEPT ![p].phase = "running"]
    /\ UNCHANGED <<stop, starts, hit>>

(* The process that wrote last is no longer there to be found. *)
Leaves(p) == newest' = IF newest # NoRecord /\ newest.pid = p /\ proc[p].program = "watcher"
                       THEN NoRecord ELSE newest

(* Mistake: whatever file is there is removed. *)
RemoveAnyFile(record, expected) == NoRecord

(* remove_pid_file with expected_pid: only a file that names this pid.     *)
RemoveOwnFile(record, expected) ==
    IF record # NoRecord /\ record.pid = expected THEN NoRecord ELSE record

(* A watcher that reports or gets SIGTERM ends through its finally.        *)
WatcherEnds(p) ==
    /\ proc[p] # NoProcess /\ proc[p].program = "watcher"
    /\ proc[p].phase \in {"running", "ending"}
    /\ file' = [file EXCEPT !["watcher"] = RemoveOwnFile(@, p)]
    /\ Leaves(p) /\ Gone(p)
    /\ UNCHANGED <<stop, starts, raced, hit>>

(* The server removes the file without a look, unless it has found no port *)
(* (or is sent SIGTERM, which it does not handle).                         *)
ServerEnds(p) ==
    /\ proc[p] # NoProcess /\ proc[p].program = "server"
    /\ proc[p].phase \in {"running", "ending"}
    /\ \/ proc[p].phase = "running" /\ file' = [file EXCEPT !["server"] = NoRecord]
       \/ UNCHANGED file
    /\ Gone(p)
    /\ UNCHANGED <<stop, starts, newest, raced, hit>>

(* Anything can be killed, and leaves its file behind. *)
Crash(p) ==
    /\ proc[p] # NoProcess
    /\ Leaves(p) /\ Gone(p)
    /\ UNCHANGED <<file, stop, starts, raced, hit>>
-----------------------------------------------------------------------------
(* run_stop, of tool t, with ORG_BROKER_STATE_DIR set to env. *)

StopReads(t, env) ==
    /\ stop.phase = "none" /\ file[t] # NoRecord
    /\ stop' = [phase |-> "read", tool |-> t, env |-> env, record |-> file[t]]
    /\ UNCHANGED <<proc, file, starts, newest, raced, hit>>

(* _ownership_ok: the record is of this broker, or, without a setting, of  *)
(* this checkout.  The dashboard's file has a bare pid.                    *)
OwnershipOk == stop.tool = "server" \/ stop.env \in {"unset", stop.record.broker}

(* Mistake: a live pid is enough. *)
PidAlive == proc[stop.record.pid] # NoProcess

(* _identity_ok: the pid is alive and its arguments name the program.      *)
IdentityOk ==
    LET p == stop.record.pid IN proc[p] # NoProcess /\ proc[p].program = stop.tool

(* A record that is not of a live process of the tool is stale, and the    *)
(* file is removed, whatever it says by now.                               *)
StopFindsStale ==
    /\ stop.phase = "read" /\ ~(OwnershipOk /\ IdentityOk)
    /\ file' = [file EXCEPT ![stop.tool] = NoRecord]
    /\ newest' = IF stop.tool = "watcher" /\ newest = stop.record THEN NoRecord ELSE newest
    /\ stop' = NoStop
    /\ UNCHANGED <<proc, starts, raced, hit>>

StopVerifies ==
    /\ stop.phase = "read" /\ OwnershipOk /\ IdentityOk
    /\ stop' = [stop EXCEPT !.phase = "verified"]
    /\ UNCHANGED <<proc, file, starts, newest, raced, hit>>

(* The arguments of a live process cannot be read, or it may not be        *)
(* signalled: the file stays.                                              *)
StopGivesUp ==
    /\ \/ stop.phase = "read" /\ OwnershipOk /\ proc[stop.record.pid] # NoProcess
       \/ stop.phase = "verified" /\ proc[stop.record.pid] # NoProcess
    /\ stop' = NoStop
    /\ UNCHANGED <<proc, file, starts, newest, raced, hit>>

(* SIGTERM.  The process goes within the five seconds that wait_gone has.   *)
StopSignals ==
    LET p == stop.record.pid IN
    /\ stop.phase = "verified"
    /\ IF proc[p] = NoProcess
       THEN /\ file' = [file EXCEPT ![stop.tool] = NoRecord]
            /\ stop' = NoStop
            /\ UNCHANGED <<proc, hit>>
       ELSE /\ hit' = [hit EXCEPT ![stop.tool] = @ \cup {proc[p].program}]
            /\ proc' = [proc EXCEPT ![p].phase = "ending"]
            /\ stop' = [stop EXCEPT !.phase = "signalled"]
            /\ UNCHANGED file
    /\ UNCHANGED <<starts, newest, raced>>

(* At the end the watcher's file is removed if it still names the pid, the *)
(* dashboard's in any case.                                                *)
StopRemoves ==
    /\ stop.phase = "signalled"
    /\ proc[stop.record.pid] # NoProcess => proc[stop.record.pid].phase # "ending"
    /\ file' = [file EXCEPT ![stop.tool] =
                    IF stop.tool = "watcher" THEN RemoveOwnFile(@, stop.record.pid) ELSE NoRecord]
    /\ stop' = NoStop
    /\ UNCHANGED <<proc, starts, newest, raced, hit>>

Next ==
    \/ \E p \in Pids : \/ \E t \in {"watcher", "server", "other"}, b \in Brokers : Start(p, t, b)
                       \/ WritePidFile(p) \/ WatcherEnds(p) \/ ServerEnds(p) \/ Crash(p)
    \/ \E t \in Tools, env \in Brokers \cup {"unset"} : StopReads(t, env)
    \/ StopFindsStale \/ StopVerifies \/ StopGivesUp \/ StopSignals \/ StopRemoves

Spec == Init /\ [][Next]_vars
-----------------------------------------------------------------------------
TypeOK ==
    /\ proc \in [Pids -> Processes \cup {NoProcess}]
    /\ file \in [Tools -> Records \cup {NoRecord}]
    /\ stop \in [phase : {"none", "read", "verified", "signalled"}, tool : Tools,
                 env : Brokers \cup {"unset"}, record : Records \cup {NoRecord}]
    /\ starts \in Nat
    /\ newest \in Records \cup {NoRecord} /\ raced \in BOOLEAN
    /\ hit \in [Tools -> SUBSET (Tools \cup {"other"})]

(* A stop command signals no process of another program, however stale the *)
(* file is that it read.                                                   *)
OnlyOwnProgramStopped == \A t \in Tools : hit[t] \subseteq {t}

(* The watcher that wrote the file last can be found through it for as     *)
(* long as it runs: an older one that ends later does not take the file    *)
(* away, and neither does a stop command that was done before it started.  *)
NewestIsFindable == ~raced /\ newest # NoRecord => file["watcher"] = newest
=============================================================================
