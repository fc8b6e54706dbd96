----------------------------- MODULE Dashboard ------------------------------
(***************************************************************************)
(* dashboard/server.py: a thread compares the modification times of the     *)
(* database and the files every 1.5 seconds and, when they differ, builds  *)
(* the state and puts it into the queue of every subscriber; a request for *)
(* /api/events subscribes, sends a state of its own, and then what the     *)
(* queue brings.  The data is reduced to its version, which every change   *)
(* raises; a build reads the database and the files one after the other.   *)
(***************************************************************************)
EXTENDS Naturals, Sequences

CONSTANTS Clients, MaxVersion, MaxFailures

Parts == {"db", "files"}

VARIABLES
    version,    \* version of the database and of the files
    mtimes,     \* _last_mtimes: the versions the thread has seen
    building,   \* the thread's build: what it has read of each part
    subscribed, \* clients with a queue
    queue,      \* queue[c]
    phase,      \* phase[c]: off, subscribed, half built, streaming
    first,      \* first[c]: what c's own build has read
    shown,      \* shown[c]: what c was sent last
    failures,   \* bound on builds that raise
    missed      \* history: a change was seen and its build raised

vars == <<version, mtimes, building, subscribed, queue, phase, first, shown, failures, missed>>
clientVars == <<subscribed, queue, phase, first, shown>>

Unread == [db |-> 0, files |-> 0]
Idle == Unread
Versions == [Parts -> Nat]
Phases == {"off", "subscribed", "half built", "streaming"}

Init ==
    /\ version = [p \in Parts |-> 1]
    /\ mtimes = version
    /\ building = Idle
    /\ subscribed = {} /\ queue = [c \in Clients |-> <<>>]
    /\ phase = [c \in Clients |-> "off"]
    /\ first = [c \in Clients |-> Unread] /\ shown = [c \in Clients |-> Unread]
    /\ failures = 0 /\ missed = FALSE
-----------------------------------------------------------------------------
(* Any process of the system may change the database or a file. *)
Change(p) ==
    /\ version[p] < MaxVersion
    /\ version' = [version EXCEPT ![p] = @ + 1]
    /\ UNCHANGED <<mtimes, building, failures, missed, clientVars>>

(* _watcher_thread: the times are kept before the state is built. *)
SeeChange ==
    /\ building = Idle /\ mtimes # version
    /\ mtimes' = version
    /\ building' = [building EXCEPT !.db = version.db]
    /\ missed' = FALSE
    /\ UNCHANGED <<version, failures, clientVars>>

(* Mistake: only the clients that have been sent their first state get it. *)
BroadcastToStreaming ==
    /\ building # Idle
    /\ LET state == [building EXCEPT !.files = version.files] IN
       queue' = [c \in Clients |-> IF phase[c] = "streaming" THEN Append(queue[c], state) ELSE queue[c]]
    /\ building' = Idle
    /\ UNCHANGED <<version, mtimes, subscribed, phase, first, shown, failures, missed>>

(* The state goes into the queue of every subscriber. *)
Broadcast ==
    /\ building # Idle
    /\ LET state == [building EXCEPT !.files = version.files] IN
       queue' = [c \in Clients |-> IF c \in subscribed THEN Append(queue[c], state) ELSE queue[c]]
    /\ building' = Idle
    /\ UNCHANGED <<version, mtimes, subscribed, phase, first, shown, failures, missed>>

(* A build that raises is logged; the times stay, so that it is not tried  *)
(* again before the next change.                                           *)
BuildFails ==
    /\ building # Idle /\ failures < MaxFailures
    /\ failures' = failures + 1
    /\ building' = Idle /\ missed' = TRUE
    /\ UNCHANGED <<version, mtimes, clientVars>>
-----------------------------------------------------------------------------
(* _serve_sse: the queue first, then the state as it is. *)
Subscribe(c) ==
    /\ phase[c] = "off"
    /\ subscribed' = subscribed \cup {c}
    /\ phase' = [phase EXCEPT ![c] = "subscribed"]
    /\ UNCHANGED <<version, mtimes, building, queue, first, shown, failures, missed>>

(* build_state of the request: the database, ... *)
ReadDatabase(c) ==
    /\ phase[c] = "subscribed"
    /\ first' = [first EXCEPT ![c].db = version.db]
    /\ phase' = [phase EXCEPT ![c] = "half built"]
    /\ UNCHANGED <<version, mtimes, building, subscribed, queue, shown, failures, missed>>

(* ... the files, and the answer. *)
SendInitial(c) ==
    /\ phase[c] = "half built"
    /\ shown' = [shown EXCEPT ![c] = [first[c] EXCEPT !.files = version.files]]
    /\ first' = [first EXCEPT ![c] = Unread]
    /\ phase' = [phase EXCEPT ![c] = "streaming"]
    /\ UNCHANGED <<version, mtimes, building, subscribed, queue, failures, missed>>

SendNext(c) ==
    /\ phase[c] = "streaming" /\ queue[c] # <<>>
    /\ shown' = [shown EXCEPT ![c] = Head(queue[c])]
    /\ queue' = [queue EXCEPT ![c] = Tail(@)]
    /\ UNCHANGED <<version, mtimes, building, subscribed, phase, first, failures, missed>>

(* The client has gone, or its own build raises: it connects anew. *)
Disconnect(c) ==
    /\ phase[c] # "off"
    /\ subscribed' = subscribed \ {c}
    /\ queue' = [queue EXCEPT ![c] = <<>>]
    /\ phase' = [phase EXCEPT ![c] = "off"]
    /\ first' = [first EXCEPT ![c] = Unread] /\ shown' = [shown EXCEPT ![c] = Unread]
    /\ UNCHANGED <<version, mtimes, building, failures, missed>>

Next ==
    \/ \E p \in Parts : Change(p)
    \/ SeeChange \/ Broadcast \/ BuildFails
    \/ \E c \in Clients : \/ Subscribe(c) \/ ReadDatabase(c) \/ SendInitial(c)
                          \/ SendNext(c) \/ Disconnect(c)

Spec == Init /\ [][Next]_vars
-----------------------------------------------------------------------------
TypeOK ==
    /\ version \in Versions /\ mtimes \in Versions /\ building \in Versions
    /\ subscribed \subseteq Clients
    /\ queue \in [Clients -> Seq(Versions)]
    /\ phase \in [Clients -> Phases]
    /\ first \in [Clients -> Versions] /\ shown \in [Clients -> Versions]
    /\ failures \in Nat /\ missed \in BOOLEAN

(* The thread has nothing to do. *)
Quiet == building = Idle /\ mtimes = version

(* What a client has been sent last is current when the thread is quiet,   *)
(* its queue is empty and the last build succeeded, even though a client   *)
(* may be sent a state that is older than the one before.                  *)
QuietClientIsCurrent ==
    Quiet /\ ~missed =>
        \A c \in Clients : phase[c] = "streaming" /\ queue[c] = <<>> => shown[c] = version
=============================================================================
