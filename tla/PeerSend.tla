------------------------------ MODULE PeerSend ------------------------------
(***************************************************************************)
(* tools/peer_notify.py: a command line tool sends one message to a peer    *)
(* through a server that it starts for the purpose (renga) or through a     *)
(* command of the broker, and tells its caller whether the message has      *)
(* arrived.  Both are external: the server answers each request with a      *)
(* line, after other lines, late, or never, and may end at any time.  A     *)
(* thread reads the lines into a queue, so that the tool can wait with a    *)
(* limit.                                                                  *)
(***************************************************************************)
EXTENDS Naturals, Sequences

CONSTANTS MaxLines     \* bound on the lines of the server

Noise == {"not json", "notification", "other id"}
Answers == {"accepted", "is error", "dropped", "no result"}

VARIABLES
    transport, \* ORG_TRANSPORT and what it needs: broker, renga, or nothing to send with
    pc,        \* the tool: start, initialize, send, or finished
    result,    \* what notify_peer returns
    lines,     \* the queue of the reader
    written,   \* lines the server has written
    server,    \* the server: off, up, initialized, sent, or ended
    delivered  \* the peer has the message

vars == <<transport, pc, result, lines, written, server, delivered>>

Init ==
    /\ transport \in {"broker", "renga", "no socket", "no binary"}
    /\ pc = "start" /\ result = FALSE
    /\ lines = <<>> /\ written = 0
    /\ server = "off" /\ delivered = FALSE

Finish(r) == pc' = "finished" /\ result' = r
-----------------------------------------------------------------------------
(* notify_peer. *)

(* Without a socket or a binary nothing is started; Popen may fail too. *)
NothingToSendWith ==
    /\ pc = "start" /\ transport # "broker"
    /\ Finish(FALSE)
    /\ UNCHANGED <<transport, lines, written, server, delivered>>

(* The command of the broker exits with 0 when the peer has the message;   *)
(* a failure and a timeout say nothing.                                    *)
BrokerSend(code) ==
    /\ pc = "start" /\ transport = "broker"
    /\ \/ code = 0 /\ delivered' = TRUE
       \/ code # 0 /\ delivered' \in BOOLEAN
    /\ Finish(code = 0)
    /\ UNCHANGED <<transport, lines, written, server>>

(* The server is started and is written the request to initialize. *)
Start ==
    /\ pc = "start" /\ transport = "renga"
    /\ pc' = "initialize" /\ server' = "up"
    /\ UNCHANGED <<transport, result, lines, written, delivered>>

Line(text) == lines # <<>> /\ Head(lines) = text /\ lines' = Tail(lines)

(* _read_response passes over what is not the answer to the request. *)
ReadNoise ==
    /\ pc \in {"initialize", "send"}
    /\ \E text \in Noise : Line(text)
    /\ UNCHANGED <<transport, pc, result, written, server, delivered>>

Initialized ==
    /\ pc = "initialize" /\ Line("accepted")
    /\ pc' = "send"
    /\ server' = IF server = "initialized" THEN "sent" ELSE server
    /\ UNCHANGED <<transport, result, written, delivered>>

InitializeFails ==
    /\ pc = "initialize" /\ Line("no result")
    /\ Finish(FALSE)
    /\ UNCHANGED <<transport, written, server, delivered>>

(* Mistake: an answer without isError is good. *)
AnswerWithoutDropped(text) == text \in {"accepted", "dropped"}

(* _drive_send: a message that the server has dropped is answered without  *)
(* an error.                                                               *)
Answer(text) == text = "accepted"

Answered ==
    /\ pc = "send"
    /\ \E text \in Answers : Line(text) /\ Finish(Answer(text))
    /\ UNCHANGED <<transport, written, server, delivered>>

(* The limit is over, or the server has ended and its lines are read. *)
GiveUp ==
    /\ pc \in {"initialize", "send"}
    /\ Finish(FALSE)
    /\ UNCHANGED <<transport, lines, written, server, delivered>>
-----------------------------------------------------------------------------
(* The server. *)
Write(text) ==
    /\ written < MaxLines
    /\ written' = written + 1
    /\ lines' = Append(lines, text)
    /\ UNCHANGED <<transport, pc, result>>

WriteNoise ==
    /\ server \in {"up", "initialized", "sent"}
    /\ \E text \in Noise : Write(text)
    /\ UNCHANGED <<server, delivered>>

AnswerInitialize ==
    /\ server = "up"
    /\ \E text \in {"accepted", "no result"} : Write(text)
    /\ server' = "initialized" /\ UNCHANGED delivered

(* The message is passed on, or not; the answer says which. *)
AnswerSend ==
    /\ server = "sent"
    /\ \E text \in Answers : Write(text) /\ delivered' = (text = "accepted")
    /\ server' = "answered"

(* The server ends, perhaps between the delivery and the answer. *)
ServerEnds ==
    /\ server \notin {"off", "ended"}
    /\ delivered' \in IF server = "sent" THEN BOOLEAN ELSE {delivered}
    /\ server' = "ended"
    /\ UNCHANGED <<transport, pc, result, lines, written>>

Next ==
    \/ NothingToSendWith \/ Start \/ ReadNoise \/ Initialized \/ InitializeFails
    \/ Answered \/ GiveUp
    \/ \E code \in {0, 1} : BrokerSend(code)
    \/ WriteNoise \/ AnswerInitialize \/ AnswerSend \/ ServerEnds

Spec == Init /\ [][Next]_vars
-----------------------------------------------------------------------------
TypeOK ==
    /\ transport \in {"broker", "renga", "no socket", "no binary"}
    /\ pc \in {"start", "initialize", "send", "finished"}
    /\ server \in {"off", "up", "initialized", "sent", "answered", "ended"}
    /\ result \in BOOLEAN /\ delivered \in BOOLEAN /\ written \in Nat
    /\ lines \in Seq(Noise \cup Answers)

(* Who is told that the message has arrived can rely on it; who is told    *)
(* that it has not may only assume so (relay_scan then sends it again).    *)
TrueMeansDelivered == result => delivered
=============================================================================
