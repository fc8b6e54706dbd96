------------------------------ MODULE RetroGate ------------------------------
(***************************************************************************)
(* The dispatcher's retro gate: tools/dispatcher_retro_gate.py.            *)
(*                                                                         *)
(* Before a worker is retired the dispatcher asks the secretary whether    *)
(* the completion report has arrived and polls for the answer.  Each       *)
(* attempt is a process of its own: it is given the messages read since    *)
(* the last attempt and the state the last attempt printed, and ends with  *)
(* a verdict or with the state for the next attempt.  The dispatcher       *)
(* (external) carries that state and may lose it.                          *)
(***************************************************************************)
EXTENDS Naturals, Sequences

CONSTANTS
    MaxAttempts,  \* --max-attempts
    MaxInbox,     \* bound: messages that wait for one attempt
    MaxLosses     \* bound: times the dispatcher loses the printed state

VARIABLES
    inbox,      \* messages that arrived since the last attempt
    attempt,    \* the number the next attempt is given
    carried,    \* the state printed by the last attempt
    verdict,    \* what the gate has said
    heard,      \* history: the secretary's words among the messages given so far
    losses      \* how often the carried state was lost

vars == <<inbox, attempt, carried, verdict, heard, losses>>

------------------------------------------------------------------------------
Senders == {"secretary", "worker", "unattributed"}

\* A body either matches the acknowledgement pattern or does not.
Message == [from : Senders, ack : BOOLEAN]

Nothing == [body |-> "none", attempt |-> 0]

Init ==
    /\ inbox = <<>> /\ attempt = 1 /\ heard = <<>> /\ losses = 0
    /\ carried = Nothing
    /\ verdict = [status |-> "polling", raw |-> "none", attempts |-> 0]

Arrive ==
    /\ Len(inbox) < MaxInbox
    /\ \E message \in Message : inbox' = Append(inbox, message)
    /\ UNCHANGED <<attempt, carried, verdict, heard, losses>>

\* Mutant of IsSecretary: a message without a sender is taken for hers.
IsSecretaryOrUnknown(message) == message.from /= "worker"

\* _is_secretary_message: only a message that names the secretary counts.
IsSecretary(message) == message.from = "secretary"

Body(message) == IF message.ack THEN "ack" ELSE "reply"

\* What a message is in the history, whomever the gate takes it for.
Word(message) == IF message.from = "secretary" THEN Body(message) ELSE "another's"

(* run_gate: the batch is read in order up to the secretary's first         *)
(* acknowledgement; her last body and the attempt it came in are kept.      *)
Attempt ==
    /\ verdict.status = "polling"
    /\ LET Acks == {i \in DOMAIN inbox : IsSecretary(inbox[i]) /\ inbox[i].ack}
           Hers == {i \in DOMAIN inbox : IsSecretary(inbox[i])}
           kept == IF Hers = {} THEN carried
                   ELSE LET last == CHOOSE i \in Hers : \A j \in Hers : j <= i
                        IN  [body |-> Body(inbox[last]), attempt |-> attempt]
           said(status, raw, attempts) ==
             verdict' = [status |-> status, raw |-> raw, attempts |-> attempts]
       IN  /\ \/ Acks /= {} /\ said("acked", "ack", attempt)
              \/ /\ Acks = {} /\ attempt >= MaxAttempts /\ kept /= Nothing
                 /\ said("replied_no_ack", kept.body, kept.attempt)
              \/ /\ Acks = {} /\ attempt >= MaxAttempts /\ kept = Nothing
                 /\ said("timeout", "none", MaxAttempts)
              \/ /\ Acks = {} /\ attempt < MaxAttempts
                 /\ said("polling", "none", attempt)
           /\ carried' = kept
    /\ heard' = heard \o [i \in DOMAIN inbox |-> [said |-> Word(inbox[i]), attempt |-> attempt]]
    /\ inbox' = <<>>
    /\ attempt' = attempt + 1
    /\ UNCHANGED losses

\* The dispatcher gives the next attempt no state, or one that is not usable.
LoseState ==
    /\ verdict.status = "polling" /\ carried /= Nothing /\ losses < MaxLosses
    /\ carried' = Nothing
    /\ losses' = losses + 1
    /\ UNCHANGED <<inbox, attempt, verdict, heard>>

\* What the dispatcher gives the attempt cannot be read: it ends the gate.
Error ==
    /\ verdict.status = "polling"
    /\ verdict' = [status |-> "error", raw |-> "none", attempts |-> attempt]
    /\ UNCHANGED <<inbox, attempt, carried, heard, losses>>

Next == Arrive \/ Attempt \/ LoseState \/ Error

Spec == Init /\ [][Next]_vars

------------------------------------------------------------------------------
TypeOK ==
    /\ inbox \in Seq(Message)
    /\ attempt \in 1..(MaxAttempts + 1)
    /\ carried \in [body : {"none", "ack", "reply"}, attempt : 0..MaxAttempts]
    /\ verdict \in [status : {"polling", "acked", "replied_no_ack", "timeout", "error"},
                    raw : {"none", "ack", "reply"}, attempts : 0..MaxAttempts]
    /\ heard \in Seq([said : {"ack", "reply", "another's"}, attempt : 1..MaxAttempts])
    /\ losses \in Nat

HerWords == {i \in DOMAIN heard : heard[i].said /= "another's"}

\* The i-th message that was heard is the last of the secretary's.
HerLast(i) == i \in HerWords /\ \A j \in HerWords : j <= i

(* The gate's verdict is about what the secretary said in all attempts      *)
(* taken together: an acknowledgement is hers and came in the attempt the   *)
(* gate names, a reply without one is her latest and with its own attempt,  *)
(* and unless the carried state was lost a timeout means she said nothing.  *)
VerdictIsHers ==
    /\ verdict.status = "acked" =>
         \E i \in HerWords : heard[i] = [said |-> "ack", attempt |-> verdict.attempts]
    /\ verdict.status = "replied_no_ack" =>
         /\ \A i \in HerWords : heard[i].said = "reply"
         /\ \E i \in HerWords : /\ HerLast(i)
                                /\ heard[i] = [said |-> verdict.raw, attempt |-> verdict.attempts]
    /\ verdict.status = "timeout" /\ losses = 0 => HerWords = {}
==============================================================================
