-------------------------- MODULE PendingDecisions --------------------------
(***************************************************************************)
(* tools/pending_decisions.py: the register of the questions that workers  *)
(* put to the secretary. Each command loads the whole file, changes one    *)
(* entry and writes the file back through a temporary of a fixed name; no  *)
(* lock is held. The dispatcher reads the register on every round and      *)
(* alarms the human about a question or an answer that was not passed on.  *)
(***************************************************************************)
EXTENDS Integers, Sequences

CONSTANTS
    Tasks,       \* task ids
    Writers,     \* command lines that may run at the same time
    Threshold,   \* minutes before an entry is overdue
    MaxTime,     \* bound: the last minute on the clock
    MaxEntries   \* bound: entries of the register

ASSUME PendingDecisionsAssumption ==
    /\ Threshold \in Nat
    /\ MaxTime \in Nat
    /\ MaxEntries \in Nat

Never    == -1                       \* user_replied_at is None
Kinds    == {"to_user", "to_worker"}
Statuses == {"pending", "escalated", "resolved"}
Times    == 0..MaxTime

PendingDecision == [task : Tasks, received_at : Times, status : Statuses,
                    user_replied_at : Times \cup {Never}]

Jobs == [op : {"append", "mark_user_replied"} \cup Kinds, task : Tasks]

VARIABLES
    store,     \* the register: whether it parses, and its entries
    tmp,       \* the temporary: no file, or one file like the register
    now,       \* the clock
    pc,        \* where each command is
    fd,        \* which file its handle writes to
    mem,       \* the entries it holds
    overdue    \* entries that the last round of the dispatcher reported

files   == <<store, tmp>>
command == <<pc, fd, mem>>
vars    == <<store, tmp, now, pc, fd, mem, overdue>>

File == [whole : BOOLEAN, entries : Seq(PendingDecision)]

Whole(s) == [whole |-> TRUE, entries |-> s]
Torn     == [whole |-> FALSE, entries |-> <<>>]
Emptied  == Whole(<<>>)          \* an empty file parses as an empty register

TypeOK ==
    /\ store \in File
    /\ tmp \subseteq File
    /\ now \in Times
    /\ pc \in [Writers -> {"idle", "loaded", "opened", "written"}]
    /\ fd \in [Writers -> {"none", "tmp", "store", "unlinked"}]
    /\ mem \in [Writers -> Seq(PendingDecision)]
    /\ overdue \subseteq Nat \ {0}

(* A missing file is an empty register.                                    *)
Init ==
    /\ store = Whole(<<>>)
    /\ tmp = {}
    /\ now = 0
    /\ pc = [w \in Writers |-> "idle"]
    /\ fd = [w \in Writers |-> "none"]
    /\ mem = [w \in Writers |-> <<>>]
    /\ overdue = {}
-----------------------------------------------------------------------------
(* What a command makes of the entries it loaded                           *)

Of(s, t, sts) == {i \in DOMAIN s : s[i].task = t /\ s[i].status \in sts}

(* Mistake: the youngest of the entries.                                   *)
OldestTakesYoungest(s, E) ==
    CHOOSE i \in E : \A j \in E : \/ s[i].received_at > s[j].received_at
                                  \/ /\ s[i].received_at = s[j].received_at
                                     /\ i >= j

(* The oldest received_at, the first one of a tie.                         *)
Oldest(s, E) ==
    CHOOSE i \in E : \A j \in E : \/ s[i].received_at < s[j].received_at
                                  \/ /\ s[i].received_at = s[j].received_at
                                     /\ i <= j

(* append: a pending entry of the task is kept, others do not count.       *)
Appended(s, t) ==
    IF Of(s, t, {"pending"}) # {}
    THEN s
    ELSE Append(s, [task |-> t, received_at |-> now, status |-> "pending",
                    user_replied_at |-> Never])

(* Mistake: an answered entry may be escalated again.                      *)
EligibleTwice(kind) == IF kind = "to_user" THEN Statuses ELSE {"pending", "escalated"}

Eligible(kind) == IF kind = "to_user" THEN {"pending"} ELSE {"pending", "escalated"}

NewStatus(kind) == IF kind = "to_user" THEN "escalated" ELSE "resolved"

(* resolve: one step along pending, escalated, resolved.                   *)
Resolved(s, t, kind) ==
    LET E == Of(s, t, Eligible(kind)) IN
    IF E = {} THEN s ELSE [s EXCEPT ![Oldest(s, E)].status = NewStatus(kind)]

(* mark_user_replied: the oldest escalated entry without a reply.          *)
Marked(s, t) ==
    LET E == {i \in Of(s, t, {"escalated"}) : s[i].user_replied_at = Never} IN
    IF E = {} THEN s ELSE [s EXCEPT ![Oldest(s, E)].user_replied_at = now]

Changed(s, j) ==
    CASE j.op = "append"            -> Appended(s, j.task)
      [] j.op = "mark_user_replied" -> Marked(s, j.task)
      [] j.op \in Kinds             -> Resolved(s, j.task, j.op)
-----------------------------------------------------------------------------
(* The steps of a command                                                  *)

Goto(w, l) == pc' = [pc EXCEPT ![w] = l]

(* The command is over and forgets what it held.                           *)
End(w) == Goto(w, "idle") /\ mem' = [mem EXCEPT ![w] = <<>>]

(* _load; a register that does not parse raises ValueError and nothing     *)
(* else happens.                                                           *)
Load(w) ==
    /\ pc[w] = "idle"
    /\ store.whole
    /\ mem' = [mem EXCEPT ![w] = store.entries]
    /\ Goto(w, "loaded")
    /\ UNCHANGED <<files, now, fd, overdue>>

(* The change; with something to write, the temporary is opened, which     *)
(* empties it for whoever else has it open. The bounds stop a question     *)
(* that could not become overdue.                                          *)
Change(w, j) ==
    /\ pc[w] = "loaded"
    /\ j.op = "append" => Len(mem[w]) < MaxEntries /\ now + Threshold < MaxTime
    /\ LET s == Changed(mem[w], j) IN
         IF s = mem[w]
         THEN End(w) /\ UNCHANGED <<tmp, fd>>
         ELSE /\ mem' = [mem EXCEPT ![w] = s]
              /\ tmp' = {Emptied}
              /\ fd' = [fd EXCEPT ![w] = "tmp"]
              /\ Goto(w, "opened")
    /\ UNCHANGED <<store, now, overdue>>

(* What lies in a file after a write from its start: the text itself, or   *)
(* the text and the tail of a longer one that another command wrote.       *)
After(s, old) == IF old = Emptied THEN {Whole(s)} ELSE {Whole(s), Torn}

(* write, flush, fsync through the handle, wherever the file is by now.    *)
WriteFile(w) ==
    /\ pc[w] = "opened"
    /\ CASE fd[w] = "tmp"   -> \E old \in tmp : \E f \in After(mem[w], old) :
                                  tmp' = {f} /\ UNCHANGED store
         [] fd[w] = "store" -> \E f \in After(mem[w], store) :
                                  store' = f /\ UNCHANGED tmp
         [] OTHER           -> UNCHANGED files
    /\ Goto(w, "written")
    /\ UNCHANGED <<now, fd, mem, overdue>>

(* os.replace; without a temporary it raises and the command ends.         *)
Replace(w) ==
    /\ pc[w] = "written"
    /\ IF tmp = {}
       THEN UNCHANGED files /\ fd' = [fd EXCEPT ![w] = "none"]
       ELSE /\ store' \in tmp
            /\ tmp' = {}
            /\ fd' = [v \in Writers |-> CASE v = w                     -> "none"
                                          [] v # w /\ fd[v] = "tmp"   -> "store"
                                          [] v # w /\ fd[v] = "store" -> "unlinked"
                                          [] OTHER                    -> fd[v]]
    /\ End(w)
    /\ UNCHANGED <<now, overdue>>

(* The command is killed; what it wrote so far stays.                      *)
Die(w) ==
    /\ pc[w] # "idle"
    /\ End(w)
    /\ fd' = [fd EXCEPT ![w] = "none"]
    /\ UNCHANGED <<files, now, overdue>>
-----------------------------------------------------------------------------
(* The dispatcher                                                          *)

(* Mistake: the question is looked for among those already passed on.      *)
PendingOverdueEscalated(s) ==
    {i \in DOMAIN s : s[i].status = "escalated" /\ s[i].received_at + Threshold <= now}

(* list_pending_older_than                                                 *)
PendingOverdue(s) ==
    {i \in DOMAIN s : s[i].status = "pending" /\ s[i].received_at + Threshold <= now}

(* list_escalated_user_replied_older_than                                  *)
ReplyOverdue(s) ==
    {i \in DOMAIN s : /\ s[i].status = "escalated"
                      /\ s[i].user_replied_at # Never
                      /\ s[i].user_replied_at + Threshold <= now}

(* One round of the monitoring loop; a register that does not parse raises *)
(* and reports nothing.                                                    *)
Scan ==
    /\ store.whole
    /\ overdue' = PendingOverdue(store.entries) \cup ReplyOverdue(store.entries)
    /\ UNCHANGED <<files, now, command>>

Tick ==
    /\ now < MaxTime
    /\ now' = now + 1
    /\ UNCHANGED <<files, command, overdue>>

(* Mistake: the first one of a tie.                                        *)
LatestFirstOfTie(s, t) ==
    CHOOSE i \in Of(s, t, Statuses) :
        \A j \in Of(s, t, Statuses) : \/ s[j].received_at < s[i].received_at
                                      \/ /\ s[j].received_at = s[i].received_at
                                         /\ j >= i

(* latest_for_task: the youngest received_at, the last one of a tie.       *)
Latest(s, t) ==
    CHOOSE i \in Of(s, t, Statuses) :
        \A j \in Of(s, t, Statuses) : \/ s[j].received_at < s[i].received_at
                                      \/ /\ s[j].received_at = s[i].received_at
                                         /\ j <= i

(* escalation_trace_is_stale; resolved entries are resolved to_worker.     *)
TraceIsStale(s, t) ==
    Of(s, t, Statuses) # {} /\ s[Latest(s, t)].status = "resolved"
-----------------------------------------------------------------------------
Next ==
    \/ \E w \in Writers : \/ \E j \in Jobs : Change(w, j)
                          \/ Load(w) \/ WriteFile(w) \/ Replace(w) \/ Die(w)
    \/ Scan
    \/ Tick

Spec == Init /\ [][Next]_vars

(* The dispatcher goes on with its rounds and time with it.                *)
FairSpec == Spec /\ WF_vars(Scan) /\ WF_vars(Tick)
-----------------------------------------------------------------------------
(* Properties                                                              *)

(* The dispatcher takes an idle worker for stuck only when no question of  *)
(* its task waits for an answer, however often questions were reopened and *)
(* whatever commands overlap.                                              *)
StaleTraceIsClosed ==
    \A t \in Tasks : TraceIsStale(store.entries, t) =>
        \A i \in Of(store.entries, t, Statuses) : store.entries[i].status = "resolved"

Rank(status) == CASE status = "pending"   -> 0
                  [] status = "escalated" -> 1
                  [] status = "resolved"  -> 2

(* A question is never dropped from the register, and never moves back to  *)
(* a state it left, wherever commands are killed, as long as they do not   *)
(* overlap.                                                                *)
QuestionsOnlyAdvance ==
    [][\A i \in DOMAIN store.entries :
         /\ i \in DOMAIN store'.entries
         /\ Rank(store.entries[i].status) <= Rank(store'.entries[i].status)
         /\ store'.entries[i].received_at = store.entries[i].received_at]_store

(* When an answer for a task was noted, and the entry is still escalated,  *)
(* no older escalated entry of the task is without one: replies are noted  *)
(* in the order of the questions, and none is left behind by a reopening.  *)
RepliesInOrder ==
    \A i, j \in DOMAIN store.entries :
        LET q == store.entries[i]
            r == store.entries[j] IN
        /\ i < j
        /\ q.task = r.task
        /\ q.status = "escalated"
        /\ r.user_replied_at # Never
        => q.user_replied_at # Never

StatusOf(i) == IF i \in DOMAIN store.entries THEN store.entries[i].status
                                             ELSE "none"

ReplyIsNoted(i) ==
    /\ StatusOf(i) = "escalated"
    /\ store.entries[i].user_replied_at \in 0..(MaxTime - Threshold)

(* A question, or an answer, that the secretary does not pass on is        *)
(* reported by the dispatcher's rounds.                                    *)
GapsAreReported ==
    \A i \in 1..MaxEntries :
        /\ StatusOf(i) = "pending" ~> (i \in overdue \/ StatusOf(i) # "pending")
        /\ ReplyIsNoted(i) ~> (i \in overdue \/ StatusOf(i) # "escalated")

(* pending_decisions.py:24: the file is written atomically; here with      *)
(* commands that overlap.                                                  *)
StoreIsWhole == store.whole
=============================================================================
