---------------------- MODULE PendingDecisions_proofs ----------------------
(***************************************************************************)
(* Proofs about PendingDecisions for any number of tasks, overlapping      *)
(* commands, entries and minutes.                                          *)
(***************************************************************************)
EXTENDS PendingDecisions, WellFoundedInduction, TLAPS

(* What every version of the register has, the ones that commands hold and *)
(* write included: entries in the order of a clock that never steps back;  *)
(* of a task, only the last entry may be pending, and the resolved ones    *)
(* come first; only a question that was passed on has a reply.             *)
InOrder(s) == \A i, j \in DOMAIN s : i < j => s[i].received_at <= s[j].received_at
NotAhead(s, n) == \A i \in DOMAIN s : s[i].received_at <= n
PendingLast(s) ==
    \A i, j \in DOMAIN s : i < j /\ s[i].task = s[j].task => s[i].status # "pending"
ResolvedFirst(s) ==
    \A i, j \in DOMAIN s : /\ i < j /\ s[i].task = s[j].task
                           /\ s[j].status = "resolved"
                           => s[i].status = "resolved"
ReplyAfterRelay(s) ==
    \A i \in DOMAIN s : s[i].user_replied_at # Never => s[i].status # "pending"
RepliesFirst(s) ==
    \A i, j \in DOMAIN s : /\ i < j /\ s[i].task = s[j].task
                           /\ s[i].status = "escalated"
                           /\ s[j].user_replied_at # Never
                           => s[i].user_replied_at # Never

Version(s, n) == /\ s \in Seq(PendingDecision)
                 /\ InOrder(s)
                 /\ NotAhead(s, n)
                 /\ PendingLast(s)
                 /\ ResolvedFirst(s)
                 /\ ReplyAfterRelay(s)
                 /\ RepliesFirst(s)

(* The inductive invariant: overlapping commands may lose each other's     *)
(* entries, but each of them goes from one such version to another.        *)
IInv == /\ TypeOK
        /\ Version(store.entries, now)
        /\ \A f \in tmp : Version(f.entries, now)
        /\ \A w \in Writers : Version(mem[w], now)
-----------------------------------------------------------------------------
(* The helpers                                                             *)

(* A set of naturals that is not empty has a least element.                *)
LEMMA Least ==
    ASSUME NEW E \in SUBSET Nat, E # {}
    PROVE  \E k \in E : \A j \in E : k <= j
<1> DEFINE R == {ss \in Nat \X Nat : ss[1] < ss[2]}
<1>1. R = OpToRel(<, Nat)
  BY Zenon DEF OpToRel
<1>2. \E k \in E : \A j \in E : ~ (<<j, k>> \in OpToRel(<, Nat))
  BY WFMin, NatLessThanWellFounded
<1>3. PICK k \in E : \A j \in E : ~ (<<j, k>> \in R)
  BY <1>1, <1>2, Zenon
<1>4. ASSUME NEW j \in E PROVE k <= j
  <2>1. <<j, k>> \notin R
    BY <1>3
  <2>2. j \in Nat /\ k \in Nat
    OBVIOUS
  <2>3. ~ (j < k)
    BY <2>1, <2>2
  <2> QED BY <2>2, <2>3
<1> QED BY <1>4

(* What the entries of a register are made of.                             *)
LEMMA EntryTypes ==
    ASSUME NEW s \in Seq(PendingDecision)
    PROVE  /\ DOMAIN s = 1..Len(s) /\ Len(s) \in Nat
           /\ \A i \in DOMAIN s : /\ s[i] \in PendingDecision
                                 /\ s[i].received_at \in Nat
                                 /\ s[i].status \in Statuses
<1>1. \A i \in DOMAIN s : s[i] \in PendingDecision
  OBVIOUS
<1>2. \A e \in PendingDecision : e.received_at \in Nat /\ e.status \in Statuses
  BY PendingDecisionsAssumption DEF PendingDecision, Times
<1> QED BY <1>1, <1>2

(* In a version, the oldest of some entries is the first of them.          *)
LEMMA OldestIsFirst ==
    ASSUME NEW s \in Seq(PendingDecision), InOrder(s),
           NEW E, E \subseteq DOMAIN s, E # {}
    PROVE  Oldest(s, E) \in E /\ \A j \in E : Oldest(s, E) <= j
<1> DEFINE Before(i, j) == \/ s[i].received_at < s[j].received_at
                           \/ /\ s[i].received_at = s[j].received_at
                              /\ i <= j
<1>1. DOMAIN s \subseteq Nat /\ \A i \in DOMAIN s : s[i].received_at \in Nat
  BY EntryTypes
<1>2. PICK k \in E : \A j \in E : k <= j
  BY <1>1, Least
<1>3. \A j \in E : Before(k, j)
  BY <1>1, <1>2 DEF InOrder
<1>4. Oldest(s, E) \in E /\ \A j \in E : Before(Oldest(s, E), j)
  BY <1>2, <1>3, Zenon DEF Oldest
<1>5. ASSUME NEW j \in E PROVE Oldest(s, E) <= j
  BY <1>1, <1>4 DEF InOrder
<1> QED BY <1>4, <1>5

(* In a version, the latest entry of a task is the last of it.             *)
LEMMA LatestIsLast ==
    ASSUME NEW s \in Seq(PendingDecision), InOrder(s), NEW t,
           Of(s, t, Statuses) # {}
    PROVE  /\ Latest(s, t) \in Of(s, t, Statuses)
           /\ \A j \in Of(s, t, Statuses) : j <= Latest(s, t)
<1> DEFINE E == Of(s, t, Statuses)
           After2(i, j) == \/ s[j].received_at < s[i].received_at
                           \/ /\ s[j].received_at = s[i].received_at
                              /\ j <= i
           Back == {Len(s) - i : i \in E}
<1>1. /\ DOMAIN s = 1..Len(s) /\ Len(s) \in Nat
      /\ \A i \in DOMAIN s : s[i].received_at \in Nat
      /\ E \subseteq 1..Len(s)
  BY EntryTypes DEF Of
<1>2. Back \in SUBSET Nat /\ Back # {}
  BY <1>1
<1>3. PICK n \in Back : \A m \in Back : n <= m
  BY <1>2, Least
<1>4. PICK k \in E : \A j \in E : j <= k
  <2>1. PICK k \in E : n = Len(s) - k
    BY <1>3
  <2>2. ASSUME NEW j \in E PROVE j <= k
    <3>1. Len(s) - j \in Back
      OBVIOUS
    <3>2. n <= Len(s) - j
      BY <1>3, <3>1
    <3>3. j \in Nat /\ k \in Nat
      BY <1>1
    <3> HIDE DEF Back, E
    <3> QED BY <1>1, <2>1, <3>2, <3>3
  <2> QED BY <2>2
<1>5. \A j \in E : After2(k, j)
  BY <1>1, <1>4 DEF InOrder
<1>6. Latest(s, t) \in E /\ \A j \in E : After2(Latest(s, t), j)
  <2> HIDE DEF E
  <2>1. Latest(s, t) = CHOOSE i \in E : \A j \in E : After2(i, j)
    BY Zenon DEF Latest, E
  <2> QED BY <1>4, <1>5, <2>1, Zenon
<1>7. ASSUME NEW j \in E PROVE j <= Latest(s, t)
  BY <1>1, <1>6 DEF InOrder
<1> QED BY <1>6, <1>7

(* A new question is appended to a version.                                *)
LEMMA AppendedIsVersion ==
    ASSUME now \in Times, NEW s, Version(s, now), NEW t \in Tasks
    PROVE  Version(Appended(s, t), now)
<1> DEFINE e == [task |-> t, received_at |-> now, status |-> "pending",
                 user_replied_at |-> Never]
           r == Append(s, e)
<1>1. CASE Of(s, t, {"pending"}) # {}
  BY <1>1 DEF Appended
<1>2. CASE Of(s, t, {"pending"}) = {}
  <2>1. Appended(s, t) = r
    BY <1>2 DEF Appended
  <2>2. e \in PendingDecision
    BY DEF PendingDecision, Statuses
  <2>3. /\ r \in Seq(PendingDecision)
        /\ DOMAIN s = 1..Len(s) /\ Len(s) \in Nat
        /\ DOMAIN r = 1..(Len(s) + 1)
        /\ \A i \in DOMAIN s : r[i] = s[i]
        /\ r[Len(s) + 1] = e
    BY <2>2 DEF Version
  <2>4. \A i \in DOMAIN s : s[i].task = t => s[i].status # "pending"
    BY <1>2 DEF Of
  <2>5. InOrder(r) /\ NotAhead(r, now)
    BY <2>3, PendingDecisionsAssumption DEF Version, InOrder, NotAhead, Times
  <2>6. PendingLast(r)
    BY <2>3, <2>4 DEF Version, PendingLast
  <2>7. ResolvedFirst(r)
    BY <2>3 DEF Version, ResolvedFirst
  <2>8. ReplyAfterRelay(r) /\ RepliesFirst(r)
    BY <2>3 DEF Version, ReplyAfterRelay, RepliesFirst
  <2> HIDE DEF r
  <2> QED BY <2>1, <2>3, <2>5, <2>6, <2>7, <2>8 DEF Version
<1> QED BY <1>1, <1>2

(* One entry of a version moves on.                                        *)
LEMMA ResolvedIsVersion ==
    ASSUME NEW s, Version(s, now), NEW t \in Tasks, NEW kind \in Kinds
    PROVE  Version(Resolved(s, t, kind), now)
<1> DEFINE E == Of(s, t, Eligible(kind))
           k == Oldest(s, E)
           r == [s EXCEPT ![k].status = NewStatus(kind)]
<1>1. CASE E = {}
  BY <1>1 DEF Resolved
<1>2. CASE E # {}
  <2>1. Resolved(s, t, kind) = r
    BY <1>2 DEF Resolved
  <2>2. k \in E /\ \A j \in E : k <= j
    BY <1>2, OldestIsFirst DEF Version, Of
  <2>3. /\ s \in Seq(PendingDecision) /\ k \in DOMAIN s
        /\ s[k].task = t /\ s[k].status \in Eligible(kind)
        /\ DOMAIN s = 1..Len(s) /\ Len(s) \in Nat
    BY <2>2 DEF Version, Of
  <2> HIDE DEF k, E
  <2>4. /\ DOMAIN r = DOMAIN s
        /\ \A i \in DOMAIN s : i # k => r[i] = s[i]
        /\ r[k].status = NewStatus(kind)
        /\ r[k].task = s[k].task
        /\ r[k].received_at = s[k].received_at
        /\ r[k].user_replied_at = s[k].user_replied_at
    BY <2>3 DEF PendingDecision
  <2>5. r \in Seq(PendingDecision)
    <3>1. NewStatus(kind) \in Statuses
      BY DEF NewStatus, Kinds, Statuses
    <3>2. s[k] \in PendingDecision
      BY <2>3
    <3>3. [s[k] EXCEPT !.status = NewStatus(kind)] \in PendingDecision
      BY <3>1, <3>2 DEF PendingDecision
    <3> QED BY <2>3, <3>3
  <2>6. \A i \in DOMAIN s : /\ r[i].task = s[i].task
                            /\ r[i].received_at = s[i].received_at
                            /\ r[i].user_replied_at = s[i].user_replied_at
    BY <2>4
  <2>7. InOrder(r) /\ NotAhead(r, now)
    BY <2>4, <2>6 DEF Version, InOrder, NotAhead
  <2>8. NewStatus(kind) # "pending"
    BY DEF NewStatus
  <2>9. PendingLast(r) /\ ReplyAfterRelay(r)
    BY <2>4, <2>6, <2>8 DEF Version, PendingLast, ReplyAfterRelay
  <2>10. ResolvedFirst(r)
    <3> SUFFICES ASSUME NEW i \in DOMAIN s, NEW j \in DOMAIN s, i < j,
                        s[i].task = s[j].task, r[j].status = "resolved"
                 PROVE  r[i].status = "resolved"
      BY <2>4, <2>6 DEF ResolvedFirst
    <3>1. CASE j = k
      <4>1. kind = "to_worker" /\ Eligible(kind) = {"pending", "escalated"}
        BY <2>4, <3>1 DEF NewStatus, Eligible, Kinds
      <4>2. i \notin E
        BY <2>2, <2>3, <3>1
      <4>3. s[i].status \in Statuses
        BY <2>3, EntryTypes
      <4> QED BY <2>3, <2>4, <3>1, <4>1, <4>2, <4>3 DEF E, Of, Statuses
    <3>2. CASE j # k
      <4>1. s[j].status = "resolved" /\ s[i].status = "resolved"
        BY <2>4, <3>2 DEF Version, ResolvedFirst
      <4>2. i # k
        BY <2>3, <4>1 DEF Eligible
      <4> QED BY <2>4, <4>1, <4>2
    <3> QED BY <3>1, <3>2
  <2>11. RepliesFirst(r)
    <3> SUFFICES ASSUME NEW i \in DOMAIN s, NEW j \in DOMAIN s, i < j,
                        s[i].task = s[j].task, r[i].status = "escalated",
                        s[j].user_replied_at # Never
                 PROVE  s[i].user_replied_at # Never
      BY <2>4, <2>6 DEF RepliesFirst
    <3>1. CASE i = k
      <4>1. s[i].status = "pending"
        BY <2>3, <2>4, <3>1 DEF NewStatus, Eligible
      <4> QED BY <4>1 DEF Version, PendingLast
    <3>2. CASE i # k
      BY <2>4, <3>2 DEF Version, RepliesFirst
    <3> QED BY <3>1, <3>2
  <2> HIDE DEF r
  <2> QED BY <2>1, <2>5, <2>7, <2>9, <2>10, <2>11 DEF Version
<1> QED BY <1>1, <1>2

(* A reply is noted in a version.                                          *)
LEMMA MarkedIsVersion ==
    ASSUME now \in Times, NEW s, Version(s, now), NEW t \in Tasks
    PROVE  Version(Marked(s, t), now)
<1> DEFINE E == {i \in Of(s, t, {"escalated"}) : s[i].user_replied_at = Never}
           k == Oldest(s, E)
           r == [s EXCEPT ![k].user_replied_at = now]
<1>1. CASE E = {}
  BY <1>1 DEF Marked
<1>2. CASE E # {}
  <2>1. Marked(s, t) = r
    BY <1>2 DEF Marked
  <2>2. k \in E /\ \A j \in E : k <= j
    BY <1>2, OldestIsFirst DEF Version, Of
  <2>3. /\ s \in Seq(PendingDecision) /\ k \in DOMAIN s
        /\ s[k].task = t /\ s[k].status = "escalated"
        /\ DOMAIN s = 1..Len(s) /\ Len(s) \in Nat
    BY <2>2 DEF Version, Of
  <2> HIDE DEF k, E
  <2>4. /\ DOMAIN r = DOMAIN s
        /\ \A i \in DOMAIN s : i # k => r[i] = s[i]
        /\ r[k].status = s[k].status
        /\ r[k].task = s[k].task
        /\ r[k].received_at = s[k].received_at
        /\ r[k].user_replied_at = now
    BY <2>3 DEF PendingDecision
  <2>5. r \in Seq(PendingDecision)
    <3>1. s[k] \in PendingDecision
      BY <2>3
    <3>2. [s[k] EXCEPT !.user_replied_at = now] \in PendingDecision
      BY <3>1 DEF PendingDecision
    <3> QED BY <2>3, <3>2
  <2>6. \A i \in DOMAIN s : /\ r[i].task = s[i].task
                            /\ r[i].received_at = s[i].received_at
                            /\ r[i].status = s[i].status
    BY <2>4
  <2>7. InOrder(r) /\ NotAhead(r, now) /\ PendingLast(r) /\ ResolvedFirst(r)
    BY <2>4, <2>6 DEF Version, InOrder, NotAhead, PendingLast, ResolvedFirst
  <2>8. ReplyAfterRelay(r)
    BY <2>3, <2>4, <2>6 DEF Version, ReplyAfterRelay
  <2>9. RepliesFirst(r)
    <3> SUFFICES ASSUME NEW i \in DOMAIN s, NEW j \in DOMAIN s, i < j,
                        s[i].task = s[j].task, s[i].status = "escalated",
                        r[j].user_replied_at # Never
                 PROVE  r[i].user_replied_at # Never
      BY <2>4, <2>6 DEF RepliesFirst
    <3>1. now # Never
      BY PendingDecisionsAssumption DEF Times, Never
    <3>2. CASE i = k
      BY <2>4, <3>1, <3>2
    <3>3. CASE i # k /\ j = k
      <4>1. i \notin E
        BY <2>2, <2>3, <3>3
      <4> QED BY <2>3, <2>4, <3>3, <4>1 DEF E, Of
    <3>4. CASE i # k /\ j # k
      BY <2>4, <3>4 DEF Version, RepliesFirst
    <3> QED BY <3>2, <3>3, <3>4
  <2> HIDE DEF r
  <2> QED BY <2>1, <2>5, <2>7, <2>8, <2>9 DEF Version
<1> QED BY <1>1, <1>2

(* Whatever a command is asked to do.                                      *)
LEMMA ChangedIsVersion ==
    ASSUME now \in Times, NEW s, Version(s, now), NEW j \in Jobs
    PROVE  Version(Changed(s, j), now)
<1>1. j.task \in Tasks /\ j.op \in {"append", "mark_user_replied"} \cup Kinds
  BY DEF Jobs
<1>2. CASE j.op = "append"
  BY <1>1, <1>2, AppendedIsVersion DEF Changed, Kinds
<1>3. CASE j.op = "mark_user_replied"
  BY <1>1, <1>3, MarkedIsVersion DEF Changed, Kinds
<1>4. CASE j.op \in Kinds
  BY <1>1, <1>4, ResolvedIsVersion DEF Changed, Kinds
<1> QED BY <1>1, <1>2, <1>3, <1>4

(* The versions of an earlier minute are versions of a later one.          *)
LEMMA VersionStays ==
    ASSUME NEW s, NEW m \in Nat, NEW n \in Nat, m <= n, Version(s, m)
    PROVE  Version(s, n)
<1>1. NotAhead(s, n)
  BY EntryTypes DEF Version, NotAhead
<1> QED BY <1>1 DEF Version
-----------------------------------------------------------------------------
(* The invariant                                                           *)

(* It holds initially.                                                     *)
LEMMA InitIInv == Init => IInv
<1>1. Version(<<>>, now)
  BY DEF Version, InOrder, NotAhead, PendingLast, ResolvedFirst,
         ReplyAfterRelay, RepliesFirst
<1> QED
  BY <1>1, PendingDecisionsAssumption
     DEF Init, IInv, TypeOK, File, Whole, Times

(* What a write may leave in a file.                                       *)
LEMMA AfterIsVersion ==
    ASSUME NEW s, NEW n, Version(s, n), NEW old \in File, NEW f \in After(s, old)
    PROVE  f \in File /\ Version(f.entries, n)
<1>1. f \in {Whole(s), Torn}
  BY DEF After
<1>2. CASE f = Whole(s)
  BY <1>2 DEF Whole, File, Version
<1>3. CASE f = Torn
  BY <1>3 DEF Torn, File, Version, InOrder, NotAhead, PendingLast,
              ResolvedFirst, ReplyAfterRelay, RepliesFirst
<1> QED BY <1>1, <1>2, <1>3

(* Each step of a command keeps it: its end,                               *)
LEMMA EndIInv ==
    ASSUME IInv, NEW w \in Writers, End(w), store' = store, now' = now,
           overdue' = overdue, tmp' = tmp,
           fd' \in [Writers -> {"none", "tmp", "store", "unlinked"}]
    PROVE  IInv'
<1>1. Version(<<>>, now)
  BY DEF Version, InOrder, NotAhead, PendingLast, ResolvedFirst,
         ReplyAfterRelay, RepliesFirst
<1>2. /\ mem' = [mem EXCEPT ![w] = <<>>]
      /\ pc' = [pc EXCEPT ![w] = "idle"]
  BY DEF End, Goto
<1>3. \A v \in Writers : mem'[v] = IF v = w THEN <<>> ELSE mem[v]
  BY <1>2 DEF IInv, TypeOK
<1>4. TypeOK'
  BY <1>2 DEF IInv, TypeOK
<1> QED BY <1>1, <1>3, <1>4 DEF IInv

(* the load,                                                               *)
LEMMA LoadIInv ==
    ASSUME IInv, NEW w \in Writers, Load(w)
    PROVE  IInv'
<1>1. /\ mem' = [mem EXCEPT ![w] = store.entries]
      /\ pc' = [pc EXCEPT ![w] = "loaded"]
      /\ UNCHANGED <<store, tmp, now, fd, overdue>>
  BY DEF Load, Goto, files
<1>2. \A v \in Writers : mem'[v] = IF v = w THEN store.entries ELSE mem[v]
  BY <1>1 DEF IInv, TypeOK
<1>3. TypeOK'
  BY <1>1 DEF IInv, TypeOK, File
<1> QED BY <1>1, <1>2, <1>3 DEF IInv

(* the change and the opening of the temporary,                            *)
LEMMA ChangeIInv ==
    ASSUME IInv, NEW w \in Writers, NEW j \in Jobs, Change(w, j)
    PROVE  IInv'
<1> DEFINE s == Changed(mem[w], j)
<1>1. CASE s = mem[w]
  <2>1. End(w) /\ UNCHANGED <<tmp, fd, store, now, overdue>>
    BY <1>1 DEF Change
  <2> QED BY <2>1, EndIInv DEF IInv, TypeOK
<1>2. CASE s # mem[w]
  <2>1. /\ mem' = [mem EXCEPT ![w] = s]
        /\ tmp' = {Emptied}
        /\ fd' = [fd EXCEPT ![w] = "tmp"]
        /\ pc' = [pc EXCEPT ![w] = "opened"]
        /\ UNCHANGED <<store, now, overdue>>
    BY <1>2 DEF Change, Goto
  <2>2. Version(s, now)
    BY ChangedIsVersion DEF IInv, TypeOK
  <2> HIDE DEF s
  <2>3. \A v \in Writers : mem'[v] = IF v = w THEN s ELSE mem[v]
    BY <2>1 DEF IInv, TypeOK
  <2>4. Emptied \in File /\ Version(Emptied.entries, now)
    BY DEF Emptied, Whole, File, Version, InOrder, NotAhead, PendingLast,
           ResolvedFirst, ReplyAfterRelay, RepliesFirst
  <2>5. TypeOK'
    BY <2>1, <2>2, <2>4 DEF IInv, TypeOK, Version
  <2> QED BY <2>1, <2>2, <2>3, <2>4, <2>5 DEF IInv
<1> QED BY <1>1, <1>2

(* the write through a handle, wherever its file is by now,                *)
LEMMA WriteFileIInv ==
    ASSUME IInv, NEW w \in Writers, WriteFile(w)
    PROVE  IInv'
<1>1. /\ pc' = [pc EXCEPT ![w] = "written"]
      /\ UNCHANGED <<now, fd, mem, overdue>>
  BY DEF WriteFile, Goto
<1>2. Version(mem[w], now)
  BY DEF IInv
<1>3. CASE fd[w] = "tmp"
  <2>1. PICK old \in tmp : \E f \in After(mem[w], old) : tmp' = {f} /\ UNCHANGED store
    BY <1>3 DEF WriteFile
  <2>2. PICK f \in After(mem[w], old) : tmp' = {f} /\ UNCHANGED store
    BY <2>1
  <2>3. f \in File /\ Version(f.entries, now)
    BY <1>2, AfterIsVersion DEF IInv, TypeOK
  <2>4. TypeOK'
    BY <1>1, <2>2, <2>3 DEF IInv, TypeOK
  <2> QED BY <1>1, <2>2, <2>3, <2>4 DEF IInv
<1>4. CASE fd[w] = "store"
  <2>1. PICK f \in After(mem[w], store) : store' = f /\ UNCHANGED tmp
    BY <1>4 DEF WriteFile
  <2>2. f \in File /\ Version(f.entries, now)
    BY <1>2, AfterIsVersion DEF IInv, TypeOK
  <2>3. TypeOK'
    BY <1>1, <2>1, <2>2 DEF IInv, TypeOK
  <2> QED BY <1>1, <2>1, <2>2, <2>3 DEF IInv
<1>5. CASE fd[w] \notin {"tmp", "store"}
  <2>1. UNCHANGED <<store, tmp>>
    BY <1>5 DEF WriteFile, files
  <2>2. TypeOK'
    BY <1>1, <2>1 DEF IInv, TypeOK
  <2> QED BY <1>1, <2>1, <2>2 DEF IInv
<1> QED BY <1>3, <1>4, <1>5

(* the rename, which moves the file of whoever has the temporary open,     *)
LEMMA ReplaceIInv ==
    ASSUME IInv, NEW w \in Writers, Replace(w)
    PROVE  IInv'
<1> DEFINE e == <<>>
<1>1. /\ mem' = [mem EXCEPT ![w] = e]
      /\ pc' = [pc EXCEPT ![w] = "idle"]
      /\ UNCHANGED <<now, overdue>>
  BY DEF Replace, End, Goto
<1>2. Version(e, now)
  BY DEF Version, InOrder, NotAhead, PendingLast, ResolvedFirst,
         ReplyAfterRelay, RepliesFirst
<1>3. \A v \in Writers : mem'[v] = IF v = w THEN e ELSE mem[v]
  BY <1>1 DEF IInv, TypeOK
<1>4. CASE tmp = {}
  <2>1. UNCHANGED <<store, tmp>> /\ fd' = [fd EXCEPT ![w] = "none"]
    BY <1>4 DEF Replace, files
  <2>2. TypeOK'
    BY <1>1, <2>1 DEF IInv, TypeOK
  <2> QED BY <1>1, <1>2, <1>3, <2>1, <2>2 DEF IInv
<1>5. CASE tmp # {}
  <2>1. store' \in tmp /\ tmp' = {}
    BY <1>5 DEF Replace
  <2>2. fd' = [v \in Writers |-> CASE v = w                     -> "none"
                                  [] v # w /\ fd[v] = "tmp"   -> "store"
                                  [] v # w /\ fd[v] = "store" -> "unlinked"
                                  [] OTHER                    -> fd[v]]
    BY <1>5 DEF Replace
  <2>3. fd' \in [Writers -> {"none", "tmp", "store", "unlinked"}]
    BY <2>2 DEF IInv, TypeOK
  <2>4. store' \in File /\ tmp' \subseteq File /\ now' \in Times
        /\ overdue' \subseteq Nat \ {0}
    BY <1>1, <2>1 DEF IInv, TypeOK
  <2>5. /\ pc' \in [Writers -> {"idle", "loaded", "opened", "written"}]
        /\ mem' \in [Writers -> Seq(PendingDecision)]
    BY <1>1 DEF IInv, TypeOK
  <2>6. TypeOK'
    BY <2>3, <2>4, <2>5 DEF TypeOK
  <2> QED BY <1>1, <1>2, <1>3, <2>1, <2>6 DEF IInv
<1> QED BY <1>4, <1>5

(* and a kill.                                                             *)
LEMMA DieIInv ==
    ASSUME IInv, NEW w \in Writers, Die(w)
    PROVE  IInv'
<1>1. /\ End(w)
      /\ UNCHANGED <<store, tmp, now, overdue>>
      /\ fd' = [fd EXCEPT ![w] = "none"]
  BY DEF Die, files
<1>2. fd' \in [Writers -> {"none", "tmp", "store", "unlinked"}]
  BY <1>1 DEF IInv, TypeOK
<1> QED BY <1>1, <1>2, EndIInv

(* A round of the dispatcher keeps it,                                     *)
LEMMA ScanIInv ==
    ASSUME IInv, Scan
    PROVE  IInv'
<1>1. /\ overdue' = PendingOverdue(store.entries) \cup ReplyOverdue(store.entries)
      /\ UNCHANGED <<store, tmp, now, pc, fd, mem>>
  BY DEF Scan, files, command
<1>2. DOMAIN store.entries \subseteq Nat \ {0}
  BY EntryTypes DEF IInv, TypeOK, File
<1>3. overdue' \subseteq Nat \ {0}
  BY <1>1, <1>2 DEF PendingOverdue, ReplyOverdue
<1>4. TypeOK'
  BY <1>1, <1>3 DEF IInv, TypeOK
<1> QED BY <1>1, <1>4 DEF IInv

(* and so does the clock.                                                  *)
LEMMA TickIInv ==
    ASSUME IInv, Tick
    PROVE  IInv'
<1>1. now \in Nat /\ now + 1 \in Times /\ now' = now + 1
      /\ UNCHANGED <<store, tmp, pc, fd, mem, overdue>>
  BY PendingDecisionsAssumption DEF Tick, IInv, TypeOK, Times, files, command
<1>2. \A s : Version(s, now) => Version(s, now')
  BY <1>1, VersionStays DEF Times
<1>3. TypeOK'
  BY <1>1 DEF IInv, TypeOK
<1> QED BY <1>1, <1>2, <1>3 DEF IInv

(* Every step keeps the invariant.                                         *)
LEMMA StepIInv == IInv /\ [Next]_vars => IInv'
<1> SUFFICES ASSUME IInv, [Next]_vars PROVE IInv'
  OBVIOUS
<1>1. CASE \E w \in Writers, j \in Jobs : Change(w, j)
  BY <1>1, ChangeIInv
<1>2. CASE \E w \in Writers : Load(w) \/ WriteFile(w) \/ Replace(w) \/ Die(w)
  BY <1>2, LoadIInv, WriteFileIInv, ReplaceIInv, DieIInv
<1>3. CASE Scan
  BY <1>3, ScanIInv
<1>4. CASE Tick
  BY <1>4, TickIInv
<1>5. CASE UNCHANGED vars
  BY <1>5 DEF vars, IInv, TypeOK
<1> QED BY <1>1, <1>2, <1>3, <1>4, <1>5 DEF Next

(* The invariant holds throughout.                                         *)
LEMMA Invariance == Spec => []IInv
<1>1. Init => IInv
  BY InitIInv
<1>2. IInv /\ [Next]_vars => IInv'
  BY StepIInv
<1> QED BY <1>1, <1>2, PTL DEF Spec
-----------------------------------------------------------------------------
(* The theorems                                                            *)

(* Type correctness.                                                       *)
THEOREM TypeCorrect == Spec => []TypeOK
<1>1. IInv => TypeOK
  BY DEF IInv
<1> QED BY <1>1, Invariance, PTL

(* The dispatcher never takes a worker that waits for an answer for one    *)
(* whose question is closed (escalation_trace_is_stale), for any number of *)
(* commands that overlap, die and overwrite each other.                    *)
THEOREM NoFalseStale == Spec => []StaleTraceIsClosed
<1>1. IInv => StaleTraceIsClosed
  <2> SUFFICES ASSUME IInv, NEW t \in Tasks, TraceIsStale(store.entries, t),
                      NEW i \in Of(store.entries, t, Statuses)
               PROVE  store.entries[i].status = "resolved"
    BY DEF StaleTraceIsClosed
  <2> DEFINE s == store.entries
             l == Latest(s, t)
  <2>1. /\ s \in Seq(PendingDecision) /\ InOrder(s) /\ ResolvedFirst(s)
        /\ s[l].status = "resolved"
    BY DEF IInv, Version, TraceIsStale
  <2>2. l \in Of(s, t, Statuses) /\ i <= l
    BY <2>1, LatestIsLast
  <2>3. i \in DOMAIN s /\ l \in DOMAIN s /\ s[i].task = t /\ s[l].task = t
    BY <2>2 DEF Of
  <2>4. i \in Nat /\ l \in Nat
    BY <2>1, <2>3, EntryTypes
  <2> HIDE DEF s, l
  <2>5. CASE i = l
    BY <2>1, <2>5 DEF s
  <2>6. CASE i < l
    BY <2>1, <2>3, <2>6 DEF s, ResolvedFirst
  <2> QED BY <2>2, <2>4, <2>5, <2>6
<1> QED BY <1>1, Invariance, PTL

(* Replies are noted in the order of the questions of a task: none is left *)
(* behind by a question that was asked later.                              *)
THEOREM RepliesKeepOrder == Spec => []RepliesInOrder
<1>1. IInv => RepliesInOrder
  BY DEF IInv, Version, RepliesFirst, RepliesInOrder
<1> QED BY <1>1, Invariance, PTL
-----------------------------------------------------------------------------
(* Commands that do not overlap                                            *)

OneAtATime == \A v, w \in Writers : pc[v] # "idle" /\ pc[w] # "idle" => v = w

(* The questions of s are in e as well, and none has moved back.           *)
Advances(s, e) ==
    \A i \in DOMAIN s : /\ i \in DOMAIN e
                        /\ Rank(s[i].status) <= Rank(e[i].status)
                        /\ e[i].received_at = s[i].received_at

(* A command that runs alone has loaded the register that is still there,  *)
(* and is the only one to write to the temporary it will put in its place. *)
AloneInv ==
    /\ store.whole
    /\ \A w \in Writers :
         CASE pc[w] = "idle"    -> fd[w] = "none"
           [] pc[w] = "loaded"  -> fd[w] = "none" /\ mem[w] = store.entries
           [] pc[w] = "opened"  -> /\ fd[w] = "tmp" /\ tmp = {Emptied}
                                   /\ Advances(store.entries, mem[w])
           [] pc[w] = "written" -> /\ fd[w] = "tmp" /\ tmp = {Whole(mem[w])}
                                   /\ Advances(store.entries, mem[w])

(* Whatever a command is asked to do, no question moves back.              *)
LEMMA ChangedAdvances ==
    ASSUME NEW s, Version(s, now), now \in Times, NEW j \in Jobs
    PROVE  Advances(s, Changed(s, j))
<1> DEFINE t == j.task
<1>1. /\ s \in Seq(PendingDecision) /\ InOrder(s)
      /\ t \in Tasks /\ j.op \in {"append", "mark_user_replied"} \cup Kinds
  BY DEF Jobs, Version
<1>2. \A i \in DOMAIN s : s[i] \in PendingDecision /\ Rank(s[i].status) \in Nat
  BY <1>1, EntryTypes DEF PendingDecision, Statuses, Rank
<1>3. Advances(s, s)
  BY <1>2 DEF Advances
<1>4. CASE j.op = "append"
  <2> DEFINE e == [task |-> t, received_at |-> now, status |-> "pending",
                   user_replied_at |-> Never]
  <2>1. Changed(s, j) = Appended(s, t)
    BY <1>4 DEF Changed, Kinds
  <2>2. e \in PendingDecision
    BY <1>1 DEF PendingDecision, Statuses
  <2> HIDE DEF e
  <2>3. \A i \in DOMAIN s : i \in DOMAIN Append(s, e) /\ Append(s, e)[i] = s[i]
    BY <1>1, <2>2
  <2>4. Advances(s, Append(s, e))
    BY <1>2, <2>3 DEF Advances
  <2> QED BY <1>3, <2>1, <2>4 DEF Appended, e
<1>5. CASE j.op = "mark_user_replied"
  <2> DEFINE E == {i \in Of(s, t, {"escalated"}) : s[i].user_replied_at = Never}
             k == Oldest(s, E)
             r == [s EXCEPT ![k].user_replied_at = now]
  <2>1. Changed(s, j) = IF E = {} THEN s ELSE r
    BY <1>5 DEF Changed, Kinds, Marked
  <2>2. \A i \in DOMAIN s : /\ i \in DOMAIN r
                            /\ r[i].status = s[i].status
                            /\ r[i].received_at = s[i].received_at
    BY <1>2 DEF PendingDecision
  <2> HIDE DEF E, r
  <2>3. Advances(s, r)
    BY <1>2, <2>2 DEF Advances
  <2> QED BY <1>3, <2>1, <2>3
<1>6. CASE j.op \in Kinds
  <2> DEFINE kind == j.op
             E == Of(s, t, Eligible(kind))
             k == Oldest(s, E)
             r == [s EXCEPT ![k].status = NewStatus(kind)]
  <2>1. Changed(s, j) = IF E = {} THEN s ELSE r
    BY <1>6 DEF Changed, Kinds, Resolved
  <2>2. CASE E # {}
    <3>1. k \in E
      BY <1>1, <2>2, OldestIsFirst DEF Of
    <3>2. k \in DOMAIN s /\ s[k].status \in Eligible(kind)
      BY <3>1 DEF Of
    <3>3. Rank(s[k].status) <= Rank(NewStatus(kind))
      BY <1>6, <3>2 DEF Eligible, NewStatus, Kinds, Rank
    <3> HIDE DEF k
    <3>4. \A i \in DOMAIN s :
             /\ i \in DOMAIN r
             /\ r[i].status = IF i = k THEN NewStatus(kind) ELSE s[i].status
             /\ r[i].received_at = s[i].received_at
      BY <1>2, <3>2 DEF PendingDecision
    <3> HIDE DEF r
    <3>5. Advances(s, r)
      BY <1>2, <3>3, <3>4 DEF Advances
    <3> QED BY <2>1, <2>2, <3>5
  <2> QED BY <1>3, <2>1, <2>2
<1> QED BY <1>1, <1>4, <1>5, <1>6

(* A step of a command that runs alone keeps AloneInv, and none but        *)
(* Replace puts anything into the register.                                *)
LEMMA AloneStep ==
    ASSUME IInv, AloneInv, OneAtATime, OneAtATime', [Next]_vars
    PROVE  AloneInv' /\ (store' = store \/ Advances(store.entries, store'.entries))
<1> USE DEF AloneInv
<1>1. CASE UNCHANGED <<store, tmp, pc, fd, mem>>
  BY <1>1
<1>2. ASSUME NEW w \in Writers, Load(w)
      PROVE  AloneInv' /\ store' = store
  <2>1. \A v \in Writers : v # w => pc[v] = "idle"
    BY <1>2 DEF Load, Goto, files, OneAtATime, IInv, TypeOK
  <2> QED BY <1>2, <2>1 DEF Load, Goto, files, IInv, TypeOK
<1>3. ASSUME NEW w \in Writers, NEW j \in Jobs, Change(w, j)
      PROVE  AloneInv' /\ store' = store
  <2>1. \A v \in Writers : v # w => pc[v] = "idle"
    BY <1>3 DEF Change, OneAtATime
  <2>2. Advances(store.entries, Changed(mem[w], j))
    BY <1>3, ChangedAdvances DEF Change, IInv, TypeOK
  <2>3. \A v \in Writers : v # w => pc'[v] = "idle" /\ fd'[v] = "none"
    BY <1>3, <2>1 DEF Change, End, Goto, IInv, TypeOK
  <2>4. CASE Changed(mem[w], j) = mem[w]
    <3>1. pc'[w] = "idle" /\ fd'[w] = "none" /\ store' = store
      BY <1>3, <2>4 DEF Change, End, Goto, IInv, TypeOK
    <3> QED BY <2>3, <3>1
  <2>5. CASE Changed(mem[w], j) # mem[w]
    <3>1. /\ pc'[w] = "opened" /\ fd'[w] = "tmp" /\ tmp' = {Emptied}
          /\ mem'[w] = Changed(mem[w], j) /\ store' = store
      BY <1>3, <2>5 DEF Change, Goto, IInv, TypeOK
    <3> QED BY <2>2, <2>3, <3>1
  <2> QED BY <2>4, <2>5
<1>4. ASSUME NEW w \in Writers, WriteFile(w)
      PROVE  AloneInv' /\ store' = store
  <2>1. \A v \in Writers : v # w => pc[v] = "idle"
    BY <1>4 DEF WriteFile, OneAtATime
  <2>2. fd[w] = "tmp" /\ tmp = {Emptied}
    BY <1>4 DEF WriteFile
  <2>3. tmp' = {Whole(mem[w])} /\ store' = store
    BY <1>4, <2>2 DEF WriteFile, After
  <2> QED BY <1>4, <2>1, <2>2, <2>3 DEF WriteFile, Goto, IInv, TypeOK
<1>5. ASSUME NEW w \in Writers, Replace(w)
      PROVE  AloneInv' /\ Advances(store.entries, store'.entries)
  <2>1. \A v \in Writers : v # w => pc[v] = "idle"
    BY <1>5 DEF Replace, OneAtATime
  <2>2. tmp = {Whole(mem[w])} /\ Advances(store.entries, mem[w])
    BY <1>5 DEF Replace
  <2>3. store' = Whole(mem[w])
    BY <1>5, <2>2 DEF Replace
  <2>4. \A v \in Writers : v # w => fd[v] = "none"
    BY <2>1
  <2>5. fd' = [v \in Writers |-> CASE v = w                     -> "none"
                                  [] v # w /\ fd[v] = "tmp"   -> "store"
                                  [] v # w /\ fd[v] = "store" -> "unlinked"
                                  [] OTHER                    -> fd[v]]
    BY <1>5, <2>2 DEF Replace
  <2>6. ASSUME NEW v \in Writers PROVE fd'[v] = "none"
    <3>1. CASE v = w
      BY <2>5, <3>1
    <3>2. CASE v # w
      <4>1. fd[v] = "none" /\ fd[v] # "tmp" /\ fd[v] # "store"
        BY <2>4, <3>2
      <4> QED BY <2>5, <3>2, <4>1
    <3> QED BY <3>1, <3>2
  <2>7. \A v \in Writers : pc'[v] = "idle"
    BY <1>5, <2>1 DEF Replace, End, Goto, IInv, TypeOK
  <2> QED BY <2>2, <2>3, <2>6, <2>7 DEF Whole
<1>6. ASSUME NEW w \in Writers, Die(w)
      PROVE  AloneInv' /\ store' = store
  <2>1. \A v \in Writers : v # w => pc[v] = "idle"
    BY <1>6 DEF Die, OneAtATime
  <2> QED BY <1>6, <2>1 DEF Die, End, Goto, files, IInv, TypeOK
<1> QED BY <1>1, <1>2, <1>3, <1>4, <1>5, <1>6
        DEF Next, Scan, Tick, files, command, vars

(* AloneInv and its steps, for as long as no two commands overlap.         *)
LEMMA AloneInvariance ==
    Spec /\ []OneAtATime
        => []AloneInv /\ [][Advances(store.entries, store'.entries)]_store
<1>1. Init => AloneInv
  BY DEF Init, AloneInv, Whole
<1>2. /\ IInv /\ AloneInv /\ OneAtATime /\ OneAtATime' /\ [Next]_vars
      => AloneInv' /\ [Advances(store.entries, store'.entries)]_store
  BY AloneStep
<1> QED BY <1>1, <1>2, Invariance, PTL DEF Spec

(* A question is never dropped and never moves back to a state it left,    *)
(* wherever commands are killed: all that is needed of the callers is that *)
(* no two commands are under way at once (append, resolve and              *)
(* mark_user_replied take no lock).                                        *)
THEOREM QuestionsAdvance == Spec /\ []OneAtATime => QuestionsOnlyAdvance
<1>1. [Advances(store.entries, store'.entries)]_store
      => [\A i \in DOMAIN store.entries :
            /\ i \in DOMAIN store'.entries
            /\ Rank(store.entries[i].status) <= Rank(store'.entries[i].status)
            /\ store'.entries[i].received_at = store.entries[i].received_at]_store
  BY DEF Advances
<1> QED BY <1>1, AloneInvariance, PTL DEF QuestionsOnlyAdvance

(* The register parses at every moment, a kill within a write included:    *)
(* what the module's comment says of its file holds of commands that do    *)
(* not overlap.                                                            *)
THEOREM AloneStoreIsWhole == Spec /\ []OneAtATime => []StoreIsWhole
<1>1. AloneInv => StoreIsWhole
  BY DEF AloneInv, StoreIsWhole
<1> QED BY <1>1, AloneInvariance, PTL
=============================================================================
