------------------------- MODULE Maintenance_proofs -------------------------
(***************************************************************************)
(* Proofs about the commands that move or rebuild what the others rely on, *)
(* for any number of directories, runs, writers and commands: the cold     *)
(* archive, the rebuild of the registry from its file (Rebuild) and the    *)
(* migration of the worker directories (Migration).                        *)
(***************************************************************************)
EXTENDS Tools, FiniteSetTheorems, SequenceTheorems, TLAPS

-----------------------------------------------------------------------------
(* The cold archive                                                        *)

(* There are finitely many directories, and what is at a path is one of    *)
(* them, a part of one, or nothing.                                        *)
DirsOK == IsFiniteSet(Dirs) /\ CA!Nothing \notin Dirs /\ CA!Part \notin Dirs

(* Where the command is: what it works on when it has half done something. *)
Half(d) == cmd.phase \in {"moved", "removed"} /\ d = CA!Now.dir

(* A directory is at p and nowhere else.                                   *)
OnlyAt(d, p) == \A q \in CA!Paths : disk[q] = d <=> q = p
Nowhere(d) == \A q \in CA!Paths : disk[q] # d

(* The candidates are of different directories, which are where they were  *)
(* when they were selected, and those of a purge were marked.              *)
TodoInv ==
    /\ \A i, j \in DOMAIN cmd.todo : cmd.todo[i].dir = cmd.todo[j].dir => i = j
    /\ \A i \in DOMAIN cmd.todo :
         LET e == cmd.todo[i] IN
         /\ row[e.dir].listed /\ row[e.dir].path = e.path
         /\ cmd.phase \in {"purge", "removed"} => e.dir \in marked
    /\ cmd.phase \in {"copying", "moved", "removed"} => cmd.todo # <<>>

(* A row that is listed says where its directory is, except for the one    *)
(* the command has just moved or removed.                                  *)
PlaceInv ==
    \A d \in Dirs :
        /\ row[d].lifecycle = "delete_pending" => d \in marked
        /\ d \notin marked => row[d].listed
        /\ ~row[d].listed => Nowhere(d)
        /\ row[d].listed /\ ~Half(d) => OnlyAt(d, row[d].path)

(* What the command has half done.                                         *)
HalfInv ==
    /\ cmd.phase = "copying" => disk[CA!ArchiveTarget(CA!Now.dir)] = CA!Part
    /\ cmd.phase = "moved" => /\ OnlyAt(CA!Now.dir, CA!ArchiveTarget(CA!Now.dir))
                              /\ disk[CA!Now.path] = CA!Nothing
    /\ cmd.phase = "removed" => Nowhere(CA!Now.dir)

IInv == DirsOK /\ CA!TypeOK /\ (~killed => TodoInv /\ PlaceInv /\ HalfInv)
-----------------------------------------------------------------------------
(* The helpers                                                             *)

(* The two modules count alike.                                            *)
LEMMA CountsAgree == \A S : CA!Cardinality(S) = Cardinality(S)
BY DEF CA!Cardinality, Cardinality

(* The candidates of a selection, in any order.                            *)
LEMMA SelectedTodo ==
    ASSUME DirsOK, CA!TypeOK, NEW S \in SUBSET Dirs
    PROVE  LET t == CA!InAnyOrder({[dir |-> d, path |-> row[d].path] : d \in S}) IN
           /\ t \in Seq(CA!Candidates)
           /\ \A i, j \in DOMAIN t : t[i].dir = t[j].dir => i = j
           /\ \A i \in DOMAIN t : t[i].dir \in S /\ t[i].path = row[t[i].dir].path
<1> DEFINE Entry == [d \in S |-> [dir |-> d, path |-> row[d].path]]
           T == {[dir |-> d, path |-> row[d].path] : d \in S}
           n == Cardinality(T)
           t == CA!InAnyOrder(T)
<1>1. IsFiniteSet(S)
  BY FS_Subset DEF DirsOK
<1>2. Entry \in Surjection(S, T)
  BY DEF Surjection
<1>3. IsFiniteSet(T)
  BY <1>1, <1>2, FS_Surjection
<1>4. T \subseteq CA!Candidates
  BY DEF CA!TypeOK, CA!Rows, CA!Candidates
<1>5. \A e \in T : e.dir \in S /\ e.path = row[e.dir].path
  OBVIOUS
<1>6. \A e, f \in T : e.dir = f.dir => e = f
  OBVIOUS
<1> HIDE DEF T
<1>7. n \in Nat /\ Injection(1..n, T) # {}
  BY <1>3, FS_CardinalityType DEF ExistsBijection, Bijection, Injection
<1>8. t \in [1..n -> T] /\ IsInjective(t)
  BY <1>7, CountsAgree DEF CA!InAnyOrder, CA!Injection, CA!IsInjective, Injection, IsInjective
<1> HIDE DEF t, n
<1>9. t \in Seq(CA!Candidates) /\ DOMAIN t = 1..n
  BY <1>4, <1>7, <1>8
<1>10. \A i \in DOMAIN t : t[i] \in T
  BY <1>8, <1>9
<1>11. \A i, j \in DOMAIN t : t[i].dir = t[j].dir => i = j
  BY <1>6, <1>8, <1>10 DEF IsInjective
<1> QED BY <1>5, <1>9, <1>10, <1>11 DEF t, T

(* The candidate that is worked on, and those that follow.                 *)
LEMMA HeadAndTail ==
    ASSUME NEW s \in Seq(CA!Candidates), s # <<>>
    PROVE  /\ 1 \in DOMAIN s /\ Head(s) = s[1] /\ Head(s) \in CA!Candidates
           /\ Tail(s) \in Seq(CA!Candidates)
           /\ \A i \in DOMAIN Tail(s) : /\ i \in Nat \ {0} /\ i + 1 \in DOMAIN s
                                        /\ Tail(s)[i] = s[i + 1]
<1>1. Len(s) \in Nat \ {0} /\ DOMAIN s = 1..Len(s)
  OBVIOUS
<1> QED BY <1>1

(* The paths of home and of the archive.                                   *)
LEMMA Targets == \A d \in Dirs : CA!Home(d) \in CA!Paths /\ CA!ArchiveTarget(d) \in CA!Paths
BY DEF CA!Paths

(* The command works on a directory.                                       *)
LEMMA AtWork ==
    ASSUME CA!TypeOK, cmd.todo # <<>>
    PROVE  /\ 1 \in DOMAIN cmd.todo /\ CA!Now = cmd.todo[1]
           /\ CA!Now.dir \in Dirs /\ CA!Now.path \in CA!Paths /\ CA!ArchiveTarget(CA!Now.dir) \in CA!Paths
BY HeadAndTail, Targets DEF CA!TypeOK, CA!Now, CA!Candidates

(* The command goes on to the next candidate.                              *)
LEMMA NextIsTyped ==
    ASSUME CA!TypeOK, cmd.todo # <<>>, NEW ph \in {"archive", "purge"},
           cmd' = [cmd EXCEPT !.phase = ph, !.todo = Tail(@)]
    PROVE  /\ cmd'.phase = ph /\ cmd'.todo = Tail(cmd.todo)
           /\ cmd' \in [phase : {"archive", "purge"}, todo : Seq(CA!Candidates)]
<1>1. cmd' = [phase |-> ph, todo |-> Tail(cmd.todo)]
  BY DEF CA!TypeOK
<1>2. Tail(cmd.todo) \in Seq(CA!Candidates)
  BY HeadAndTail DEF CA!TypeOK
<1> QED BY <1>1, <1>2

(* Its candidates are those of before but one.                             *)
LEMMA NextTodo ==
    ASSUME CA!TypeOK, TodoInv, cmd.todo # <<>>,
           NEW ph \in {"archive", "purge"},
           cmd' = [cmd EXCEPT !.phase = ph, !.todo = Tail(@)],
           ph = "purge" => cmd.phase \in {"purge", "removed"},
           marked' = marked, \A d \in Dirs \ {CA!Now.dir} : row'[d] = row[d]
    PROVE  TodoInv'
<1> DEFINE s == cmd.todo
           t == Tail(s)
<1>1. s \in Seq(CA!Candidates) /\ cmd'.phase = ph /\ cmd'.todo = t
  BY NextIsTyped DEF CA!TypeOK
<1>2. /\ t \in Seq(CA!Candidates)
      /\ \A i \in DOMAIN t : i \in Nat \ {0} /\ i + 1 \in DOMAIN s /\ t[i] = s[i + 1]
  BY <1>1, HeadAndTail
<1>3. 1 \in DOMAIN s /\ CA!Now = s[1]
  BY AtWork
<1> HIDE DEF t, s
<1>4. \A i \in DOMAIN s : s[i].dir \in Dirs
  <2>1. \A i \in DOMAIN s : s[i] \in CA!Candidates
    BY <1>1
  <2> QED BY <2>1 DEF CA!Candidates
<1>5. \A i \in DOMAIN t : /\ t[i].dir # CA!Now.dir /\ t[i].dir \in Dirs
                          /\ row'[t[i].dir] = row[t[i].dir]
  BY <1>2, <1>3, <1>4 DEF TodoInv, s
<1>6. \A i, j \in DOMAIN t : t[i].dir = t[j].dir => i = j
  BY <1>2 DEF TodoInv, s
<1>7. \A i \in DOMAIN t :
        /\ row'[t[i].dir].listed /\ row'[t[i].dir].path = t[i].path
        /\ ph = "purge" => t[i].dir \in marked
  BY <1>2, <1>5 DEF TodoInv, s
<1> QED BY <1>1, <1>6, <1>7 DEF TodoInv

(* Both selections.                                                        *)
LEMMA SelectIInv ==
    ASSUME IInv, NEW ph \in {"archive", "purge"},
           NEW S \in SUBSET {d \in Dirs : row[d].listed}, CA!Select(ph, S),
           ph = "purge" => \A d \in S : row[d].lifecycle = "delete_pending"
    PROVE  IInv'
<1> DEFINE t == CA!InAnyOrder({[dir |-> d, path |-> row[d].path] : d \in S})
<1>1. cmd' = [phase |-> ph, todo |-> t] /\ cmd.phase = "off"
      /\ UNCHANGED <<disk, row, untouched, marked, killed>>
  BY DEF CA!Select, CA!Idle
<1>2. /\ t \in Seq(CA!Candidates)
      /\ \A i, j \in DOMAIN t : t[i].dir = t[j].dir => i = j
      /\ \A i \in DOMAIN t : t[i].dir \in S /\ t[i].path = row[t[i].dir].path
  BY SelectedTodo DEF IInv
<1> HIDE DEF t
<1>3. CA!TypeOK'
  BY <1>1, <1>2 DEF IInv, CA!TypeOK
<1>4. ~killed => TodoInv' /\ PlaceInv' /\ HalfInv'
  <2> SUFFICES ASSUME ~killed PROVE TodoInv' /\ PlaceInv' /\ HalfInv'
    OBVIOUS
  <2>1. TodoInv'
    BY <1>1, <1>2 DEF IInv, TodoInv, PlaceInv
  <2>2. PlaceInv' /\ HalfInv'
    BY <1>1 DEF IInv, PlaceInv, HalfInv, Half, OnlyAt, Nowhere
  <2> QED BY <2>1, <2>2
<1> QED BY <1>1, <1>3, <1>4 DEF IInv, DirsOK
-----------------------------------------------------------------------------
(* The steps                                                               *)

(* The command has done its work.                                         *)
LEMMA DoneIInv == ASSUME IInv, CA!Done PROVE IInv'
<1>1. CA!TypeOK'
  BY DEF IInv, CA!TypeOK, CA!Done, CA!Idle
<1>2. ~killed' => TodoInv'
  BY DEF IInv, CA!TypeOK, TodoInv, CA!Done, CA!Idle
<1>3. ~killed' => PlaceInv'
  BY DEF IInv, CA!TypeOK, PlaceInv, Half, OnlyAt, Nowhere, CA!Done
<1>4. ~killed' => HalfInv'
  BY DEF IInv, CA!TypeOK, HalfInv, CA!Done, CA!Idle
<1> QED BY <1>1, <1>2, <1>3, <1>4 DEF IInv, DirsOK

(* A candidate is passed over, or the command ends.                        *)
LEMMA SkipIInv == ASSUME IInv, CA!Skip PROVE IInv'
<1>1. IInv /\ cmd.todo # <<>> /\ UNCHANGED <<disk, row, untouched, marked, killed>>
  BY DEF CA!Skip, CA!At
<1>2. CASE cmd' = CA!Idle
  <2>1. cmd'.phase = "off" /\ cmd'.todo = <<>> /\ cmd.phase = "archive"
    BY <1>2 DEF CA!Idle, CA!Skip, CA!At
  <2>2. CA!TypeOK'
    BY <1>1, <1>2 DEF IInv, CA!TypeOK, CA!Idle
  <2>3. ~killed => TodoInv'
    BY <2>1 DEF TodoInv
  <2>4. ~killed => PlaceInv' /\ HalfInv'
    BY <1>1, <2>1 DEF IInv, PlaceInv, HalfInv, Half, OnlyAt, Nowhere
  <2> QED BY <1>1, <2>2, <2>3, <2>4 DEF IInv, DirsOK
<1>3. CASE CA!NextCandidate
  <2>1. ~killed => TodoInv'
    BY <1>1, <1>3, NextTodo DEF IInv, CA!NextCandidate
  <2>2. ~killed => PlaceInv' /\ HalfInv'
    BY <1>1, <1>3 DEF IInv, CA!TypeOK, PlaceInv, HalfInv, Half, OnlyAt, Nowhere,
           CA!NextCandidate, CA!Skip, CA!At
  <2>3. CA!TypeOK'
    BY <1>1, <1>3, NextIsTyped DEF IInv, CA!TypeOK, CA!NextCandidate
  <2> QED BY <1>1, <2>1, <2>2, <2>3 DEF IInv, DirsOK
<1> QED BY <1>2, <1>3 DEF CA!Skip

(* The directory is at its target and its row is still that of before.     *)
LEMMA RenameIInv == ASSUME IInv, CA!Rename PROVE IInv'
<1> DEFINE d == CA!Now.dir
           target == CA!ArchiveTarget(d)
<1>1. /\ cmd.todo # <<>> /\ cmd.phase = "archive" /\ disk[target] = CA!Nothing
      /\ UNCHANGED <<row, untouched, marked, killed>>
  BY DEF CA!Rename, CA!Movable, CA!At
<1>2. /\ 1 \in DOMAIN cmd.todo /\ CA!Now = cmd.todo[1]
      /\ d \in Dirs /\ CA!Now.path \in CA!Paths /\ target \in CA!Paths
  BY <1>1, AtWork DEF IInv
<1>3. /\ cmd' = [cmd EXCEPT !.phase = "moved"] /\ cmd'.phase = "moved"
      /\ cmd'.todo = cmd.todo /\ CA!Now' = CA!Now
  BY <1>1 DEF IInv, CA!TypeOK, CA!Rename, CA!Goto, CA!Now
<1>4. CA!TypeOK'
  BY <1>1, <1>2, <1>3 DEF IInv, CA!TypeOK, CA!Rename
<1>5. ASSUME ~killed PROVE TodoInv' /\ PlaceInv' /\ HalfInv'
  <2>1. row[d].listed /\ row[d].path = CA!Now.path /\ OnlyAt(d, CA!Now.path)
    BY <1>1, <1>2, <1>5 DEF IInv, TodoInv, PlaceInv, Half
  <2>2. disk[CA!Now.path] = d /\ target # CA!Now.path
    BY <1>1, <1>2, <2>1 DEF OnlyAt, IInv, DirsOK
  <2>3. \A q \in CA!Paths : disk'[q] = IF q = target THEN d
                                    ELSE IF q = CA!Now.path THEN CA!Nothing ELSE disk[q]
    BY <1>2, <2>2 DEF IInv, CA!TypeOK, CA!Rename
  <2>4. TodoInv'
    BY <1>1, <1>3, <1>5 DEF IInv, TodoInv
  <2>5. PlaceInv'
    BY <1>1, <1>2, <1>3, <1>5, <2>1, <2>3 DEF IInv, DirsOK, PlaceInv, Half,
           OnlyAt, Nowhere
  <2>6. HalfInv'
    BY <1>2, <1>3, <2>1, <2>2, <2>3 DEF IInv, DirsOK, HalfInv, OnlyAt
  <2> QED BY <2>4, <2>5, <2>6
<1> QED BY <1>1, <1>4, <1>5 DEF IInv, DirsOK

(* A part of the directory is at its target.                               *)
LEMMA CopyIInv == ASSUME IInv, CA!Copy PROVE IInv'
<1>0. /\ 1 \in DOMAIN cmd.todo /\ CA!Now = cmd.todo[1]
      /\ CA!Now.dir \in Dirs /\ CA!Now.path \in CA!Paths /\ CA!ArchiveTarget(CA!Now.dir) \in CA!Paths
  BY AtWork DEF IInv, CA!Copy, CA!Movable, CA!At
<1>1. CA!TypeOK'
  BY <1>0 DEF IInv, CA!TypeOK, CA!Copy, CA!Goto
<1>2. ~killed' => TodoInv'
  BY <1>0 DEF IInv, CA!TypeOK, TodoInv, CA!Copy, CA!Goto
<1>3. ~killed' => PlaceInv'
  BY <1>0 DEF IInv, DirsOK, CA!TypeOK, PlaceInv, Half, OnlyAt, Nowhere, CA!Copy,
         CA!Movable, CA!At
<1>4. ~killed' => HalfInv'
  BY <1>0 DEF IInv, CA!TypeOK, HalfInv, CA!Now, CA!Copy, CA!Goto
<1> QED BY <1>1, <1>2, <1>3, <1>4 DEF IInv, DirsOK

(* The part stays where it is; the row is right.                           *)
LEMMA CopyFailsIInv == ASSUME IInv, CA!CopyFails PROVE IInv'
<1>0. /\ 1 \in DOMAIN cmd.todo /\ CA!Now = cmd.todo[1]
      /\ CA!Now.dir \in Dirs /\ CA!Now.path \in CA!Paths /\ CA!ArchiveTarget(CA!Now.dir) \in CA!Paths
  BY AtWork DEF IInv, CA!CopyFails, CA!At
<1>1. CA!TypeOK'
  BY <1>0 DEF IInv, CA!TypeOK, CA!CopyFails, CA!Idle
<1>2. ~killed' => TodoInv'
  BY <1>0 DEF IInv, CA!TypeOK, TodoInv, CA!CopyFails, CA!Idle
<1>3. ~killed' => PlaceInv'
  BY <1>0 DEF IInv, CA!TypeOK, PlaceInv, Half, OnlyAt, Nowhere, CA!CopyFails, CA!At
<1>4. ~killed' => HalfInv'
  BY <1>0 DEF IInv, CA!TypeOK, HalfInv, CA!CopyFails, CA!Idle
<1> QED BY <1>1, <1>2, <1>3, <1>4 DEF IInv, DirsOK

(* The copy is complete and the original gone.                             *)
LEMMA CopiedIInv == ASSUME IInv, CA!Copied PROVE IInv'
<1>0. /\ 1 \in DOMAIN cmd.todo /\ CA!Now = cmd.todo[1]
      /\ CA!Now.dir \in Dirs /\ CA!Now.path \in CA!Paths /\ CA!ArchiveTarget(CA!Now.dir) \in CA!Paths
  BY AtWork DEF IInv, CA!Copied, CA!At
<1>1. CA!TypeOK'
  BY <1>0 DEF IInv, CA!TypeOK, CA!Copied, CA!Goto
<1>2. ~killed' => TodoInv'
  BY <1>0 DEF IInv, CA!TypeOK, TodoInv, CA!Copied, CA!Goto
<1>3. ~killed' => PlaceInv'
  BY <1>0 DEF IInv, DirsOK, CA!TypeOK, TodoInv, PlaceInv, HalfInv, Half, OnlyAt,
         Nowhere, CA!Now, CA!Copied, CA!At, CA!Goto
<1>4. ~killed' => HalfInv'
  BY <1>0 DEF IInv, DirsOK, CA!TypeOK, TodoInv, PlaceInv, HalfInv, Half, OnlyAt,
         CA!Now, CA!Copied, CA!At, CA!Goto
<1> QED BY <1>1, <1>2, <1>3, <1>4 DEF IInv, DirsOK

(* The row follows its directory.                                          *)
LEMMA CommitIInv == ASSUME IInv, CA!Commit PROVE IInv'
<1>1. /\ cmd.todo # <<>> /\ cmd.phase = "moved"
      /\ UNCHANGED <<disk, untouched, marked, killed>>
  BY DEF CA!Commit, CA!At
<1>0. CA!Now.dir \in Dirs /\ CA!Now.path \in CA!Paths /\ CA!ArchiveTarget(CA!Now.dir) \in CA!Paths
  BY <1>1, AtWork DEF IInv
<1> DEFINE new == [row[CA!Now.dir] EXCEPT !.path = CA!ArchiveTarget(CA!Now.dir),
                                       !.lifecycle = "archived"]
<1>2. row' = [row EXCEPT ![CA!Now.dir] = new]
  BY DEF CA!Commit
<1>3. new \in CA!Rows
  BY <1>0 DEF IInv, CA!TypeOK, CA!Lifecycles, CA!Rows
<1>4. CA!TypeOK'
  BY <1>1, <1>0, <1>2, <1>3, NextIsTyped DEF IInv, CA!TypeOK, CA!Commit, CA!NextCandidate
<1>5. ~killed => TodoInv'
  BY <1>1, <1>0, <1>2, NextTodo DEF IInv, CA!TypeOK, CA!Commit, CA!NextCandidate
<1>6. ~killed => PlaceInv' /\ HalfInv'
  BY <1>1, <1>0, <1>2 DEF IInv, CA!TypeOK, TodoInv, PlaceInv, HalfInv, Half,
         OnlyAt, Nowhere, CA!Rows, CA!Commit, CA!NextCandidate
<1> QED BY <1>1, <1>4, <1>5, <1>6 DEF IInv, DirsOK

(* The directory follows its row.                                          *)
LEMMA CommitFailsIInv == ASSUME IInv, CA!CommitFails PROVE IInv'
<1>0. /\ 1 \in DOMAIN cmd.todo /\ CA!Now = cmd.todo[1]
      /\ CA!Now.dir \in Dirs /\ CA!Now.path \in CA!Paths /\ CA!ArchiveTarget(CA!Now.dir) \in CA!Paths
  BY AtWork DEF IInv, CA!CommitFails, CA!At
<1>1. CA!TypeOK'
  BY <1>0 DEF IInv, CA!TypeOK, CA!CommitFails, CA!Idle
<1>2. ~killed' => TodoInv'
  BY <1>0 DEF IInv, CA!TypeOK, TodoInv, CA!CommitFails, CA!Idle
<1>3. ~killed' => PlaceInv'
  BY <1>0 DEF IInv, DirsOK, CA!TypeOK, TodoInv, PlaceInv, HalfInv, Half, OnlyAt,
         Nowhere, CA!CommitFails, CA!At
<1>4. ~killed' => HalfInv'
  BY <1>0 DEF IInv, CA!TypeOK, HalfInv, CA!CommitFails, CA!Idle
<1> QED BY <1>1, <1>2, <1>3, <1>4 DEF IInv, DirsOK

(* From here on only the types are known.                                  *)
LEMMA RollBackFailsIInv == ASSUME IInv, CA!RollBackFails PROVE IInv'
<1>1. CA!Now.path \in CA!Paths /\ killed' = TRUE
  BY AtWork DEF IInv, CA!RollBackFails, CA!At
<1>2. CA!TypeOK'
  BY <1>1 DEF IInv, CA!TypeOK, CA!RollBackFails, CA!Idle
<1> QED BY <1>1, <1>2 DEF IInv, DirsOK

(* Only a directory that was marked is removed.                            *)
LEMMA RemoveTreeIInv == ASSUME IInv, CA!RemoveTree PROVE IInv'
<1>0. /\ 1 \in DOMAIN cmd.todo /\ CA!Now = cmd.todo[1]
      /\ CA!Now.dir \in Dirs /\ CA!Now.path \in CA!Paths /\ CA!ArchiveTarget(CA!Now.dir) \in CA!Paths
  BY AtWork DEF IInv, CA!RemoveTree, CA!At
<1>1. CA!TypeOK'
  BY <1>0 DEF IInv, CA!TypeOK, CA!RemoveTree, CA!Goto
<1>2. ~killed' => TodoInv'
  BY <1>0 DEF IInv, CA!TypeOK, TodoInv, CA!RemoveTree, CA!At, CA!Goto
<1>3. ~killed' => PlaceInv'
  BY <1>0 DEF IInv, DirsOK, CA!TypeOK, TodoInv, PlaceInv, Half, OnlyAt, Nowhere,
         CA!Now, CA!RemoveTree, CA!At, CA!Goto
<1>4. ~killed' => HalfInv'
  BY <1>0 DEF IInv, DirsOK, CA!TypeOK, TodoInv, PlaceInv, HalfInv, Half, OnlyAt,
         Nowhere, CA!Now, CA!RemoveTree, CA!At, CA!Goto
<1> QED BY <1>1, <1>2, <1>3, <1>4 DEF IInv, DirsOK

(* The rest stays where it is; the row is right.                           *)
LEMMA RemoveTreeFailsIInv == ASSUME IInv, CA!RemoveTreeFails PROVE IInv'
<1>1. CA!TypeOK'
  BY DEF IInv, CA!TypeOK, CA!RemoveTreeFails, CA!Idle
<1>2. ~killed' => TodoInv'
  BY DEF IInv, CA!TypeOK, TodoInv, CA!RemoveTreeFails, CA!Idle
<1>3. ~killed' => PlaceInv'
  BY DEF IInv, CA!TypeOK, PlaceInv, Half, OnlyAt, Nowhere, CA!RemoveTreeFails, CA!At
<1>4. ~killed' => HalfInv'
  BY DEF IInv, CA!TypeOK, HalfInv, CA!RemoveTreeFails, CA!Idle
<1> QED BY <1>1, <1>2, <1>3, <1>4 DEF IInv, DirsOK

(* The row follows.                                                        *)
LEMMA DeleteRowIInv == ASSUME IInv, CA!DeleteRow PROVE IInv'
<1>1. /\ cmd.todo # <<>> /\ cmd.phase = "removed"
      /\ UNCHANGED <<disk, untouched, marked, killed>>
  BY DEF CA!DeleteRow, CA!At
<1>0. /\ CA!Now = cmd.todo[1] /\ 1 \in DOMAIN cmd.todo
      /\ CA!Now.dir \in Dirs /\ CA!Now.path \in CA!Paths
  BY <1>1, AtWork DEF IInv
<1> DEFINE new == [row[CA!Now.dir] EXCEPT !.listed = @ /\ row[CA!Now.dir].path # CA!Now.path]
<1>2. row' = [row EXCEPT ![CA!Now.dir] = new]
  BY DEF CA!DeleteRow
<1>3. new \in CA!Rows
  BY <1>0 DEF IInv, CA!TypeOK, CA!Rows
<1>4. CA!TypeOK'
  BY <1>1, <1>0, <1>2, <1>3, NextIsTyped DEF IInv, CA!TypeOK, CA!DeleteRow
<1>5. ~killed => TodoInv'
  BY <1>1, <1>0, <1>2, NextTodo DEF IInv, CA!TypeOK, CA!DeleteRow
<1>6. ~killed => PlaceInv' /\ HalfInv'
  BY <1>1, <1>0, <1>2 DEF IInv, CA!TypeOK, TodoInv, PlaceInv, HalfInv, Half,
         OnlyAt, Nowhere, CA!Rows, CA!DeleteRow
<1> QED BY <1>1, <1>4, <1>5, <1>6 DEF IInv, DirsOK

(* Here too.                                                               *)
LEMMA KillIInv == ASSUME IInv, CA!Kill PROVE IInv'
<1>1. CA!TypeOK'
  BY DEF IInv, CA!TypeOK, CA!Kill, CA!Idle
<1>2. ~killed' => TodoInv'
  BY DEF IInv, CA!TypeOK, TodoInv, CA!Kill
<1>3. ~killed' => PlaceInv'
  BY DEF IInv, CA!TypeOK, PlaceInv, CA!Kill
<1>4. ~killed' => HalfInv'
  BY DEF IInv, CA!TypeOK, HalfInv, CA!Kill
<1> QED BY <1>1, <1>2, <1>3, <1>4 DEF IInv, DirsOK

(* Another process marks a directory, a candidate perhaps.                 *)
LEMMA SetLifecycleIInv == ASSUME IInv, NEW d \in Dirs, CA!SetLifecycle(d) PROVE IInv'
<1>1. CA!TypeOK'
  BY DEF IInv, CA!TypeOK, CA!SetLifecycle, CA!Lifecycles, CA!Rows
<1>2. ~killed' => TodoInv'
  BY DEF IInv, CA!TypeOK, TodoInv, CA!SetLifecycle
<1>3. ~killed' => PlaceInv'
  BY DEF IInv, CA!TypeOK, PlaceInv, Half, OnlyAt, Nowhere, CA!Now, CA!SetLifecycle
<1>4. ~killed' => HalfInv'
  BY DEF IInv, CA!TypeOK, HalfInv, OnlyAt, Nowhere, CA!Now, CA!SetLifecycle
<1> QED BY <1>1, <1>2, <1>3, <1>4 DEF IInv, DirsOK

(* Another process writes into a directory.                                *)
LEMMA TouchIInv == ASSUME IInv, NEW d \in Dirs, CA!Touch(d) PROVE IInv'
<1>1. CA!TypeOK'
  BY DEF IInv, CA!TypeOK, CA!Touch
<1>2. ~killed' => TodoInv'
  BY DEF IInv, CA!TypeOK, TodoInv, CA!Touch
<1>3. ~killed' => PlaceInv'
  BY DEF IInv, CA!TypeOK, PlaceInv, Half, OnlyAt, Nowhere, CA!Now, CA!Touch
<1>4. ~killed' => HalfInv'
  BY DEF IInv, CA!TypeOK, HalfInv, OnlyAt, Nowhere, CA!Now, CA!Touch
<1> QED BY <1>1, <1>2, <1>3, <1>4 DEF IInv, DirsOK

(* The invariant holds throughout.                                         *)
LEMMA Invariance == DirsOK => (CA!Spec => []IInv)
<1>1. DirsOK /\ CA!Init => IInv
  <2> SUFFICES ASSUME DirsOK, CA!Init PROVE IInv
    OBVIOUS
  <2>1. /\ cmd.phase = "off" /\ cmd.todo = <<>>
        /\ cmd \in [phase : {"off"}, todo : Seq(CA!Candidates)]
    BY DEF CA!Init, CA!Idle
  <2>2. \A d \in Dirs : /\ row[d].path = CA!Home(d) /\ row[d].listed
                        /\ row[d].lifecycle = "active" /\ CA!Home(d) \in CA!Paths
    BY Targets DEF CA!Init
  <2>3. \A p \in CA!Paths : disk[p] = IF p[1] = "home" THEN p[2] ELSE CA!Nothing
    BY DEF CA!Init
  <2>4. CA!TypeOK
    <3>1. \A p \in CA!Paths : p[1] = "home" => p[2] \in Dirs
      BY DEF CA!Paths, CA!Home, CA!ArchiveTarget
    <3>2. disk \in [CA!Paths -> Dirs \cup {CA!Nothing, CA!Part}]
      BY <3>1 DEF CA!Init
    <3>3. row \in [Dirs -> CA!Rows]
      BY Targets DEF CA!Init, CA!Lifecycles, CA!Rows
    <3> QED BY <2>1, <3>2, <3>3 DEF CA!TypeOK, CA!Init
  <2>5. \A d \in Dirs : OnlyAt(d, CA!Home(d))
    BY <2>3 DEF OnlyAt, DirsOK, CA!Paths, CA!Home, CA!ArchiveTarget
  <2> QED BY <2>1, <2>2, <2>4, <2>5 DEF IInv, TodoInv, PlaceInv, HalfInv
<1>2. IInv /\ [CA!Next]_CA!vars => IInv'
  <2> SUFFICES ASSUME IInv, [CA!Next]_CA!vars PROVE IInv'
    OBVIOUS
  <2>1. CASE CA!Next
    <3>1. CA!SelectArchive \/ CA!SelectPurge => IInv'
      BY SelectIInv DEF CA!SelectArchive, CA!SelectPurge
    <3> QED BY <2>1, <3>1, DoneIInv, SkipIInv, RenameIInv, CopyIInv, CopyFailsIInv,
               CopiedIInv, CommitIInv, CommitFailsIInv, RollBackFailsIInv, RemoveTreeIInv,
               RemoveTreeFailsIInv, DeleteRowIInv, KillIInv, SetLifecycleIInv, TouchIInv DEF CA!Next
  <2>2. CASE UNCHANGED CA!vars
    BY <2>2 DEF CA!vars, IInv, CA!TypeOK, TodoInv, PlaceInv, HalfInv, Half, OnlyAt,
                Nowhere, CA!Now
  <2> QED BY <2>1, <2>2
<1>3. DirsOK => (CA!Init /\ [][CA!Next]_CA!vars => []IInv)
  BY <1>1, <1>2, PTL
<1> QED BY <1>3 DEF CA!Spec
-----------------------------------------------------------------------------
(* The theorems                                                            *)

(* Type correctness.                                                       *)
THEOREM TypeCorrect == DirsOK => (CA!Spec => []CA!TypeOK)
<1>1. IInv => CA!TypeOK
  BY DEF IInv
<1> QED BY <1>1, Invariance, PTL

(* Whenever curator_archive.py is not at work, and unless it was killed    *)
(* half way, every directory is where its row says and none disappears     *)
(* without having been marked, whatever the names in the archive are,      *)
(* wherever a copy or a commit fails, and whatever other processes set the *)
(* lifecycle to in the meantime.                                           *)
THEOREM DirectoriesAreFound == DirsOK => (CA!Spec => []CA!RowFindsDirectory)
<1>1. IInv => CA!RowFindsDirectory
  <2> SUFFICES ASSUME IInv, cmd = CA!Idle, ~killed, NEW d \in Dirs
               PROVE  /\ row[d].listed => \A p \in CA!Paths : disk[p] = d => p = row[d].path
                      /\ d \notin marked => row[d].listed /\ disk[row[d].path] = d
    BY DEF CA!RowFindsDirectory
  <2>1. row[d].path \in CA!Paths
    BY DEF IInv, CA!TypeOK, CA!Rows
  <2>2. row[d].listed => OnlyAt(d, row[d].path)
    BY DEF IInv, PlaceInv, Half, CA!Idle
  <2> QED BY <2>1, <2>2 DEF IInv, PlaceInv, OnlyAt
<1> QED BY <1>1, Invariance, PTL
-----------------------------------------------------------------------------
(* The rebuild of the registry                                             *)


Cells == RB!Statuses \cup {"compensated", "remark"}
Titles == {"task id", "own"}
RunRows == [status : RB!Statuses, dir : BOOLEAN, note : Cells \cup {"none"}, title : Titles]

(* No run is not a run.                                                    *)
NoRunIsNone == NoRun \notin RunRows

Typed(runs) == runs \in [Tasks -> {NoRun} \cup RunRows]

(* What a file that the snapshotter has rendered holds.                    *)
Texts == [session : {"IDLE", "ACTIVE", "SUSPENDED"},
          rows : UNION {[S -> Cells] : S \in SUBSET Tasks},
          active : UNION {[S -> Titles] : S \in SUBSET Tasks}]

(* The file has what the import of these runs needs.                       *)
Holds(text, runs) ==
    \A t \in Tasks : runs[t] # NoRun /\ runs[t].dir =>
        /\ t \in DOMAIN text.rows
        /\ runs[t].note = "none" => text.rows[t] = runs[t].status
        /\ runs[t].status \in RB!Visible => t \in DOMAIN text.active /\ text.active[t] = runs[t].title

RebuildTyped ==
    /\ Typed(run) /\ Typed(dropped)
    /\ session \in {RB!NoRow, "IDLE", "ACTIVE", "SUSPENDED"}
    /\ md \in {NoFile} \cup Texts
    /\ writer \in [Writers -> [phase : {"idle", "open", "committed", "rendered"},
                               text : {NoFile} \cup Texts]]

(* Between the reset of a calm rebuild and its import nobody has opened    *)
(* the database, so the tables are empty and the file is the one that was  *)
(* in step.                                                                *)
CalmInv ==
    importer = "reset" /\ calm /\ session = RB!NoRow =>
        /\ \A w \in Writers : writer[w] = RB!Idle
        /\ \A t \in Tasks : run[t] = NoRun
        /\ md # NoFile /\ Holds(md, dropped)

RBInv == RebuildTyped /\ CalmInv

LEMMA Words ==
    /\ RB!NoRow = "none" /\ RB!Visible \subseteq RB!Statuses
    /\ RB!Statuses = {"queued", "in_use", "review", "suspended", "completed", "failed", "abandoned"}
    /\ RB!Notes = {"none", "compensated", "remark"}
BY DEF RB!NoRow, RB!Visible, RB!Statuses, RB!Notes

(* Which rows and which active items a rendered file has.                  *)
LEMMA RenderedHolds ==
    ASSUME RebuildTyped
    PROVE  RB!Rendered \in Texts /\ Holds(RB!Rendered, run)
<1> DEFINE rowTasks == {t \in Tasks : RB!Registered(t) /\ run[t].dir}
           activeTasks == {t \in Tasks : RB!Registered(t) /\ run[t].status \in RB!Visible}
           rows == [t \in rowTasks |-> RB!Cell(run[t])]
           active == [t \in activeTasks |-> run[t].title]
           shownAs == IF session = RB!NoRow THEN "IDLE" ELSE session
<1>1. RB!Rendered = [session |-> shownAs, rows |-> rows, active |-> active]
  BY DEF RB!Rendered
<1>2. \A t \in Tasks : RB!Registered(t) => run[t] \in RunRows
  BY DEF RebuildTyped, Typed, RB!Registered
<1>3. rows \in UNION {[S -> Cells] : S \in SUBSET Tasks}
  <2>1. \A t \in rowTasks : RB!Cell(run[t]) \in Cells
    BY <1>2, Words DEF RunRows, Cells, RB!Cell
  <2>2. rows \in [rowTasks -> Cells] /\ rowTasks \in SUBSET Tasks
    BY <2>1
  <2> HIDE DEF rows, rowTasks
  <2> QED BY <2>2
<1>4. active \in UNION {[S -> Titles] : S \in SUBSET Tasks}
  <2>1. \A t \in activeTasks : run[t].title \in Titles
    BY <1>2 DEF RunRows
  <2>2. active \in [activeTasks -> Titles] /\ activeTasks \in SUBSET Tasks
    BY <2>1
  <2> HIDE DEF active, activeTasks
  <2> QED BY <2>2
<1>5. shownAs \in {"IDLE", "ACTIVE", "SUSPENDED"}
  BY Words DEF RebuildTyped
<1>6. RB!Rendered \in Texts
  <2> HIDE DEF rows, active, shownAs
  <2> QED BY <1>1, <1>3, <1>4, <1>5 DEF Texts
<1>7. RB!Rendered.rows = rows /\ RB!Rendered.active = active
  BY <1>1
<1>8. ASSUME NEW t \in Tasks, run[t] # NoRun, run[t].dir
      PROVE  /\ t \in DOMAIN rows
             /\ run[t].note = "none" => rows[t] = run[t].status
             /\ run[t].status \in RB!Visible => t \in DOMAIN active /\ active[t] = run[t].title
  BY <1>8 DEF RB!Registered, RB!Cell
<1> QED BY <1>6, <1>7, <1>8 DEF Holds

(* What a row of the file is imported as.                                  *)
LEMMA ImportedIsARun ==
    ASSUME md \in Texts, NEW t \in Tasks, t \in DOMAIN md.rows
    PROVE  /\ RB!Imported(t) \in RunRows
           /\ md.rows[t] \in RB!Statuses => RB!Imported(t).status = md.rows[t]
           /\ t \in DOMAIN md.active => RB!Imported(t).title = md.active[t]
<1> DEFINE cell == md.rows[t]
           title == IF t \in DOMAIN md.active THEN md.active[t] ELSE "task id"
<1>1. cell \in Cells
  BY DEF Texts
<1>2. RB!MapStatus(cell) \in RB!Statuses /\ (cell \in RB!Statuses => RB!MapStatus(cell) = cell)
  <2>1. cell \in RB!Statuses \/ cell = "compensated" \/ cell = "remark"
    BY <1>1 DEF Cells
  <2> HIDE DEF cell
  <2> QED BY <2>1, Words DEF RB!MapStatus
<1>3. title \in Titles
  <2>1. PICK S \in SUBSET Tasks : md.active \in [S -> Titles]
    BY DEF Texts
  <2> QED BY <2>1 DEF Titles
<1>4. RB!Imported(t) = [status |-> RB!MapStatus(cell), dir |-> TRUE, note |-> cell, title |-> title]
  BY DEF RB!Imported
<1>5. RB!Imported(t) \in RunRows
  <2> HIDE DEF cell, title
  <2> QED BY <1>1, <1>2, <1>3, <1>4 DEF RunRows
<1>6. RB!Imported(t).status = RB!MapStatus(cell) /\ RB!Imported(t).title = title
  <2> HIDE DEF cell, title
  <2> QED BY <1>4
<1>7. t \in DOMAIN md.active => title = md.active[t]
  OBVIOUS
<1>8. cell \in RB!Statuses => RB!Imported(t).status = cell
  <2> HIDE DEF cell, title
  <2> QED BY <1>2, <1>6
<1>9. t \in DOMAIN md.active => RB!Imported(t).title = md.active[t]
  <2> HIDE DEF title
  <2> QED BY <1>6, <1>7
<1> QED BY <1>5, <1>8, <1>9

LEMMA ResetInv == ASSUME RBInv, NEW strict \in BOOLEAN, RB!Reset(strict) PROVE RBInv'
<1>1. /\ importer' = "reset" /\ dropped' = run /\ run' = [t \in Tasks |-> NoRun] /\ session' = RB!NoRow
      /\ calm' = (md # NoFile /\ md = RB!Rendered /\ \A w \in Writers : writer[w] = RB!Idle)
      /\ md' = md /\ writer' = writer
  BY DEF RB!Reset, RB!NoRuns, RB!Drift
<1>2. RebuildTyped'
  BY <1>1 DEF RBInv, RebuildTyped, Typed
<1>3. CalmInv'
  <2>1. Holds(RB!Rendered, run)
    BY RenderedHolds DEF RBInv
  <2> SUFFICES ASSUME calm'
               PROVE  /\ \A w \in Writers : writer[w] = RB!Idle
                      /\ \A t \in Tasks : run'[t] = NoRun
                      /\ md # NoFile /\ Holds(md, run)
    BY <1>1 DEF CalmInv, Holds, RB!Idle
  <2>2. md # NoFile /\ md = RB!Rendered /\ \A w \in Writers : writer[w] = RB!Idle
    BY <1>1
  <2> QED BY <1>1, <2>1, <2>2
<1> QED BY <1>2, <1>3 DEF RBInv

LEMMA ImportInv == ASSUME NoRunIsNone, RBInv, RB!Import PROVE RBInv'
<1>1. /\ importer' = "off" /\ md' = md /\ writer' = writer /\ dropped' = dropped
      /\ IF md = NoFile THEN session' = "IDLE" /\ run' = run
         ELSE /\ session' = md.session
              /\ run' = [t \in Tasks |-> IF RB!Registered(t) THEN run[t] ELSE RB!Imported(t)]
  BY DEF RB!Import, RB!history
<1>2. session' \in {"IDLE", "ACTIVE", "SUSPENDED"}
  BY <1>1 DEF RBInv, RebuildTyped, Texts
<1>3. Typed(run)'
  <2>1. CASE md = NoFile
    BY <1>1, <2>1 DEF RBInv, RebuildTyped, Typed
  <2>2. CASE md # NoFile
    <3>1. md \in Texts
      BY <2>2 DEF RBInv, RebuildTyped
    <3>2. \A t \in Tasks : RB!Imported(t) \in {NoRun} \cup RunRows
      BY <3>1, ImportedIsARun DEF RB!Imported
    <3>3. \A t \in Tasks : run[t] \in {NoRun} \cup RunRows
      BY DEF RBInv, RebuildTyped, Typed
    <3> QED BY <1>1, <2>2, <3>2, <3>3 DEF Typed
  <2> QED BY <2>1, <2>2
<1>4. RebuildTyped'
  BY <1>1, <1>2, <1>3 DEF RBInv, RebuildTyped, Typed
<1>5. CalmInv'
  BY <1>1 DEF CalmInv
<1> QED BY <1>4, <1>5 DEF RBInv

LEMMA ImportFailsInv == ASSUME RBInv, RB!ImportFails PROVE RBInv'
<1>1. importer' = "off" /\ UNCHANGED <<run, session, md, writer, dropped>>
  BY DEF RB!ImportFails, RB!history
<1> QED BY <1>1 DEF RBInv, RebuildTyped, Typed, CalmInv

(* A writer's step at its own work while the file stays: once the session  *)
(* has a row the import cannot be of a calm rebuild any more.              *)
LEMMA OpenInv == ASSUME RBInv, NEW w \in Writers, RB!Open(w) PROVE RBInv'
<1>1. /\ writer' = [writer EXCEPT ![w].phase = "open"] /\ session' # RB!NoRow
      /\ session' \in {session, "IDLE"}
      /\ UNCHANGED <<run, md, dropped>>
  BY Words DEF RB!Open, RB!history
<1>2. RebuildTyped'
  BY <1>1 DEF RBInv, RebuildTyped, Typed
<1>3. CalmInv'
  BY <1>1 DEF CalmInv
<1> QED BY <1>2, <1>3 DEF RBInv

(* No writer is at work in a calm rebuild.                                 *)
LEMMA WorkIsNotCalm ==
    ASSUME RBInv, NEW w \in Writers, writer[w].phase # "idle"
    PROVE  ~(importer = "reset" /\ calm /\ session = RB!NoRow)
BY DEF RBInv, CalmInv, RB!Idle

(* A commit changes the runs or the session, and moves the writer on.      *)
LEMMA CommitInv ==
    ASSUME RBInv, NEW w \in Writers, RB!Commit(w), Typed(run)',
           session' = session \/ session' \in {"ACTIVE", "SUSPENDED"}
    PROVE  RBInv'
<1>1. /\ writer[w].phase = "open" /\ writer' = [writer EXCEPT ![w].phase = "committed"]
      /\ md' = md /\ importer' = importer /\ dropped' = dropped /\ calm' = calm
  BY DEF RB!Commit, RB!history
<1>2. RebuildTyped'
  BY <1>1 DEF RBInv, RebuildTyped, Typed
<1>3. ~(importer = "reset" /\ calm /\ session = RB!NoRow)
  BY <1>1, WorkIsNotCalm
<1>4. CalmInv'
  BY <1>1, <1>3, Words DEF CalmInv
<1> QED BY <1>2, <1>4 DEF RBInv

LEMMA RegisterInv ==
    ASSUME RBInv, NEW w \in Writers, NEW t \in Tasks, RB!Register(w, t) PROVE RBInv'
<1>1. PICK dir \in BOOLEAN, title \in Titles :
        run' = [run EXCEPT ![t] = [status |-> "queued", dir |-> dir, note |-> "none", title |-> title]]
  BY DEF RB!Register, RB!Run, Titles
<1>2. [status |-> "queued", dir |-> dir, note |-> "none", title |-> title] \in RunRows
  BY Words DEF RunRows
<1>3. Typed(run)'
  BY <1>1, <1>2 DEF RBInv, RebuildTyped, Typed
<1>4. RB!Commit(w) /\ session' = session
  BY DEF RB!Register
<1> QED BY <1>3, <1>4, CommitInv

LEMMA SetStatusInv ==
    ASSUME RBInv, NEW w \in Writers, NEW t \in Tasks, RB!SetStatus(w, t) PROVE RBInv'
<1>1. PICK new \in RB!Statuses, remark \in RB!Notes :
        run' = [run EXCEPT ![t].status = new,
                           ![t].note = IF remark = "none" THEN @ ELSE remark]
  BY DEF RB!SetStatus
<1>2. run[t] \in RunRows
  BY DEF RB!SetStatus, RB!Registered, RBInv, RebuildTyped, Typed
<1> DEFINE n == IF remark = "none" THEN run[t].note ELSE remark
           changed == [run[t] EXCEPT !.status = new, !.note = n]
<1>3. run' = [run EXCEPT ![t] = changed]
  BY <1>1, <1>2 DEF RBInv, RebuildTyped, Typed, RunRows
<1>4. n \in Cells \cup {"none"}
  BY <1>2, Words DEF RunRows, Cells
<1>5. changed \in RunRows
  <2> HIDE DEF n
  <2> QED BY <1>2, <1>4 DEF RunRows
<1>6. Typed(run)'
  <2> HIDE DEF changed
  <2> QED BY <1>3, <1>5 DEF RBInv, RebuildTyped, Typed
<1>7. RB!Commit(w) /\ session' = session
  BY DEF RB!SetStatus
<1> QED BY <1>6, <1>7, CommitInv

LEMMA SetSessionInv == ASSUME RBInv, NEW w \in Writers, RB!SetSession(w) PROVE RBInv'
<1>1. RB!Commit(w) /\ session' \in {"ACTIVE", "SUSPENDED"} /\ run' = run
  BY DEF RB!SetSession
<1> QED BY <1>1, CommitInv DEF RBInv, RebuildTyped, Typed

LEMMA RenderInv == ASSUME RBInv, NEW w \in Writers, RB!Render(w) PROVE RBInv'
<1>1. /\ writer[w].phase = "committed"
      /\ writer' = [writer EXCEPT ![w] = [phase |-> "rendered", text |-> RB!Rendered]]
      /\ UNCHANGED <<run, session, md, importer, dropped, calm>>
  BY DEF RB!Render, RB!history
<1>2. RebuildTyped'
  <2>1. RB!Rendered \in Texts
    BY RenderedHolds DEF RBInv
  <2> QED BY <1>1, <2>1 DEF RBInv, RebuildTyped, Typed
<1>3. CalmInv'
  BY <1>1, WorkIsNotCalm DEF CalmInv
<1> QED BY <1>2, <1>3 DEF RBInv

LEMMA ReplaceInv == ASSUME RBInv, NEW w \in Writers, RB!Replace(w) PROVE RBInv'
<1>1. /\ writer[w].phase = "rendered" /\ md' = writer[w].text
      /\ writer' = [writer EXCEPT ![w] = RB!Idle]
      /\ UNCHANGED <<run, session, importer, dropped, calm>>
  BY DEF RB!Replace, RB!history
<1>2. RebuildTyped'
  BY <1>1 DEF RBInv, RebuildTyped, Typed, RB!Idle
<1>3. CalmInv'
  BY <1>1, WorkIsNotCalm DEF CalmInv
<1> QED BY <1>2, <1>3 DEF RBInv

LEMMA RenderFailsInv == ASSUME RBInv, NEW w \in Writers, RB!RenderFails(w) PROVE RBInv'
<1>1. /\ writer[w] # RB!Idle /\ writer' = [writer EXCEPT ![w] = RB!Idle]
      /\ UNCHANGED <<run, session, md, importer, dropped, calm>>
  BY DEF RB!RenderFails, RB!history
<1>2. RebuildTyped'
  BY <1>1 DEF RBInv, RebuildTyped, Typed, RB!Idle
<1>3. CalmInv'
  BY <1>1 DEF RBInv, CalmInv
<1> QED BY <1>2, <1>3 DEF RBInv

LEMMA RBInvariance == ASSUME NoRunIsNone PROVE RB!Spec => []RBInv
<1>1. RB!Init => RBInv
  BY Words DEF RB!Init, RB!NoRuns, RB!Idle, RBInv, RebuildTyped, Typed, CalmInv
<1>2. RBInv /\ [RB!Next]_RB!vars => RBInv'
  <2> SUFFICES ASSUME RBInv, [RB!Next]_RB!vars PROVE RBInv'
    OBVIOUS
  <2>1. CASE RB!Next
    BY <2>1, ResetInv, ImportInv, ImportFailsInv, OpenInv, RegisterInv, SetStatusInv,
       SetSessionInv, RenderInv, ReplaceInv, RenderFailsInv DEF RB!Next
  <2>2. CASE UNCHANGED RB!vars
    BY <2>2 DEF RB!vars, RBInv, RebuildTyped, Typed, CalmInv
  <2> QED BY <2>1, <2>2
<1> QED BY <1>1, <1>2, PTL DEF RB!Spec

(* A rebuild with the file in step and nobody writing keeps every run that *)
(* has a directory: its status if it has no note, and its title if a user  *)
(* could see it (importer.py).                                             *)
THEOREM CalmRebuildsKeepRuns ==
    ASSUME NoRunIsNone PROVE RB!Spec => [][RB!RebuildKeepsRuns]_RB!vars
<1>1. RBInv => RB!RebuildKeepsRuns
  <2> SUFFICES ASSUME RBInv, RB!Import, calm, NEW t \in Tasks, dropped[t] # NoRun, dropped[t].dir
               PROVE  /\ run'[t] # NoRun
                      /\ dropped[t].note = "none" => run'[t].status = dropped[t].status
                      /\ dropped[t].status \in RB!Visible => run'[t].title = dropped[t].title
    BY DEF RB!RebuildKeepsRuns
  <2>1. importer = "reset" /\ session = RB!NoRow
    BY DEF RB!Import
  <2>2. run[t] = NoRun /\ md # NoFile /\ Holds(md, dropped)
    BY <2>1 DEF RBInv, CalmInv
  <2>3. md \in Texts /\ dropped[t] \in RunRows
    BY <2>2 DEF RBInv, RebuildTyped, Typed
  <2>4. run'[t] = RB!Imported(t)
    BY <2>2 DEF RB!Import, RB!Registered
  <2>5. /\ t \in DOMAIN md.rows
        /\ dropped[t].note = "none" => md.rows[t] = dropped[t].status
        /\ dropped[t].status \in RB!Visible => t \in DOMAIN md.active /\ md.active[t] = dropped[t].title
    BY <2>2 DEF Holds
  <2>6. RB!Imported(t) # NoRun
    BY <2>3, <2>5, ImportedIsARun DEF NoRunIsNone
  <2>7. dropped[t].status \in RB!Statuses
    BY <2>3 DEF RunRows
  <2> QED BY <2>3, <2>4, <2>5, <2>6, <2>7, ImportedIsARun
<1> QED BY <1>1, RBInvariance, PTL

-----------------------------------------------------------------------------
(* The migration of the worker directories                                 *)


(* Where each directory can be, and which names a link can have.           *)
TreeInv ==
    /\ at["ccmux"] \in {"ccmux content", MG!None} /\ at["renga"] \in {"ccmux content", MG!None}
    /\ at["r"] \in {"run content", MG!None}
    /\ at["claude-org-en"] \in {"en content", MG!None} /\ at["claude-org"] \in {"ja content", "en content", MG!None}
    /\ at["claude-org-ja-tmp"] \in {"ja content", "made", MG!None} /\ at["claude-org-ja"] \in {"ja content", "made", MG!None}
    /\ at["claude-org-en"] = MG!None <=> at["claude-org"] = "en content"
    /\ "ja content" \in {at["claude-org"], at["claude-org-ja-tmp"], at["claude-org-ja"]}
    /\ at["claude-org-ja-tmp"] = "made" => at["claude-org"] = "ja content"
    /\ runsIn \subseteq {"ja content", "made"} /\ runIn \in {"ja content", "made", MG!None}
    /\ \A n \in {"renga", "claude-org-en", "claude-org-ja-tmp", "claude-org-ja"} : link[n] = MG!None

(* The operations of a plan, or of a tier of it, are different; the swap is *)
(* whole, and comes before the run and its parent.                          *)
Shape(ops) ==
    /\ ops \in Seq(MG!Steps)
    /\ \A i, j \in DOMAIN ops : ops[i] = ops[j] => i = j
    /\ \A i \in DOMAIN ops : ops[i] = MG!Aside =>
         /\ i + 2 \in DOMAIN ops /\ ops[i + 1] = MG!Across /\ ops[i + 2] = MG!Into
         /\ \A j \in 1 .. i - 1 : ops[j] = MG!Ccmux
    /\ \A i \in DOMAIN ops : ops[i] = MG!Across => i > 1 /\ ops[i - 1] = MG!Aside
    /\ \A i \in DOMAIN ops : ops[i] = MG!Into => i > 2 /\ ops[i - 1] = MG!Across /\ ops[i - 2] = MG!Aside
    /\ \A i, j \in DOMAIN ops : ops[i] \in {MG!Parent, MG!Run} /\ j > i => ops[j] = MG!Run

(* The operations whose rename is still to come.                           *)
Left == {i \in DOMAIN job.ops : i > job.k \/ (i = job.k /\ moving \in {"apply", "rename"})}
Pending(step) == \E i \in Left : job.ops[i] = step

Applying == moving \in {"apply", "rename", "repair", "link", "record"}

(* How far the swap is, and what of a whole plan is done.                  *)
SwapInv ==
    Applying =>
        /\ Pending(MG!Aside) => at["claude-org"] = "ja content"
        /\ Pending(MG!Across) /\ ~Pending(MG!Aside) => at["claude-org-ja-tmp"] = "ja content"
        /\ Pending(MG!Into) /\ ~Pending(MG!Across) =>
             at["claude-org-ja-tmp"] = "ja content" /\ at["claude-org"] = "en content"
        /\ job.full /\ ~Pending(MG!Ccmux) => at["renga"] = "ccmux content"
        /\ job.full /\ ~Pending(MG!Into) =>
             \/ at["claude-org-ja"] = "made"
             \/ at["claude-org-ja"] = "ja content" /\ at["claude-org"] = "en content"
        /\ job.full /\ ~Pending(MG!Run) => runIn = "ja content" \/ at["claude-org-ja"] = "made"

(* With links the swap is never made: the link in place of its first name  *)
(* is in the way of the second step.                                       *)
LinkInv ==
    Applying /\ job.keep =>
        /\ \A i \in DOMAIN job.ops : job.ops[i] = MG!Into => i > job.k
        /\ \A i \in DOMAIN job.ops : job.ops[i] = MG!Across /\ i = job.k =>
             moving \in {"apply", "rename"} /\ link["claude-org"] # MG!None
        /\ moving = "record" => link[MG!Op.src] = MG!Op.dst

JobInv ==
    /\ Shape(staged) /\ Shape(job.ops)
    /\ moving \in {"rename", "repair", "link", "record"} => MG!Op # MG!Parent
    /\ moving = "idle" => job = MG!NoJob

MGInv == MG!TypeOK /\ TreeInv /\ JobInv /\ SwapInv /\ LinkInv

-----------------------------------------------------------------------------
(* The steps, and that they are different operations.                      *)
LEMMA StepsAre ==
    /\ MG!Ccmux = [op |-> "rename_project", src |-> "ccmux", dst |-> "renga"]
    /\ MG!Aside = [op |-> "rename_project", src |-> "claude-org", dst |-> "claude-org-ja-tmp"]
    /\ MG!Across = [op |-> "rename_project", src |-> "claude-org-en", dst |-> "claude-org"]
    /\ MG!Into = [op |-> "rename_project", src |-> "claude-org-ja-tmp", dst |-> "claude-org-ja"]
    /\ MG!Parent = [op |-> "ensure_dir", src |-> "", dst |-> MG!RunsDir]
    /\ MG!Run = [op |-> "move_run", src |-> "r", dst |-> MG!Target]
BY DEF MG!Ccmux, MG!Aside, MG!Across, MG!Into, MG!Parent, MG!Run, MG!Operation

LEMMA StepsDiffer ==
    /\ MG!Ccmux # MG!Aside /\ MG!Ccmux # MG!Across /\ MG!Ccmux # MG!Into /\ MG!Ccmux # MG!Parent /\ MG!Ccmux # MG!Run
    /\ MG!Aside # MG!Across /\ MG!Aside # MG!Into /\ MG!Aside # MG!Parent /\ MG!Aside # MG!Run
    /\ MG!Across # MG!Into /\ MG!Across # MG!Parent /\ MG!Across # MG!Run
    /\ MG!Into # MG!Parent /\ MG!Into # MG!Run /\ MG!Parent # MG!Run
<1>1. /\ MG!Ccmux.src = "ccmux" /\ MG!Aside.src = "claude-org" /\ MG!Across.src = "claude-org-en"
      /\ MG!Into.src = "claude-org-ja-tmp" /\ MG!Parent.src = "" /\ MG!Run.src = "r"
  BY StepsAre
<1> QED BY <1>1

LEMMA StepFields ==
    /\ MG!Ccmux.op = "rename_project" /\ MG!Ccmux.src = "ccmux" /\ MG!Ccmux.dst = "renga"
    /\ MG!Aside.op = "rename_project" /\ MG!Aside.src = "claude-org" /\ MG!Aside.dst = "claude-org-ja-tmp"
    /\ MG!Across.op = "rename_project" /\ MG!Across.src = "claude-org-en" /\ MG!Across.dst = "claude-org"
    /\ MG!Into.op = "rename_project" /\ MG!Into.src = "claude-org-ja-tmp" /\ MG!Into.dst = "claude-org-ja"
    /\ MG!Parent.op = "ensure_dir" /\ MG!Parent.src = "" /\ MG!Parent.dst = MG!RunsDir
    /\ MG!Run.op = "move_run" /\ MG!Run.src = "r" /\ MG!Run.dst = MG!Target
BY DEF MG!Ccmux, MG!Aside, MG!Across, MG!Into, MG!Parent, MG!Run, MG!Operation

LEMMA CcmuxSwap == <<MG!Ccmux>> \o <<MG!Aside, MG!Across, MG!Into>> = <<MG!Ccmux, MG!Aside, MG!Across, MG!Into>>
<1> DEFINE s == <<MG!Ccmux>> \o <<MG!Aside, MG!Across, MG!Into>>
           t == <<MG!Ccmux, MG!Aside, MG!Across, MG!Into>>
<1>1. Len(s) = 4 /\ s[1] = MG!Ccmux /\ s[2] = MG!Aside /\ s[3] = MG!Across /\ s[4] = MG!Into
  OBVIOUS
<1>2. Len(t) = 4 /\ s \in Seq(MG!Steps) /\ t \in Seq(MG!Steps)
  BY DEF MG!Steps
<1>3. \A i \in 1 .. Len(s) : s[i] = t[i]
  BY <1>1
<1> QED BY <1>1, <1>2, <1>3, SeqEqual

LEMMA CcmuxRun == <<MG!Ccmux>> \o <<MG!Parent, MG!Run>> = <<MG!Ccmux, MG!Parent, MG!Run>>
<1> DEFINE s == <<MG!Ccmux>> \o <<MG!Parent, MG!Run>>
           t == <<MG!Ccmux, MG!Parent, MG!Run>>
<1>1. Len(s) = 3 /\ s[1] = MG!Ccmux /\ s[2] = MG!Parent /\ s[3] = MG!Run
  OBVIOUS
<1>2. Len(t) = 3 /\ s \in Seq(MG!Steps) /\ t \in Seq(MG!Steps)
  BY DEF MG!Steps
<1>3. \A i \in 1 .. Len(s) : s[i] = t[i]
  BY <1>1
<1> QED BY <1>1, <1>2, <1>3, SeqEqual

LEMMA SwapRun == <<MG!Aside, MG!Across, MG!Into>> \o <<MG!Parent, MG!Run>> = <<MG!Aside, MG!Across, MG!Into, MG!Parent, MG!Run>>
<1> DEFINE s == <<MG!Aside, MG!Across, MG!Into>> \o <<MG!Parent, MG!Run>>
           t == <<MG!Aside, MG!Across, MG!Into, MG!Parent, MG!Run>>
<1>1. Len(s) = 5 /\ s[1] = MG!Aside /\ s[2] = MG!Across /\ s[3] = MG!Into /\ s[4] = MG!Parent /\ s[5] = MG!Run
  OBVIOUS
<1>2. Len(t) = 5 /\ s \in Seq(MG!Steps) /\ t \in Seq(MG!Steps)
  BY DEF MG!Steps
<1>3. \A i \in 1 .. Len(s) : s[i] = t[i]
  BY <1>1
<1> QED BY <1>1, <1>2, <1>3, SeqEqual

LEMMA AllOfIt == <<MG!Ccmux, MG!Aside, MG!Across, MG!Into>> \o <<MG!Parent, MG!Run>> = <<MG!Ccmux, MG!Aside, MG!Across, MG!Into, MG!Parent, MG!Run>>
<1> DEFINE s == <<MG!Ccmux, MG!Aside, MG!Across, MG!Into>> \o <<MG!Parent, MG!Run>>
           t == <<MG!Ccmux, MG!Aside, MG!Across, MG!Into, MG!Parent, MG!Run>>
<1>1. Len(s) = 6 /\ s[1] = MG!Ccmux /\ s[2] = MG!Aside /\ s[3] = MG!Across /\ s[4] = MG!Into /\ s[5] = MG!Parent /\ s[6] = MG!Run
  OBVIOUS
<1>2. Len(t) = 6 /\ s \in Seq(MG!Steps) /\ t \in Seq(MG!Steps)
  BY DEF MG!Steps
<1>3. \A i \in 1 .. Len(s) : s[i] = t[i]
  BY <1>1
<1> QED BY <1>1, <1>2, <1>3, SeqEqual

(* What a plan is made of.                                                 *)
LEMMA Tiers ==
    /\ MG!ProjectTier \in {<<>>, <<MG!Ccmux>>, <<MG!Aside, MG!Across, MG!Into>>, <<MG!Ccmux, MG!Aside, MG!Across, MG!Into>>}
    /\ MG!RunTier \in {<<>>, <<MG!Parent, MG!Run>>}
    /\ MG!Plan \in {<<>>, <<MG!Ccmux>>, <<MG!Aside, MG!Across, MG!Into>>, <<MG!Ccmux, MG!Aside, MG!Across, MG!Into>>,
                 <<MG!Parent, MG!Run>>, <<MG!Ccmux, MG!Parent, MG!Run>>, <<MG!Aside, MG!Across, MG!Into, MG!Parent, MG!Run>>,
                 <<MG!Ccmux, MG!Aside, MG!Across, MG!Into, MG!Parent, MG!Run>>}
<1> DEFINE swap == <<MG!Aside, MG!Across, MG!Into>>
           runs == <<MG!Parent, MG!Run>>
           both == <<MG!Ccmux, MG!Aside, MG!Across, MG!Into>>
<1>1. /\ <<>> \o swap = swap /\ <<MG!Ccmux>> \o swap = both
      /\ <<>> \o <<>> = <<>> /\ <<MG!Ccmux>> \o <<>> = <<MG!Ccmux>>
  BY CcmuxSwap
<1>2. MG!ProjectTier \in {<<>>, <<MG!Ccmux>>, swap, both}
  BY <1>1 DEF MG!ProjectTier
<1>3. MG!RunTier \in {<<>>, runs}
  BY DEF MG!RunTier
<1>4. <<>> \o runs = runs /\ swap \o <<>> = swap /\ both \o <<>> = both
  OBVIOUS
<1> QED BY <1>1, <1>2, <1>3, <1>4, CcmuxRun, SwapRun, AllOfIt DEF MG!Plan

LEMMA Shapes ==
    /\ Shape(MG!Plan) /\ Shape(MG!ProjectTier) /\ Shape(MG!RunTier) /\ Shape(<<>>)
<1>1. Shape(<<>>)
  BY StepsDiffer DEF Shape, MG!Steps
<1>2. Shape(<<MG!Ccmux>>)
  BY StepsDiffer DEF Shape, MG!Steps
<1>3. Shape(<<MG!Parent, MG!Run>>)
  <2> DEFINE ops == <<MG!Parent, MG!Run>>
  <2>1. ops \in Seq(MG!Steps)
    BY DEF MG!Steps
  <2>2. DOMAIN ops = 1 .. 2 /\ ops[1] = MG!Parent /\ ops[2] = MG!Run
    OBVIOUS
  <2> HIDE DEF ops
  <2>3. \A i, j \in DOMAIN ops : ops[i] = ops[j] => i = j
    BY <2>2, StepsDiffer
  <2>4. \A i \in DOMAIN ops : ops[i] = MG!Aside =>
         /\ i + 2 \in DOMAIN ops /\ ops[i + 1] = MG!Across /\ ops[i + 2] = MG!Into
         /\ \A j \in 1 .. i - 1 : ops[j] = MG!Ccmux
    BY <2>2, StepsDiffer
  <2>5. /\ \A i \in DOMAIN ops : ops[i] = MG!Across => i > 1 /\ ops[i - 1] = MG!Aside
        /\ \A i \in DOMAIN ops : ops[i] = MG!Into => i > 2 /\ ops[i - 1] = MG!Across /\ ops[i - 2] = MG!Aside
    BY <2>2, StepsDiffer
  <2>6. \A i, j \in DOMAIN ops : ops[i] \in {MG!Parent, MG!Run} /\ j > i => ops[j] = MG!Run
    BY <2>2, StepsDiffer
  <2>7. Shape(ops)
    BY <2>1, <2>3, <2>4, <2>5, <2>6 DEF Shape
  <2> QED BY <2>7 DEF ops
<1>4. Shape(<<MG!Ccmux, MG!Parent, MG!Run>>)
  <2> DEFINE ops == <<MG!Ccmux, MG!Parent, MG!Run>>
  <2>1. ops \in Seq(MG!Steps)
    BY DEF MG!Steps
  <2>2. DOMAIN ops = 1 .. 3 /\ ops[1] = MG!Ccmux /\ ops[2] = MG!Parent /\ ops[3] = MG!Run
    OBVIOUS
  <2> HIDE DEF ops
  <2>3. \A i, j \in DOMAIN ops : ops[i] = ops[j] => i = j
    BY <2>2, StepsDiffer
  <2>4. \A i \in DOMAIN ops : ops[i] = MG!Aside =>
         /\ i + 2 \in DOMAIN ops /\ ops[i + 1] = MG!Across /\ ops[i + 2] = MG!Into
         /\ \A j \in 1 .. i - 1 : ops[j] = MG!Ccmux
    BY <2>2, StepsDiffer
  <2>5. /\ \A i \in DOMAIN ops : ops[i] = MG!Across => i > 1 /\ ops[i - 1] = MG!Aside
        /\ \A i \in DOMAIN ops : ops[i] = MG!Into => i > 2 /\ ops[i - 1] = MG!Across /\ ops[i - 2] = MG!Aside
    BY <2>2, StepsDiffer
  <2>6. \A i, j \in DOMAIN ops : ops[i] \in {MG!Parent, MG!Run} /\ j > i => ops[j] = MG!Run
    BY <2>2, StepsDiffer
  <2>7. Shape(ops)
    BY <2>1, <2>3, <2>4, <2>5, <2>6 DEF Shape
  <2> QED BY <2>7 DEF ops
<1>5. Shape(<<MG!Aside, MG!Across, MG!Into>>)
  <2> DEFINE ops == <<MG!Aside, MG!Across, MG!Into>>
  <2>1. ops \in Seq(MG!Steps)
    BY DEF MG!Steps
  <2>2. DOMAIN ops = 1 .. 3 /\ ops[1] = MG!Aside /\ ops[2] = MG!Across /\ ops[3] = MG!Into
    OBVIOUS
  <2> HIDE DEF ops
  <2>3. \A i, j \in DOMAIN ops : ops[i] = ops[j] => i = j
    BY <2>2, StepsDiffer
  <2>4. \A i \in DOMAIN ops : ops[i] = MG!Aside =>
         /\ i + 2 \in DOMAIN ops /\ ops[i + 1] = MG!Across /\ ops[i + 2] = MG!Into
         /\ \A j \in 1 .. i - 1 : ops[j] = MG!Ccmux
    BY <2>2, StepsDiffer
  <2>5. /\ \A i \in DOMAIN ops : ops[i] = MG!Across => i > 1 /\ ops[i - 1] = MG!Aside
        /\ \A i \in DOMAIN ops : ops[i] = MG!Into => i > 2 /\ ops[i - 1] = MG!Across /\ ops[i - 2] = MG!Aside
    BY <2>2, StepsDiffer
  <2>6. \A i, j \in DOMAIN ops : ops[i] \in {MG!Parent, MG!Run} /\ j > i => ops[j] = MG!Run
    BY <2>2, StepsDiffer
  <2>7. Shape(ops)
    BY <2>1, <2>3, <2>4, <2>5, <2>6 DEF Shape
  <2> QED BY <2>7 DEF ops
<1>6. Shape(<<MG!Ccmux, MG!Aside, MG!Across, MG!Into>>)
  <2> DEFINE ops == <<MG!Ccmux, MG!Aside, MG!Across, MG!Into>>
  <2>1. ops \in Seq(MG!Steps)
    BY DEF MG!Steps
  <2>2. DOMAIN ops = 1 .. 4 /\ ops[1] = MG!Ccmux /\ ops[2] = MG!Aside /\ ops[3] = MG!Across /\ ops[4] = MG!Into
    OBVIOUS
  <2> HIDE DEF ops
  <2>3. \A i, j \in DOMAIN ops : ops[i] = ops[j] => i = j
    BY <2>2, StepsDiffer
  <2>4. \A i \in DOMAIN ops : ops[i] = MG!Aside =>
         /\ i + 2 \in DOMAIN ops /\ ops[i + 1] = MG!Across /\ ops[i + 2] = MG!Into
         /\ \A j \in 1 .. i - 1 : ops[j] = MG!Ccmux
    BY <2>2, StepsDiffer
  <2>5. /\ \A i \in DOMAIN ops : ops[i] = MG!Across => i > 1 /\ ops[i - 1] = MG!Aside
        /\ \A i \in DOMAIN ops : ops[i] = MG!Into => i > 2 /\ ops[i - 1] = MG!Across /\ ops[i - 2] = MG!Aside
    BY <2>2, StepsDiffer
  <2>6. \A i, j \in DOMAIN ops : ops[i] \in {MG!Parent, MG!Run} /\ j > i => ops[j] = MG!Run
    BY <2>2, StepsDiffer
  <2>7. Shape(ops)
    BY <2>1, <2>3, <2>4, <2>5, <2>6 DEF Shape
  <2> QED BY <2>7 DEF ops
<1>7. Shape(<<MG!Aside, MG!Across, MG!Into, MG!Parent, MG!Run>>)
  <2> DEFINE ops == <<MG!Aside, MG!Across, MG!Into, MG!Parent, MG!Run>>
  <2>1. ops \in Seq(MG!Steps)
    BY DEF MG!Steps
  <2>2. DOMAIN ops = 1 .. 5 /\ ops[1] = MG!Aside /\ ops[2] = MG!Across /\ ops[3] = MG!Into /\ ops[4] = MG!Parent /\ ops[5] = MG!Run
    OBVIOUS
  <2> HIDE DEF ops
  <2>3. \A i, j \in DOMAIN ops : ops[i] = ops[j] => i = j
    BY <2>2, StepsDiffer
  <2>4. \A i \in DOMAIN ops : ops[i] = MG!Aside =>
         /\ i + 2 \in DOMAIN ops /\ ops[i + 1] = MG!Across /\ ops[i + 2] = MG!Into
         /\ \A j \in 1 .. i - 1 : ops[j] = MG!Ccmux
    BY <2>2, StepsDiffer
  <2>5. /\ \A i \in DOMAIN ops : ops[i] = MG!Across => i > 1 /\ ops[i - 1] = MG!Aside
        /\ \A i \in DOMAIN ops : ops[i] = MG!Into => i > 2 /\ ops[i - 1] = MG!Across /\ ops[i - 2] = MG!Aside
    BY <2>2, StepsDiffer
  <2>6. \A i, j \in DOMAIN ops : ops[i] \in {MG!Parent, MG!Run} /\ j > i => ops[j] = MG!Run
    BY <2>2, StepsDiffer
  <2>7. Shape(ops)
    BY <2>1, <2>3, <2>4, <2>5, <2>6 DEF Shape
  <2> QED BY <2>7 DEF ops
<1>8. Shape(<<MG!Ccmux, MG!Aside, MG!Across, MG!Into, MG!Parent, MG!Run>>)
  <2> DEFINE ops == <<MG!Ccmux, MG!Aside, MG!Across, MG!Into, MG!Parent, MG!Run>>
  <2>1. ops \in Seq(MG!Steps)
    BY DEF MG!Steps
  <2>2. DOMAIN ops = 1 .. 6 /\ ops[1] = MG!Ccmux /\ ops[2] = MG!Aside /\ ops[3] = MG!Across /\ ops[4] = MG!Into /\ ops[5] = MG!Parent /\ ops[6] = MG!Run
    OBVIOUS
  <2> HIDE DEF ops
  <2>3. \A i, j \in DOMAIN ops : ops[i] = ops[j] => i = j
    BY <2>2, StepsDiffer
  <2>4. \A i \in DOMAIN ops : ops[i] = MG!Aside =>
         /\ i + 2 \in DOMAIN ops /\ ops[i + 1] = MG!Across /\ ops[i + 2] = MG!Into
         /\ \A j \in 1 .. i - 1 : ops[j] = MG!Ccmux
    BY <2>2, StepsDiffer
  <2>5. /\ \A i \in DOMAIN ops : ops[i] = MG!Across => i > 1 /\ ops[i - 1] = MG!Aside
        /\ \A i \in DOMAIN ops : ops[i] = MG!Into => i > 2 /\ ops[i - 1] = MG!Across /\ ops[i - 2] = MG!Aside
    BY <2>2, StepsDiffer
  <2>6. \A i, j \in DOMAIN ops : ops[i] \in {MG!Parent, MG!Run} /\ j > i => ops[j] = MG!Run
    BY <2>2, StepsDiffer
  <2>7. Shape(ops)
    BY <2>1, <2>3, <2>4, <2>5, <2>6 DEF Shape
  <2> QED BY <2>7 DEF ops
<1> QED BY <1>1, <1>2, <1>3, <1>4, <1>5, <1>6, <1>7, <1>8, Tiers
(* Where the operations of a plan stand.                                   *)
LEMMA Positions ==
    ASSUME NEW ops, Shape(ops)
    PROVE  /\ ops \in Seq(MG!Steps) /\ Len(ops) \in Nat /\ DOMAIN ops = 1 .. Len(ops)
           /\ \A i \in DOMAIN ops : ops[i] \in MG!Steps
           /\ \A i \in DOMAIN ops : ops[i] = MG!Across => i # 1 /\ i - 1 \in DOMAIN ops /\ ops[i - 1] = MG!Aside
           /\ \A i \in DOMAIN ops : ops[i] = MG!Into =>
                i > 1 /\ i # 1 /\ i - 1 \in DOMAIN ops /\ ops[i - 1] = MG!Across
<1>1. ops \in Seq(MG!Steps) /\ Len(ops) \in Nat /\ DOMAIN ops = 1 .. Len(ops)
  BY DEF Shape
<1>2. \A i \in DOMAIN ops : ops[i] \in MG!Steps
  BY <1>1
<1>3. \A i \in DOMAIN ops : i > 1 => i - 1 \in DOMAIN ops /\ i # 1
  BY <1>1
<1>4. \A i \in DOMAIN ops : i > 2 => i > 1
  BY <1>1
<1>5. /\ \A i \in DOMAIN ops : ops[i] = MG!Across => i > 1 /\ ops[i - 1] = MG!Aside
      /\ \A i \in DOMAIN ops : ops[i] = MG!Into => i > 2 /\ ops[i - 1] = MG!Across
  BY DEF Shape
<1> QED BY <1>1, <1>2, <1>3, <1>4, <1>5

(* A plan that has the swap is refused unless the swap is all to be done.  *)
LEMMA SwapIsWhole ==
    ASSUME MG!TypeOK, TreeInv, NEW ops, Shape(ops), MG!Preflight(ops),
           NEW i \in DOMAIN ops, ops[i] = MG!Aside
    PROVE  /\ at["claude-org"] = "ja content" /\ at["claude-org-en"] = "en content"
           /\ at["claude-org-ja-tmp"] = MG!None /\ at["claude-org-ja"] = MG!None
<1>1. /\ i \in Nat /\ i + 1 \in DOMAIN ops /\ i + 2 \in DOMAIN ops
      /\ ops[i + 1] = MG!Across /\ ops[i + 2] = MG!Into
      /\ \A j \in 1 .. i - 1 : ops[j] = MG!Ccmux
  BY DEF Shape
<1>2. /\ MG!Present(ops, i + 1, "claude-org-en")
      /\ ~MG!Present(ops, i, "claude-org-ja-tmp") /\ ~MG!Present(ops, i + 2, "claude-org-ja")
  <2>1. /\ MG!Aside.op # "ensure_dir" /\ MG!Across.op # "ensure_dir" /\ MG!Into.op # "ensure_dir"
        /\ MG!Aside.dst = "claude-org-ja-tmp" /\ MG!Across.src = "claude-org-en" /\ MG!Into.dst = "claude-org-ja"
    BY StepFields
  <2> QED BY <1>1, <2>1 DEF MG!Preflight
<1>3. /\ \A j \in 1 .. (i + 1) - 1 : ~("claude-org-en" \in {ops[j].src, ops[j].dst})
      /\ \A j \in 1 .. i - 1 : ~("claude-org-ja-tmp" \in {ops[j].src, ops[j].dst})
      /\ \A j \in 1 .. (i + 2) - 1 : ~("claude-org-ja" \in {ops[j].src, ops[j].dst})
  <2>1. /\ MG!Ccmux.src = "ccmux" /\ MG!Ccmux.dst = "renga"
        /\ MG!Aside.src = "claude-org" /\ MG!Aside.dst = "claude-org-ja-tmp"
        /\ MG!Across.src = "claude-org-en" /\ MG!Across.dst = "claude-org"
    BY StepFields
  <2>2. /\ (i + 1) - 1 = i /\ (i + 2) - 1 = i + 1 /\ i \in 1 .. i + 1 /\ i >= 1
        /\ \A j \in 1 .. i + 1 : j \in 1 .. i - 1 \/ j = i \/ j = i + 1
        /\ \A j \in 1 .. i : j \in 1 .. i - 1 \/ j = i
    BY <1>1 DEF Shape
  <2> QED BY <1>1, <2>1, <2>2
<1>4. MG!Exists("claude-org-en") /\ ~MG!Exists("claude-org-ja-tmp") /\ ~MG!Exists("claude-org-ja")
  BY <1>2, <1>3 DEF MG!Present
<1>5. at["claude-org-en"] # MG!None /\ at["claude-org-ja-tmp"] = MG!None /\ at["claude-org-ja"] = MG!None
  BY <1>4 DEF TreeInv, MG!Exists, MG!Dir, MG!RunsDir, MG!Target, MG!None
<1> QED BY <1>5 DEF TreeInv, MG!None

(* What exists, where no link is in between.                               *)
LEMMA Plainly ==
    ASSUME TreeInv
    PROVE  /\ \A n \in {"renga", "claude-org-en", "claude-org-ja-tmp", "claude-org-ja"} :
                MG!Dir(n) = at[n] /\ (MG!Exists(n) <=> at[n] # MG!None)
           /\ MG!Exists(MG!RunsDir) <=> at["claude-org-ja"] \in runsIn
           /\ MG!Exists(MG!Target) <=> runIn # MG!None /\ at["claude-org-ja"] = runIn
BY DEF TreeInv, MG!Exists, MG!Dir, MG!RunsDir, MG!Target, MG!None

(* A plan has what is not done.                                            *)
LEMMA PlanHas ==
    /\ MG!Exists("ccmux") \/ ~MG!Exists("renga") => \E i \in DOMAIN MG!Plan : MG!Plan[i] = MG!Ccmux
    /\ ~MG!SwapDone => \E i \in DOMAIN MG!Plan : MG!Plan[i] = MG!Into
    /\ ~(~MG!Exists("r") /\ MG!Exists(MG!Target)) => \E i \in DOMAIN MG!Plan : MG!Plan[i] = MG!Run
<1> DEFINE ccmux == IF MG!Exists("ccmux") \/ ~MG!Exists("renga") THEN <<MG!Ccmux>> ELSE <<>>
           swap == IF MG!SwapDone THEN <<>> ELSE <<MG!Aside, MG!Across, MG!Into>>
<1>1. ccmux \in Seq(MG!Steps) /\ swap \in Seq(MG!Steps) /\ MG!RunTier \in Seq(MG!Steps)
  <2>1. /\ <<MG!Ccmux>> \in Seq(MG!Steps) /\ <<MG!Aside, MG!Across, MG!Into>> \in Seq(MG!Steps)
        /\ <<MG!Parent, MG!Run>> \in Seq(MG!Steps) /\ <<>> \in Seq(MG!Steps)
    BY DEF MG!Steps
  <2> QED BY <2>1 DEF MG!RunTier
<1>2. MG!ProjectTier = ccmux \o swap /\ MG!Plan = MG!ProjectTier \o MG!RunTier
  BY DEF MG!ProjectTier, MG!Plan
<1>3. /\ MG!Exists("ccmux") \/ ~MG!Exists("renga") => 1 \in DOMAIN ccmux /\ ccmux[1] = MG!Ccmux
      /\ ~MG!SwapDone => 3 \in DOMAIN swap /\ swap[3] = MG!Into
      /\ ~(~MG!Exists("r") /\ MG!Exists(MG!Target)) => 2 \in DOMAIN MG!RunTier /\ MG!RunTier[2] = MG!Run
  BY DEF MG!RunTier
<1> HIDE DEF ccmux, swap
<1>4. \A s, t \in Seq(MG!Steps) :
        /\ s \o t \in Seq(MG!Steps)
        /\ \A i \in DOMAIN s : i \in DOMAIN (s \o t) /\ (s \o t)[i] = s[i]
        /\ \A i \in DOMAIN t : Len(s) + i \in DOMAIN (s \o t) /\ (s \o t)[Len(s) + i] = t[i]
  OBVIOUS
<1>5. MG!ProjectTier \in Seq(MG!Steps)
  BY <1>1, <1>2, <1>4
<1>6. MG!Exists("ccmux") \/ ~MG!Exists("renga") => \E i \in DOMAIN MG!Plan : MG!Plan[i] = MG!Ccmux
  BY <1>1, <1>2, <1>3, <1>4, <1>5
<1>7. ~MG!SwapDone => \E i \in DOMAIN MG!Plan : MG!Plan[i] = MG!Into
  <2>1. ~MG!SwapDone => Len(ccmux) + 3 \in DOMAIN MG!ProjectTier /\ MG!ProjectTier[Len(ccmux) + 3] = MG!Into
    BY <1>1, <1>2, <1>3, <1>4
  <2> QED BY <2>1, <1>1, <1>2, <1>4, <1>5
<1>8. ~(~MG!Exists("r") /\ MG!Exists(MG!Target)) => \E i \in DOMAIN MG!Plan : MG!Plan[i] = MG!Run
  <2>1. ~(~MG!Exists("r") /\ MG!Exists(MG!Target)) =>
           /\ Len(MG!ProjectTier) + 2 \in DOMAIN (MG!ProjectTier \o MG!RunTier)
           /\ (MG!ProjectTier \o MG!RunTier)[Len(MG!ProjectTier) + 2] = MG!Run
    BY <1>1, <1>3, <1>4, <1>5
  <2> QED BY <2>1, <1>2
<1> QED BY <1>6, <1>7, <1>8

(* A rename at the top of the tree.                                        *)
LEMMA RenameTop ==
    ASSUME MG!TypeOK, NEW src \in MG!Names, NEW dst \in MG!Names, src # dst, MG!Rename(src, dst)
    PROVE  /\ at' = [at EXCEPT ![dst] = at[src], ![src] = MG!None]
           /\ runIn' = runIn
BY DEF MG!Rename, MG!TypeOK, MG!Names, MG!Target

LEMMA RenameRun ==
    ASSUME MG!TypeOK, MG!Rename("r", MG!Target)
    PROVE  at' = [at EXCEPT !["r"] = MG!None] /\ runIn' = MG!Dir("claude-org-ja")
BY DEF MG!Rename, MG!TypeOK, MG!Names, MG!Target

LEMMA RenameRunBack ==
    ASSUME MG!TypeOK, MG!Rename(MG!Target, "r")
    PROVE  at' = [at EXCEPT !["r"] = "run content"] /\ runIn' = MG!None
BY DEF MG!Rename, MG!TypeOK, MG!Names, MG!Target

LEMMA InitMGInv == MG!Init => MGInv
<1> SUFFICES ASSUME MG!Init PROVE MGInv
  OBVIOUS
<1>1. MG!TypeOK
  <2>1. at \in [MG!Names -> MG!Contents \cup {"made", MG!None}] /\ link \in [MG!Names -> MG!Names \cup {MG!Target, MG!None}]
    BY DEF MG!Init, MG!Names, MG!None, MG!Contents, MG!Projects, MG!Target
  <2>2. /\ job \in [ops : Seq(MG!Steps), keep : BOOLEAN, full : BOOLEAN, of : 0 .. Len(manifest), k : Nat]
        /\ gitAt \in MG!Names /\ moving = "idle" /\ undone \subseteq DOMAIN manifest
    <3>1. manifest = <<>> /\ Len(manifest) = 0
      BY DEF MG!Init
    <3>2. MG!NoJob \in [ops : Seq(MG!Steps), keep : BOOLEAN, full : BOOLEAN, of : 0 .. 0, k : Nat]
      BY DEF MG!NoJob
    <3> QED BY <3>1, <3>2 DEF MG!Init, MG!Names
  <2>3. /\ staged \in Seq(MG!Steps) /\ manifest \in Seq(Seq(MG!Entries)) /\ before \in Seq(MG!Trees)
        /\ Len(before) = Len(manifest)
    <3>1. staged = <<>> /\ manifest = <<>> /\ before = <<>>
      BY DEF MG!Init
    <3> QED BY <3>1
  <2> QED BY <2>1, <2>2, <2>3 DEF MG!Init, MG!TypeOK
<1>2. TreeInv
  BY DEF MG!Init, TreeInv, MG!Names, MG!None
<1>3. JobInv
  BY Shapes DEF MG!Init, JobInv, MG!NoJob
<1>4. SwapInv /\ LinkInv
  BY DEF MG!Init, SwapInv, LinkInv, Applying
<1> QED BY <1>1, <1>2, <1>3, <1>4 DEF MGInv

LEMMA StageInv == ASSUME MGInv, MG!Stage PROVE MGInv'
<1>1. Shape(staged')
  BY Shapes DEF MG!Stage
<1>2. staged' \in Seq(MG!Steps)
  BY <1>1 DEF Shape
<1>3. MG!TypeOK'
  BY <1>2 DEF MGInv, MG!Stage, MG!TypeOK, MG!disk, MG!history
<1>4. TreeInv' /\ SwapInv' /\ LinkInv'
  BY DEF MGInv, MG!Stage, TreeInv, SwapInv, LinkInv, Applying, Pending, Left, MG!Op, MG!disk, MG!history
<1>5. JobInv'
  BY <1>1 DEF MGInv, MG!Stage, JobInv, MG!Op, MG!disk, MG!history
<1> QED BY <1>3, <1>4, <1>5 DEF MGInv

LEMMA StartInv ==
    ASSUME MGInv, NEW ops, Shape(ops), NEW keep \in BOOLEAN, NEW full \in BOOLEAN,
           full => ops = MG!Plan, MG!Start(ops, keep, full)
    PROVE  MGInv'
<1>1. /\ moving = "idle" /\ MG!Preflight(ops) /\ moving' = "apply"
      /\ manifest' = Append(manifest, <<>>) /\ before' = Append(before, MG!Tree)
      /\ job' = [ops |-> ops, keep |-> keep, full |-> full, of |-> Len(manifest) + 1, k |-> 1]
      /\ UNCHANGED <<at, link, runsIn, runIn, gitAt, staged, cuts, rollbacks, undone, inOrder, blind>>
  BY DEF MG!Start, MG!disk
<1>2. MG!TypeOK'
  <2>1. MG!Tree \in MG!Trees
    <3>1. [n \in MG!Names |-> IF at[n] = "made" THEN MG!None ELSE at[n]] \in [MG!Names -> MG!Contents \cup {MG!None}]
      BY DEF MGInv, MG!TypeOK
    <3> QED BY <3>1 DEF MGInv, MG!TypeOK, MG!Tree, MG!Trees
  <2>2. before' \in Seq(MG!Trees) /\ Len(before') = Len(manifest) + 1
    BY <1>1, <2>1 DEF MGInv, MG!TypeOK
  <2>3. manifest' \in Seq(Seq(MG!Entries)) /\ Len(manifest') = Len(manifest) + 1 /\ Len(manifest) \in Nat
    BY <1>1 DEF MGInv, MG!TypeOK
  <2>4. job' \in [ops : Seq(MG!Steps), keep : BOOLEAN, full : BOOLEAN, of : 0 .. Len(manifest'), k : Nat]
    BY <1>1, <2>3 DEF Shape
  <2>5. job'.of \in DOMAIN manifest' /\ undone' \subseteq DOMAIN manifest'
    BY <1>1, <2>3 DEF MGInv, MG!TypeOK
  <2> QED BY <1>1, <2>2, <2>3, <2>4, <2>5 DEF MGInv, MG!TypeOK
<1>3. TreeInv'
  BY <1>1 DEF MGInv, TreeInv
<1>4. JobInv'
  BY <1>1 DEF MGInv, JobInv
<1>5. \A step : Pending(step)' <=> \E i \in DOMAIN ops : ops[i] = step
  <2>1. job'.ops = ops /\ job'.k = 1 /\ \A i \in DOMAIN ops : i > 1 \/ i = 1
    BY <1>1, Positions
  <2>2. Left' = DOMAIN ops
    BY <1>1, <2>1 DEF Left
  <2> QED BY <1>1, <2>2 DEF Pending
<1>6. SwapInv'
  <2>1. (Pending(MG!Aside))' => at'["claude-org"] = "ja content"
    BY <1>1, <1>5, SwapIsWhole DEF MGInv
  <2>2. /\ (Pending(MG!Across))' => (Pending(MG!Aside))'
        /\ (Pending(MG!Into))' => (Pending(MG!Across))'
    BY <1>5, Positions
  <2>3. full /\ ~(Pending(MG!Ccmux))' => at["renga"] = "ccmux content"
    BY <1>5, PlanHas, Plainly DEF MGInv, TreeInv
  <2>4. full /\ ~(Pending(MG!Into))' =>
             \/ at["claude-org-ja"] = "made"
             \/ at["claude-org-ja"] = "ja content" /\ at["claude-org"] = "en content"
    BY <1>5, PlanHas, Plainly DEF MGInv, TreeInv, MG!SwapDone
  <2>5. full /\ ~(Pending(MG!Run))' => runIn = "ja content" \/ at["claude-org-ja"] = "made"
    BY <1>5, PlanHas, Plainly DEF MGInv, TreeInv
  <2> QED BY <1>1, <2>1, <2>2, <2>3, <2>4, <2>5 DEF SwapInv
<1>7. LinkInv'
  <2>1. /\ \A i \in DOMAIN ops : ops[i] = MG!Across => i # 1
        /\ \A i \in DOMAIN ops : ops[i] = MG!Into => i > 1
    BY Positions
  <2> QED BY <1>1, <2>1 DEF LinkInv
<1> QED BY <1>2, <1>3, <1>4, <1>6, <1>7 DEF MGInv

(* Steps between the renames.                                              *)
LEMMA KeepSwap ==
    ASSUME SwapInv, Applying, UNCHANGED <<at, runIn>>, job'.full = job.full, job'.ops = job.ops, Left' = Left
    PROVE  SwapInv'
<1>1. \A step : Pending(step)' <=> Pending(step)
  BY DEF Pending
<1> QED BY <1>1 DEF SwapInv

(* What the manifest is saved with.                                        *)
LEMMA SaveTypes ==
    ASSUME MG!TypeOK, NEW entries \in Seq(MG!Entries), MG!Save(entries), job.of \in DOMAIN manifest
    PROVE  /\ manifest' \in Seq(Seq(MG!Entries)) /\ Len(manifest') = Len(manifest)
           /\ DOMAIN manifest' = DOMAIN manifest /\ manifest'[job.of] = entries
           /\ \A i \in DOMAIN manifest : i # job.of => manifest'[i] = manifest[i]
<1>1. manifest \in Seq(Seq(MG!Entries)) /\ job.of \in 1 .. Len(manifest)
  BY LenProperties DEF MG!TypeOK
<1>2. manifest' = [manifest EXCEPT ![job.of] = entries]
  BY DEF MG!Save
<1>3. /\ manifest' \in Seq(Seq(MG!Entries)) /\ Len(manifest') = Len(manifest)
      /\ \A i \in 1 .. Len(manifest) : manifest'[i] = IF i = job.of THEN entries ELSE manifest[i]
  BY <1>1, <1>2, ExceptSeq
<1> QED BY <1>1, <1>3

LEMMA EntryTypes ==
    ASSUME NEW step \in MG!Steps, NEW compat \in BOOLEAN, NEW state \in {"in_progress", "completed"}
    PROVE  [op |-> step.op, src |-> step.src, dst |-> step.dst, compat |-> compat, state |-> state] \in MG!Entries
BY DEF MG!Entries

LEMMA AnnounceInv == ASSUME MGInv, MG!Announce PROVE MGInv'
<1> USE DEF MGInv
<1>1. /\ moving = "apply" /\ job.k <= Len(job.ops) /\ MG!Op.op # "ensure_dir" /\ moving' = "rename"
      /\ MG!Save(Append(manifest[job.of], [op |-> MG!Op.op, src |-> MG!Op.src, dst |-> MG!Op.dst,
                                        compat |-> job.keep, state |-> "in_progress"]))
      /\ UNCHANGED <<at, link, runsIn, runIn, gitAt, staged, job, cuts, rollbacks, before, undone, inOrder, blind>>
  BY DEF MG!Announce, MG!disk, MG!history
<1>2. MG!Op \in MG!Steps /\ MG!Op # MG!Parent /\ job.k \in DOMAIN job.ops
  <2>1. job.k \in DOMAIN job.ops
    BY <1>1 DEF MG!TypeOK
  <2> QED BY <1>1, <2>1, Positions, StepFields DEF JobInv, MG!Op
<1>3. MG!TypeOK'
  <2>1. Append(manifest[job.of], [op |-> MG!Op.op, src |-> MG!Op.src, dst |-> MG!Op.dst,
                                  compat |-> job.keep, state |-> "in_progress"]) \in Seq(MG!Entries)
    <3>1. manifest[job.of] \in Seq(MG!Entries)
      BY <1>1, ElementOfSeq DEF MG!TypeOK
    <3>2. [op |-> MG!Op.op, src |-> MG!Op.src, dst |-> MG!Op.dst, compat |-> job.keep,
           state |-> "in_progress"] \in MG!Entries
      BY <1>2, EntryTypes DEF MG!TypeOK
    <3> QED BY <3>1, <3>2
  <2>2. /\ manifest' \in Seq(Seq(MG!Entries)) /\ Len(manifest') = Len(manifest)
        /\ DOMAIN manifest' = DOMAIN manifest
    BY <1>1, <2>1, SaveTypes DEF MG!TypeOK
  <2> QED BY <1>1, <1>2, <2>2 DEF MG!TypeOK
<1>4. TreeInv' /\ JobInv'
  BY <1>1, <1>2 DEF TreeInv, JobInv, MG!Op
<1>5. SwapInv'
  BY <1>1, KeepSwap DEF Left, Applying
<1>6. LinkInv'
  BY <1>1 DEF LinkInv, Applying, MG!Op
<1> QED BY <1>3, <1>4, <1>5, <1>6

LEMMA RepairInv == ASSUME MGInv, MG!Repair PROVE MGInv'
<1> USE DEF MGInv
<1>1. /\ moving = "repair" /\ moving' = "link" /\ gitAt' = MG!Repaired(MG!Op.op, MG!Op.dst)
      /\ UNCHANGED <<at, link, runsIn, runIn, staged, manifest, job, cuts, rollbacks, before, undone, inOrder, blind>>
  BY DEF MG!Repair, MG!history
<1>2. MG!Op \in MG!Steps /\ job.k \in DOMAIN job.ops
  BY <1>1, Positions DEF JobInv, MG!Op, MG!TypeOK
<1>3. gitAt' \in MG!Names
  <2>1. MG!Op.op = "rename_project" => MG!Op.dst \in MG!Names
    BY <1>2, StepFields DEF MG!Steps, MG!Names
  <2> QED BY <1>1, <2>1 DEF MG!Repaired, MG!TypeOK
<1>4. MG!TypeOK'
  BY <1>1, <1>3 DEF MG!TypeOK
<1>5. TreeInv' /\ JobInv'
  BY <1>1 DEF TreeInv, JobInv, MG!Op
<1>6. SwapInv'
  BY <1>1, KeepSwap DEF Left, Applying
<1>7. LinkInv'
  BY <1>1 DEF LinkInv, Applying, MG!Op
<1> QED BY <1>4, <1>5, <1>6, <1>7

LEMMA LinkBackInv == ASSUME MGInv, MG!LinkBack PROVE MGInv'
<1> USE DEF MGInv
<1>1. /\ moving = "link" /\ moving' = "record"
      /\ link' = IF job.keep THEN [link EXCEPT ![MG!Op.src] = MG!Op.dst] ELSE link
      /\ UNCHANGED <<at, runsIn, runIn, gitAt, staged, manifest, job, cuts, rollbacks, before, undone, inOrder, blind>>
  BY DEF MG!LinkBack, MG!history
<1>2. MG!Op \in MG!Steps /\ MG!Op # MG!Parent /\ job.k \in DOMAIN job.ops
  BY <1>1, Positions DEF JobInv, MG!Op, MG!TypeOK
<1>3. job.keep => MG!Op \in {MG!Ccmux, MG!Aside, MG!Run}
  <2>1. job.keep => MG!Op # MG!Across /\ MG!Op # MG!Into
    BY <1>1, <1>2 DEF LinkInv, Applying, MG!Op, MG!TypeOK
  <2> QED BY <1>2, <2>1 DEF MG!Steps
<1>4. job.keep => MG!Op.src \in {"ccmux", "claude-org", "r"} /\ MG!Op.dst \in MG!Names \cup {MG!Target}
  BY <1>3, StepFields DEF MG!Names
<1>5. MG!TypeOK'
  <2>1. link' \in [MG!Names -> MG!Names \cup {MG!Target, MG!None}]
    BY <1>1, <1>4 DEF MG!TypeOK
  <2> QED BY <1>1, <2>1 DEF MG!TypeOK
<1>6. TreeInv'
  <2>1. \A n \in {"renga", "claude-org-en", "claude-org-ja-tmp", "claude-org-ja"} : link'[n] = link[n]
    BY <1>1, <1>4 DEF MG!TypeOK, MG!Names
  <2> QED BY <1>1, <2>1 DEF TreeInv
<1>7. JobInv'
  BY <1>1 DEF JobInv, MG!Op
<1>8. SwapInv'
  BY <1>1, KeepSwap DEF Left, Applying
<1>9. LinkInv'
  <2>1. job.keep => link'[MG!Op.src] = MG!Op.dst
    BY <1>1, <1>4 DEF MG!TypeOK, MG!Names
  <2>2. job.keep => \A i \in DOMAIN job.ops : ~(job.ops[i] = MG!Across /\ i = job.k)
    BY <1>1 DEF LinkInv, Applying
  <2> QED BY <1>1, <2>1, <2>2 DEF LinkInv, Applying, MG!Op
<1> QED BY <1>5, <1>6, <1>7, <1>8, <1>9

LEMMA CompleteInv == ASSUME MGInv, MG!Complete PROVE MGInv'
<1> USE DEF MGInv
<1>1. /\ moving = "record" /\ moving' = "apply" /\ job' = [job EXCEPT !.k = @ + 1]
      /\ MG!Save([manifest[job.of] EXCEPT ![Len(manifest[job.of])].state = "completed"])
      /\ UNCHANGED <<at, link, runsIn, runIn, gitAt, staged, cuts, rollbacks, before, undone, inOrder, blind>>
  BY DEF MG!Complete, MG!Advance, MG!disk, MG!history
<1>2. job.k \in DOMAIN job.ops /\ job.of \in DOMAIN manifest /\ manifest[job.of] \in Seq(MG!Entries)
  BY <1>1, ElementOfSeq DEF MG!TypeOK
<1>3. /\ job'.ops = job.ops /\ job'.k = job.k + 1 /\ job'.full = job.full /\ job'.keep = job.keep
      /\ job'.of = job.of /\ job.k \in Nat
      /\ job' \in [ops : Seq(MG!Steps), keep : BOOLEAN, full : BOOLEAN, of : 0 .. Len(manifest), k : Nat]
  <2>1. /\ job \in [ops : Seq(MG!Steps), keep : BOOLEAN, full : BOOLEAN, of : 0 .. Len(manifest), k : Nat]
        /\ job.k \in Nat
    BY DEF MG!TypeOK
  <2> QED BY <1>1, <2>1
<1>4. MG!TypeOK'
  <2> DEFINE entries == [manifest[job.of] EXCEPT ![Len(manifest[job.of])].state = "completed"]
  <2>1. \A e \in MG!Entries : [e EXCEPT !.state = "completed"] \in MG!Entries
    BY DEF MG!Entries
  <2>2. entries \in Seq(MG!Entries)
    <3> DEFINE last == Len(manifest[job.of])
               finished == [manifest[job.of][last] EXCEPT !.state = "completed"]
    <3>1. entries = [manifest[job.of] EXCEPT ![last] = finished]
      OBVIOUS
    <3>2. CASE last \in 1 .. last
      <4>1. finished \in MG!Entries
        BY <1>2, <2>1, <3>2, ElementOfSeq
      <4> QED BY <1>2, <3>1, <3>2, <4>1, ExceptSeq
    <3>3. CASE last \notin 1 .. last
      <4>1. last \notin DOMAIN manifest[job.of]
        BY <1>2, <3>3
      <4>2. entries = manifest[job.of]
        BY <1>2, <3>1, <4>1
      <4> QED BY <1>2, <4>2
    <3> QED BY <3>2, <3>3
  <2>3. /\ manifest' \in Seq(Seq(MG!Entries)) /\ Len(manifest') = Len(manifest)
        /\ DOMAIN manifest' = DOMAIN manifest
    BY <1>1, <1>2, <2>2, SaveTypes
  <2>4. job'.k \in 1 .. Len(job'.ops) + 1
    BY <1>2, <1>3, Positions DEF JobInv
  <2> QED BY <1>1, <1>2, <1>3, <2>3, <2>4 DEF MG!TypeOK
<1>5. TreeInv' /\ JobInv'
  BY <1>1, <1>3 DEF TreeInv, JobInv, MG!Op
<1>6. Left' = Left
  <2>1. \A i \in DOMAIN job.ops : i > job.k <=> i > job.k + 1 \/ i = job.k + 1
    BY <1>2, <1>3, Positions DEF JobInv
  <2> QED BY <1>1, <1>3, <2>1 DEF Left
<1>7. SwapInv'
  BY <1>1, <1>3, <1>6, KeepSwap DEF Applying
<1>8. LinkInv'
  <2> SUFFICES ASSUME job.keep PROVE LinkInv'
    BY <1>3 DEF LinkInv
  <2>1. \A i \in DOMAIN job.ops : job.ops[i] = MG!Into => i > job.k + 1
    <3> SUFFICES ASSUME NEW i \in DOMAIN job.ops, job.ops[i] = MG!Into PROVE i > job.k + 1
      OBVIOUS
    <3>1. i > job.k /\ i - 1 \in DOMAIN job.ops /\ job.ops[i - 1] = MG!Across
      BY <1>1, Positions DEF LinkInv, Applying, JobInv
    <3>2. i - 1 # job.k
      BY <1>1, <3>1 DEF LinkInv, Applying
    <3> QED BY <1>3, <3>1, <3>2, Positions DEF JobInv
  <2>2. \A i \in DOMAIN job.ops : job.ops[i] = MG!Across /\ i = job.k + 1 => link["claude-org"] # MG!None
    <3> SUFFICES ASSUME job.k + 1 \in DOMAIN job.ops, job.ops[job.k + 1] = MG!Across
                 PROVE  link["claude-org"] # MG!None
      OBVIOUS
    <3>1. job.ops[(job.k + 1) - 1] = MG!Aside
      BY Positions DEF JobInv
    <3>2. MG!Op = MG!Aside
      BY <1>3, <3>1 DEF MG!Op
    <3>3. link[MG!Op.src] = MG!Op.dst
      BY <1>1 DEF LinkInv, Applying
    <3> QED BY <3>2, <3>3, StepFields DEF MG!None
  <2> QED BY <1>1, <1>3, <2>1, <2>2 DEF LinkInv, Applying
<1> QED BY <1>4, <1>5, <1>7, <1>8

(* What is pending, by the operation at hand.                              *)
LEMMA Order ==
    ASSUME MG!TypeOK, JobInv, moving \in {"apply", "rename"}, job.k \in DOMAIN job.ops
    PROVE  /\ Pending(MG!Op)
           /\ MG!Op = MG!Across => ~Pending(MG!Aside)
           /\ MG!Op = MG!Into => ~Pending(MG!Across) /\ ~Pending(MG!Aside)
           /\ MG!Op \in {MG!Parent, MG!Run} => ~Pending(MG!Into) /\ ~Pending(MG!Across) /\ ~Pending(MG!Aside)
           /\ Pending(MG!Aside) => Pending(MG!Across)
           /\ Pending(MG!Across) => Pending(MG!Into)
<1>1. /\ job.ops \in Seq(MG!Steps) /\ Shape(job.ops) /\ DOMAIN job.ops = 1 .. Len(job.ops)
      /\ Len(job.ops) \in Nat /\ job.k \in Nat
  BY Positions DEF JobInv, MG!TypeOK
<1>2. \A step : Pending(step) <=> \E i \in DOMAIN job.ops : i >= job.k /\ job.ops[i] = step
  BY <1>1 DEF Pending, Left
<1>3. /\ Pending(MG!Aside) => Pending(MG!Across) /\ Pending(MG!Into)
      /\ Pending(MG!Across) => Pending(MG!Into)
  <2>1. ASSUME NEW i \in DOMAIN job.ops, i >= job.k, job.ops[i] = MG!Aside
        PROVE  Pending(MG!Across) /\ Pending(MG!Into)
    <3>1. /\ i + 1 \in DOMAIN job.ops /\ i + 2 \in DOMAIN job.ops
          /\ job.ops[i + 1] = MG!Across /\ job.ops[i + 2] = MG!Into
      BY <1>1, <2>1 DEF Shape
    <3>2. i + 1 >= job.k /\ i + 2 >= job.k
      BY <1>1, <2>1
    <3> QED BY <1>2, <3>1, <3>2
  <2>2. ASSUME NEW i \in DOMAIN job.ops, i >= job.k, job.ops[i] = MG!Across
        PROVE  Pending(MG!Into)
    <3>1. i - 1 \in DOMAIN job.ops /\ job.ops[i - 1] = MG!Aside
      BY <1>1, <2>2, Positions
    <3>2. (i - 1) + 2 \in DOMAIN job.ops /\ job.ops[(i - 1) + 2] = MG!Into
      BY <1>1, <3>1 DEF Shape
    <3>3. (i - 1) + 2 >= job.k
      BY <1>1, <2>2
    <3> QED BY <1>2, <3>2, <3>3
  <2> QED BY <1>2, <2>1, <2>2
<1>4. Pending(MG!Op)
  BY <1>1, <1>2 DEF MG!Op
<1>5. MG!Op = MG!Across => ~Pending(MG!Aside)
  <2> SUFFICES ASSUME MG!Op = MG!Across, NEW i \in DOMAIN job.ops, i >= job.k, job.ops[i] = MG!Aside PROVE FALSE
    BY <1>2
  <2>1. i + 1 \in DOMAIN job.ops /\ job.ops[i + 1] = MG!Across
    BY <1>1 DEF Shape
  <2>2. i + 1 = job.k
    BY <1>1, <2>1 DEF Shape, MG!Op
  <2> QED BY <1>1, <2>2
<1>6. MG!Op = MG!Into => ~Pending(MG!Across)
  <2> SUFFICES ASSUME MG!Op = MG!Into, NEW i \in DOMAIN job.ops, i >= job.k, job.ops[i] = MG!Across PROVE FALSE
    BY <1>2
  <2>1. i - 1 \in DOMAIN job.ops /\ job.ops[i - 1] = MG!Aside
    BY <1>1, Positions
  <2>2. (i - 1) + 2 \in DOMAIN job.ops /\ job.ops[(i - 1) + 2] = MG!Into
    BY <1>1, <2>1 DEF Shape
  <2>3. (i - 1) + 2 = job.k
    BY <1>1, <2>2 DEF Shape, MG!Op
  <2> QED BY <1>1, <2>3
<1>7. MG!Op \in {MG!Parent, MG!Run} => ~Pending(MG!Into)
  <2> SUFFICES ASSUME MG!Op \in {MG!Parent, MG!Run}, NEW i \in DOMAIN job.ops, i >= job.k, job.ops[i] = MG!Into PROVE FALSE
    BY <1>2
  <2>1. i # job.k
    BY StepsDiffer DEF MG!Op
  <2>2. i > job.k
    BY <1>1, <2>1
  <2>3. job.ops[i] = MG!Run
    BY <1>1, <2>2 DEF Shape, MG!Op
  <2> QED BY <2>3, StepsDiffer
<1> QED BY <1>3, <1>4, <1>5, <1>6, <1>7

(* The operation at hand is done.                                          *)
LEMMA StepDone ==
    ASSUME MG!TypeOK, JobInv, job.k \in DOMAIN job.ops, job'.ops = job.ops,
           Left = {i \in DOMAIN job.ops : i >= job.k}, Left' = {i \in DOMAIN job.ops : i > job.k},
           NEW step
    PROVE  Pending(step)' <=> Pending(step) /\ step # MG!Op
<1>1. /\ \A i \in DOMAIN job.ops : i >= job.k <=> i > job.k \/ i = job.k
      /\ \A i \in DOMAIN job.ops : i > job.k => i # job.k
  <2>1. job.k \in Nat /\ DOMAIN job.ops = 1 .. Len(job.ops)
    BY Positions DEF JobInv, MG!TypeOK
  <2> QED BY <2>1
<1>2. \A i \in DOMAIN job.ops : job.ops[i] = job.ops[job.k] => i = job.k
  BY DEF JobInv, Shape
<1> QED BY <1>1, <1>2 DEF Pending, MG!Op

LEMMA EnsureDirInv == ASSUME MGInv, MG!EnsureDir PROVE MGInv'
<1> USE DEF MGInv
<1>1. /\ moving = "apply" /\ job.k <= Len(job.ops) /\ MG!Op.op = "ensure_dir" /\ moving' = "apply"
      /\ job' = [job EXCEPT !.k = @ + 1]
      /\ at' = IF MG!Exists("claude-org-ja") THEN at ELSE [at EXCEPT !["claude-org-ja"] = "made"]
      /\ runsIn' = runsIn \cup {IF MG!Exists("claude-org-ja") THEN MG!Dir("claude-org-ja") ELSE "made"}
      /\ MG!Save(Append(manifest[job.of], [op |-> "ensure_dir", src |-> "", dst |-> MG!Op.dst,
                                        compat |-> FALSE, state |-> "completed"]))
      /\ UNCHANGED <<link, runIn, gitAt, staged, cuts, rollbacks, before, undone, inOrder, blind>>
  BY DEF MG!EnsureDir, MG!Advance, MG!history
<1>2. job.k \in DOMAIN job.ops /\ MG!Op = MG!Parent
  <2>1. /\ job.k \in 1 .. Len(job.ops) + 1 /\ job.k <= Len(job.ops)
        /\ DOMAIN job.ops = 1 .. Len(job.ops) /\ Len(job.ops) \in Nat
    BY <1>1, Positions DEF MG!TypeOK, JobInv
  <2>2. job.k \in DOMAIN job.ops
    BY <2>1
  <2> QED BY <1>1, <2>2, Positions, StepFields DEF JobInv, MG!Op, MG!Steps
<1>3. /\ job'.ops = job.ops /\ job'.k = job.k + 1 /\ job'.full = job.full /\ job'.keep = job.keep
      /\ job'.of = job.of /\ job.k \in Nat
      /\ job' \in [ops : Seq(MG!Steps), keep : BOOLEAN, full : BOOLEAN, of : 0 .. Len(manifest), k : Nat]
  <2>1. /\ job \in [ops : Seq(MG!Steps), keep : BOOLEAN, full : BOOLEAN, of : 0 .. Len(manifest), k : Nat]
        /\ job.k \in Nat
    BY DEF MG!TypeOK
  <2>2. job' = [job EXCEPT !.k = @ + 1]
    BY <1>1
  <2> QED BY <2>1, <2>2
<1>4. \/ at' = at /\ runsIn' = runsIn \cup {at["claude-org-ja"]} /\ at["claude-org-ja"] # MG!None
      \/ /\ at["claude-org-ja"] = MG!None
         /\ at' = [at EXCEPT !["claude-org-ja"] = "made"] /\ runsIn' = runsIn \cup {"made"}
  BY <1>1, Plainly
<1>5. MG!TypeOK'
  <2>1. /\ at' \in [MG!Names -> MG!Contents \cup {"made", MG!None}] /\ runsIn' \subseteq MG!Contents \cup {"made"}
    BY <1>4 DEF MG!TypeOK, TreeInv, MG!Contents, MG!Projects, MG!None
  <2>2. /\ manifest' \in Seq(Seq(MG!Entries)) /\ Len(manifest') = Len(manifest)
        /\ DOMAIN manifest' = DOMAIN manifest
    <3>1. manifest[job.of] \in Seq(MG!Entries)
      <4>1. manifest \in Seq(Seq(MG!Entries)) /\ job.of \in DOMAIN manifest
        BY <1>1 DEF MG!TypeOK
      <4> QED BY <4>1, LenProperties, ElementOfSeq
    <3>2. [op |-> MG!Parent.op, src |-> MG!Parent.src, dst |-> MG!Parent.dst, compat |-> FALSE,
           state |-> "completed"] \in MG!Entries
      BY EntryTypes DEF MG!Steps
    <3>3. Append(manifest[job.of], [op |-> "ensure_dir", src |-> "", dst |-> MG!Op.dst,
                                    compat |-> FALSE, state |-> "completed"]) \in Seq(MG!Entries)
      <4>1. MG!Parent.op = "ensure_dir" /\ MG!Parent.src = "" /\ MG!Op.dst = MG!Parent.dst
        BY <1>2, StepFields
      <4>2. [op |-> "ensure_dir", src |-> "", dst |-> MG!Op.dst, compat |-> FALSE, state |-> "completed"]
            = [op |-> MG!Parent.op, src |-> MG!Parent.src, dst |-> MG!Parent.dst, compat |-> FALSE,
               state |-> "completed"]
        BY <4>1
      <4> DEFINE entry == [op |-> "ensure_dir", src |-> "", dst |-> MG!Op.dst, compat |-> FALSE,
                           state |-> "completed"]
      <4>3. entry \in MG!Entries
        BY <3>2, <4>2
      <4> HIDE DEF entry
      <4>4. Append(manifest[job.of], entry) \in Seq(MG!Entries)
        BY <3>1, <4>3
      <4> QED BY <4>4 DEF entry
    <3> QED BY <1>1, <3>3, SaveTypes DEF MG!TypeOK
  <2>3. job'.k \in 1 .. Len(job'.ops) + 1
    BY <1>2, <1>3, Positions DEF JobInv
  <2> QED BY <1>1, <1>2, <1>3, <2>1, <2>2, <2>3 DEF MG!TypeOK
<1>6. TreeInv'
  BY <1>1, <1>4 DEF TreeInv, MG!TypeOK, MG!Names, MG!None
<1>7. JobInv'
  BY <1>1, <1>3 DEF JobInv
<1>8. \A step : step # MG!Parent => (Pending(step)' <=> Pending(step))
  <2>1. /\ Left = {i \in DOMAIN job.ops : i >= job.k} /\ Left' = {i \in DOMAIN job.ops : i > job.k}
    <3>1. moving = "apply" /\ moving' = "apply" /\ DOMAIN job.ops = 1 .. Len(job.ops)
      BY <1>1, Positions DEF JobInv
    <3>2. /\ \A i \in DOMAIN job.ops : i >= job.k <=> i > job.k \/ i = job.k
          /\ \A i \in DOMAIN job.ops : i > job.k <=> i > job.k + 1 \/ i = job.k + 1
      BY <1>3, <3>1
    <3> QED BY <1>3, <3>1, <3>2 DEF Left
  <2> QED BY <1>2, <1>3, <2>1, StepDone
<1>9. SwapInv'
  <2>1. /\ at'["claude-org"] = at["claude-org"] /\ at'["claude-org-ja-tmp"] = at["claude-org-ja-tmp"]
        /\ at'["renga"] = at["renga"]
        /\ at'["claude-org-ja"] = "made" \/ at'["claude-org-ja"] = at["claude-org-ja"]
    BY <1>4 DEF MG!TypeOK, MG!Names
  <2> QED BY <1>1, <1>3, <1>8, <2>1, StepsDiffer DEF SwapInv, Applying
<1>10. LinkInv'
  <2> SUFFICES ASSUME job.keep PROVE LinkInv'
    BY <1>3 DEF LinkInv
  <2>1. \A i \in DOMAIN job.ops : job.ops[i] = MG!Into => i > job.k + 1
    <3> SUFFICES ASSUME NEW i \in DOMAIN job.ops, job.ops[i] = MG!Into PROVE i > job.k + 1
      OBVIOUS
    <3>1. i > job.k /\ i - 1 \in DOMAIN job.ops /\ job.ops[i - 1] = MG!Across
      BY <1>1, Positions DEF LinkInv, Applying, JobInv
    <3>2. i - 1 # job.k
      BY <1>2, <3>1, StepsDiffer DEF MG!Op
    <3> QED BY <1>3, <3>1, <3>2, Positions DEF JobInv
  <2>2. \A i \in DOMAIN job.ops : job.ops[i] = MG!Across => i # job.k + 1
    <3> SUFFICES ASSUME job.k + 1 \in DOMAIN job.ops, job.ops[job.k + 1] = MG!Across PROVE FALSE
      OBVIOUS
    <3>1. job.ops[(job.k + 1) - 1] = MG!Aside
      BY Positions DEF JobInv
    <3> QED BY <1>2, <1>3, <3>1, StepsDiffer DEF MG!Op
  <2> QED BY <1>1, <1>3, <2>1, <2>2 DEF LinkInv, Applying
<1> QED BY <1>5, <1>6, <1>7, <1>9, <1>10

(* A command that is over.                                                 *)
LEMMA Over ==
    ASSUME JobInv, moving' = "idle", job' = MG!NoJob, UNCHANGED staged
    PROVE  JobInv' /\ SwapInv' /\ LinkInv'
<1>1. Shape(job'.ops)
  BY Shapes DEF MG!NoJob
<1> QED BY <1>1 DEF JobInv, SwapInv, LinkInv, Applying

LEMMA NoJobTypes ==
    ASSUME MG!TypeOK
    PROVE  MG!NoJob \in [ops : Seq(MG!Steps), keep : BOOLEAN, full : BOOLEAN, of : 0 .. Len(manifest), k : Nat]
<1>1. Len(manifest) \in Nat
  BY LenProperties DEF MG!TypeOK
<1> QED BY <1>1 DEF MG!NoJob

LEMMA MoveInv == ASSUME MGInv, MG!Move PROVE MGInv'
<1> USE DEF MGInv
<1>1. /\ moving = "rename"
      /\ UNCHANGED <<link, runsIn, gitAt, staged, manifest, cuts, rollbacks, before, undone, inOrder, blind>>
  BY DEF MG!Move, MG!history
<1>2. CASE ~MG!CanRename(MG!Op.src, MG!Op.dst)
  <2>1. moving' = "idle" /\ job' = MG!NoJob /\ UNCHANGED <<at, runIn>>
    BY <1>2 DEF MG!Move
  <2>2. MG!TypeOK'
    BY <1>1, <2>1, NoJobTypes DEF MG!TypeOK
  <2>3. TreeInv'
    BY <1>1, <2>1 DEF TreeInv
  <2> QED BY <1>1, <2>1, <2>2, <2>3, Over
<1>3. CASE MG!CanRename(MG!Op.src, MG!Op.dst)
  <2>1. MG!Rename(MG!Op.src, MG!Op.dst) /\ moving' = "repair" /\ job' = job
    BY <1>3 DEF MG!Move
  <2>2. job.k \in DOMAIN job.ops /\ MG!Op \in MG!Steps /\ MG!Op # MG!Parent
    BY <1>1, Positions DEF MG!TypeOK, JobInv, MG!Op
  <2>3. \A step : Pending(step)' <=> Pending(step) /\ step # MG!Op
    <3>1. moving = "rename" /\ moving' = "repair" /\ job.k \in Nat /\ DOMAIN job.ops = 1 .. Len(job.ops)
      BY <1>1, <2>1, Positions DEF JobInv, MG!TypeOK
    <3>2. \A i \in DOMAIN job.ops : i >= job.k <=> i > job.k \/ i = job.k
      BY <3>1
    <3>3. /\ Left = {i \in DOMAIN job.ops : i >= job.k} /\ Left' = {i \in DOMAIN job.ops : i > job.k}
      BY <2>1, <3>1, <3>2 DEF Left
    <3> QED BY <2>1, <2>2, <3>3, StepDone
  <2>4. JobInv'
    BY <1>1, <2>1, <2>2 DEF JobInv, MG!Op
  <2>5. LinkInv'
    <3>1. job.keep => MG!Op # MG!Across
      <4>1. job.keep /\ MG!Op = MG!Across => link["claude-org"] # MG!None
        BY <1>1, <2>2 DEF LinkInv, Applying, MG!Op
      <4>2. MG!Op = MG!Across => link["claude-org"] = MG!None
        BY <1>3, StepFields DEF MG!CanRename, MG!Free, MG!Target
      <4> QED BY <4>1, <4>2
    <3>2. job.keep => \A i \in DOMAIN job.ops : ~(job.ops[i] = MG!Across /\ i = job.k)
      BY <3>1 DEF MG!Op
    <3> QED BY <1>1, <2>1, <3>2 DEF LinkInv, Applying
  <2>6. /\ at' \in [MG!Names -> MG!Contents \cup {"made", MG!None}] /\ runIn' \in MG!Projects \cup {"made", MG!None}
        /\ TreeInv' /\ SwapInv'
    <3>1. CASE MG!Op = MG!Ccmux
      <4>1. /\ at["ccmux"] # MG!None /\ at["renga"] = MG!None
            /\ at' = [at EXCEPT !["renga"] = at["ccmux"], !["ccmux"] = MG!None] /\ runIn' = runIn
        <5>1. MG!Rename("ccmux", "renga") /\ MG!CanRename("ccmux", "renga")
          BY <1>3, <2>1, <3>1, StepFields
        <5>2. "ccmux" \in MG!Names /\ "renga" \in MG!Names /\ "ccmux" # "renga"
          BY DEF MG!Names
        <5> QED BY <5>1, <5>2, RenameTop DEF MG!CanRename, MG!Free, MG!Target
      <4>2. /\ at' \in [MG!Names -> MG!Contents \cup {"made", MG!None}] /\ runIn' \in MG!Projects \cup {"made", MG!None}
        BY <4>1 DEF MG!TypeOK, MG!Names
      <4>3. /\ at'["renga"] = at["ccmux"] /\ at'["ccmux"] = MG!None
            /\ \A n \in MG!Names \ {"ccmux", "renga"} : at'[n] = at[n]
        BY <4>1 DEF MG!TypeOK, MG!Names
      <4>4. TreeInv'
        BY <1>1, <4>1, <4>3 DEF TreeInv, MG!Names, MG!None
      <4>5. SwapInv'
        BY <1>1, <2>1, <2>2, <2>3, <3>1, <4>1, <4>3, <4>4, Order, StepsDiffer DEF SwapInv, Applying, TreeInv, MG!Names, MG!None
      <4> QED BY <4>2, <4>4, <4>5
    <3>2. CASE MG!Op = MG!Aside
      <4>1. /\ at["claude-org"] # MG!None /\ at["claude-org-ja-tmp"] = MG!None
            /\ at' = [at EXCEPT !["claude-org-ja-tmp"] = at["claude-org"], !["claude-org"] = MG!None] /\ runIn' = runIn
        <5>1. MG!Rename("claude-org", "claude-org-ja-tmp") /\ MG!CanRename("claude-org", "claude-org-ja-tmp")
          BY <1>3, <2>1, <3>2, StepFields
        <5>2. "claude-org" \in MG!Names /\ "claude-org-ja-tmp" \in MG!Names /\ "claude-org" # "claude-org-ja-tmp"
          BY DEF MG!Names
        <5> QED BY <5>1, <5>2, RenameTop DEF MG!CanRename, MG!Free, MG!Target
      <4>2. at["claude-org"] = "ja content"
        BY <1>1, <2>2, <3>2, Order DEF SwapInv, Applying
      <4>3. /\ at' \in [MG!Names -> MG!Contents \cup {"made", MG!None}] /\ runIn' \in MG!Projects \cup {"made", MG!None}
        BY <4>1 DEF MG!TypeOK, MG!Names
      <4>4. /\ at'["claude-org-ja-tmp"] = at["claude-org"] /\ at'["claude-org"] = MG!None
            /\ \A n \in MG!Names \ {"claude-org", "claude-org-ja-tmp"} : at'[n] = at[n]
        BY <4>1 DEF MG!TypeOK, MG!Names
      <4>5. TreeInv'
        BY <1>1, <4>1, <4>2, <4>4 DEF TreeInv, MG!Names, MG!None
      <4>6. SwapInv'
        BY <1>1, <2>1, <2>2, <2>3, <3>2, <4>1, <4>2, <4>4, <4>5, Order, StepsDiffer DEF SwapInv, Applying, TreeInv, MG!Names, MG!None
      <4> QED BY <4>3, <4>5, <4>6
    <3>3. CASE MG!Op = MG!Across
      <4>1. /\ at["claude-org-en"] # MG!None /\ at["claude-org"] = MG!None
            /\ at' = [at EXCEPT !["claude-org"] = at["claude-org-en"], !["claude-org-en"] = MG!None] /\ runIn' = runIn
        <5>1. MG!Rename("claude-org-en", "claude-org") /\ MG!CanRename("claude-org-en", "claude-org")
          BY <1>3, <2>1, <3>3, StepFields
        <5>2. "claude-org-en" \in MG!Names /\ "claude-org" \in MG!Names /\ "claude-org-en" # "claude-org"
          BY DEF MG!Names
        <5> QED BY <5>1, <5>2, RenameTop DEF MG!CanRename, MG!Free, MG!Target
      <4>2. at["claude-org-ja-tmp"] = "ja content"
        BY <1>1, <2>2, <3>3, Order DEF SwapInv, Applying
      <4>3. /\ at' \in [MG!Names -> MG!Contents \cup {"made", MG!None}] /\ runIn' \in MG!Projects \cup {"made", MG!None}
        BY <4>1 DEF MG!TypeOK, MG!Names
      <4>4. /\ at'["claude-org"] = at["claude-org-en"] /\ at'["claude-org-en"] = MG!None
            /\ \A n \in MG!Names \ {"claude-org-en", "claude-org"} : at'[n] = at[n]
        BY <4>1 DEF MG!TypeOK, MG!Names
      <4>5. TreeInv'
        BY <1>1, <4>1, <4>2, <4>4 DEF TreeInv, MG!Names, MG!None
      <4>6. SwapInv'
        BY <1>1, <2>1, <2>2, <2>3, <3>3, <4>1, <4>2, <4>4, <4>5, Order, StepsDiffer DEF SwapInv, Applying, TreeInv, MG!Names, MG!None
      <4> QED BY <4>3, <4>5, <4>6
    <3>4. CASE MG!Op = MG!Into
      <4>1. /\ at["claude-org-ja-tmp"] # MG!None /\ at["claude-org-ja"] = MG!None
            /\ at' = [at EXCEPT !["claude-org-ja"] = at["claude-org-ja-tmp"], !["claude-org-ja-tmp"] = MG!None] /\ runIn' = runIn
        <5>1. MG!Rename("claude-org-ja-tmp", "claude-org-ja") /\ MG!CanRename("claude-org-ja-tmp", "claude-org-ja")
          BY <1>3, <2>1, <3>4, StepFields
        <5>2. "claude-org-ja-tmp" \in MG!Names /\ "claude-org-ja" \in MG!Names /\ "claude-org-ja-tmp" # "claude-org-ja"
          BY DEF MG!Names
        <5> QED BY <5>1, <5>2, RenameTop DEF MG!CanRename, MG!Free, MG!Target
      <4>2. at["claude-org-ja-tmp"] = "ja content" /\ at["claude-org"] = "en content"
        BY <1>1, <2>2, <3>4, Order DEF SwapInv, Applying
      <4>3. /\ at' \in [MG!Names -> MG!Contents \cup {"made", MG!None}] /\ runIn' \in MG!Projects \cup {"made", MG!None}
        BY <4>1 DEF MG!TypeOK, MG!Names
      <4>4. /\ at'["claude-org-ja"] = at["claude-org-ja-tmp"] /\ at'["claude-org-ja-tmp"] = MG!None
            /\ \A n \in MG!Names \ {"claude-org-ja-tmp", "claude-org-ja"} : at'[n] = at[n]
        BY <4>1 DEF MG!TypeOK, MG!Names
      <4>5. TreeInv'
        BY <1>1, <4>1, <4>2, <4>4 DEF TreeInv, MG!Names, MG!None
      <4>6. SwapInv'
        BY <1>1, <2>1, <2>2, <2>3, <3>4, <4>1, <4>2, <4>4, <4>5, Order, StepsDiffer DEF SwapInv, Applying, TreeInv, MG!Names, MG!None
      <4> QED BY <4>3, <4>5, <4>6
    <3>5. CASE MG!Op = MG!Run
      <4>1. /\ at["r"] # MG!None /\ runIn = MG!None /\ at["claude-org-ja"] \in runsIn
            /\ at' = [at EXCEPT !["r"] = MG!None] /\ runIn' = at["claude-org-ja"]
        <5>1. MG!Rename("r", MG!Target) /\ MG!CanRename("r", MG!Target)
          BY <1>3, <2>1, <3>5, StepFields
        <5> QED BY <5>1, RenameRun, Plainly DEF MG!CanRename, MG!Free, MG!Target
      <4>2. ~Pending(MG!Into) /\ ~Pending(MG!Across) /\ ~Pending(MG!Aside)
        BY <1>1, <2>2, <3>5, Order
      <4>3. /\ at' \in [MG!Names -> MG!Contents \cup {"made", MG!None}] /\ runIn' \in MG!Projects \cup {"made", MG!None}
        BY <4>1 DEF MG!TypeOK, MG!Names, TreeInv, MG!Projects
      <4>4. at'["r"] = MG!None /\ \A n \in MG!Names \ {"r"} : at'[n] = at[n]
        BY <4>1 DEF MG!TypeOK, MG!Names
      <4>5. TreeInv'
        BY <1>1, <4>1, <4>4 DEF TreeInv, MG!Names, MG!None
      <4>6. SwapInv'
        BY <1>1, <2>1, <2>3, <3>5, <4>1, <4>2, <4>4, <4>5, StepsDiffer DEF SwapInv, Applying, TreeInv, MG!Names, MG!None
      <4> QED BY <4>3, <4>5, <4>6
    <3> QED BY <2>2, <3>1, <3>2, <3>3, <3>4, <3>5 DEF MG!Steps
  <2>7. MG!TypeOK'
    BY <1>1, <2>1, <2>2, <2>6 DEF MG!TypeOK
  <2> QED BY <2>4, <2>5, <2>6, <2>7
<1> QED BY <1>2, <1>3

LEMMA Downwards == ASSUME NEW n \in Nat, NEW k \in 0 .. n, k # 0
                   PROVE  k - 1 \in 0 .. n /\ k - 1 \in Nat /\ k \in 1 .. n
OBVIOUS

LEMMA EntryStep ==
    ASSUME NEW e \in MG!Entries
    PROVE  \E step \in MG!Steps : e.op = step.op /\ e.src = step.src /\ e.dst = step.dst
BY DEF MG!Entries

(* What a running command has.                                             *)
LEMMA JobTypes ==
    ASSUME MG!TypeOK
    PROVE  /\ job \in [ops : Seq(MG!Steps), keep : BOOLEAN, full : BOOLEAN, of : 0 .. Len(manifest), k : Nat]
           /\ \A i \in DOMAIN manifest :
                manifest[i] \in Seq(MG!Entries) /\ Len(manifest[i]) \in Nat /\ i \in 0 .. Len(manifest)
           /\ moving # "idle" => job.of \in DOMAIN manifest /\ manifest[job.of] \in Seq(MG!Entries)
                              /\ Len(manifest[job.of]) \in Nat
           /\ moving \in {"undo", "back", "repair back"} => job.k \in 0 .. Len(manifest[job.of])
<1>1. manifest \in Seq(Seq(MG!Entries))
  BY DEF MG!TypeOK
<1>2. \A i \in DOMAIN manifest : i \in 1 .. Len(manifest) /\ Len(manifest) \in Nat /\ manifest[i] \in Seq(MG!Entries)
  BY <1>1, LenProperties, ElementOfSeq
<1>3. \A i \in DOMAIN manifest : Len(manifest[i]) \in Nat /\ i \in 0 .. Len(manifest)
  BY <1>2, LenProperties
<1>4. /\ job \in [ops : Seq(MG!Steps), keep : BOOLEAN, full : BOOLEAN, of : 0 .. Len(manifest), k : Nat]
      /\ moving # "idle" => job.of \in DOMAIN manifest
      /\ moving \in {"undo", "back", "repair back"} => job.k \in 0 .. Len(manifest[job.of])
  BY DEF MG!TypeOK
<1> QED BY <1>2, <1>3, <1>4

LEMMA FinishInv == ASSUME MGInv, MG!Finish PROVE MGInv'
<1> USE DEF MGInv
<1>1. /\ moving' = "idle" /\ job' = MG!NoJob
      /\ UNCHANGED <<at, link, runsIn, runIn, gitAt, staged, manifest, cuts, rollbacks, before, undone, inOrder, blind>>
  BY DEF MG!Finish, MG!disk, MG!history
<1>2. MG!TypeOK'
  BY <1>1, NoJobTypes DEF MG!TypeOK
<1>3. TreeInv'
  BY <1>1 DEF TreeInv
<1> QED BY <1>1, <1>2, <1>3, Over

LEMMA MigrationKillInv == ASSUME MGInv, MG!Kill PROVE MGInv'
<1> USE DEF MGInv
<1>1. /\ moving' = "idle" /\ job' = MG!NoJob /\ cuts' = cuts + 1
      /\ blind' = (blind \/ moving = "repair back" \/ (moving = "record" /\ job.keep))
      /\ UNCHANGED <<at, link, runsIn, runIn, gitAt, staged, manifest, rollbacks, before, undone, inOrder>>
  BY DEF MG!Kill, MG!disk
<1>2. MG!TypeOK'
  <2>1. cuts' \in Nat
    <3>1. cuts \in Nat
      BY DEF MG!TypeOK
    <3>2. cuts' = cuts + 1
      BY <1>1
    <3> QED BY <3>1, <3>2
  <2>2. blind' \in BOOLEAN
    BY <1>1
  <2> QED BY <1>1, <2>1, <2>2, NoJobTypes DEF MG!TypeOK
<1>3. TreeInv'
  BY <1>1 DEF TreeInv
<1> QED BY <1>1, <1>2, <1>3, Over

LEMMA RolledBackInv == ASSUME MGInv, MG!RolledBack PROVE MGInv'
<1> USE DEF MGInv
<1>1. /\ moving = "undo" /\ moving' = "idle" /\ job' = MG!NoJob /\ undone' = undone \cup {job.of}
      /\ UNCHANGED <<at, link, runsIn, runIn, gitAt, staged, manifest, cuts, rollbacks, before, inOrder, blind>>
  BY DEF MG!RolledBack, MG!disk
<1>2. MG!TypeOK'
  <2>1. undone' \subseteq DOMAIN manifest
    BY <1>1 DEF MG!TypeOK
  <2> QED BY <1>1, <2>1, NoJobTypes DEF MG!TypeOK
<1>3. TreeInv'
  BY <1>1 DEF TreeInv
<1> QED BY <1>1, <1>2, <1>3, Over

(* A rollback has no plan.                                                 *)
LEMMA Back ==
    ASSUME JobInv, moving' \in {"undo", "back", "repair back"}, job'.ops = job.ops, UNCHANGED staged
    PROVE  JobInv' /\ SwapInv' /\ LinkInv'
BY DEF JobInv, SwapInv, LinkInv, Applying

LEMMA RollbackInv ==
    ASSUME MGInv, NEW i \in DOMAIN manifest, MG!Rollback(i)
    PROVE  MGInv'
<1> USE DEF MGInv
<1>1. /\ moving = "idle" /\ moving' = "undo" /\ job' = [MG!NoJob EXCEPT !.of = i, !.k = Len(manifest[i])]
      /\ rollbacks' = rollbacks + 1
      /\ inOrder' = (inOrder /\ i \notin undone /\ \A j \in DOMAIN manifest : j > i => j \in undone)
      /\ UNCHANGED <<at, link, runsIn, runIn, gitAt, staged, manifest, cuts, before, undone, blind>>
  BY DEF MG!Rollback, MG!disk
<1>2. manifest[i] \in Seq(MG!Entries) /\ Len(manifest[i]) \in Nat /\ i \in 0 .. Len(manifest)
  BY JobTypes
<1>3. /\ job' \in [ops : Seq(MG!Steps), keep : BOOLEAN, full : BOOLEAN, of : 0 .. Len(manifest), k : Nat]
      /\ job'.of = i /\ job'.k = Len(manifest[i]) /\ job'.ops = <<>>
  <2>1. /\ MG!NoJob \in [ops : Seq(MG!Steps), keep : BOOLEAN, full : BOOLEAN, of : 0 .. Len(manifest), k : Nat]
        /\ job' = [MG!NoJob EXCEPT !.of = i, !.k = Len(manifest[i])] /\ MG!NoJob.ops = <<>>
    BY <1>1, NoJobTypes DEF MG!NoJob
  <2> HIDE DEF MG!NoJob
  <2> QED BY <1>2, <2>1
<1>4. MG!TypeOK'
  <2>1. inOrder' \in BOOLEAN /\ rollbacks' \in Nat
    BY <1>1 DEF MG!TypeOK
  <2>2. job'.k \in 0 .. Len(manifest[job'.of]) /\ job'.of \in DOMAIN manifest
    BY <1>2, <1>3
  <2> QED BY <1>1, <1>3, <2>1, <2>2 DEF MG!TypeOK
<1>5. TreeInv'
  BY <1>1 DEF TreeInv
<1>6. JobInv' /\ SwapInv' /\ LinkInv'
  BY <1>1, <1>3, Shapes DEF JobInv, SwapInv, LinkInv, Applying
<1> QED BY <1>4, <1>5, <1>6

(* One entry further back.                                                 *)
LEMMA FurtherBack ==
    ASSUME MG!TypeOK, moving \in {"undo", "repair back"}, job.k # 0, job' = [job EXCEPT !.k = @ - 1]
    PROVE  /\ job' \in [ops : Seq(MG!Steps), keep : BOOLEAN, full : BOOLEAN, of : 0 .. Len(manifest), k : Nat]
           /\ job'.of = job.of /\ job'.k \in 0 .. Len(manifest[job.of]) /\ job'.ops = job.ops
<1>1. job \in [ops : Seq(MG!Steps), keep : BOOLEAN, full : BOOLEAN, of : 0 .. Len(manifest), k : Nat]
  BY JobTypes
<1>2. job.k \in 0 .. Len(manifest[job.of]) /\ Len(manifest[job.of]) \in Nat
  BY JobTypes
<1>3. job.k - 1 \in 0 .. Len(manifest[job.of]) /\ job.k - 1 \in Nat
  BY <1>2, Downwards
<1> QED BY <1>1, <1>3

LEMMA SkipInv == ASSUME MGInv, MG!Skip PROVE MGInv'
<1> USE DEF MGInv
<1>1. /\ moving = "undo" /\ job.k # 0 /\ job' = [job EXCEPT !.k = @ - 1]
      /\ UNCHANGED <<at, link, runsIn, runIn, gitAt, staged, manifest, moving, cuts, rollbacks, before, undone, inOrder, blind>>
  BY DEF MG!Skip, MG!disk, MG!history, MG!TypeOK
<1>2. /\ job' \in [ops : Seq(MG!Steps), keep : BOOLEAN, full : BOOLEAN, of : 0 .. Len(manifest), k : Nat]
      /\ job'.of = job.of /\ job'.k \in 0 .. Len(manifest[job.of]) /\ job'.ops = job.ops
  BY <1>1, FurtherBack
<1>3. MG!TypeOK'
  BY <1>1, <1>2 DEF MG!TypeOK
<1>4. TreeInv'
  BY <1>1 DEF TreeInv
<1>5. JobInv' /\ SwapInv' /\ LinkInv'
  BY <1>1, <1>2, Back
<1> QED BY <1>3, <1>4, <1>5

(* The entry at hand is that of a move.                                    *)
LEMMA EntryMoves ==
    ASSUME MG!TypeOK, moving \in {"undo", "back", "repair back"}, job.k # 0, MG!Entry.op # "ensure_dir"
    PROVE  \E step \in {MG!Ccmux, MG!Aside, MG!Across, MG!Into, MG!Run} :
             MG!Entry.op = step.op /\ MG!Entry.src = step.src /\ MG!Entry.dst = step.dst
<1>1. manifest[job.of] \in Seq(MG!Entries) /\ job.k \in 1 .. Len(manifest[job.of])
  <2>1. /\ manifest[job.of] \in Seq(MG!Entries) /\ Len(manifest[job.of]) \in Nat
        /\ job.k \in 0 .. Len(manifest[job.of])
    BY JobTypes
  <2> QED BY <2>1, Downwards
<1>2. MG!Entry \in MG!Entries
  BY <1>1, ElementOfSeq DEF MG!Entry
<1>3. PICK step \in MG!Steps : MG!Entry.op = step.op /\ MG!Entry.src = step.src /\ MG!Entry.dst = step.dst
  BY <1>2, EntryStep
<1>4. step # MG!Parent
  BY <1>3, StepFields
<1> QED BY <1>3, <1>4 DEF MG!Steps

LEMMA UnlinkInv == ASSUME MGInv, MG!Unlink PROVE MGInv'
<1> USE DEF MGInv
<1>1. /\ moving = "undo" /\ moving' = "back" /\ job.k > 0
      /\ link' = IF MG!Entry.compat THEN [link EXCEPT ![MG!Entry.src] = MG!None] ELSE link
      /\ UNCHANGED <<at, runsIn, runIn, gitAt, staged, manifest, job, cuts, rollbacks, before, undone, inOrder, blind>>
  BY DEF MG!Unlink, MG!history
<1>2. job.k # 0
  BY <1>1 DEF MG!TypeOK
<1>3. /\ link' \in [MG!Names -> MG!Names \cup {MG!Target, MG!None}]
      /\ \A n \in MG!Names : link'[n] = link[n] \/ link'[n] = MG!None
  BY <1>1 DEF MG!TypeOK
<1>4. MG!TypeOK'
  BY <1>1, <1>2, <1>3 DEF MG!TypeOK
<1>5. TreeInv'
  BY <1>1, <1>3 DEF TreeInv, MG!Names
<1>6. JobInv' /\ SwapInv' /\ LinkInv'
  BY <1>1, Back
<1> QED BY <1>4, <1>5, <1>6

(* The moves back, where the place they go to is free.                     *)
LEMMA MoveBackInv == ASSUME MGInv, MG!Entry.op # "ensure_dir", MG!MoveBack PROVE MGInv'
<1> USE DEF MGInv
<1>1. /\ moving = "back" /\ job.k # 0
      /\ UNCHANGED <<link, runsIn, gitAt, staged, manifest, cuts, rollbacks, before, undone, inOrder, blind>>
  BY DEF MG!MoveBack, MG!history, MG!TypeOK
<1>2. CASE ~MG!CanRename(MG!Entry.dst, MG!Entry.src)
  <2>1. moving' = "idle" /\ job' = MG!NoJob /\ UNCHANGED <<at, runIn>>
    BY <1>2 DEF MG!MoveBack
  <2>2. MG!TypeOK'
    BY <1>1, <2>1, NoJobTypes DEF MG!TypeOK
  <2>3. TreeInv'
    BY <1>1, <2>1 DEF TreeInv
  <2> QED BY <1>1, <2>1, <2>2, <2>3, Over
<1>3. CASE MG!CanRename(MG!Entry.dst, MG!Entry.src)
  <2>1. MG!Rename(MG!Entry.dst, MG!Entry.src) /\ moving' = "repair back" /\ job' = job
    BY <1>3 DEF MG!MoveBack
  <2>2. PICK step \in {MG!Ccmux, MG!Aside, MG!Across, MG!Into, MG!Run} : MG!Entry.src = step.src /\ MG!Entry.dst = step.dst
    BY <1>1, EntryMoves
  <2>3. /\ at' \in [MG!Names -> MG!Contents \cup {"made", MG!None}] /\ runIn' \in MG!Projects \cup {"made", MG!None}
        /\ TreeInv'
    <3>1. CASE step = MG!Ccmux
      <4>1. /\ at["renga"] # MG!None /\ at["ccmux"] = MG!None
            /\ at' = [at EXCEPT !["ccmux"] = at["renga"], !["renga"] = MG!None] /\ runIn' = runIn
        <5>1. MG!Rename("renga", "ccmux") /\ MG!CanRename("renga", "ccmux")
          BY <1>3, <2>1, <2>2, <3>1, StepFields
        <5>2. "ccmux" \in MG!Names /\ "renga" \in MG!Names /\ "renga" # "ccmux"
          BY DEF MG!Names
        <5> QED BY <5>1, <5>2, RenameTop DEF MG!CanRename, MG!Free, MG!Target
      <4>2. /\ at' \in [MG!Names -> MG!Contents \cup {"made", MG!None}] /\ runIn' \in MG!Projects \cup {"made", MG!None}
        BY <4>1 DEF MG!TypeOK, MG!Names
      <4>3. /\ at'["ccmux"] = at["renga"] /\ at'["renga"] = MG!None
            /\ \A n \in MG!Names \ {"ccmux", "renga"} : at'[n] = at[n]
        BY <4>1 DEF MG!TypeOK, MG!Names
      <4>4. TreeInv'
        BY <1>1, <4>1, <4>3 DEF TreeInv, MG!Names, MG!None
      <4> QED BY <4>2, <4>4
    <3>2. CASE step = MG!Aside
      <4>1. /\ at["claude-org-ja-tmp"] # MG!None /\ at["claude-org"] = MG!None
            /\ at' = [at EXCEPT !["claude-org"] = at["claude-org-ja-tmp"], !["claude-org-ja-tmp"] = MG!None] /\ runIn' = runIn
        <5>1. MG!Rename("claude-org-ja-tmp", "claude-org") /\ MG!CanRename("claude-org-ja-tmp", "claude-org")
          BY <1>3, <2>1, <2>2, <3>2, StepFields
        <5>2. "claude-org" \in MG!Names /\ "claude-org-ja-tmp" \in MG!Names /\ "claude-org-ja-tmp" # "claude-org"
          BY DEF MG!Names
        <5> QED BY <5>1, <5>2, RenameTop DEF MG!CanRename, MG!Free, MG!Target
      <4>2. /\ at' \in [MG!Names -> MG!Contents \cup {"made", MG!None}] /\ runIn' \in MG!Projects \cup {"made", MG!None}
        BY <4>1 DEF MG!TypeOK, MG!Names
      <4>3. /\ at'["claude-org"] = at["claude-org-ja-tmp"] /\ at'["claude-org-ja-tmp"] = MG!None
            /\ \A n \in MG!Names \ {"claude-org", "claude-org-ja-tmp"} : at'[n] = at[n]
        BY <4>1 DEF MG!TypeOK, MG!Names
      <4>4. TreeInv'
        BY <1>1, <4>1, <4>3 DEF TreeInv, MG!Names, MG!None
      <4> QED BY <4>2, <4>4
    <3>3. CASE step = MG!Across
      <4>1. /\ at["claude-org"] # MG!None /\ at["claude-org-en"] = MG!None
            /\ at' = [at EXCEPT !["claude-org-en"] = at["claude-org"], !["claude-org"] = MG!None] /\ runIn' = runIn
        <5>1. MG!Rename("claude-org", "claude-org-en") /\ MG!CanRename("claude-org", "claude-org-en")
          BY <1>3, <2>1, <2>2, <3>3, StepFields
        <5>2. "claude-org-en" \in MG!Names /\ "claude-org" \in MG!Names /\ "claude-org" # "claude-org-en"
          BY DEF MG!Names
        <5> QED BY <5>1, <5>2, RenameTop DEF MG!CanRename, MG!Free, MG!Target
      <4>2. /\ at' \in [MG!Names -> MG!Contents \cup {"made", MG!None}] /\ runIn' \in MG!Projects \cup {"made", MG!None}
        BY <4>1 DEF MG!TypeOK, MG!Names
      <4>3. /\ at'["claude-org-en"] = at["claude-org"] /\ at'["claude-org"] = MG!None
            /\ \A n \in MG!Names \ {"claude-org-en", "claude-org"} : at'[n] = at[n]
        BY <4>1 DEF MG!TypeOK, MG!Names
      <4>4. TreeInv'
        BY <1>1, <4>1, <4>3 DEF TreeInv, MG!Names, MG!None
      <4> QED BY <4>2, <4>4
    <3>4. CASE step = MG!Into
      <4>1. /\ at["claude-org-ja"] # MG!None /\ at["claude-org-ja-tmp"] = MG!None
            /\ at' = [at EXCEPT !["claude-org-ja-tmp"] = at["claude-org-ja"], !["claude-org-ja"] = MG!None] /\ runIn' = runIn
        <5>1. MG!Rename("claude-org-ja", "claude-org-ja-tmp") /\ MG!CanRename("claude-org-ja", "claude-org-ja-tmp")
          BY <1>3, <2>1, <2>2, <3>4, StepFields
        <5>2. "claude-org-ja-tmp" \in MG!Names /\ "claude-org-ja" \in MG!Names /\ "claude-org-ja" # "claude-org-ja-tmp"
          BY DEF MG!Names
        <5> QED BY <5>1, <5>2, RenameTop DEF MG!CanRename, MG!Free, MG!Target
      <4>2. /\ at' \in [MG!Names -> MG!Contents \cup {"made", MG!None}] /\ runIn' \in MG!Projects \cup {"made", MG!None}
        BY <4>1 DEF MG!TypeOK, MG!Names
      <4>3. /\ at'["claude-org-ja-tmp"] = at["claude-org-ja"] /\ at'["claude-org-ja"] = MG!None
            /\ \A n \in MG!Names \ {"claude-org-ja-tmp", "claude-org-ja"} : at'[n] = at[n]
        BY <4>1 DEF MG!TypeOK, MG!Names
      <4>4. TreeInv'
        BY <1>1, <4>1, <4>3 DEF TreeInv, MG!Names, MG!None
      <4> QED BY <4>2, <4>4
    <3>5. CASE step = MG!Run
      <4>1. at' = [at EXCEPT !["r"] = "run content"] /\ runIn' = MG!None
        <5>1. MG!Rename(MG!Target, "r")
          BY <2>1, <2>2, <3>5, StepFields
        <5> QED BY <5>1, RenameRunBack
      <4>2. /\ at' \in [MG!Names -> MG!Contents \cup {"made", MG!None}] /\ runIn' \in MG!Projects \cup {"made", MG!None}
        BY <4>1 DEF MG!TypeOK, MG!Names, MG!Contents
      <4>3. at'["r"] = "run content" /\ \A n \in MG!Names \ {"r"} : at'[n] = at[n]
        BY <4>1 DEF MG!TypeOK, MG!Names
      <4>4. TreeInv'
        BY <1>1, <4>1, <4>3 DEF TreeInv, MG!Names, MG!None
      <4> QED BY <4>2, <4>4
    <3> QED BY <3>1, <3>2, <3>3, <3>4, <3>5
  <2>4. MG!TypeOK'
    BY <1>1, <2>1, <2>3 DEF MG!TypeOK
  <2>5. JobInv' /\ SwapInv' /\ LinkInv'
    BY <1>1, <2>1, Back
  <2> QED BY <2>3, <2>4, <2>5
<1> QED BY <1>2, <1>3

LEMMA RepairBackInv == ASSUME MGInv, MG!Entry.op # "ensure_dir", MG!RepairBack PROVE MGInv'
<1> USE DEF MGInv
<1>1. /\ moving = "repair back" /\ moving' = "undo" /\ job.k # 0 /\ job' = [job EXCEPT !.k = @ - 1]
      /\ gitAt' = MG!Repaired(MG!Entry.op, MG!Entry.src)
      /\ UNCHANGED <<at, link, runsIn, runIn, staged, manifest, cuts, rollbacks, before, undone, inOrder, blind>>
  BY DEF MG!RepairBack, MG!history, MG!TypeOK
<1>2. /\ job' \in [ops : Seq(MG!Steps), keep : BOOLEAN, full : BOOLEAN, of : 0 .. Len(manifest), k : Nat]
      /\ job'.of = job.of /\ job'.k \in 0 .. Len(manifest[job.of]) /\ job'.ops = job.ops
  BY <1>1, FurtherBack
<1>3. gitAt' \in MG!Names
  <2>1. MG!Entry.src \in MG!Names
    <3>1. PICK step \in {MG!Ccmux, MG!Aside, MG!Across, MG!Into, MG!Run} : MG!Entry.src = step.src
      BY <1>1, EntryMoves
    <3> QED BY <3>1, StepFields DEF MG!Names
  <2> QED BY <1>1, <2>1 DEF MG!Repaired, MG!TypeOK
<1>4. MG!TypeOK'
  BY <1>1, <1>2, <1>3 DEF MG!TypeOK
<1>5. TreeInv'
  BY <1>1 DEF TreeInv
<1>6. JobInv' /\ SwapInv' /\ LinkInv'
  BY <1>1, <1>2, Back
<1> QED BY <1>4, <1>5, <1>6

(* Only what was moved is moved back.                                      *)
MovedBack == moving \in {"back", "repair back"} => MG!Entry.op # "ensure_dir"

LEMMA NextMovedBack == ASSUME MovedBack, [MG!Next]_MG!vars PROVE MovedBack'
<1>1. CASE MG!Unlink
  BY <1>1 DEF MG!Unlink, MG!Untouched, MovedBack, MG!Entry
<1>2. CASE MG!MoveBack
  BY <1>2 DEF MG!MoveBack, MovedBack, MG!Entry
<1>3. CASE UNCHANGED MG!vars
  BY <1>3 DEF MG!vars, MovedBack, MG!Entry
<1>4. CASE MG!Stage \/ MG!Skip
  BY <1>4 DEF MG!Stage, MG!Skip, MovedBack
<1>5. CASE \E keep \in BOOLEAN : MG!Apply(keep) \/ MG!ApplyFromManifest(keep)
  BY <1>5 DEF MG!Apply, MG!ApplyFromManifest, MG!Start, MovedBack
<1>6. CASE MG!EnsureDir \/ MG!Announce \/ MG!Move \/ MG!Repair \/ MG!LinkBack \/ MG!Complete \/ MG!Finish
  BY <1>6 DEF MG!EnsureDir, MG!Announce, MG!Move, MG!Repair, MG!LinkBack, MG!Complete, MG!Finish, MG!Advance, MovedBack
<1>7. CASE \E i \in DOMAIN manifest : MG!Rollback(i)
  BY <1>7 DEF MG!Rollback, MovedBack
<1>8. CASE MG!RepairBack \/ MG!RolledBack \/ MG!Kill
  BY <1>8 DEF MG!RepairBack, MG!RolledBack, MG!Kill, MovedBack
<1> QED BY <1>1, <1>2, <1>3, <1>4, <1>5, <1>6, <1>7, <1>8 DEF MG!Next

LEMMA NextMGInv == ASSUME MGInv, MovedBack, [MG!Next]_MG!vars PROVE MGInv'
<1>1. CASE MG!Stage
  BY <1>1, StageInv
<1>2. ASSUME NEW keep \in BOOLEAN, MG!Apply(keep) PROVE MGInv'
  <2>1. MG!Start(MG!Plan, keep, TRUE) /\ Shape(MG!Plan)
    BY <1>2, Shapes DEF MG!Apply
  <2> QED BY <1>2, <2>1, StartInv
<1>3. ASSUME NEW keep \in BOOLEAN, MG!ApplyFromManifest(keep) PROVE MGInv'
  <2>1. MG!Start(staged, keep, FALSE) /\ Shape(staged)
    BY <1>3 DEF MG!ApplyFromManifest, MGInv, JobInv
  <2> QED BY <1>3, <2>1, StartInv
<1>4. CASE MG!EnsureDir
  BY <1>4, EnsureDirInv
<1>5. CASE MG!Announce
  BY <1>5, AnnounceInv
<1>6. CASE MG!Move
  BY <1>6, MoveInv
<1>7. CASE MG!Repair
  BY <1>7, RepairInv
<1>8. CASE MG!LinkBack
  BY <1>8, LinkBackInv
<1>9. CASE MG!Complete
  BY <1>9, CompleteInv
<1>10. CASE MG!Finish
  BY <1>10, FinishInv
<1>11. CASE \E i \in DOMAIN manifest : MG!Rollback(i)
  BY <1>11, RollbackInv
<1>12. CASE MG!Skip
  BY <1>12, SkipInv
<1>13. CASE MG!Unlink
  BY <1>13, UnlinkInv
<1>14. CASE MG!MoveBack
  <2>1. MG!Entry.op # "ensure_dir"
    BY <1>14 DEF MG!MoveBack, MovedBack
  <2> QED BY <1>14, <2>1, MoveBackInv
<1>15. CASE MG!RepairBack
  <2>1. MG!Entry.op # "ensure_dir"
    BY <1>15 DEF MG!RepairBack, MovedBack
  <2> QED BY <1>15, <2>1, RepairBackInv
<1>16. CASE MG!RolledBack
  BY <1>16, RolledBackInv
<1>17. CASE MG!Kill
  BY <1>17, MigrationKillInv
<1>18. CASE UNCHANGED MG!vars
  <2>1. MG!TypeOK'
    <3>1. /\ UNCHANGED <<at, link, runsIn, runIn, gitAt, staged, manifest, moving, job, cuts, rollbacks,
                        before, undone, inOrder, blind>>
          /\ MG!TypeOK
      BY <1>18 DEF MG!vars, MGInv
    <3>2. inOrder' \in BOOLEAN /\ blind' \in BOOLEAN
      BY <3>1 DEF MG!TypeOK
    <3>3. job' \in [ops : Seq(MG!Steps), keep : BOOLEAN, full : BOOLEAN, of : 0 .. Len(manifest'), k : Nat]
      BY <3>1 DEF MG!TypeOK
    <3>4. at' \in [MG!Names -> MG!Contents \cup {"made", MG!None}] /\ link' \in [MG!Names -> MG!Names \cup {MG!Target, MG!None}]
      BY <3>1 DEF MG!TypeOK
    <3> QED BY <3>1, <3>2, <3>3, <3>4 DEF MG!TypeOK
  <2>2. /\ UNCHANGED <<at, link, runsIn, runIn, staged, moving, job>>
        /\ TreeInv /\ JobInv /\ SwapInv /\ LinkInv
    BY <1>18 DEF MG!vars, MGInv
  <2>3. TreeInv'
    BY <2>2 DEF TreeInv
  <2>4. JobInv'
    BY <2>2 DEF JobInv, MG!Op
  <2>5. SwapInv' /\ LinkInv'
    BY <2>2 DEF SwapInv, LinkInv, Pending, Left, Applying, MG!Op
  <2> QED BY <2>1, <2>3, <2>4, <2>5 DEF MGInv
<1> QED BY <1>1, <1>2, <1>3, <1>4, <1>5, <1>6, <1>7, <1>8, <1>9, <1>10, <1>11, <1>12, <1>13, <1>14, <1>15,
           <1>16, <1>17, <1>18 DEF MG!Next

(* The projects that swap names are told apart at every step.              *)
LEMMA NeverMixed == ASSUME MGInv PROVE MG!SwapIsNeverMixed
<1> USE DEF MGInv
<1>1. /\ at["claude-org-ja"] \notin {"en content", "ccmux content"}
      /\ at["claude-org-ja-tmp"] \in {"ja content", "made", MG!None}
      /\ at["claude-org-en"] \in {"en content", MG!None}
  BY DEF TreeInv, MG!None
<1>2. ASSUME MG!Applied, job.full PROVE MG!Migrated \/ at["claude-org-ja"] = "made"
  <2>1. Left = {}
    BY <1>2, Positions DEF MG!Applied, Left, JobInv, MG!TypeOK
  <2>2. ~Pending(MG!Ccmux) /\ ~Pending(MG!Into) /\ ~Pending(MG!Run)
    BY <2>1 DEF Pending
  <2> QED BY <1>2, <2>2 DEF SwapInv, MG!Applied, Applying, MG!Migrated
<1>3. ASSUME moving = "apply", job.full, job.k <= Len(job.ops), MG!Op = MG!Parent PROVE MG!Exists("claude-org-ja")
  <2>1. job.k \in DOMAIN job.ops
    BY <1>3, Positions DEF JobInv, MG!TypeOK
  <2>2. ~Pending(MG!Into)
    BY <1>3, <2>1, Order
  <2>3. at["claude-org-ja"] # MG!None
    BY <1>3, <2>2 DEF SwapInv, Applying, MG!None
  <2> QED BY <2>3, Plainly
<1> QED BY <1>1, <1>2, <1>3 DEF MG!SwapIsNeverMixed

(* However often the migration is applied, whole or by its tiers, cut short,*)
(* replayed from a saved plan and rolled back, in any order, the projects   *)
(* that swap names are never taken for each other, and a whole apply that   *)
(* reports success has put every directory in its place, unless the run had *)
(* been moved ahead of the projects (apply_plan, apply_from_manifest and    *)
(* rollback of migrate_workers.py).                                         *)
THEOREM ProjectsAreNotMixed == MG!Spec => []MG!SwapIsNeverMixed
<1>1. MG!Init => MGInv /\ MovedBack
  BY InitMGInv DEF MG!Init, MovedBack
<1>2. MGInv /\ MovedBack /\ [MG!Next]_MG!vars => (MGInv /\ MovedBack)'
  BY NextMGInv, NextMovedBack
<1>3. MGInv => MG!SwapIsNeverMixed
  BY NeverMixed
<1> QED BY <1>1, <1>2, <1>3, PTL DEF MG!Spec
-----------------------------------------------------------------------------
(* The rollback of the migration                                           *)

(* The trees, as a rollback sees them.  Of a tree, one part belongs to the *)
(* project that is renamed, one to the two that swap names, with the       *)
(* gitlinks, and one to the run.  A part is flat, as it always was, or as  *)
(* it is after one of its renames.                                         *)
Shown(dir) == IF dir = "made" THEN MG!None ELSE dir
TreeOf(places, links, run_, gitlinks) ==
    [at |-> [n \in MG!Names |-> Shown(places[n])], link |-> links, runIn |-> run_, gitAt |-> gitlinks]

CcmuxFlat(t) ==
    t.at["ccmux"] = "ccmux content" /\ t.at["renga"] = MG!None /\ t.link["ccmux"] = MG!None
CcmuxMoved(t) == t.at["ccmux"] = MG!None /\ t.at["renga"] = "ccmux content"
SameCcmux(t, u) ==
    /\ t.at["ccmux"] = u.at["ccmux"] /\ t.at["renga"] = u.at["renga"]
    /\ t.link["ccmux"] = u.link["ccmux"]

SwapAt(t, org, en, tmp, ja) ==
    /\ t.at["claude-org"] = org /\ t.at["claude-org-en"] = en
    /\ t.at["claude-org-ja-tmp"] = tmp /\ t.at["claude-org-ja"] = ja
SwapFlat(t) ==
    /\ SwapAt(t, "ja content", "en content", MG!None, MG!None)
    /\ t.link["claude-org"] = MG!None /\ t.gitAt = "claude-org"
SwapAside(t) ==
    /\ SwapAt(t, MG!None, "en content", "ja content", MG!None)
    /\ t.gitAt \in {"claude-org", "claude-org-ja-tmp"}
SwapAcross(t) ==
    /\ SwapAt(t, "en content", MG!None, "ja content", MG!None)
    /\ t.link["claude-org"] = MG!None /\ t.gitAt = "claude-org-ja-tmp"
SwapInto(t) ==
    /\ SwapAt(t, "en content", MG!None, MG!None, "ja content")
    /\ t.link["claude-org"] = MG!None /\ t.gitAt \in {"claude-org-ja-tmp", "claude-org-ja"}
SameSwap(t, u) ==
    /\ SwapAt(t, u.at["claude-org"], u.at["claude-org-en"], u.at["claude-org-ja-tmp"], u.at["claude-org-ja"])
    /\ t.link["claude-org"] = u.link["claude-org"] /\ t.gitAt = u.gitAt

RunFlat(t) == t.at["r"] = "run content" /\ t.link["r"] = MG!None /\ t.runIn = MG!None
RunMoved(t) == t.at["r"] = MG!None /\ t.runIn # MG!None
SameRun(t, u) == t.at["r"] = u.at["r"] /\ t.link["r"] = u.link["r"] /\ t.runIn = u.runIn

(* The first k entries of a manifest have the rename of this name; and it  *)
(* is on record that a link was left in its place.                         *)
Noted(entries, k, name) == \E j \in 1 .. k : entries[j].src = name
LinkNoted(entries, k, name) ==
    \E j \in 1 .. k : entries[j].src = name /\ entries[j].state = "completed" /\ entries[j].compat
Undoable(entries, k, t, name) == t.link[name] = MG!None \/ LinkNoted(entries, k, name)

(* From t, undoing the first k entries, whichever of them have been undone *)
(* before, leads to the tree b from before the apply.                      *)
FitsCcmux(entries, b, k, t) ==
    IF Noted(entries, k, "ccmux")
    THEN CcmuxFlat(t) \/ (CcmuxMoved(t) /\ Undoable(entries, k, t, "ccmux"))
    ELSE SameCcmux(t, b)
FitsSwap(entries, b, k, t) ==
    IF Noted(entries, k, "claude-org")
    THEN \/ SwapFlat(t)
         \/ SwapAside(t) /\ Undoable(entries, k, t, "claude-org")
         \/ SwapAcross(t) /\ Noted(entries, k, "claude-org-en")
         \/ SwapInto(t) /\ Noted(entries, k, "claude-org-ja-tmp")
    ELSE SameSwap(t, b)
FitsRun(entries, b, k, t) ==
    IF Noted(entries, k, "r")
    THEN RunFlat(t) \/ (RunMoved(t) /\ Undoable(entries, k, t, "r"))
    ELSE SameRun(t, b)
Fits(entries, b, k, t) ==
    FitsCcmux(entries, b, k, t) /\ FitsSwap(entries, b, k, t) /\ FitsRun(entries, b, k, t)

(* The entries of a manifest are of different operations, and in order.    *)
Listed(entries) ==
    /\ entries \in Seq(MG!Entries)
    /\ \A i, j \in DOMAIN entries : entries[i].src = entries[j].src => i = j
    /\ \A j \in DOMAIN entries : entries[j].src = "claude-org-en" =>
         j > 1 /\ entries[j - 1].src = "claude-org"
    /\ \A j \in DOMAIN entries : entries[j].src = "claude-org-ja-tmp" =>
         j > 2 /\ entries[j - 1].src = "claude-org-en" /\ entries[j - 2].src = "claude-org"
    /\ \A j \in DOMAIN entries : entries[j].src = "r" => j = Len(entries)

(* What is to be renamed from src is where it always was; and a manifest   *)
(* was begun on a tree like that.                                          *)
SwapNames == {"claude-org", "claude-org-en", "claude-org-ja-tmp"}
Ready(t, src) ==
    /\ src = "ccmux" => CcmuxFlat(t)
    /\ src \in SwapNames => SwapFlat(t) /\ t.runIn = MG!None
    /\ src = "r" => RunFlat(t)
Plain == {"renga", "claude-org-en", "claude-org-ja-tmp", "claude-org-ja"}
Whence(entries, b) ==
    /\ \A n \in Plain : b.link[n] = MG!None
    /\ \A j \in DOMAIN entries : Ready(b, entries[j].src)

(* A rename of src has just been made in t; or it has not been made.       *)
Made(t, src) ==
    /\ src = "ccmux" => CcmuxMoved(t)
    /\ src = "claude-org" => SwapAside(t)
    /\ src = "claude-org-en" => SwapAcross(t)
    /\ src = "claude-org-ja-tmp" => SwapInto(t)
    /\ src = "r" => RunMoved(t)
NotMade(t, src) ==
    /\ src = "ccmux" => CcmuxFlat(t)
    /\ src = "claude-org" => SwapFlat(t)
    /\ src = "claude-org-en" => SwapFlat(t) \/ SwapAside(t)
    /\ src = "claude-org-ja-tmp" => SwapFlat(t) \/ SwapAside(t) \/ SwapAcross(t)
    /\ src = "r" => RunFlat(t)
(* Just before the rename of src; and the same but for the part of src.    *)
JustBefore(t, src) ==
    /\ src = "ccmux" => CcmuxFlat(t)
    /\ src = "claude-org" => SwapFlat(t)
    /\ src = "claude-org-en" => SwapAside(t) /\ t.link["claude-org"] = MG!None
    /\ src = "claude-org-ja-tmp" => SwapAcross(t)
    /\ src = "r" => RunFlat(t)
SameElsewhere(t, u, src) ==
    /\ src # "ccmux" => SameCcmux(u, t)
    /\ src \notin SwapNames => SameSwap(u, t)
    /\ src # "r" => SameRun(u, t)
-----------------------------------------------------------------------------
(* A link has one place to point to, and no directory is under it.         *)
LinksInv ==
    /\ link["ccmux"] \in {"renga", MG!None} /\ link["claude-org"] \in {"claude-org-ja-tmp", MG!None}
    /\ link["r"] \in {MG!Target, MG!None}
    /\ \A n \in MG!Names : at[n] # MG!None => link[n] = MG!None
    /\ moving \in {"repair", "link"} => at[MG!Op.src] = MG!None

ListsInv == \A i \in DOMAIN manifest : Listed(manifest[i])

(* The entries of a running apply are of its operations so far.            *)
Begun == IF moving = "apply" THEN job.k - 1 ELSE job.k
MatchInv ==
    Applying =>
        /\ Len(manifest[job.of]) = Begun
        /\ \A j \in 1 .. Begun :
             LET entry == manifest[job.of][j] IN
             /\ entry.op = job.ops[j].op /\ entry.src = job.ops[j].src /\ entry.dst = job.ops[j].dst
             /\ job.ops[j] # MG!Parent => entry.compat = job.keep
             /\ entry.state = IF j = job.k THEN "in_progress" ELSE "completed"

RecordInv == LinksInv /\ ListsInv /\ MatchInv
-----------------------------------------------------------------------------
(* No manifest that has not been rolled back is later than i; p is rolled  *)
(* back after m.                                                           *)
Newest(i) == i \in DOMAIN manifest /\ i \notin undone /\ \A j \in DOMAIN manifest : j > i => j \in undone
RolledBackAfter(p, m) ==
    /\ p < m /\ p \notin undone /\ m \notin undone
    /\ \A j \in DOMAIN manifest : p < j /\ j < m => j \in undone

FitsAll(i, t) == Fits(manifest[i], before[i], Len(manifest[i]), t)

WhenceInv == \A i \in DOMAIN manifest : Whence(manifest[i], before[i])
ChainInv == \A p, m \in DOMAIN manifest : RolledBackAfter(p, m) => FitsAll(p, before[m])

(* A run is in the directory that has the name; the gitlinks of a project  *)
(* in its old place are right, but for the moment before their repair.     *)
RunInv == runIn # MG!None => at["claude-org-ja"] = runIn
GitInv ==
    at["claude-org"] = "ja content" /\ ~(moving = "repair back" /\ MG!Entry.src = "claude-org")
        => gitAt = "claude-org"

(* What is still to be renamed is in its old place, the step that was made *)
(* last is made, ...                                                       *)
AheadInv ==
    Applying =>
        /\ \A j \in DOMAIN job.ops : Ready(before[job.of], job.ops[j].src)
        /\ Pending(MG!Ccmux) => CcmuxFlat(MG!Tree)
        /\ Pending(MG!Aside) => SwapFlat(MG!Tree)
        /\ Pending(MG!Across) /\ ~Pending(MG!Aside) =>
              SwapAside(MG!Tree) /\ ((moving = "repair" /\ MG!Op = MG!Aside) \/ gitAt = "claude-org-ja-tmp")
        /\ Pending(MG!Into) /\ ~Pending(MG!Across) => SwapAcross(MG!Tree)
        /\ Pending(MG!Run) => RunFlat(MG!Tree)
MadeInv ==
    moving \in {"repair", "link", "record"} =>
        /\ Made(MG!Tree, MG!Op.src)
        /\ moving # "record" \/ ~job.keep => link[MG!Op.src] = MG!None

(* ... and what is done so far can be rolled back.                         *)
Unlinked == TreeOf(at, [link EXCEPT ![MG!Op.src] = MG!None], runIn, gitAt)
ApplyInv ==
    Applying =>
        /\ Newest(job.of)
        /\ Fits(manifest[job.of], before[job.of], Begun, IF moving = "record" THEN Unlinked ELSE MG!Tree)

(* The roll back: the entries below job.k are left.                        *)
RepairedBack == TreeOf(at, link, runIn, MG!Repaired(MG!Entry.op, MG!Entry.src))
UndoInv ==
    /\ moving \in {"undo", "back", "repair back"} => Newest(job.of)
    /\ moving \in {"undo", "back"} => Fits(manifest[job.of], before[job.of], job.k, MG!Tree)
    /\ moving = "back" => link[MG!Entry.src] = MG!None
    /\ moving = "repair back" => Fits(manifest[job.of], before[job.of], job.k - 1, RepairedBack)

IdleInv == moving = "idle" => \A i \in DOMAIN manifest : Newest(i) => FitsAll(i, MG!Tree)

(* All of it, as long as the newest apply is rolled back first and no kill *)
(* fell where a rollback is blind.                                         *)
Restorable ==
    /\ WhenceInv /\ ChainInv /\ RunInv /\ GitInv
    /\ AheadInv /\ MadeInv /\ ApplyInv /\ UndoInv /\ IdleInv
RestoreInv == inOrder /\ ~blind => Restorable
-----------------------------------------------------------------------------
(* What a tree is made of.                                                 *)
LEMMA TreeFields ==
    ASSUME NEW places, NEW links, NEW r, NEW g, NEW t, t = TreeOf(places, links, r, g)
    PROVE  /\ t.at["ccmux"] = Shown(places["ccmux"]) /\ t.at["renga"] = Shown(places["renga"])
           /\ t.at["claude-org"] = Shown(places["claude-org"])
           /\ t.at["claude-org-en"] = Shown(places["claude-org-en"])
           /\ t.at["claude-org-ja-tmp"] = Shown(places["claude-org-ja-tmp"])
           /\ t.at["claude-org-ja"] = Shown(places["claude-org-ja"]) /\ t.at["r"] = Shown(places["r"])
           /\ t.link = links /\ t.runIn = r /\ t.gitAt = g
BY DEF TreeOf, MG!Names

LEMMA TreeIs == MG!Tree = TreeOf(at, link, runIn, gitAt) /\ MG!Tree' = TreeOf(at', link', runIn', gitAt')
BY DEF MG!Tree, TreeOf, Shown

(* The tree as it is.                                                      *)
LEMMA TreeNow ==
    ASSUME TreeInv
    PROVE  /\ MG!Tree.at["ccmux"] = at["ccmux"] /\ MG!Tree.at["renga"] = at["renga"]
           /\ MG!Tree.at["claude-org"] = at["claude-org"] /\ MG!Tree.at["claude-org-en"] = at["claude-org-en"]
           /\ MG!Tree.at["claude-org-ja-tmp"] = Shown(at["claude-org-ja-tmp"])
           /\ MG!Tree.at["claude-org-ja"] = Shown(at["claude-org-ja"]) /\ MG!Tree.at["r"] = at["r"]
           /\ MG!Tree.link = link /\ MG!Tree.runIn = runIn /\ MG!Tree.gitAt = gitAt
<1>1. \A n \in {"ccmux", "renga", "claude-org", "claude-org-en", "r"} : Shown(at[n]) = at[n]
  BY DEF TreeInv, Shown, MG!None
<1> QED BY <1>1, TreeIs, TreeFields

LEMMA TreeThen ==
    ASSUME TreeInv'
    PROVE  /\ MG!Tree'.at["ccmux"] = at'["ccmux"] /\ MG!Tree'.at["renga"] = at'["renga"]
           /\ MG!Tree'.at["claude-org"] = at'["claude-org"] /\ MG!Tree'.at["claude-org-en"] = at'["claude-org-en"]
           /\ MG!Tree'.at["claude-org-ja-tmp"] = Shown(at'["claude-org-ja-tmp"])
           /\ MG!Tree'.at["claude-org-ja"] = Shown(at'["claude-org-ja"]) /\ MG!Tree'.at["r"] = at'["r"]
           /\ MG!Tree'.link = link' /\ MG!Tree'.runIn = runIn' /\ MG!Tree'.gitAt = gitAt'
<1>1. \A n \in {"ccmux", "renga", "claude-org", "claude-org-en", "r"} : Shown(at'[n]) = at'[n]
  BY DEF TreeInv, Shown, MG!None
<1> QED BY <1>1, TreeIs, TreeFields

(* A part that is the same fits as well.                                   *)
LEMMA SameFits ==
    ASSUME NEW e, NEW b, NEW k, NEW t, NEW u
    PROVE  /\ SameCcmux(u, t) /\ FitsCcmux(e, b, k, t) => FitsCcmux(e, b, k, u)
           /\ SameSwap(u, t) /\ FitsSwap(e, b, k, t) => FitsSwap(e, b, k, u)
           /\ SameRun(u, t) /\ FitsRun(e, b, k, t) => FitsRun(e, b, k, u)
<1>1. SameCcmux(u, t) /\ FitsCcmux(e, b, k, t) => FitsCcmux(e, b, k, u)
  BY DEF SameCcmux, FitsCcmux, CcmuxFlat, CcmuxMoved, Undoable
<1>2. SameSwap(u, t) /\ FitsSwap(e, b, k, t) => FitsSwap(e, b, k, u)
  BY DEF SameSwap, FitsSwap, SwapFlat, SwapAside, SwapAcross, SwapInto, SwapAt, Undoable
<1>3. SameRun(u, t) /\ FitsRun(e, b, k, t) => FitsRun(e, b, k, u)
  BY DEF SameRun, FitsRun, RunFlat, RunMoved, Undoable
<1> QED BY <1>1, <1>2, <1>3

(* Where nothing is to be undone, the tree is the one from before.         *)
LEMMA NothingNoted ==
    ASSUME NEW e, NEW b, NEW t
    PROVE  /\ Fits(e, b, 0, t) <=> SameCcmux(t, b) /\ SameSwap(t, b) /\ SameRun(t, b)
<1>1. \A n : ~Noted(e, 0, n)
  BY DEF Noted
<1> QED BY <1>1 DEF Fits, FitsCcmux, FitsSwap, FitsRun

(* A manifest that has more entries fits as well, if what they rename is in*)
(* its old place.                                                          *)
Continues(e, f, n) ==
    \A j \in 1 .. n : /\ f[j].src = e[j].src
                      /\ e[j].state = "completed" /\ e[j].compat => f[j].state = "completed" /\ f[j].compat
AllReady(b, f, m) == \A j \in 1 .. m : Ready(b, f[j].src)

LEMMA FitsGrows ==
    ASSUME NEW e, NEW f, NEW b, NEW t, NEW n \in Nat, NEW m \in Nat, n <= m,
           Continues(e, f, n), AllReady(b, f, m), Fits(e, b, n, t)
    PROVE  Fits(f, b, m, t)
<1>1. \A name : /\ Noted(e, n, name) => Noted(f, m, name)
                /\ LinkNoted(e, n, name) => LinkNoted(f, m, name)
  <2>1. \A j \in 1 .. n : j \in 1 .. m
    OBVIOUS
  <2> QED BY <2>1 DEF Noted, LinkNoted, Continues
<1>2. \A name : /\ Undoable(e, n, t, name) => Undoable(f, m, t, name)
                /\ Noted(f, m, name) => Ready(b, name)
  BY <1>1 DEF Undoable, Noted, AllReady
<1>3. FitsCcmux(f, b, m, t)
  <2>1. FitsCcmux(e, b, n, t) /\ (Noted(f, m, "ccmux") => CcmuxFlat(b))
    BY <1>2 DEF Fits, Ready
  <2>2. SameCcmux(t, b) /\ CcmuxFlat(b) => CcmuxFlat(t)
    BY DEF SameCcmux, CcmuxFlat
  <2> QED BY <2>1, <2>2, <1>1, <1>2 DEF FitsCcmux
<1>4. FitsSwap(f, b, m, t)
  <2>1. FitsSwap(e, b, n, t) /\ (Noted(f, m, "claude-org") => SwapFlat(b))
    BY <1>2 DEF Fits, Ready, SwapNames
  <2>2. SameSwap(t, b) /\ SwapFlat(b) => SwapFlat(t)
    BY DEF SameSwap, SwapFlat, SwapAt
  <2> QED BY <2>1, <2>2, <1>1, <1>2 DEF FitsSwap
<1>5. FitsRun(f, b, m, t)
  <2>1. FitsRun(e, b, n, t) /\ (Noted(f, m, "r") => RunFlat(b))
    BY <1>2 DEF Fits, Ready
  <2>2. SameRun(t, b) /\ RunFlat(b) => RunFlat(t)
    BY DEF SameRun, RunFlat
  <2> QED BY <2>1, <2>2, <1>1, <1>2 DEF FitsRun
<1> QED BY <1>3, <1>4, <1>5 DEF Fits

(* The entries that can be in a manifest, by what they rename.             *)
LEMMA EntrySources ==
    ASSUME NEW e \in MG!Entries
    PROVE  /\ e.src \in {"ccmux", "claude-org", "claude-org-en", "claude-org-ja-tmp", "", "r"}
           /\ e.op = "ensure_dir" <=> e.src = ""
           /\ e.src # "" => e.op = IF e.src = "r" THEN "move_run" ELSE "rename_project"
           /\ e.src = "ccmux" => e.dst = "renga"
           /\ e.src = "claude-org" => e.dst = "claude-org-ja-tmp"
           /\ e.src = "claude-org-en" => e.dst = "claude-org"
           /\ e.src = "claude-org-ja-tmp" => e.dst = "claude-org-ja"
           /\ e.src = "r" => e.dst = MG!Target
<1>1. PICK step \in MG!Steps : e.op = step.op /\ e.src = step.src /\ e.dst = step.dst
  BY EntryStep
<1> QED BY <1>1, StepFields DEF MG!Steps

LEMMA StepSources ==
    ASSUME NEW step \in MG!Steps
    PROVE  /\ step.src = "ccmux" <=> step = MG!Ccmux
           /\ step.src = "claude-org" <=> step = MG!Aside
           /\ step.src = "claude-org-en" <=> step = MG!Across
           /\ step.src = "claude-org-ja-tmp" <=> step = MG!Into
           /\ step.src = "" <=> step = MG!Parent
           /\ step.src = "r" <=> step = MG!Run
           /\ step.src = "" <=> step.op = "ensure_dir"
BY StepFields DEF MG!Steps

(* Entries that follow a plan are in order.                                *)
LEMMA FollowsPlan ==
    ASSUME NEW ops, Shape(ops), NEW e \in Seq(MG!Entries), Len(e) <= Len(ops),
           \A j \in 1 .. Len(e) : e[j].src = ops[j].src
    PROVE  Listed(e)
<1>1. /\ DOMAIN ops = 1 .. Len(ops) /\ Len(ops) \in Nat /\ DOMAIN e = 1 .. Len(e) /\ Len(e) \in Nat
      /\ \A j \in DOMAIN ops : ops[j] \in MG!Steps
  BY Positions
<1>2. \A j \in DOMAIN e : j \in DOMAIN ops /\ ops[j] \in MG!Steps /\ e[j].src = ops[j].src
  BY <1>1
<1>3. \A i, j \in DOMAIN e : e[i].src = e[j].src => i = j
  <2> SUFFICES ASSUME NEW i \in DOMAIN e, NEW j \in DOMAIN e, e[i].src = e[j].src PROVE i = j
    OBVIOUS
  <2>1. ops[i].src = ops[j].src /\ ops[i] \in MG!Steps /\ ops[j] \in MG!Steps
    BY <1>2
  <2>2. ops[i] = ops[j]
    BY <2>1, StepFields DEF MG!Steps
  <2> QED BY <1>2, <2>2 DEF Shape
<1>4. \A j \in DOMAIN e : e[j].src = "claude-org-en" => j > 1 /\ e[j - 1].src = "claude-org"
  <2> SUFFICES ASSUME NEW j \in DOMAIN e, e[j].src = "claude-org-en" PROVE j > 1 /\ e[j - 1].src = "claude-org"
    OBVIOUS
  <2>1. ops[j] = MG!Across /\ j \in DOMAIN ops
    <3>1. ops[j] \in MG!Steps /\ ops[j].src = "claude-org-en" /\ j \in DOMAIN ops
      BY <1>2
    <3> QED BY <3>1, StepSources
  <2>2. j > 1 /\ ops[j - 1] = MG!Aside
    BY <2>1 DEF Shape
  <2>3. j - 1 \in DOMAIN e
    BY <1>1, <2>2
  <2> QED BY <1>2, <2>2, <2>3, StepFields
<1>5. \A j \in DOMAIN e : e[j].src = "claude-org-ja-tmp" =>
         j > 2 /\ e[j - 1].src = "claude-org-en" /\ e[j - 2].src = "claude-org"
  <2> SUFFICES ASSUME NEW j \in DOMAIN e, e[j].src = "claude-org-ja-tmp"
               PROVE  j > 2 /\ e[j - 1].src = "claude-org-en" /\ e[j - 2].src = "claude-org"
    OBVIOUS
  <2>1. ops[j] = MG!Into /\ j \in DOMAIN ops
    <3>1. ops[j] \in MG!Steps /\ ops[j].src = "claude-org-ja-tmp" /\ j \in DOMAIN ops
      BY <1>2
    <3> QED BY <3>1, StepSources
  <2>2. j > 2 /\ ops[j - 1] = MG!Across /\ ops[j - 2] = MG!Aside
    BY <2>1 DEF Shape
  <2>3. j - 1 \in DOMAIN e /\ j - 2 \in DOMAIN e
    BY <1>1, <2>2
  <2> QED BY <1>2, <2>2, <2>3, StepFields
<1>6. \A j \in DOMAIN e : e[j].src = "r" => j = Len(e)
  <2> SUFFICES ASSUME NEW j \in DOMAIN e, e[j].src = "r", j # Len(e) PROVE FALSE
    OBVIOUS
  <2>1. ops[j] = MG!Run /\ j \in DOMAIN ops /\ Len(e) \in DOMAIN e /\ Len(e) > j
    <3>1. ops[j] \in MG!Steps /\ ops[j].src = "r" /\ j \in DOMAIN ops
      BY <1>2
    <3>2. Len(e) \in DOMAIN e /\ Len(e) > j
      BY <1>1
    <3> QED BY <3>1, <3>2, StepSources
  <2>2. ops[Len(e)] = MG!Run
    BY <1>2, <2>1 DEF Shape
  <2>3. Len(e) = j
    BY <1>2, <2>1, <2>2 DEF Shape
  <2> QED BY <1>1, <2>1, <2>3
<1> QED BY <1>3, <1>4, <1>5, <1>6 DEF Listed

(* What is noted before an entry, and with it.                             *)
LEMMA OneEntry ==
    ASSUME NEW e, Listed(e), NEW k \in DOMAIN e
    PROVE  /\ k \in Nat /\ k >= 1 /\ k - 1 \in Nat /\ e[k] \in MG!Entries /\ ~Noted(e, k - 1, e[k].src)
           /\ LinkNoted(e, k, e[k].src) => e[k].state = "completed" /\ e[k].compat
           /\ \A name : name # e[k].src =>
                /\ Noted(e, k, name) <=> Noted(e, k - 1, name)
                /\ LinkNoted(e, k, name) <=> LinkNoted(e, k - 1, name)
<1>1. k \in Nat /\ k >= 1 /\ k - 1 \in Nat /\ e[k] \in MG!Entries /\ \A j \in 1 .. k : j \in DOMAIN e
  BY DEF Listed
<1>2. \A j \in 1 .. k : j \in 1 .. k - 1 \/ j = k
  BY <1>1
<1>3. \A j \in 1 .. k - 1 : j \in 1 .. k /\ j # k
  BY <1>1
<1>4. ~Noted(e, k - 1, e[k].src) /\ (LinkNoted(e, k, e[k].src) => e[k].state = "completed" /\ e[k].compat)
  BY <1>1, <1>3 DEF Noted, LinkNoted, Listed
<1>5. \A name : name # e[k].src =>
                /\ Noted(e, k, name) <=> Noted(e, k - 1, name)
                /\ LinkNoted(e, k, name) <=> LinkNoted(e, k - 1, name)
  BY <1>2, <1>3 DEF Noted, LinkNoted
<1> QED BY <1>1, <1>4, <1>5

(* The swap is noted in order.                                             *)
LEMMA SwapNoted ==
    ASSUME NEW e, Listed(e), NEW k \in DOMAIN e
    PROVE  /\ Noted(e, k, e[k].src)
           /\ e[k].src = "claude-org" => ~Noted(e, k, "claude-org-en") /\ ~Noted(e, k, "claude-org-ja-tmp")
           /\ e[k].src = "claude-org-en" => Noted(e, k - 1, "claude-org") /\ ~Noted(e, k, "claude-org-ja-tmp")
           /\ e[k].src = "claude-org-ja-tmp" => Noted(e, k - 1, "claude-org-en") /\ Noted(e, k - 1, "claude-org")
           /\ e[k].src # "r" => ~Noted(e, k, "r")
<1>1. k \in Nat /\ DOMAIN e = 1 .. Len(e) /\ Len(e) \in Nat /\ k >= 1 /\ k <= Len(e)
  BY DEF Listed
<1>2. /\ \A j \in 1 .. k : j \in DOMAIN e /\ j \in Nat /\ j <= k
      /\ k \in 1 .. k
  BY <1>1
<1>3. Noted(e, k, e[k].src)
  BY <1>2 DEF Noted
<1>4. ASSUME e[k].src = "claude-org" PROVE ~Noted(e, k, "claude-org-en") /\ ~Noted(e, k, "claude-org-ja-tmp")
  <2>1. ASSUME NEW j \in 1 .. k, e[j].src = "claude-org-en" PROVE FALSE
    <3>1. j > 1 /\ e[j - 1].src = "claude-org" /\ j - 1 \in DOMAIN e
      BY <1>1, <1>2, <2>1 DEF Listed
    <3>2. j - 1 = k
      BY <1>4, <3>1 DEF Listed
    <3> QED BY <1>1, <1>2, <3>2
  <2>2. ASSUME NEW j \in 1 .. k, e[j].src = "claude-org-ja-tmp" PROVE FALSE
    <3>1. j > 2 /\ e[j - 2].src = "claude-org" /\ j - 2 \in DOMAIN e
      BY <1>1, <1>2, <2>2 DEF Listed
    <3>2. j - 2 = k
      BY <1>4, <3>1 DEF Listed
    <3> QED BY <1>1, <1>2, <3>2
  <2> QED BY <2>1, <2>2 DEF Noted
<1>5. ASSUME e[k].src = "claude-org-en" PROVE Noted(e, k - 1, "claude-org") /\ ~Noted(e, k, "claude-org-ja-tmp")
  <2>1. ASSUME NEW j \in 1 .. k, e[j].src = "claude-org-ja-tmp" PROVE FALSE
    <3>1. j > 2 /\ e[j - 1].src = "claude-org-en" /\ j - 1 \in DOMAIN e
      BY <1>1, <1>2, <2>1 DEF Listed
    <3>2. j - 1 = k
      BY <1>5, <3>1 DEF Listed
    <3> QED BY <1>1, <1>2, <3>2
  <2>2. e[k - 1].src = "claude-org" /\ k - 1 \in 1 .. k - 1
    BY <1>1, <1>5 DEF Listed
  <2> QED BY <2>1, <2>2 DEF Noted
<1>6. ASSUME e[k].src = "claude-org-ja-tmp"
      PROVE  Noted(e, k - 1, "claude-org-en") /\ Noted(e, k - 1, "claude-org")
  <2>1. /\ e[k - 1].src = "claude-org-en" /\ k - 1 \in 1 .. k - 1
        /\ e[k - 2].src = "claude-org" /\ k - 2 \in 1 .. k - 1
    BY <1>1, <1>6 DEF Listed
  <2> QED BY <2>1 DEF Noted
<1>7. ASSUME e[k].src # "r" PROVE ~Noted(e, k, "r")
  <2>1. ASSUME NEW j \in 1 .. k, e[j].src = "r" PROVE FALSE
    <3>1. j = Len(e)
      BY <1>2, <2>1 DEF Listed
    <3> QED BY <1>1, <1>2, <1>7, <2>1, <3>1
  <2> QED BY <2>1 DEF Noted
<1> QED BY <1>3, <1>4, <1>5, <1>6, <1>7

(* What a rename leaves can be undone, ...                                 *)
LEMMA MadeFits ==
    ASSUME NEW e, Listed(e), NEW b, NEW k \in DOMAIN e, NEW u, Made(u, e[k].src),
           e[k].src \in {"ccmux", "claude-org", "r"} => Undoable(e, k, u, e[k].src)
    PROVE  /\ e[k].src = "ccmux" => FitsCcmux(e, b, k, u)
           /\ e[k].src \in SwapNames => FitsSwap(e, b, k, u)
           /\ e[k].src = "r" => FitsRun(e, b, k, u)
<1>1. Noted(e, k, e[k].src) /\ (e[k].src \in SwapNames => Noted(e, k, "claude-org"))
  BY SwapNoted, OneEntry DEF SwapNames
<1>2. e[k].src = "ccmux" => FitsCcmux(e, b, k, u)
  BY <1>1 DEF Made, FitsCcmux
<1>3. e[k].src \in SwapNames => FitsSwap(e, b, k, u)
  BY <1>1 DEF Made, FitsSwap, SwapNames
<1>4. e[k].src = "r" => FitsRun(e, b, k, u)
  BY <1>1 DEF Made, FitsRun
<1> QED BY <1>2, <1>3, <1>4

(* ... so that a manifest that fits the tree before it fits the one after. *)
LEMMA FitsForth ==
    ASSUME NEW e, Listed(e), NEW b, NEW k \in DOMAIN e, NEW t, NEW u, Fits(e, b, k, t),
           SameElsewhere(t, u, e[k].src), Made(u, e[k].src),
           e[k].src \in {"ccmux", "claude-org", "r"} => Undoable(e, k, u, e[k].src)
    PROVE  Fits(e, b, k, u)
BY SameFits, MadeFits DEF SameElsewhere, Fits

(* The last entry is one of a rename that has been made, or the entries    *)
(* before it fit as well.                                                  *)
LEMMA LastEntry ==
    ASSUME NEW e, Listed(e), NEW b, Whence(e, b), NEW k \in DOMAIN e, NEW t, Fits(e, b, k, t)
    PROVE  \/ /\ e[k].src # "" /\ Made(t, e[k].src)
              /\ e[k].src \in {"ccmux", "claude-org", "r"} => Undoable(e, k, t, e[k].src)
           \/ Fits(e, b, k - 1, t) /\ NotMade(t, e[k].src)
<1> DEFINE src == e[k].src
<1>1. /\ ~Noted(e, k - 1, src) /\ Ready(b, src)
      /\ \A name : name # src => /\ Noted(e, k, name) <=> Noted(e, k - 1, name)
                                 /\ Undoable(e, k, t, name) <=> Undoable(e, k - 1, t, name)
  BY OneEntry DEF Whence, Undoable
<1>2. src \in {"ccmux", "claude-org", "claude-org-en", "claude-org-ja-tmp", "", "r"}
  BY OneEntry, EntrySources
<1>3. src # "ccmux" => FitsCcmux(e, b, k - 1, t)
  BY <1>1 DEF Fits, FitsCcmux
<1>4. src # "r" => FitsRun(e, b, k - 1, t)
  BY <1>1 DEF Fits, FitsRun
<1>5. src \notin SwapNames => FitsSwap(e, b, k - 1, t)
  BY <1>1 DEF Fits, FitsSwap, SwapNames
<1>6. CASE src = ""
  BY <1>3, <1>4, <1>5, <1>6 DEF NotMade, Fits, SwapNames
<1>7. CASE src = "ccmux"
  <2>1. CcmuxFlat(t) \/ (CcmuxMoved(t) /\ Undoable(e, k, t, "ccmux"))
    BY <1>7, SwapNoted DEF Fits, FitsCcmux
  <2>2. CASE CcmuxFlat(t)
    <3>1. FitsCcmux(e, b, k - 1, t)
      BY <1>1, <1>7, <2>2 DEF FitsCcmux, SameCcmux, CcmuxFlat, Ready
    <3> QED BY <1>4, <1>5, <1>7, <2>2, <3>1 DEF NotMade, Fits, SwapNames
  <2>3. CASE CcmuxMoved(t) /\ Undoable(e, k, t, "ccmux")
    BY <1>7, <2>3 DEF Made
  <2> QED BY <2>1, <2>2, <2>3
<1>8. CASE src = "r"
  <2>1. RunFlat(t) \/ (RunMoved(t) /\ Undoable(e, k, t, "r"))
    BY <1>8, SwapNoted DEF Fits, FitsRun
  <2>2. CASE RunFlat(t)
    <3>1. FitsRun(e, b, k - 1, t)
      BY <1>1, <1>8, <2>2 DEF FitsRun, SameRun, RunFlat, Ready
    <3> QED BY <1>3, <1>5, <1>8, <2>2, <3>1 DEF NotMade, Fits, SwapNames
  <2>3. CASE RunMoved(t) /\ Undoable(e, k, t, "r")
    BY <1>8, <2>3 DEF Made
  <2> QED BY <2>1, <2>2, <2>3
<1>9. CASE src = "claude-org"
  <2>1. SwapFlat(t) \/ (SwapAside(t) /\ Undoable(e, k, t, "claude-org"))
    BY <1>9, SwapNoted DEF Fits, FitsSwap
  <2>2. CASE SwapFlat(t)
    <3>1. FitsSwap(e, b, k - 1, t)
      BY <1>1, <1>9, <2>2 DEF FitsSwap, SameSwap, SwapFlat, SwapAt, Ready, SwapNames
    <3> QED BY <1>3, <1>4, <1>9, <2>2, <3>1 DEF NotMade, Fits
  <2>3. CASE SwapAside(t) /\ Undoable(e, k, t, "claude-org")
    BY <1>9, <2>3 DEF Made
  <2> QED BY <2>1, <2>2, <2>3
<1>10. CASE src = "claude-org-en"
  <2>1. Noted(e, k - 1, "claude-org") /\ Noted(e, k, "claude-org") /\ ~Noted(e, k, "claude-org-ja-tmp")
    BY <1>1, <1>10, SwapNoted
  <2>2. \/ SwapFlat(t) \/ (SwapAside(t) /\ Undoable(e, k, t, "claude-org"))
        \/ SwapAcross(t)
    BY <2>1 DEF Fits, FitsSwap
  <2>3. CASE SwapFlat(t) \/ (SwapAside(t) /\ Undoable(e, k, t, "claude-org"))
    <3>1. FitsSwap(e, b, k - 1, t)
      BY <1>1, <1>10, <2>1, <2>3 DEF FitsSwap
    <3> QED BY <1>3, <1>4, <1>10, <2>3, <3>1 DEF NotMade, Fits
  <2>4. CASE SwapAcross(t)
    BY <1>10, <2>4 DEF Made
  <2> QED BY <2>2, <2>3, <2>4
<1>11. CASE src = "claude-org-ja-tmp"
  <2>1. /\ Noted(e, k - 1, "claude-org") /\ Noted(e, k, "claude-org")
        /\ Noted(e, k - 1, "claude-org-en") /\ Noted(e, k, "claude-org-en")
    BY <1>1, <1>11, SwapNoted
  <2>2. \/ SwapFlat(t) \/ (SwapAside(t) /\ Undoable(e, k, t, "claude-org")) \/ SwapAcross(t)
        \/ SwapInto(t)
    BY <2>1 DEF Fits, FitsSwap
  <2>3. CASE SwapFlat(t) \/ (SwapAside(t) /\ Undoable(e, k, t, "claude-org")) \/ SwapAcross(t)
    <3>1. FitsSwap(e, b, k - 1, t)
      BY <1>1, <1>11, <2>1, <2>3 DEF FitsSwap
    <3> QED BY <1>3, <1>4, <1>11, <2>3, <3>1 DEF NotMade, Fits
  <2>4. CASE SwapInto(t)
    BY <1>11, <2>4 DEF Made
  <2> QED BY <2>2, <2>3, <2>4
<1> QED BY <1>2, <1>6, <1>7, <1>8, <1>9, <1>10, <1>11

(* A rename that is undone leaves a tree that the entries before it fit.   *)
LEMMA FitsBack ==
    ASSUME NEW e, Listed(e), NEW b, Whence(e, b), NEW k \in DOMAIN e, NEW t, NEW u, Fits(e, b, k, t),
           e[k].src # "", SameElsewhere(t, u, e[k].src), JustBefore(u, e[k].src)
    PROVE  Fits(e, b, k - 1, u)
<1> DEFINE src == e[k].src
<1>1. /\ ~Noted(e, k - 1, src) /\ Ready(b, src)
      /\ \A name : name # src => /\ Noted(e, k, name) <=> Noted(e, k - 1, name)
                                 /\ Undoable(e, k, u, name) <=> Undoable(e, k - 1, u, name)
  BY OneEntry DEF Whence, Undoable
<1>2. src \in {"ccmux", "claude-org", "claude-org-en", "claude-org-ja-tmp", "r"}
  BY OneEntry, EntrySources
<1>3. /\ src # "ccmux" => FitsCcmux(e, b, k, u)
      /\ src # "r" => FitsRun(e, b, k, u)
      /\ src \notin SwapNames => FitsSwap(e, b, k, u)
  BY SameFits DEF SameElsewhere, Fits
<1>4. FitsCcmux(e, b, k - 1, u)
  <2>1. CASE src # "ccmux"
    BY <1>1, <1>3, <2>1 DEF FitsCcmux
  <2>2. CASE src = "ccmux"
    BY <1>1, <2>2 DEF FitsCcmux, SameCcmux, CcmuxFlat, Ready, JustBefore
  <2> QED BY <2>1, <2>2
<1>5. FitsRun(e, b, k - 1, u)
  <2>1. CASE src # "r"
    BY <1>1, <1>3, <2>1 DEF FitsRun
  <2>2. CASE src = "r"
    BY <1>1, <2>2 DEF FitsRun, SameRun, RunFlat, Ready, JustBefore
  <2> QED BY <2>1, <2>2
<1>6. FitsSwap(e, b, k - 1, u)
  <2>1. CASE src \notin SwapNames
    BY <1>1, <1>3, <2>1 DEF FitsSwap, SwapNames
  <2>2. CASE src = "claude-org"
    BY <1>1, <2>2 DEF FitsSwap, SameSwap, SwapFlat, SwapAt, Ready, JustBefore, SwapNames
  <2>3. CASE src = "claude-org-en"
    BY <2>3, SwapNoted DEF FitsSwap, JustBefore, Undoable
  <2>4. CASE src = "claude-org-ja-tmp"
    BY <2>4, SwapNoted DEF FitsSwap, JustBefore
  <2> QED BY <1>2, <2>1, <2>2, <2>3, <2>4 DEF SwapNames
<1> QED BY <1>4, <1>5, <1>6 DEF Fits
-----------------------------------------------------------------------------
(* The manifests follow the plans, whatever is done                        *)

(* The manifest of a running apply is the beginning of its plan.           *)
LEMMA ListsKept ==
    ASSUME MGInv', MatchInv', Applying', ListsInv,
           \A i \in DOMAIN manifest' : i # job'.of => i \in DOMAIN manifest /\ manifest'[i] = manifest[i]
    PROVE  ListsInv'
<1>1. Listed(manifest'[job'.of])
  <2>1. manifest' \in Seq(Seq(MG!Entries)) /\ job'.of \in DOMAIN manifest' /\ job'.ops \in Seq(MG!Steps)
    BY DEF MGInv, MG!TypeOK, Applying
  <2>2. manifest'[job'.of] \in Seq(MG!Entries) /\ Shape(job'.ops)
    BY <2>1, LenProperties, ElementOfSeq DEF MGInv, JobInv
  <2>3. Len(manifest'[job'.of]) <= Len(job'.ops)
    <3>1. DOMAIN job'.ops = 1 .. Len(job'.ops) /\ Len(job'.ops) \in Nat
      BY <2>1
    <3>2. Len(manifest'[job'.of]) = IF moving' = "apply" THEN job'.k - 1 ELSE job'.k
      BY DEF MatchInv, Begun
    <3>3. moving' = "apply" => job'.k \in 1 .. Len(job'.ops) + 1
      BY DEF MGInv, MG!TypeOK
    <3>4. moving' # "apply" => job'.k \in DOMAIN job'.ops
      BY DEF MGInv, MG!TypeOK, Applying
    <3> QED BY <3>1, <3>2, <3>3, <3>4
  <2>4. \A j \in 1 .. Len(manifest'[job'.of]) : manifest'[job'.of][j].src = job'.ops[j].src
    BY DEF MatchInv
  <2> QED BY <2>2, <2>3, <2>4, FollowsPlan
<1> QED BY <1>1 DEF ListsInv

(* A manifest that is saved with one more entry.                           *)
LEMMA SavedEntry ==
    ASSUME MG!TypeOK, job.of \in DOMAIN manifest, NEW entry \in MG!Entries,
           MG!Save(Append(manifest[job.of], entry))
    PROVE  /\ DOMAIN manifest' = DOMAIN manifest
           /\ \A i \in DOMAIN manifest : i # job.of => manifest'[i] = manifest[i]
           /\ manifest[job.of] \in Seq(MG!Entries) /\ Len(manifest[job.of]) \in Nat
           /\ Len(manifest'[job.of]) = Len(manifest[job.of]) + 1
           /\ \A j \in 1 .. Len(manifest[job.of]) : manifest'[job.of][j] = manifest[job.of][j]
           /\ manifest'[job.of][Len(manifest[job.of]) + 1] = entry
<1>1. manifest[job.of] \in Seq(MG!Entries) /\ Len(manifest[job.of]) \in Nat
  BY JobTypes
<1>2. Append(manifest[job.of], entry) \in Seq(MG!Entries)
  BY <1>1
<1>3. /\ manifest'[job.of] = Append(manifest[job.of], entry) /\ DOMAIN manifest' = DOMAIN manifest
      /\ \A i \in DOMAIN manifest : i # job.of => manifest'[i] = manifest[i]
  BY <1>2, SaveTypes
<1>4. /\ Len(Append(manifest[job.of], entry)) = Len(manifest[job.of]) + 1
      /\ \A j \in 1 .. Len(manifest[job.of]) : Append(manifest[job.of], entry)[j] = manifest[job.of][j]
      /\ Append(manifest[job.of], entry)[Len(manifest[job.of]) + 1] = entry
  BY <1>1
<1> QED BY <1>1, <1>3, <1>4

(* The steps that save nothing and touch neither the links nor the places. *)
LEMMA RecordKept ==
    ASSUME RecordInv, UNCHANGED <<at, link, manifest>>,
           \/ moving' = moving /\ job' = job
           \/ ~Applying'
           \/ moving = "repair" /\ moving' = "link" /\ job' = job
    PROVE  RecordInv'
<1>1. LinksInv'
  BY DEF RecordInv, LinksInv, Applying, MG!Op
<1>2. ListsInv'
  BY DEF RecordInv, ListsInv
<1>3. MatchInv'
  BY DEF RecordInv, MatchInv, Begun, Applying
<1> QED BY <1>1, <1>2, <1>3 DEF RecordInv

LEMMA StartRecord ==
    ASSUME MGInv, MGInv', RecordInv, NEW ops, NEW keep, NEW full, MG!Start(ops, keep, full)
    PROVE  RecordInv'
<1>1. /\ manifest' = Append(manifest, <<>>) /\ moving' = "apply"
      /\ job' = [ops |-> ops, keep |-> keep, full |-> full, of |-> Len(manifest) + 1, k |-> 1]
      /\ UNCHANGED <<at, link>>
  BY DEF MG!Start, MG!disk
<1>2. manifest \in Seq(Seq(MG!Entries)) /\ Len(manifest) \in Nat
  BY LenProperties DEF MGInv, MG!TypeOK
<1>3. /\ \A i \in DOMAIN manifest' : i # job'.of => i \in DOMAIN manifest /\ manifest'[i] = manifest[i]
      /\ manifest'[job'.of] = <<>>
  BY <1>1, <1>2
<1>4. LinksInv'
  BY <1>1 DEF RecordInv, LinksInv
<1>5. MatchInv'
  BY <1>1, <1>3 DEF MatchInv, Begun
<1>6. ListsInv'
  BY <1>1, <1>3, <1>5, ListsKept DEF Applying, RecordInv
<1> QED BY <1>4, <1>5, <1>6 DEF RecordInv

(* The operation at hand.                                                  *)
LEMMA OpTypes ==
    ASSUME MGInv, Applying, moving = "apply" => job.k <= Len(job.ops)
    PROVE  /\ job.k \in DOMAIN job.ops /\ job.k \in Nat /\ job.k >= 1 /\ MG!Op \in MG!Steps
           /\ MG!Op = job.ops[job.k]
           /\ job.of \in DOMAIN manifest /\ job.keep \in BOOLEAN
           /\ manifest[job.of] \in Seq(MG!Entries) /\ Len(manifest[job.of]) \in Nat
<1>1. job.k \in DOMAIN job.ops /\ DOMAIN job.ops = 1 .. Len(job.ops) /\ Len(job.ops) \in Nat
  <2>1. DOMAIN job.ops = 1 .. Len(job.ops) /\ Len(job.ops) \in Nat
    BY Positions DEF MGInv, JobInv
  <2>2. moving = "apply" => job.k \in 1 .. Len(job.ops) + 1 /\ job.k <= Len(job.ops)
    BY DEF MGInv, MG!TypeOK
  <2>3. moving # "apply" => job.k \in DOMAIN job.ops
    BY DEF MGInv, MG!TypeOK, Applying
  <2> QED BY <2>1, <2>2, <2>3
<1>2. MG!Op = job.ops[job.k] /\ MG!Op \in MG!Steps
  BY <1>1, Positions DEF MGInv, JobInv, MG!Op
<1>3. /\ job.of \in DOMAIN manifest /\ manifest[job.of] \in Seq(MG!Entries) /\ Len(manifest[job.of]) \in Nat
      /\ job.keep \in BOOLEAN
  BY JobTypes DEF MGInv, Applying
<1> QED BY <1>1, <1>2, <1>3

LEMMA EnsureDirRecord == ASSUME MGInv, MGInv', RecordInv, MG!EnsureDir PROVE RecordInv'
<1> DEFINE entry == [op |-> "ensure_dir", src |-> "", dst |-> MG!Op.dst, compat |-> FALSE, state |-> "completed"]
<1>1. /\ moving = "apply" /\ job.k <= Len(job.ops) /\ MG!Op.op = "ensure_dir" /\ moving' = "apply"
      /\ job' = [job EXCEPT !.k = @ + 1] /\ link' = link
      /\ at' = (IF MG!Exists("claude-org-ja") THEN at ELSE [at EXCEPT !["claude-org-ja"] = "made"])
      /\ MG!Save(Append(manifest[job.of], entry))
  BY DEF MG!EnsureDir, MG!Advance
<1>2. /\ job.k \in DOMAIN job.ops /\ job.k \in Nat /\ job.k >= 1 /\ MG!Op = MG!Parent /\ MG!Op = job.ops[job.k]
      /\ job.of \in DOMAIN manifest /\ Applying
  BY <1>1, OpTypes, StepSources DEF Applying
<1>3. entry \in MG!Entries /\ entry.op = MG!Parent.op /\ entry.src = MG!Parent.src /\ entry.dst = MG!Parent.dst
  <2>1. [op |-> MG!Parent.op, src |-> MG!Parent.src, dst |-> MG!Parent.dst, compat |-> FALSE,
         state |-> "completed"] \in MG!Entries
    BY EntryTypes DEF MG!Steps
  <2>2. MG!Parent.op = "ensure_dir" /\ MG!Parent.src = "" /\ MG!Op.dst = MG!Parent.dst
    BY <1>2, StepFields
  <2> QED BY <2>1, <2>2
<1>4. /\ job'.ops = job.ops /\ job'.k = job.k + 1 /\ job'.of = job.of /\ job'.keep = job.keep
  <2>1. job \in [ops : Seq(MG!Steps), keep : BOOLEAN, full : BOOLEAN, of : 0 .. Len(manifest), k : Nat]
    BY DEF MGInv, MG!TypeOK
  <2> QED BY <1>1, <2>1
<1> HIDE DEF entry
<1>5. /\ DOMAIN manifest' = DOMAIN manifest
      /\ \A i \in DOMAIN manifest : i # job.of => manifest'[i] = manifest[i]
      /\ Len(manifest'[job.of]) = Len(manifest[job.of]) + 1
      /\ \A j \in 1 .. Len(manifest[job.of]) : manifest'[job.of][j] = manifest[job.of][j]
      /\ manifest'[job.of][Len(manifest[job.of]) + 1] = entry
  BY <1>1, <1>2, <1>3, SavedEntry DEF MGInv
<1>6. /\ Len(manifest[job.of]) = job.k - 1
      /\ \A j \in 1 .. job.k - 1 :
             /\ manifest[job.of][j].op = job.ops[j].op /\ manifest[job.of][j].src = job.ops[j].src
             /\ manifest[job.of][j].dst = job.ops[j].dst
             /\ job.ops[j] # MG!Parent => manifest[job.of][j].compat = job.keep
             /\ manifest[job.of][j].state = IF j = job.k THEN "in_progress" ELSE "completed"
  BY <1>1, <1>2 DEF RecordInv, MatchInv, Begun
<1>7. entry.state = "completed"
  BY DEF entry
<1>8. MatchInv'
  <2>1. Begun' = job.k /\ Len(manifest'[job.of]) = job.k
    BY <1>1, <1>2, <1>4, <1>5, <1>6 DEF Begun
  <2>2. \A j \in 1 .. job.k : j # job.k + 1 /\ ((j \in 1 .. job.k - 1 /\ j # job.k) \/ j = job.k)
    BY <1>2
  <2>3. /\ manifest'[job.of][job.k] = entry /\ \A j \in 1 .. job.k - 1 : manifest'[job.of][j] = manifest[job.of][j]
    BY <1>2, <1>5, <1>6
  <2>4. ASSUME NEW j \in 1 .. job.k
        PROVE  LET e == manifest'[job.of][j] IN
               /\ e.op = job.ops[j].op /\ e.src = job.ops[j].src /\ e.dst = job.ops[j].dst
               /\ job.ops[j] # MG!Parent => e.compat = job.keep
               /\ e.state = "completed" /\ j # job.k + 1
    <3>1. CASE j = job.k
      BY <1>2, <1>3, <1>7, <2>2, <2>3, <3>1
    <3>2. CASE j \in 1 .. job.k - 1 /\ j # job.k
      BY <1>6, <2>2, <2>3, <3>2
    <3> QED BY <2>2, <3>1, <3>2
  <2> QED BY <1>4, <2>1, <2>4 DEF MatchInv
<1>9. LinksInv'
  <2>1. \A n \in MG!Names : at'[n] # MG!None => link'[n] = MG!None
    BY <1>1 DEF RecordInv, LinksInv, MGInv, TreeInv, MG!TypeOK
  <2> QED BY <1>1, <2>1 DEF RecordInv, LinksInv
<1>10. ListsInv'
  BY <1>1, <1>4, <1>5, <1>8, ListsKept DEF Applying, RecordInv
<1> QED BY <1>8, <1>9, <1>10 DEF RecordInv

LEMMA AnnounceRecord == ASSUME MGInv, MGInv', RecordInv, MG!Announce PROVE RecordInv'
<1> DEFINE entry == [op |-> MG!Op.op, src |-> MG!Op.src, dst |-> MG!Op.dst, compat |-> job.keep,
                     state |-> "in_progress"]
<1>1. /\ moving = "apply" /\ job.k <= Len(job.ops) /\ MG!Op.op # "ensure_dir" /\ moving' = "rename"
      /\ UNCHANGED <<at, link, job>>
      /\ MG!Save(Append(manifest[job.of], entry))
  BY DEF MG!Announce, MG!disk
<1>2. /\ job.k \in DOMAIN job.ops /\ job.k \in Nat /\ job.k >= 1 /\ MG!Op \in MG!Steps /\ MG!Op = job.ops[job.k]
      /\ job.of \in DOMAIN manifest /\ Applying /\ job.keep \in BOOLEAN
  BY <1>1, OpTypes DEF Applying
<1>3. /\ entry \in MG!Entries /\ entry.op = MG!Op.op /\ entry.src = MG!Op.src /\ entry.dst = MG!Op.dst
      /\ entry.compat = job.keep /\ entry.state = "in_progress"
  BY <1>2, EntryTypes
<1> HIDE DEF entry
<1>5. /\ DOMAIN manifest' = DOMAIN manifest
      /\ \A i \in DOMAIN manifest : i # job.of => manifest'[i] = manifest[i]
      /\ Len(manifest'[job.of]) = Len(manifest[job.of]) + 1
      /\ \A j \in 1 .. Len(manifest[job.of]) : manifest'[job.of][j] = manifest[job.of][j]
      /\ manifest'[job.of][Len(manifest[job.of]) + 1] = entry
  BY <1>1, <1>2, <1>3, SavedEntry DEF MGInv
<1>6. /\ Len(manifest[job.of]) = job.k - 1
      /\ \A j \in 1 .. job.k - 1 :
             /\ manifest[job.of][j].op = job.ops[j].op /\ manifest[job.of][j].src = job.ops[j].src
             /\ manifest[job.of][j].dst = job.ops[j].dst
             /\ job.ops[j] # MG!Parent => manifest[job.of][j].compat = job.keep
             /\ manifest[job.of][j].state = IF j = job.k THEN "in_progress" ELSE "completed"
  BY <1>1, <1>2 DEF RecordInv, MatchInv, Begun
<1>7. MatchInv'
  <2>1. Begun' = job.k /\ Len(manifest'[job.of]) = job.k
    BY <1>1, <1>2, <1>5, <1>6 DEF Begun
  <2>2. \A j \in 1 .. job.k : (j \in 1 .. job.k - 1 /\ j # job.k) \/ j = job.k
    BY <1>2
  <2>3. /\ manifest'[job.of][job.k] = entry /\ \A j \in 1 .. job.k - 1 : manifest'[job.of][j] = manifest[job.of][j]
    BY <1>2, <1>5, <1>6
  <2>4. ASSUME NEW j \in 1 .. job.k
        PROVE  LET e == manifest'[job.of][j] IN
               /\ e.op = job.ops[j].op /\ e.src = job.ops[j].src /\ e.dst = job.ops[j].dst
               /\ job.ops[j] # MG!Parent => e.compat = job.keep
               /\ e.state = IF j = job.k THEN "in_progress" ELSE "completed"
    <3>1. CASE j = job.k
      BY <1>2, <1>3, <2>3, <3>1
    <3>2. CASE j \in 1 .. job.k - 1 /\ j # job.k
      BY <1>6, <2>3, <3>2
    <3> QED BY <2>2, <3>1, <3>2
  <2> QED BY <1>1, <2>1, <2>4 DEF MatchInv
<1>8. LinksInv'
  BY <1>1 DEF RecordInv, LinksInv
<1>9. ListsInv'
  BY <1>1, <1>5, <1>7, ListsKept DEF Applying, RecordInv
<1> QED BY <1>7, <1>8, <1>9 DEF RecordInv

(* A rename goes to a place that is free.                                  *)
LEMMA RenameFree ==
    ASSUME LinksInv, NEW src, NEW dst, src # dst, MG!CanRename(src, dst), MG!Rename(src, dst)
    PROVE  /\ \A n \in MG!Names : at'[n] # MG!None => link[n] = MG!None
           /\ src \in MG!Names => at'[src] = MG!None
<1>1. \A n \in MG!Names : n # MG!Target
  BY DEF MG!Names, MG!Target
<1>2. \A n \in MG!Names : at'[n] = CASE n = dst -> (IF src = MG!Target THEN "run content" ELSE at[src])
                                     [] n = src -> MG!None [] OTHER -> at[n]
  BY DEF MG!Rename
<1>3. \A n \in MG!Names : n = dst => link[n] = MG!None
  BY <1>1 DEF MG!CanRename, MG!Free
<1>4. \A n \in MG!Names : n # dst => at'[n] = MG!None \/ at'[n] = at[n]
  BY <1>2
<1> QED BY <1>2, <1>3, <1>4 DEF LinksInv

LEMMA MoveRecord == ASSUME MGInv, RecordInv, MG!Move PROVE RecordInv'
<1>1. moving = "rename" /\ UNCHANGED <<link, manifest>>
  BY DEF MG!Move
<1>2. CASE ~MG!CanRename(MG!Op.src, MG!Op.dst)
  <2>1. moving' = "idle" /\ UNCHANGED at
    BY <1>2 DEF MG!Move
  <2> QED BY <1>1, <2>1, RecordKept DEF Applying
<1>3. CASE MG!CanRename(MG!Op.src, MG!Op.dst)
  <2>1. MG!Rename(MG!Op.src, MG!Op.dst) /\ moving' = "repair" /\ job' = job /\ MG!Op' = MG!Op
    BY <1>3 DEF MG!Move, MG!Op
  <2>2. MG!Op \in MG!Steps /\ MG!Op # MG!Parent
    BY <1>1, OpTypes DEF Applying, MGInv, JobInv
  <2>3. MG!Op.src # MG!Op.dst /\ MG!Op.src \in MG!Names
    BY <2>2, StepFields DEF MG!Steps, MG!Names, MG!Target
  <2>4. LinksInv'
    BY <1>1, <1>3, <2>1, <2>3, RenameFree DEF RecordInv, LinksInv
  <2>5. ListsInv' /\ MatchInv'
    BY <1>1, <2>1 DEF RecordInv, ListsInv, MatchInv, Begun, Applying
  <2> QED BY <2>4, <2>5 DEF RecordInv
<1> QED BY <1>2, <1>3

(* Links are left by the first steps only.                                 *)
LEMMA LinkingStep ==
    ASSUME MGInv, moving \in {"repair", "link", "record"}
    PROVE  /\ MG!Op \in MG!Steps /\ MG!Op # MG!Parent /\ job.keep \in BOOLEAN
           /\ job.keep => MG!Op \in {MG!Ccmux, MG!Aside, MG!Run}
<1>1. /\ MG!Op \in MG!Steps /\ MG!Op # MG!Parent /\ job.keep \in BOOLEAN /\ job.k \in DOMAIN job.ops /\ job.k \in Nat
      /\ MG!Op = job.ops[job.k]
  BY OpTypes DEF Applying, MGInv, JobInv
<1>2. job.keep => MG!Op # MG!Across /\ MG!Op # MG!Into
  <2>1. job.keep => (MG!Op = MG!Into => job.k > job.k) /\ ~(MG!Op = MG!Across)
    BY <1>1 DEF MGInv, LinkInv, Applying
  <2>2. ~(job.k > job.k)
    BY <1>1
  <2> QED BY <2>1, <2>2
<1> QED BY <1>1, <1>2 DEF MG!Steps

LEMMA LinkBackRecord == ASSUME MGInv, RecordInv, MG!LinkBack PROVE RecordInv'
<1>1. /\ moving = "link" /\ moving' = "record" /\ UNCHANGED <<at, manifest, job>>
      /\ link' = IF job.keep THEN [link EXCEPT ![MG!Op.src] = MG!Op.dst] ELSE link
  BY DEF MG!LinkBack
<1>2. /\ MG!Op \in MG!Steps /\ job.keep \in BOOLEAN
      /\ job.keep => \/ MG!Op.src = "ccmux" /\ MG!Op.dst = "renga"
                     \/ MG!Op.src = "claude-org" /\ MG!Op.dst = "claude-org-ja-tmp"
                     \/ MG!Op.src = "r" /\ MG!Op.dst = MG!Target
  BY <1>1, LinkingStep, StepFields
<1>3. LinksInv'
  <2>1. link \in [MG!Names -> MG!Names \cup {MG!Target, MG!None}]
    BY DEF MGInv, MG!TypeOK
  <2>2. /\ link'["ccmux"] \in {"renga", MG!None} /\ link'["claude-org"] \in {"claude-org-ja-tmp", MG!None}
        /\ link'["r"] \in {MG!Target, MG!None}
    BY <1>1, <1>2, <2>1 DEF RecordInv, LinksInv, MG!Names
  <2>3. \A n \in MG!Names : at[n] # MG!None => link'[n] = MG!None
    BY <1>1, <2>1 DEF RecordInv, LinksInv
  <2> QED BY <1>1, <2>2, <2>3 DEF LinksInv
<1>4. ListsInv' /\ MatchInv'
  BY <1>1 DEF RecordInv, ListsInv, MatchInv, Begun, Applying
<1> QED BY <1>3, <1>4 DEF RecordInv

LEMMA UnlinkRecord == ASSUME MGInv, RecordInv, MG!Unlink PROVE RecordInv'
<1>1. /\ moving' = "back" /\ UNCHANGED <<at, manifest, job>>
      /\ link' = IF MG!Entry.compat THEN [link EXCEPT ![MG!Entry.src] = MG!None] ELSE link
  BY DEF MG!Unlink
<1>2. \A n \in MG!Names : link'[n] = link[n] \/ link'[n] = MG!None
  BY <1>1 DEF MGInv, MG!TypeOK
<1>3. LinksInv'
  BY <1>1, <1>2 DEF RecordInv, LinksInv, MG!Names
<1>4. ListsInv' /\ MatchInv'
  BY <1>1 DEF RecordInv, ListsInv, MatchInv, Applying
<1> QED BY <1>3, <1>4 DEF RecordInv

LEMMA MoveBackRecord == ASSUME MGInv, MovedBack, RecordInv, MG!MoveBack PROVE RecordInv'
<1>1. moving = "back" /\ UNCHANGED <<link, manifest>> /\ job.k # 0 /\ MG!Entry.op # "ensure_dir"
  BY DEF MG!MoveBack, MovedBack, MGInv, MG!TypeOK
<1>2. CASE ~MG!CanRename(MG!Entry.dst, MG!Entry.src)
  <2>1. moving' = "idle" /\ UNCHANGED at
    BY <1>2 DEF MG!MoveBack
  <2> QED BY <1>1, <2>1, RecordKept DEF Applying
<1>3. CASE MG!CanRename(MG!Entry.dst, MG!Entry.src)
  <2>1. MG!Rename(MG!Entry.dst, MG!Entry.src) /\ moving' = "repair back"
    BY <1>3 DEF MG!MoveBack
  <2>2. MG!Entry.src # MG!Entry.dst
    <3>1. PICK step \in {MG!Ccmux, MG!Aside, MG!Across, MG!Into, MG!Run} : MG!Entry.src = step.src /\ MG!Entry.dst = step.dst
      BY <1>1, EntryMoves DEF MGInv
    <3> QED BY <3>1, StepFields DEF MG!Target
  <2>3. LinksInv'
    BY <1>1, <1>3, <2>1, <2>2, RenameFree DEF RecordInv, LinksInv
  <2>4. ListsInv' /\ MatchInv'
    BY <1>1, <2>1 DEF RecordInv, ListsInv, MatchInv, Applying
  <2> QED BY <2>3, <2>4 DEF RecordInv
<1> QED BY <1>2, <1>3

(* What Complete saves.                                                    *)
LEMMA SavedState ==
    ASSUME MGInv, RecordInv, MG!Complete
    PROVE  /\ DOMAIN manifest' = DOMAIN manifest
           /\ \A i \in DOMAIN manifest : i # job.of => manifest'[i] = manifest[i]
           /\ Len(manifest[job.of]) = job.k /\ Len(manifest'[job.of]) = job.k /\ job.k \in 1 .. job.k
           /\ \A j \in 1 .. job.k : j # job.k => manifest'[job.of][j] = manifest[job.of][j]
           /\ manifest'[job.of][job.k].op = manifest[job.of][job.k].op
           /\ manifest'[job.of][job.k].src = manifest[job.of][job.k].src
           /\ manifest'[job.of][job.k].dst = manifest[job.of][job.k].dst
           /\ manifest'[job.of][job.k].compat = manifest[job.of][job.k].compat
           /\ manifest'[job.of][job.k].state = "completed"
<1> DEFINE e == manifest[job.of]
           finished == [e[job.k] EXCEPT !.state = "completed"]
           f == [e EXCEPT ![Len(e)].state = "completed"]
<1>1. /\ moving = "record" /\ MG!Save(f)
  BY DEF MG!Complete
<1>2. /\ job.k \in Nat /\ job.k >= 1 /\ job.of \in DOMAIN manifest /\ e \in Seq(MG!Entries) /\ Len(e) \in Nat
  BY <1>1, OpTypes DEF Applying
<1>3. Len(e) = job.k /\ job.k \in 1 .. job.k
  BY <1>1, <1>2 DEF RecordInv, MatchInv, Begun, Applying
<1>4. f = [e EXCEPT ![job.k] = finished]
  BY <1>3
<1>5. e[job.k] \in MG!Entries
  BY <1>2, <1>3, ElementOfSeq
<1>6. /\ finished \in MG!Entries /\ finished.op = e[job.k].op /\ finished.src = e[job.k].src
      /\ finished.dst = e[job.k].dst /\ finished.compat = e[job.k].compat /\ finished.state = "completed"
  <2>1. \A entry \in MG!Entries : [entry EXCEPT !.state = "completed"] \in MG!Entries
    BY DEF MG!Entries
  <2>2. \A entry \in MG!Entries :
          entry = [op |-> entry.op, src |-> entry.src, dst |-> entry.dst, compat |-> entry.compat,
                   state |-> entry.state]
    BY DEF MG!Entries
  <2>3. e[job.k] = [op |-> e[job.k].op, src |-> e[job.k].src, dst |-> e[job.k].dst, compat |-> e[job.k].compat,
                   state |-> e[job.k].state]
    BY <1>5, <2>2
  <2>4. /\ finished.op = e[job.k].op /\ finished.src = e[job.k].src /\ finished.dst = e[job.k].dst
        /\ finished.compat = e[job.k].compat /\ finished.state = "completed"
    BY <2>3
  <2> QED BY <1>5, <2>1, <2>4
<1> HIDE DEF finished
<1>7. /\ f \in Seq(MG!Entries) /\ Len(f) = Len(e)
      /\ \A i \in 1 .. Len(e) : f[i] = IF i = job.k THEN finished ELSE e[i]
  BY <1>2, <1>3, <1>4, <1>6, ExceptSeq
<1> HIDE DEF f
<1>8. /\ DOMAIN manifest' = DOMAIN manifest /\ manifest'[job.of] = f
      /\ \A i \in DOMAIN manifest : i # job.of => manifest'[i] = manifest[i]
  BY <1>1, <1>2, <1>7, SaveTypes DEF MGInv
<1> QED BY <1>3, <1>6, <1>7, <1>8

LEMMA CompleteRecord == ASSUME MGInv, MGInv', RecordInv, MG!Complete PROVE RecordInv'
<1>1. /\ moving = "record" /\ moving' = "apply" /\ job' = [job EXCEPT !.k = @ + 1] /\ UNCHANGED <<at, link>>
  BY DEF MG!Complete, MG!Advance, MG!disk
<1>2. job.k \in Nat /\ job.k >= 1 /\ Applying
  BY <1>1, OpTypes DEF Applying
<1>3. job'.ops = job.ops /\ job'.k = job.k + 1 /\ job'.of = job.of /\ job'.keep = job.keep
  <2>1. job \in [ops : Seq(MG!Steps), keep : BOOLEAN, full : BOOLEAN, of : 0 .. Len(manifest), k : Nat]
    BY DEF MGInv, MG!TypeOK
  <2> QED BY <1>1, <2>1
<1>4. MatchInv'
  <2>1. Begun' = job.k /\ Len(manifest'[job.of]) = job.k
    BY <1>1, <1>2, <1>3, SavedState DEF Begun
  <2>2. ASSUME NEW j \in 1 .. job.k
        PROVE  LET e == manifest'[job.of][j] IN
               /\ e.op = job.ops[j].op /\ e.src = job.ops[j].src /\ e.dst = job.ops[j].dst
               /\ job.ops[j] # MG!Parent => e.compat = job.keep
               /\ e.state = "completed" /\ j # job.k + 1
    <3>1. LET e == manifest[job.of][j] IN
          /\ e.op = job.ops[j].op /\ e.src = job.ops[j].src /\ e.dst = job.ops[j].dst
          /\ job.ops[j] # MG!Parent => e.compat = job.keep
          /\ e.state = IF j = job.k THEN "in_progress" ELSE "completed"
      BY <1>1, <1>2 DEF RecordInv, MatchInv, Begun
    <3>2. j # job.k + 1
      BY <1>2
    <3> QED BY <3>1, <3>2, SavedState
  <2> QED BY <1>3, <2>1, <2>2 DEF MatchInv
<1>5. LinksInv'
  BY <1>1 DEF RecordInv, LinksInv
<1>6. ListsInv'
  BY <1>1, <1>3, <1>4, SavedState, ListsKept DEF Applying, RecordInv
<1> QED BY <1>4, <1>5, <1>6 DEF RecordInv

LEMMA NextRecord == ASSUME MGInv, MGInv', MovedBack, RecordInv, [MG!Next]_MG!vars PROVE RecordInv'
<1>1. CASE MG!Stage \/ MG!Skip
  BY <1>1, RecordKept DEF MG!Stage, MG!Skip, MG!disk, Applying
<1>2. CASE \E keep \in BOOLEAN : MG!Apply(keep) \/ MG!ApplyFromManifest(keep)
  BY <1>2, StartRecord DEF MG!Apply, MG!ApplyFromManifest
<1>3. CASE MG!EnsureDir \/ MG!Announce \/ MG!Complete
  BY <1>3, EnsureDirRecord, AnnounceRecord, CompleteRecord
<1>4. CASE MG!Move \/ MG!LinkBack \/ MG!Unlink \/ MG!MoveBack
  BY <1>4, MoveRecord, LinkBackRecord, UnlinkRecord, MoveBackRecord
<1>5. CASE MG!Repair
  BY <1>5, RecordKept DEF MG!Repair
<1>6. CASE MG!Finish \/ MG!RolledBack \/ MG!Kill \/ MG!RepairBack
  BY <1>6, RecordKept DEF MG!Finish, MG!RolledBack, MG!Kill, MG!RepairBack, MG!disk, Applying
<1>7. CASE \E i \in DOMAIN manifest : MG!Rollback(i)
  BY <1>7, RecordKept DEF MG!Rollback, MG!disk, Applying
<1>8. CASE UNCHANGED MG!vars
  BY <1>8, RecordKept DEF MG!vars
<1> QED BY <1>1, <1>2, <1>3, <1>4, <1>5, <1>6, <1>7, <1>8 DEF MG!Next
-----------------------------------------------------------------------------
(* What is to be renamed is in its old place                               *)

(* A plan is refused unless what it renames is where it always was.        *)
LEMMA PlanReady ==
    ASSUME MGInv, LinksInv, RunInv, GitInv, moving = "idle", NEW ops, Shape(ops), MG!Preflight(ops),
           NEW i \in DOMAIN ops
    PROVE  Ready(MG!Tree, ops[i].src)
<1>1. /\ ops[i] \in MG!Steps /\ i \in Nat /\ DOMAIN ops = 1 .. Len(ops)
      /\ \A j \in 1 .. i - 1 : j \in DOMAIN ops /\ j # i /\ i > j
  BY Positions
<1>2. MG!None # "ccmux content" /\ MG!None # "ja content" /\ MG!None # "run content" /\ MG!None # "made"
      /\ MG!None # "en content"
  BY DEF MG!None
<1>3. CASE ops[i] = MG!Ccmux
  <2>1. MG!Present(ops, i, "ccmux") /\ ~MG!Present(ops, i, "renga")
    BY <1>3, StepFields DEF MG!Preflight
  <2>2. \A j \in 1 .. i - 1 : ops[j] \in MG!Steps /\ ops[j] # MG!Ccmux
    BY <1>1, <1>3, Positions DEF Shape
  <2>3. \A j \in 1 .. i - 1 : "ccmux" \notin {ops[j].src, ops[j].dst} /\ "renga" \notin {ops[j].src, ops[j].dst}
    BY <2>2, StepFields DEF MG!Steps, MG!Target, MG!RunsDir
  <2>4. MG!Exists("ccmux") /\ ~MG!Exists("renga")
    BY <2>1, <2>3 DEF MG!Present
  <2>5. at["renga"] = MG!None
    BY <2>4, Plainly DEF MGInv
  <2>6. link["ccmux"] = MG!None /\ at["ccmux"] # MG!None
    BY <2>4, <2>5 DEF LinksInv, MG!Exists, MG!Dir, MG!RunsDir, MG!Target, MG!None
  <2>7. CcmuxFlat(MG!Tree)
    BY <2>5, <2>6, TreeNow DEF CcmuxFlat, MGInv, TreeInv
  <2> QED BY <1>3, <2>7, StepFields DEF Ready, SwapNames
<1>4. CASE ops[i] \in {MG!Aside, MG!Across, MG!Into}
  <2>1. PICK a \in DOMAIN ops : ops[a] = MG!Aside
    BY <1>4, Positions
  <2>2. /\ at["claude-org"] = "ja content" /\ at["claude-org-en"] = "en content"
        /\ at["claude-org-ja-tmp"] = MG!None /\ at["claude-org-ja"] = MG!None
    BY <2>1, SwapIsWhole DEF MGInv
  <2>3. link["claude-org"] = MG!None /\ gitAt = "claude-org"
    BY <1>2, <2>2 DEF LinksInv, GitInv, MG!Names
  <2>4. runIn = MG!None
    BY <2>2 DEF RunInv
  <2>5. SwapFlat(MG!Tree) /\ MG!Tree.runIn = MG!None
    BY <1>2, <2>2, <2>3, <2>4, TreeNow DEF SwapFlat, SwapAt, Shown, MGInv
  <2> QED BY <1>4, <2>5, StepFields DEF Ready, SwapNames
<1>5. CASE ops[i] = MG!Run
  <2>1. MG!Present(ops, i, "r") /\ ~MG!Present(ops, i, MG!Target)
    BY <1>5, StepFields DEF MG!Preflight
  <2>2. \A j \in 1 .. i - 1 : ops[j] \in MG!Steps /\ ops[j] # MG!Run
    BY <1>1, <1>5, Positions DEF Shape
  <2>3. \A j \in 1 .. i - 1 : "r" \notin {ops[j].src, ops[j].dst} /\ MG!Target \notin {ops[j].src, ops[j].dst}
    BY <2>2, StepFields DEF MG!Steps, MG!Target, MG!RunsDir
  <2>4. MG!Exists("r") /\ ~MG!Exists(MG!Target)
    BY <2>1, <2>3 DEF MG!Present
  <2>5. runIn = MG!None
    BY <2>4, Plainly DEF MGInv, RunInv
  <2>6. link["r"] = MG!None /\ at["r"] # MG!None
    BY <2>4, <2>5 DEF LinksInv, MG!Exists, MG!Dir, MG!RunsDir, MG!Target, MG!None
  <2>7. RunFlat(MG!Tree)
    BY <2>5, <2>6, TreeNow DEF RunFlat, MGInv, TreeInv
  <2> QED BY <1>5, <2>7, StepFields DEF Ready, SwapNames
<1>6. CASE ops[i] = MG!Parent
  BY <1>6, StepFields DEF Ready, SwapNames
<1> QED BY <1>1, <1>3, <1>4, <1>5, <1>6 DEF MG!Steps

(* What is pending, after the rename at hand.                              *)
LEMMA OrderAfter ==
    ASSUME MGInv, moving \in {"repair", "link", "record"}
    PROVE  /\ ~Pending(MG!Op)
           /\ MG!Op = MG!Aside => Pending(MG!Across) /\ Pending(MG!Into)
           /\ MG!Op = MG!Across => Pending(MG!Into)
           /\ Pending(MG!Aside) => Pending(MG!Across)
           /\ Pending(MG!Across) => Pending(MG!Into)
<1>1. /\ job.ops \in Seq(MG!Steps) /\ Shape(job.ops) /\ DOMAIN job.ops = 1 .. Len(job.ops)
      /\ Len(job.ops) \in Nat /\ job.k \in Nat /\ job.k \in DOMAIN job.ops /\ MG!Op = job.ops[job.k]
  BY OpTypes, Positions DEF MGInv, JobInv, Applying
<1>2. \A step : Pending(step) <=> \E i \in DOMAIN job.ops : i > job.k /\ job.ops[i] = step
  BY DEF Pending, Left
<1>3. \A i \in DOMAIN job.ops : job.ops[i] = MG!Aside =>
         i + 1 \in DOMAIN job.ops /\ i + 2 \in DOMAIN job.ops /\ job.ops[i + 1] = MG!Across /\ job.ops[i + 2] = MG!Into
  BY <1>1 DEF Shape
<1>4. \A i \in DOMAIN job.ops : job.ops[i] = MG!Across => i + 1 \in DOMAIN job.ops /\ job.ops[i + 1] = MG!Into
  <2> SUFFICES ASSUME NEW i \in DOMAIN job.ops, job.ops[i] = MG!Across
               PROVE  i + 1 \in DOMAIN job.ops /\ job.ops[i + 1] = MG!Into
    OBVIOUS
  <2>1. i - 1 \in DOMAIN job.ops /\ job.ops[i - 1] = MG!Aside
    BY <1>1, Positions
  <2>2. (i - 1) + 2 = i + 1
    BY <1>1
  <2> QED BY <1>3, <2>1, <2>2
<1>5. ~Pending(MG!Op)
  <2> SUFFICES ASSUME NEW i \in DOMAIN job.ops, i > job.k, job.ops[i] = MG!Op PROVE FALSE
    BY <1>2
  <2>1. i = job.k
    BY <1>1 DEF Shape
  <2> QED BY <1>1, <2>1
<1>6. /\ MG!Op = MG!Aside => Pending(MG!Across) /\ Pending(MG!Into)
      /\ MG!Op = MG!Across => Pending(MG!Into)
  <2>1. job.k + 1 > job.k /\ job.k + 2 > job.k
    BY <1>1
  <2> QED BY <1>1, <1>2, <1>3, <1>4, <2>1
<1>7. /\ Pending(MG!Aside) => Pending(MG!Across)
      /\ Pending(MG!Across) => Pending(MG!Into)
  <2>1. \A i \in DOMAIN job.ops : i > job.k => i + 1 > job.k
    BY <1>1
  <2> QED BY <1>2, <1>3, <1>4, <2>1
<1> QED BY <1>5, <1>6, <1>7
-----------------------------------------------------------------------------
(* What a step leaves alone                                                *)

LEMMA TreeKept == ASSUME UNCHANGED <<at, link, runIn, gitAt>> PROVE MG!Tree' = MG!Tree
BY DEF MG!Tree

(* The manifests, and what was before them.                                *)
LEMMA PastKept ==
    ASSUME UNCHANGED <<manifest, before, undone>>, WhenceInv, ChainInv
    PROVE  /\ WhenceInv' /\ ChainInv'
           /\ \A i : (Newest(i))' <=> Newest(i)
<1>1. WhenceInv'
  BY DEF WhenceInv
<1>2. ChainInv'
  BY DEF ChainInv, FitsAll, RolledBackAfter
<1>3. \A i : (Newest(i))' <=> Newest(i)
  BY DEF Newest
<1> QED BY <1>1, <1>2, <1>3

LEMMA PastGrows ==
    ASSUME RecordInv', MGInv', WhenceInv, ChainInv, AheadInv, Newest(job.of), Applying, Applying',
           UNCHANGED <<before, undone>>, DOMAIN manifest' = DOMAIN manifest,
           job'.of = job.of, job'.ops = job.ops,
           \A i \in DOMAIN manifest : i # job.of => manifest'[i] = manifest[i]
    PROVE  /\ WhenceInv' /\ ChainInv'
           /\ \A i : (Newest(i))' <=> Newest(i)
           /\ \A j \in DOMAIN manifest'[job.of] : Ready(before[job.of], manifest'[job.of][j].src)
<1>1. \A j \in DOMAIN manifest'[job.of] : Ready(before[job.of], manifest'[job.of][j].src)
  <2> SUFFICES ASSUME NEW j \in DOMAIN manifest'[job.of] PROVE Ready(before[job.of], manifest'[job.of][j].src)
    OBVIOUS
  <2>1. DOMAIN manifest'[job.of] = 1 .. Len(manifest'[job.of])
    <3>1. Listed(manifest'[job.of])
      BY DEF RecordInv, ListsInv, Newest
    <3> QED BY <3>1 DEF Listed
  <2>2. j \in 1 .. Begun' /\ manifest'[job.of][j].src = job.ops[j].src
    BY <2>1 DEF RecordInv, MatchInv
  <2>3. j \in DOMAIN job.ops
    <3>1. /\ DOMAIN job'.ops = 1 .. Len(job'.ops) /\ Len(job'.ops) \in Nat
      BY Positions DEF MGInv, JobInv
    <3>2. moving' = "apply" => job'.k \in 1 .. Len(job'.ops) + 1
      BY DEF MGInv, MG!TypeOK
    <3>3. moving' # "apply" => job'.k \in DOMAIN job'.ops
      BY DEF MGInv, MG!TypeOK, Applying
    <3> QED BY <2>2, <3>1, <3>2, <3>3 DEF Begun
  <2> QED BY <2>2, <2>3 DEF AheadInv
<1>2. WhenceInv'
  BY <1>1 DEF WhenceInv, Whence
<1>3. ChainInv'
  <2> SUFFICES ASSUME NEW p \in DOMAIN manifest, NEW m \in DOMAIN manifest, RolledBackAfter(p, m)
               PROVE  (FitsAll(p, before[m]))'
    BY DEF ChainInv, RolledBackAfter
  <2>1. p # job.of
    BY DEF Newest, RolledBackAfter
  <2> QED BY <2>1 DEF ChainInv, FitsAll
<1>4. \A i : (Newest(i))' <=> Newest(i)
  BY DEF Newest
<1> QED BY <1>1, <1>2, <1>3, <1>4

LEMMA PlacesKept ==
    ASSUME RunInv, GitInv, UNCHANGED <<at, runIn, gitAt>>, moving # "repair back"
    PROVE  RunInv' /\ GitInv'
BY DEF RunInv, GitInv

(* An apply that is being rolled back is not running, and the like.        *)
LEMMA NotApplying ==
    ASSUME ~Applying'
    PROVE  AheadInv' /\ MadeInv' /\ ApplyInv'
BY DEF AheadInv, MadeInv, ApplyInv, Applying

LEMMA JustApplying ==
    ASSUME Applying'
    PROVE  UndoInv' /\ IdleInv'
BY DEF UndoInv, IdleInv, Applying

LEMMA JustIdle ==
    ASSUME moving' = "idle"
    PROVE  AheadInv' /\ MadeInv' /\ ApplyInv' /\ UndoInv'
BY NotApplying DEF UndoInv, Applying

(* The newest is one.                                                      *)
LEMMA OneNewest ==
    ASSUME MG!TypeOK, NEW i, NEW j, Newest(i), Newest(j)
    PROVE  i = j
<1>1. \A n \in DOMAIN manifest : n \in Nat
  <2>1. manifest \in Seq(Seq(MG!Entries))
    BY DEF MG!TypeOK
  <2> QED BY <2>1
<1> QED BY <1>1 DEF Newest
-----------------------------------------------------------------------------
(* The steps of an apply                                                   *)

LEMMA StageRestore ==
    ASSUME MGInv, Restorable, MG!Stage
    PROVE  Restorable'
<1>1. moving = "idle" /\ UNCHANGED <<at, link, runIn, gitAt, manifest, moving, job, before, undone>>
  BY DEF MG!Stage, MG!disk, MG!history
<1>2. IdleInv'
  BY <1>1, TreeKept DEF Restorable, IdleInv, Newest, FitsAll
<1> QED BY <1>1, <1>2, PastKept, PlacesKept, JustIdle DEF Restorable

LEMMA StartRestore ==
    ASSUME MGInv, RecordInv, Restorable, MGInv', NEW ops, Shape(ops), NEW keep \in BOOLEAN, NEW full \in BOOLEAN,
           MG!Start(ops, keep, full)
    PROVE  Restorable'
<1> DEFINE n == Len(manifest) + 1
<1>1. /\ moving = "idle" /\ MG!Preflight(ops) /\ moving' = "apply"
      /\ manifest' = Append(manifest, <<>>) /\ before' = Append(before, MG!Tree)
      /\ job' = [ops |-> ops, keep |-> keep, full |-> full, of |-> n, k |-> 1]
      /\ UNCHANGED <<at, link, runIn, gitAt, undone>>
  BY DEF MG!Start, MG!disk
<1>2. /\ manifest \in Seq(Seq(MG!Entries)) /\ Len(manifest) \in Nat /\ before \in Seq(MG!Trees)
      /\ Len(before) = Len(manifest) /\ DOMAIN manifest = 1 .. Len(manifest) /\ undone \subseteq DOMAIN manifest
  BY LenProperties DEF MGInv, MG!TypeOK
<1>3. /\ DOMAIN manifest' = 1 .. n /\ manifest'[n] = <<>> /\ before'[n] = MG!Tree
      /\ \A i \in DOMAIN manifest : manifest'[i] = manifest[i] /\ before'[i] = before[i]
  <2>1. MG!Tree \in MG!Trees
    <3>1. before' \in Seq(MG!Trees) /\ Len(before') = n
      BY <1>1, <1>2, LenProperties DEF MGInv, MG!TypeOK
    <3>2. before'[n] = MG!Tree
      BY <1>1, <1>2
    <3> QED BY <1>2, <3>1, <3>2, ElementOfSeq
  <2>2. <<>> \in Seq(MG!Entries)
    OBVIOUS
  <2>3. /\ DOMAIN manifest' = 1 .. n /\ manifest'[n] = <<>>
        /\ \A i \in DOMAIN manifest : manifest'[i] = manifest[i]
    BY <1>1, <1>2, <2>2
  <2>4. /\ before'[n] = MG!Tree
        /\ \A i \in DOMAIN manifest : before'[i] = before[i]
    BY <1>1, <1>2, <2>1
  <2> QED BY <2>3, <2>4
<1>4. MG!Tree' = MG!Tree
  BY <1>1, TreeKept
<1>5. /\ n \in DOMAIN manifest' /\ n \notin undone
      /\ \A i \in DOMAIN manifest' : i \in Nat /\ (i = n \/ i \in DOMAIN manifest) /\ ~(i > n)
      /\ \A i \in DOMAIN manifest : i < n /\ i \in DOMAIN manifest' /\ i # n
  BY <1>2, <1>3
<1> HIDE DEF n
<1>6. WhenceInv'
  <2>1. Whence(<<>>, MG!Tree)
    <3>1. \A i \in Plain : MG!Tree.link[i] = MG!None
      BY TreeNow DEF MGInv, TreeInv, Plain
    <3>2. DOMAIN <<>> = {}
      OBVIOUS
    <3> QED BY <3>1, <3>2 DEF Whence
  <2> QED BY <1>3, <1>5, <2>1 DEF WhenceInv, Restorable
<1>7. ChainInv'
  <2> SUFFICES ASSUME NEW p \in DOMAIN manifest', NEW m \in DOMAIN manifest', (RolledBackAfter(p, m))'
               PROVE  (FitsAll(p, before[m]))'
    BY DEF ChainInv
  <2>1. /\ p < m /\ p \notin undone /\ m \notin undone
        /\ \A j \in DOMAIN manifest' : p < j /\ j < m => j \in undone
    BY <1>1 DEF RolledBackAfter
  <2>2. p \in DOMAIN manifest
    BY <1>5, <2>1
  <2>3. CASE m = n
    <3>1. Newest(p)
      BY <1>5, <2>1, <2>2, <2>3 DEF Newest
    <3>2. FitsAll(p, MG!Tree)
      BY <1>1, <2>2, <3>1 DEF IdleInv, Restorable
    <3> QED BY <1>3, <2>2, <2>3, <3>2 DEF FitsAll
  <2>4. CASE m \in DOMAIN manifest
    <3>1. RolledBackAfter(p, m)
      BY <1>5, <2>1 DEF RolledBackAfter
    <3>2. FitsAll(p, before[m])
      BY <2>2, <2>4, <3>1 DEF ChainInv, Restorable
    <3> QED BY <1>3, <2>2, <2>4, <3>2 DEF FitsAll
  <2> QED BY <1>5, <2>3, <2>4
<1>8. RunInv' /\ GitInv'
  BY <1>1, PlacesKept DEF Restorable
<1>9. \A i \in DOMAIN ops : Ready(MG!Tree, ops[i].src)
  BY <1>1, PlanReady DEF Restorable, RecordInv
<1>10. \A step : Pending(step)' <=> \E i \in DOMAIN ops : ops[i] = step
  <2>1. job'.ops = ops /\ job'.k = 1 /\ \A i \in DOMAIN ops : i > 1 \/ i = 1
    BY <1>1, Positions
  <2>2. Left' = DOMAIN ops
    BY <1>1, <2>1 DEF Left
  <2> QED BY <1>1, <2>2 DEF Pending
<1>11. AheadInv'
  <2>1. /\ (Pending(MG!Across))' => (Pending(MG!Aside))'
        /\ (Pending(MG!Into))' => (Pending(MG!Across))'
    BY <1>10, Positions
  <2>2. /\ (Pending(MG!Ccmux))' => CcmuxFlat(MG!Tree)
        /\ (Pending(MG!Aside))' => SwapFlat(MG!Tree)
        /\ (Pending(MG!Run))' => RunFlat(MG!Tree)
    BY <1>9, <1>10, StepFields DEF Ready, SwapNames
  <2>3. \A j \in DOMAIN job'.ops : Ready(before'[job'.of], job'.ops[j].src)
    BY <1>1, <1>3, <1>9
  <2> QED BY <1>4, <2>1, <2>2, <2>3 DEF AheadInv
<1>12. MadeInv' /\ UndoInv' /\ IdleInv'
  BY <1>1 DEF MadeInv, UndoInv, IdleInv
<1>13. ApplyInv'
  <2>1. (Newest(job.of))'
    BY <1>1, <1>5 DEF Newest
  <2>2. Fits(<<>>, MG!Tree, 0, MG!Tree)
    BY NothingNoted DEF SameCcmux, SameSwap, SwapAt, SameRun
  <2>3. Begun' = 0 /\ manifest'[job'.of] = <<>> /\ before'[job'.of] = MG!Tree
    <3>1. job'.k = 1 /\ job'.of = n /\ moving' = "apply"
      BY <1>1
    <3>2. Begun' = 0
      BY <3>1 DEF Begun
    <3> QED BY <1>3, <3>1, <3>2
  <2> QED BY <1>1, <1>4, <2>1, <2>2, <2>3 DEF ApplyInv
<1> QED BY <1>6, <1>7, <1>8, <1>11, <1>12, <1>13 DEF Restorable

(* The steps that put an entry into the manifest, or complete it.          *)
LEMMA AheadKept ==
    ASSUME AheadInv, Applying, MG!Tree' = MG!Tree, UNCHANGED <<before, gitAt>>,
           job'.of = job.of, job'.ops = job.ops, moving # "repair",
           \A step : step # MG!Parent => (Pending(step)' <=> Pending(step))
    PROVE  AheadInv'
BY StepsDiffer DEF AheadInv

LEMMA EntryFits ==
    ASSUME WhenceInv', ApplyInv, Applying, Newest(job.of), RecordInv, RecordInv', MGInv', Applying',
           moving = "apply", Begun \in Nat, Begun' \in Nat, Begun <= Begun',
           UNCHANGED before, job'.of = job.of, DOMAIN manifest' = DOMAIN manifest,
           \A j \in 1 .. Begun : manifest'[job.of][j] = manifest[job.of][j]
    PROVE  Fits(manifest'[job.of], before[job.of], Begun', MG!Tree)
<1>1. Fits(manifest[job.of], before[job.of], Begun, MG!Tree)
  BY DEF ApplyInv
<1>2. \A j \in 1 .. Begun' : Ready(before[job.of], manifest'[job.of][j].src)
  <2>1. Len(manifest'[job.of]) = Begun' /\ Listed(manifest'[job.of])
    BY DEF RecordInv, MatchInv, ListsInv, Newest
  <2>2. DOMAIN manifest'[job.of] = 1 .. Begun'
    BY <2>1 DEF Listed
  <2> QED BY <2>2 DEF WhenceInv, Whence, Newest
<1>3. Continues(manifest[job.of], manifest'[job.of], Begun)
  BY DEF Continues
<1>4. AllReady(before[job.of], manifest'[job.of], Begun')
  BY <1>2 DEF AllReady
<1> QED BY <1>1, <1>3, <1>4, FitsGrows

LEMMA EnsureDirRestore ==
    ASSUME MGInv, RecordInv, Restorable, MGInv', RecordInv', MG!EnsureDir
    PROVE  Restorable'
<1> DEFINE entry == [op |-> "ensure_dir", src |-> "", dst |-> MG!Op.dst, compat |-> FALSE, state |-> "completed"]
<1>1. /\ moving = "apply" /\ job.k <= Len(job.ops) /\ MG!Op.op = "ensure_dir" /\ moving' = "apply"
      /\ job' = [job EXCEPT !.k = @ + 1]
      /\ at' = (IF MG!Exists("claude-org-ja") THEN at ELSE [at EXCEPT !["claude-org-ja"] = "made"])
      /\ MG!Save(Append(manifest[job.of], entry))
      /\ UNCHANGED <<link, runIn, gitAt, before, undone>>
  BY DEF MG!EnsureDir, MG!Advance, MG!history
<1>2. /\ job.k \in DOMAIN job.ops /\ job.k \in Nat /\ job.k >= 1 /\ MG!Op = MG!Parent /\ MG!Op = job.ops[job.k]
      /\ job.of \in DOMAIN manifest /\ Applying /\ Applying' /\ Newest(job.of)
  BY <1>1, OpTypes, StepSources DEF Applying, ApplyInv, Restorable
<1>3. entry \in MG!Entries
  <2>1. [op |-> MG!Parent.op, src |-> MG!Parent.src, dst |-> MG!Parent.dst, compat |-> FALSE,
         state |-> "completed"] \in MG!Entries
    BY EntryTypes DEF MG!Steps
  <2>2. MG!Parent.op = "ensure_dir" /\ MG!Parent.src = "" /\ MG!Op.dst = MG!Parent.dst
    BY <1>2, StepFields
  <2> QED BY <2>1, <2>2
<1>4. /\ job'.ops = job.ops /\ job'.k = job.k + 1 /\ job'.of = job.of
      /\ DOMAIN job.ops = 1 .. Len(job.ops) /\ Len(job.ops) \in Nat
  <2>1. job \in [ops : Seq(MG!Steps), keep : BOOLEAN, full : BOOLEAN, of : 0 .. Len(manifest), k : Nat]
    BY DEF MGInv, MG!TypeOK
  <2>2. job' = [job EXCEPT !.k = @ + 1]
    BY <1>1
  <2> QED BY <2>1, <2>2
<1> HIDE DEF entry
<1>5. /\ DOMAIN manifest' = DOMAIN manifest
      /\ \A i \in DOMAIN manifest : i # job.of => manifest'[i] = manifest[i]
      /\ \A j \in 1 .. job.k - 1 : manifest'[job.of][j] = manifest[job.of][j]
  <2>1. Len(manifest[job.of]) = job.k - 1
    BY <1>1, <1>2 DEF RecordInv, MatchInv, Begun
  <2> QED BY <1>1, <1>2, <1>3, <2>1, SavedEntry DEF MGInv
<1>6. at["claude-org-ja"] # MG!None => at' = at
  BY <1>1, Plainly DEF MGInv
<1>7. MG!Tree' = MG!Tree
  <2>1. \A n \in MG!Names : Shown(at'[n]) = Shown(at[n])
    BY <1>1, <1>6 DEF Shown, MGInv, MG!TypeOK
  <2> QED BY <1>1, <2>1, TreeIs DEF TreeOf
<1>8. /\ WhenceInv' /\ ChainInv' /\ (Newest(job.of))'
  BY <1>1, <1>2, <1>4, <1>5, PastGrows DEF Restorable
<1>9. RunInv' /\ GitInv'
  <2>1. at'["claude-org"] = at["claude-org"] /\ (runIn # MG!None => at["claude-org-ja"] # MG!None)
    BY <1>1 DEF MGInv, MG!TypeOK, MG!Names, RunInv, Restorable
  <2> QED BY <1>1, <1>6, <2>1 DEF RunInv, GitInv, Restorable
<1>10. \A step : step # MG!Parent => (Pending(step)' <=> Pending(step))
  <2>1. /\ Left = {i \in DOMAIN job.ops : i >= job.k} /\ Left' = {i \in DOMAIN job.ops : i > job.k}
    <3>1. /\ \A i \in DOMAIN job.ops : i >= job.k <=> i > job.k \/ i = job.k
          /\ \A i \in DOMAIN job.ops : i > job.k <=> i > job.k + 1 \/ i = job.k + 1
      BY <1>2, <1>4
    <3> QED BY <1>1, <1>4, <3>1 DEF Left
  <2> QED BY <1>2, <1>4, <2>1, StepDone DEF MGInv
<1>11. AheadInv'
  BY <1>1, <1>2, <1>4, <1>7, <1>10, AheadKept DEF Restorable
<1>12. ApplyInv'
  <2>1. Begun = job.k - 1 /\ Begun' = job.k
    BY <1>1, <1>2, <1>4 DEF Begun
  <2>2. Fits(manifest'[job.of], before[job.of], Begun', MG!Tree)
    BY <1>1, <1>2, <1>4, <1>5, <1>8, <2>1, EntryFits DEF Restorable
  <2> QED BY <1>1, <1>4, <1>7, <1>8, <2>2 DEF ApplyInv
<1>13. MadeInv'
  BY <1>1 DEF MadeInv
<1> QED BY <1>2, <1>8, <1>9, <1>11, <1>12, <1>13, JustApplying DEF Restorable

LEMMA AnnounceRestore ==
    ASSUME MGInv, RecordInv, Restorable, MGInv', RecordInv', MG!Announce
    PROVE  Restorable'
<1> DEFINE entry == [op |-> MG!Op.op, src |-> MG!Op.src, dst |-> MG!Op.dst, compat |-> job.keep,
                     state |-> "in_progress"]
<1>1. /\ moving = "apply" /\ job.k <= Len(job.ops) /\ moving' = "rename"
      /\ MG!Save(Append(manifest[job.of], entry))
      /\ UNCHANGED <<at, link, runIn, gitAt, job, before, undone>>
  BY DEF MG!Announce, MG!disk, MG!history
<1>2. /\ job.k \in DOMAIN job.ops /\ job.k \in Nat /\ job.k >= 1 /\ MG!Op \in MG!Steps
      /\ job.of \in DOMAIN manifest /\ Applying /\ Applying' /\ Newest(job.of) /\ job.keep \in BOOLEAN
  BY <1>1, OpTypes DEF Applying, ApplyInv, Restorable
<1>3. entry \in MG!Entries
  BY <1>2, EntryTypes
<1> HIDE DEF entry
<1>4. /\ DOMAIN manifest' = DOMAIN manifest
      /\ \A i \in DOMAIN manifest : i # job.of => manifest'[i] = manifest[i]
      /\ \A j \in 1 .. job.k - 1 : manifest'[job.of][j] = manifest[job.of][j]
  <2>1. Len(manifest[job.of]) = job.k - 1
    BY <1>1, <1>2 DEF RecordInv, MatchInv, Begun
  <2> QED BY <1>1, <1>2, <1>3, <2>1, SavedEntry DEF MGInv
<1>5. MG!Tree' = MG!Tree
  BY <1>1, TreeKept
<1>6. /\ WhenceInv' /\ ChainInv' /\ (Newest(job.of))'
  BY <1>1, <1>2, <1>4, PastGrows DEF Restorable
<1>7. RunInv' /\ GitInv'
  BY <1>1, PlacesKept DEF Restorable
<1>8. AheadInv'
  <2>1. Left' = Left
    BY <1>1 DEF Left
  <2>2. \A step : Pending(step)' <=> Pending(step)
    BY <1>1, <2>1 DEF Pending
  <2> QED BY <1>1, <1>2, <1>5, <2>2, AheadKept DEF Restorable
<1>9. ApplyInv'
  <2>1. Begun = job.k - 1 /\ Begun' = job.k
    BY <1>1, <1>2 DEF Begun
  <2>2. Fits(manifest'[job.of], before[job.of], Begun', MG!Tree)
    BY <1>1, <1>2, <1>4, <1>6, <2>1, EntryFits DEF Restorable
  <2> QED BY <1>1, <1>5, <1>6, <2>2 DEF ApplyInv
<1>10. MadeInv'
  BY <1>1 DEF MadeInv
<1> QED BY <1>2, <1>6, <1>7, <1>8, <1>9, <1>10, JustApplying DEF Restorable

(* What is fit without the link of the operation at hand.                  *)
LEMMA WithLink ==
    ASSUME MGInv, moving \in {"repair", "link", "record"}
    PROVE  /\ SameElsewhere(Unlinked, MG!Tree, MG!Op.src)
           /\ link[MG!Op.src] = MG!None => Unlinked = MG!Tree
<1>1. MG!Op.src \in MG!Names
  BY LinkingStep, StepFields DEF MG!Steps, MG!Names
<1>2. link \in [MG!Names -> MG!Names \cup {MG!Target, MG!None}]
  BY DEF MGInv, MG!TypeOK
<1>3. /\ Unlinked.at = MG!Tree.at /\ Unlinked.runIn = MG!Tree.runIn /\ Unlinked.gitAt = MG!Tree.gitAt
      /\ \A n \in MG!Names : n # MG!Op.src => Unlinked.link[n] = MG!Tree.link[n]
  BY <1>2, TreeIs DEF Unlinked, TreeOf
<1>4. SameElsewhere(Unlinked, MG!Tree, MG!Op.src)
  BY <1>3 DEF SameElsewhere, SameCcmux, SameSwap, SwapAt, SameRun, SwapNames, MG!Names
<1>5. link[MG!Op.src] = MG!None => Unlinked = MG!Tree
  <2>1. link[MG!Op.src] = MG!None => [link EXCEPT ![MG!Op.src] = MG!None] = link
    BY <1>1, <1>2
  <2> QED BY <2>1, TreeIs DEF Unlinked
<1> QED BY <1>4, <1>5

LEMMA CompleteRestore ==
    ASSUME MGInv, RecordInv, Restorable, MGInv', RecordInv', MG!Complete
    PROVE  Restorable'
<1>1. /\ moving = "record" /\ moving' = "apply" /\ job' = [job EXCEPT !.k = @ + 1]
      /\ UNCHANGED <<at, link, runIn, gitAt, before, undone>>
  BY DEF MG!Complete, MG!Advance, MG!disk, MG!history
<1>2. /\ job.k \in DOMAIN job.ops /\ job.k \in Nat /\ job.k >= 1 /\ MG!Op \in MG!Steps /\ MG!Op = job.ops[job.k]
      /\ job.of \in DOMAIN manifest /\ Applying /\ Applying' /\ Newest(job.of)
  BY <1>1, OpTypes DEF Applying, ApplyInv, Restorable
<1>3. /\ job'.ops = job.ops /\ job'.k = job.k + 1 /\ job'.of = job.of
      /\ DOMAIN job.ops = 1 .. Len(job.ops) /\ Len(job.ops) \in Nat
  <2>1. job \in [ops : Seq(MG!Steps), keep : BOOLEAN, full : BOOLEAN, of : 0 .. Len(manifest), k : Nat]
    BY DEF MGInv, MG!TypeOK
  <2> QED BY <1>1, <2>1
<1>4. /\ DOMAIN manifest' = DOMAIN manifest
      /\ \A i \in DOMAIN manifest : i # job.of => manifest'[i] = manifest[i]
  BY SavedState
<1>5. MG!Tree' = MG!Tree
  BY <1>1, TreeKept
<1>6. /\ WhenceInv' /\ ChainInv' /\ (Newest(job.of))'
      /\ \A j \in DOMAIN manifest'[job.of] : Ready(before[job.of], manifest'[job.of][j].src)
  BY <1>1, <1>2, <1>3, <1>4, PastGrows DEF Restorable
<1>7. RunInv' /\ GitInv'
  BY <1>1, PlacesKept DEF Restorable
<1>8. AheadInv'
  <2>1. Left' = Left
    <3>1. \A i \in DOMAIN job.ops : i > job.k <=> i > job.k + 1 \/ i = job.k + 1
      BY <1>2, <1>3
    <3> QED BY <1>1, <1>3, <3>1 DEF Left
  <2>2. \A step : Pending(step)' <=> Pending(step)
    BY <1>3, <2>1 DEF Pending
  <2> QED BY <1>1, <1>2, <1>3, <1>5, <2>2, AheadKept DEF Restorable
<1>9. ApplyInv'
  <2> DEFINE e == manifest[job.of]
             f == manifest'[job.of]
             b == before[job.of]
  <2>1. /\ Begun = job.k /\ Begun' = job.k /\ Listed(f) /\ DOMAIN f = 1 .. job.k /\ job.k \in DOMAIN f
        /\ f[job.k].src = MG!Op.src /\ f[job.k].state = "completed"
        /\ MG!Op # MG!Parent => f[job.k].compat = job.keep
        /\ \A j \in 1 .. job.k : /\ f[j].src = e[j].src
                                 /\ e[j].state = "completed" /\ e[j].compat => f[j].state = "completed" /\ f[j].compat
    <3>1. Begun = job.k /\ Begun' = job.k
      BY <1>1, <1>2, <1>3 DEF Begun
    <3>2. Listed(f) /\ Len(f) = job.k
      BY <1>2, <1>4, SavedState DEF RecordInv, ListsInv
    <3>3. DOMAIN f = 1 .. job.k /\ job.k \in DOMAIN f
      BY <1>2, <3>2 DEF Listed
    <3>4. /\ e[job.k].src = MG!Op.src
          /\ MG!Op # MG!Parent => e[job.k].compat = job.keep
      BY <1>1, <1>2, <3>1 DEF RecordInv, MatchInv
    <3> QED BY <3>1, <3>2, <3>3, <3>4, SavedState
  <2>2. Fits(f, b, job.k, Unlinked)
    <3>1. Fits(e, b, job.k, Unlinked)
      BY <1>1, <1>2, <2>1 DEF ApplyInv, Restorable
    <3>2. \A j \in 1 .. job.k : Ready(b, f[j].src)
      BY <1>6, <2>1
    <3> HIDE DEF e, f, b
    <3>3. Continues(e, f, job.k) /\ AllReady(b, f, job.k)
      BY <2>1, <3>2 DEF Continues, AllReady
    <3> QED BY <1>2, <3>1, <3>3, FitsGrows
  <2>3. Made(MG!Tree, MG!Op.src) /\ (~job.keep => link[MG!Op.src] = MG!None)
    BY <1>1 DEF MadeInv, Restorable
  <2>4. Undoable(f, job.k, MG!Tree, MG!Op.src)
    <3>1. CASE job.keep
      <4>1. MG!Op # MG!Parent
        BY <1>1, LinkingStep
      <4> QED BY <1>2, <2>1, <3>1, <4>1 DEF Undoable, LinkNoted
    <3>2. CASE ~job.keep
      BY <2>3, <3>2, TreeNow DEF Undoable, MGInv
    <3> QED BY <3>1, <3>2
  <2>5. Fits(f, b, job.k, MG!Tree)
    <3>1. SameElsewhere(Unlinked, MG!Tree, MG!Op.src)
      BY <1>1, WithLink
    <3> HIDE DEF f, b
    <3> QED BY <2>1, <2>2, <2>3, <2>4, <3>1, FitsForth
  <2> QED BY <1>1, <1>3, <1>5, <1>6, <2>1, <2>5 DEF ApplyInv
<1>10. MadeInv'
  BY <1>1 DEF MadeInv
<1> QED BY <1>2, <1>6, <1>7, <1>8, <1>9, <1>10, JustApplying DEF Restorable

LEMMA FinishRestore ==
    ASSUME MGInv, RecordInv, Restorable, MG!Finish
    PROVE  Restorable'
<1>1. /\ moving = "apply" /\ moving' = "idle" /\ Applying
      /\ UNCHANGED <<at, link, runIn, gitAt, manifest, before, undone>>
  BY DEF MG!Finish, MG!Applied, MG!disk, MG!history, Applying
<1>2. MG!Tree' = MG!Tree
  BY <1>1, TreeKept
<1>3. Newest(job.of) /\ FitsAll(job.of, MG!Tree)
  BY <1>1 DEF ApplyInv, Restorable, RecordInv, MatchInv, FitsAll
<1>4. IdleInv'
  <2> SUFFICES ASSUME NEW i \in DOMAIN manifest, (Newest(i))' PROVE (FitsAll(i, MG!Tree))'
    BY <1>1 DEF IdleInv
  <2>1. Newest(i)
    BY <1>1, PastKept DEF Restorable
  <2>2. i = job.of
    BY <1>3, <2>1, OneNewest DEF MGInv
  <2> QED BY <1>1, <1>2, <1>3, <2>2 DEF FitsAll
<1> QED BY <1>1, <1>4, PastKept, PlacesKept, JustIdle DEF Restorable

(* What a rename does to the tree.                                         *)
LEMMA RenameTree ==
    ASSUME MGInv, MGInv', RecordInv, Restorable, moving = "rename", UNCHANGED <<link, gitAt>>,
           MG!CanRename(MG!Op.src, MG!Op.dst), MG!Rename(MG!Op.src, MG!Op.dst)
    PROVE  /\ SameElsewhere(MG!Tree, MG!Tree', MG!Op.src) /\ Made(MG!Tree', MG!Op.src)
           /\ link[MG!Op.src] = MG!None /\ at'[MG!Op.src] = MG!None
           /\ MG!Op # MG!Run => runIn' = runIn
           /\ MG!Op \in {MG!Ccmux, MG!Aside, MG!Across, MG!Run} => at'["claude-org-ja"] = at["claude-org-ja"]
           /\ MG!Op = MG!Run => runIn' = at["claude-org-ja"]
           /\ MG!Op = MG!Into => runIn = MG!None
           /\ at'["claude-org"] = at["claude-org"] \/ at'["claude-org"] # "ja content"
<1> USE DEF MGInv
<1>1. job.k \in DOMAIN job.ops /\ MG!Op \in MG!Steps /\ MG!Op # MG!Parent /\ Applying
  BY OpTypes DEF Applying, JobInv
<1>2. Pending(MG!Op) /\ (MG!Op = MG!Across => ~Pending(MG!Aside)) /\ (MG!Op = MG!Into => ~Pending(MG!Across))
  BY <1>1, Order
<1>3. MG!None # "ccmux content" /\ MG!None # "ja content" /\ MG!None # "run content" /\ MG!None # "made"
      /\ MG!None # "en content"
  BY DEF MG!None
<1>4. CASE MG!Op = MG!Ccmux
  <2>1. /\ at["ccmux"] # MG!None /\ at["renga"] = MG!None
        /\ at' = [at EXCEPT !["renga"] = at["ccmux"], !["ccmux"] = MG!None] /\ runIn' = runIn
    <3>1. MG!Rename("ccmux", "renga") /\ MG!CanRename("ccmux", "renga")
      BY <1>4, StepFields
    <3>2. "ccmux" \in MG!Names /\ "renga" \in MG!Names /\ "ccmux" # "renga"
      BY DEF MG!Names
    <3> QED BY <3>1, <3>2, RenameTop DEF MG!CanRename, MG!Free, MG!Target
  <2>2. /\ at'["renga"] = at["ccmux"] /\ at'["ccmux"] = MG!None
        /\ \A n \in MG!Names \ {"ccmux", "renga"} : at'[n] = at[n]
    BY <2>1 DEF MG!TypeOK, MG!Names
  <2>3. CcmuxFlat(MG!Tree)
    BY <1>1, <1>2, <1>4 DEF AheadInv, Restorable
  <2>4. Made(MG!Tree', "ccmux")
    BY <2>2, <2>3, TreeNow, TreeThen DEF Made, CcmuxFlat, CcmuxMoved
  <2>5. SameElsewhere(MG!Tree, MG!Tree', "ccmux")
    BY <2>1, <2>2, TreeNow, TreeThen DEF SameElsewhere, SameSwap, SwapAt, SameRun, MG!Names
  <2>6. link["ccmux"] = MG!None
    BY <2>3, TreeNow DEF CcmuxFlat
  <2> QED BY <1>4, <2>1, <2>2, <2>4, <2>5, <2>6, StepFields, StepsDiffer DEF MG!Names
<1>5. CASE MG!Op = MG!Aside
  <2>1. /\ at["claude-org"] # MG!None /\ at["claude-org-ja-tmp"] = MG!None
        /\ at' = [at EXCEPT !["claude-org-ja-tmp"] = at["claude-org"], !["claude-org"] = MG!None] /\ runIn' = runIn
    <3>1. MG!Rename("claude-org", "claude-org-ja-tmp") /\ MG!CanRename("claude-org", "claude-org-ja-tmp")
      BY <1>5, StepFields
    <3>2. "claude-org" \in MG!Names /\ "claude-org-ja-tmp" \in MG!Names /\ "claude-org" # "claude-org-ja-tmp"
      BY DEF MG!Names
    <3> QED BY <3>1, <3>2, RenameTop DEF MG!CanRename, MG!Free, MG!Target
  <2>2. /\ at'["claude-org-ja-tmp"] = at["claude-org"] /\ at'["claude-org"] = MG!None
        /\ \A n \in MG!Names \ {"claude-org-ja-tmp", "claude-org"} : at'[n] = at[n]
    BY <2>1 DEF MG!TypeOK, MG!Names
  <2>3. SwapFlat(MG!Tree)
    BY <1>1, <1>2, <1>5 DEF AheadInv, Restorable
  <2>4. Made(MG!Tree', "claude-org")
    BY <1>3, <2>2, <2>3, TreeNow, TreeThen DEF Made, SwapFlat, SwapAside, SwapAt, Shown, MG!Names
  <2>5. SameElsewhere(MG!Tree, MG!Tree', "claude-org")
    BY <2>1, <2>2, TreeNow, TreeThen DEF SameElsewhere, SameCcmux, SameRun, SwapNames, MG!Names
  <2>6. link["claude-org"] = MG!None
    BY <2>3, TreeNow DEF SwapFlat
  <2> QED BY <1>3, <1>5, <2>1, <2>2, <2>4, <2>5, <2>6, StepFields, StepsDiffer DEF MG!Names
<1>6. CASE MG!Op = MG!Across
  <2>1. /\ at["claude-org-en"] # MG!None /\ at["claude-org"] = MG!None /\ link["claude-org"] = MG!None
        /\ at' = [at EXCEPT !["claude-org"] = at["claude-org-en"], !["claude-org-en"] = MG!None] /\ runIn' = runIn
    <3>1. MG!Rename("claude-org-en", "claude-org") /\ MG!CanRename("claude-org-en", "claude-org")
      BY <1>6, StepFields
    <3>2. "claude-org-en" \in MG!Names /\ "claude-org" \in MG!Names /\ "claude-org-en" # "claude-org"
      BY DEF MG!Names
    <3> QED BY <3>1, <3>2, RenameTop DEF MG!CanRename, MG!Free, MG!Target
  <2>2. /\ at'["claude-org"] = at["claude-org-en"] /\ at'["claude-org-en"] = MG!None
        /\ \A n \in MG!Names \ {"claude-org-en", "claude-org"} : at'[n] = at[n]
    BY <2>1 DEF MG!TypeOK, MG!Names
  <2>3. SwapAside(MG!Tree) /\ gitAt = "claude-org-ja-tmp"
    BY <1>1, <1>2, <1>6 DEF AheadInv, Restorable
  <2>4. Made(MG!Tree', "claude-org-en")
    <3>1. /\ MG!Tree'.at["claude-org"] = MG!Tree.at["claude-org-en"] /\ MG!Tree'.at["claude-org-en"] = MG!None
          /\ MG!Tree'.at["claude-org-ja-tmp"] = MG!Tree.at["claude-org-ja-tmp"]
          /\ MG!Tree'.at["claude-org-ja"] = MG!Tree.at["claude-org-ja"]
          /\ MG!Tree'.link["claude-org"] = MG!None /\ MG!Tree'.gitAt = "claude-org-ja-tmp"
      BY <2>1, <2>2, <2>3, TreeNow, TreeThen DEF MG!Names
    <3> QED BY <2>3, <3>1 DEF Made, SwapAside, SwapAcross, SwapAt, SwapNames
  <2>5. SameElsewhere(MG!Tree, MG!Tree', "claude-org-en")
    BY <2>1, <2>2, TreeNow, TreeThen DEF SameElsewhere, SameCcmux, SameRun, SwapNames, MG!Names
  <2>6. link["claude-org-en"] = MG!None /\ at["claude-org-en"] # "ja content"
    BY <1>3 DEF TreeInv
  <2> QED BY <1>6, <2>1, <2>2, <2>4, <2>5, <2>6, StepFields, StepsDiffer DEF MG!Names
<1>7. CASE MG!Op = MG!Into
  <2>1. /\ at["claude-org-ja-tmp"] # MG!None /\ at["claude-org-ja"] = MG!None
        /\ at' = [at EXCEPT !["claude-org-ja"] = at["claude-org-ja-tmp"], !["claude-org-ja-tmp"] = MG!None] /\ runIn' = runIn
    <3>1. MG!Rename("claude-org-ja-tmp", "claude-org-ja") /\ MG!CanRename("claude-org-ja-tmp", "claude-org-ja")
      BY <1>7, StepFields
    <3>2. "claude-org-ja-tmp" \in MG!Names /\ "claude-org-ja" \in MG!Names /\ "claude-org-ja-tmp" # "claude-org-ja"
      BY DEF MG!Names
    <3> QED BY <3>1, <3>2, RenameTop DEF MG!CanRename, MG!Free, MG!Target
  <2>2. /\ at'["claude-org-ja"] = at["claude-org-ja-tmp"] /\ at'["claude-org-ja-tmp"] = MG!None
        /\ \A n \in MG!Names \ {"claude-org-ja-tmp", "claude-org-ja"} : at'[n] = at[n]
    BY <2>1 DEF MG!TypeOK, MG!Names
  <2>3. SwapAcross(MG!Tree)
    BY <1>1, <1>2, <1>7 DEF AheadInv, Restorable
  <2>4. Made(MG!Tree', "claude-org-ja-tmp")
    <3>1. at["claude-org-ja-tmp"] = "ja content"
      BY <1>3, <2>3, TreeNow DEF SwapAcross, SwapAt, Shown
    <3> QED BY <1>3, <2>2, <2>3, <3>1, TreeNow, TreeThen DEF Made, SwapAcross, SwapInto, SwapAt, Shown, MG!Names
  <2>5. SameElsewhere(MG!Tree, MG!Tree', "claude-org-ja-tmp")
    BY <2>1, <2>2, TreeNow, TreeThen DEF SameElsewhere, SameCcmux, SameRun, SwapNames, MG!Names
  <2>6. link["claude-org-ja-tmp"] = MG!None
    BY DEF TreeInv
  <2>7. runIn = MG!None
    BY <2>1 DEF RunInv, Restorable
  <2> QED BY <1>7, <2>1, <2>2, <2>4, <2>5, <2>6, <2>7, StepFields, StepsDiffer DEF MG!Names
<1>8. CASE MG!Op = MG!Run
  <2>1. /\ at["r"] # MG!None /\ runIn = MG!None /\ at["claude-org-ja"] \in runsIn
        /\ at' = [at EXCEPT !["r"] = MG!None] /\ runIn' = at["claude-org-ja"]
    <3>1. MG!Rename("r", MG!Target) /\ MG!CanRename("r", MG!Target)
      BY <1>8, StepFields
    <3> QED BY <3>1, RenameRun, Plainly DEF MG!CanRename, MG!Free, MG!Target
  <2>2. at'["r"] = MG!None /\ \A n \in MG!Names \ {"r"} : at'[n] = at[n]
    BY <2>1 DEF MG!TypeOK, MG!Names
  <2>3. RunFlat(MG!Tree) /\ at["claude-org-ja"] # MG!None
    BY <1>1, <1>2, <1>3, <1>8, <2>1 DEF AheadInv, Restorable, TreeInv
  <2>4. Made(MG!Tree', "r")
    BY <2>1, <2>2, <2>3, TreeThen DEF Made, RunMoved
  <2>5. SameElsewhere(MG!Tree, MG!Tree', "r")
    BY <2>1, <2>2, TreeNow, TreeThen DEF SameElsewhere, SameCcmux, SameSwap, SwapAt, SwapNames, MG!Names
  <2>6. link["r"] = MG!None
    BY <2>3, TreeNow DEF RunFlat
  <2> QED BY <1>8, <2>1, <2>2, <2>4, <2>5, <2>6, StepFields, StepsDiffer DEF MG!Names
<1> QED BY <1>1, <1>4, <1>5, <1>6, <1>7, <1>8 DEF MG!Steps

(* What fits before a rename fits with it.                                 *)
LEMMA MatchedEntry ==
    ASSUME MGInv, RecordInv, moving \in {"rename", "repair", "link", "record"}
    PROVE  /\ Listed(manifest[job.of]) /\ job.k \in DOMAIN manifest[job.of] /\ Begun = job.k /\ Applying
           /\ manifest[job.of][job.k].src = MG!Op.src
<1>1. /\ job.k \in DOMAIN job.ops /\ job.k \in Nat /\ job.k >= 1 /\ MG!Op = job.ops[job.k]
      /\ job.of \in DOMAIN manifest /\ Applying
  BY OpTypes DEF Applying
<1>2. Begun = job.k /\ Listed(manifest[job.of]) /\ Len(manifest[job.of]) = job.k
  BY <1>1 DEF Begun, RecordInv, ListsInv, MatchInv
<1>3. job.k \in DOMAIN manifest[job.of]
  BY <1>1, <1>2 DEF Listed
<1>4. manifest[job.of][job.k].src = MG!Op.src
  BY <1>1, <1>2 DEF RecordInv, MatchInv
<1> QED BY <1>1, <1>2, <1>3, <1>4

LEMMA MoveRestore ==
    ASSUME MGInv, RecordInv, Restorable, MGInv', RecordInv', MG!Move
    PROVE  Restorable'
<1>1. moving = "rename" /\ UNCHANGED <<link, gitAt, manifest, before, undone>>
  BY DEF MG!Move, MG!history
<1>2. /\ WhenceInv' /\ ChainInv'
      /\ \A i : (Newest(i))' <=> Newest(i)
  BY <1>1, PastKept DEF Restorable
<1>3. CASE ~MG!CanRename(MG!Op.src, MG!Op.dst)
  <2>1. moving' = "idle" /\ UNCHANGED <<at, runIn>>
    BY <1>3 DEF MG!Move
  <2>2. MG!Tree' = MG!Tree
    BY <1>1, <2>1, TreeKept
  <2>3. Newest(job.of) /\ FitsAll(job.of, MG!Tree)
    BY <1>1, MatchedEntry DEF ApplyInv, Restorable, RecordInv, MatchInv, FitsAll
  <2>4. IdleInv'
    <3> SUFFICES ASSUME NEW i \in DOMAIN manifest, (Newest(i))' PROVE (FitsAll(i, MG!Tree))'
      BY <1>1 DEF IdleInv
    <3>1. i = job.of
      BY <1>2, <2>3, OneNewest DEF MGInv
    <3> QED BY <1>1, <2>2, <2>3, <3>1 DEF FitsAll
  <2> QED BY <1>1, <1>2, <2>1, <2>4, PlacesKept, JustIdle DEF Restorable
<1>4. CASE MG!CanRename(MG!Op.src, MG!Op.dst)
  <2>1. MG!Rename(MG!Op.src, MG!Op.dst) /\ moving' = "repair" /\ job' = job /\ MG!Op' = MG!Op
    BY <1>4 DEF MG!Move, MG!Op
  <2>2. /\ SameElsewhere(MG!Tree, MG!Tree', MG!Op.src) /\ Made(MG!Tree', MG!Op.src)
        /\ link[MG!Op.src] = MG!None
        /\ MG!Op # MG!Run => runIn' = runIn
        /\ MG!Op \in {MG!Ccmux, MG!Aside, MG!Across, MG!Run} => at'["claude-org-ja"] = at["claude-org-ja"]
        /\ MG!Op = MG!Run => runIn' = at["claude-org-ja"]
        /\ MG!Op = MG!Into => runIn = MG!None
        /\ at'["claude-org"] = at["claude-org"] \/ at'["claude-org"] # "ja content"
    BY <1>1, <1>4, <2>1, RenameTree
  <2>3. /\ job.k \in DOMAIN job.ops /\ MG!Op \in MG!Steps /\ MG!Op # MG!Parent /\ Applying /\ Applying'
    BY <1>1, <2>1, OpTypes DEF Applying, JobInv, MGInv
  <2>4. RunInv' /\ GitInv'
    <3>1. RunInv'
      BY <2>2, <2>3 DEF RunInv, Restorable, MG!Steps
    <3>2. GitInv'
      BY <1>1, <2>1, <2>2 DEF GitInv, Restorable
    <3> QED BY <3>1, <3>2
  <2>5. \A step : Pending(step)' <=> Pending(step) /\ step # MG!Op
    <3>1. moving = "rename" /\ moving' = "repair" /\ job.k \in Nat /\ DOMAIN job.ops = 1 .. Len(job.ops)
      BY <1>1, <2>1, Positions DEF JobInv, MG!TypeOK, MGInv
    <3>2. \A i \in DOMAIN job.ops : i >= job.k <=> i > job.k \/ i = job.k
      BY <3>1
    <3>3. /\ Left = {i \in DOMAIN job.ops : i >= job.k} /\ Left' = {i \in DOMAIN job.ops : i > job.k}
      BY <2>1, <3>1, <3>2 DEF Left
    <3> QED BY <2>1, <2>3, <3>3, StepDone DEF MGInv
  <2>6. AheadInv'
    <3>1. /\ Pending(MG!Op)
          /\ MG!Op = MG!Across => ~Pending(MG!Aside)
          /\ MG!Op = MG!Into => ~Pending(MG!Across) /\ ~Pending(MG!Aside)
          /\ Pending(MG!Aside) => Pending(MG!Across)
          /\ Pending(MG!Across) => Pending(MG!Into)
      BY <1>1, <2>3, Order DEF MGInv
    <3>2. \A j \in DOMAIN job'.ops : Ready(before'[job'.of], job'.ops[j].src)
      BY <1>1, <2>1, <2>3 DEF AheadInv, Restorable
    <3>3. (Pending(MG!Ccmux))' => CcmuxFlat(MG!Tree')
      <4> SUFFICES ASSUME Pending(MG!Ccmux), MG!Op # MG!Ccmux PROVE CcmuxFlat(MG!Tree')
        BY <2>5
      <4>1. MG!Op.src # "ccmux"
        BY <2>3, StepSources
      <4> QED BY <2>2, <2>3, <4>1 DEF AheadInv, Restorable, SameElsewhere, SameCcmux, CcmuxFlat
    <3>4. (Pending(MG!Run))' => RunFlat(MG!Tree')
      <4> SUFFICES ASSUME Pending(MG!Run), MG!Op # MG!Run PROVE RunFlat(MG!Tree')
        BY <2>5
      <4>1. MG!Op.src # "r"
        BY <2>3, StepSources
      <4> QED BY <2>2, <2>3, <4>1 DEF AheadInv, Restorable, SameElsewhere, SameRun, RunFlat
    <3>5. MG!Op \notin {MG!Aside, MG!Across, MG!Into} => SameSwap(MG!Tree', MG!Tree)
      BY <2>2, <2>3, StepSources DEF SameElsewhere, SwapNames
    <3>6. (Pending(MG!Aside))' => SwapFlat(MG!Tree')
      <4> SUFFICES ASSUME Pending(MG!Aside), MG!Op # MG!Aside PROVE SwapFlat(MG!Tree')
        BY <2>5
      <4> QED BY <2>3, <3>1, <3>5 DEF AheadInv, Restorable, SameSwap, SwapAt, SwapFlat
    <3>7. (Pending(MG!Across))' /\ ~(Pending(MG!Aside))' =>
              SwapAside(MG!Tree') /\ (MG!Op = MG!Aside \/ gitAt' = "claude-org-ja-tmp")
      <4> SUFFICES ASSUME Pending(MG!Across), MG!Op # MG!Across, MG!Op = MG!Aside \/ ~Pending(MG!Aside)
                   PROVE  SwapAside(MG!Tree') /\ (MG!Op = MG!Aside \/ gitAt' = "claude-org-ja-tmp")
        BY <2>5
      <4>1. CASE MG!Op = MG!Aside
        BY <2>2, <4>1, StepFields DEF Made
      <4>2. CASE MG!Op # MG!Aside
        <5>1. SwapAside(MG!Tree) /\ gitAt = "claude-org-ja-tmp"
          BY <1>1, <2>3, <4>2 DEF AheadInv, Restorable
        <5> QED BY <1>1, <3>1, <3>5, <4>2, <5>1 DEF SameSwap, SwapAt, SwapAside
      <4> QED BY <4>1, <4>2
    <3>8. (Pending(MG!Into))' /\ ~(Pending(MG!Across))' => SwapAcross(MG!Tree')
      <4> SUFFICES ASSUME Pending(MG!Into), MG!Op # MG!Into, MG!Op = MG!Across \/ ~Pending(MG!Across)
                   PROVE  SwapAcross(MG!Tree')
        BY <2>5
      <4>1. CASE MG!Op = MG!Across
        BY <2>2, <4>1, StepFields DEF Made
      <4>2. CASE MG!Op # MG!Across
        <5>1. SwapAcross(MG!Tree) /\ MG!Op # MG!Aside
          BY <2>3, <3>1, <4>2 DEF AheadInv, Restorable
        <5> QED BY <3>5, <4>2, <5>1 DEF SameSwap, SwapAt, SwapAcross
      <4> QED BY <4>1, <4>2
    <3> QED BY <2>1, <3>2, <3>3, <3>4, <3>6, <3>7, <3>8 DEF AheadInv
  <2>7. MadeInv'
    BY <1>1, <2>1, <2>2 DEF MadeInv
  <2>8. ApplyInv'
    <3> DEFINE e == manifest[job.of]
    <3>1. Listed(e) /\ job.k \in DOMAIN e /\ Begun = job.k /\ e[job.k].src = MG!Op.src
      BY <1>1, MatchedEntry
    <3>2. Fits(e, before[job.of], job.k, MG!Tree) /\ Newest(job.of)
      BY <1>1, <2>3, <3>1 DEF ApplyInv, Restorable
    <3>3. Undoable(e, job.k, MG!Tree', MG!Op.src)
      BY <1>1, <2>2, TreeThen DEF Undoable, MGInv
    <3> HIDE DEF e
    <3>4. Fits(e, before[job.of], job.k, MG!Tree')
      BY <2>2, <3>1, <3>2, <3>3, FitsForth
    <3>5. Begun' = job.k
      BY <2>1 DEF Begun
    <3> QED BY <1>1, <1>2, <2>1, <3>2, <3>4, <3>5 DEF ApplyInv, e
  <2> QED BY <1>2, <2>3, <2>4, <2>6, <2>7, <2>8, JustApplying DEF Restorable
<1> QED BY <1>3, <1>4

(* The gitlinks after a repair.                                            *)
LEMMA RepairRestore ==
    ASSUME MGInv, RecordInv, Restorable, MGInv', RecordInv', MG!Repair
    PROVE  Restorable'
<1>1. /\ moving = "repair" /\ moving' = "link" /\ gitAt' = MG!Repaired(MG!Op.op, MG!Op.dst)
      /\ UNCHANGED <<at, link, runIn, manifest, job, before, undone>>
  BY DEF MG!Repair, MG!history
<1>2. MG!Op \in MG!Steps /\ MG!Op # MG!Parent /\ Applying /\ Applying' /\ MG!Op' = MG!Op
  BY <1>1, LinkingStep DEF Applying, MG!Op
<1>3. MG!None # "ja content" /\ MG!None # "made"
  BY DEF MG!None
<1>4. Made(MG!Tree, MG!Op.src) /\ link[MG!Op.src] = MG!None
  BY <1>1 DEF MadeInv, Restorable
<1>5. /\ MG!Op \in {MG!Ccmux, MG!Across, MG!Run} => gitAt' = gitAt
      /\ MG!Op = MG!Aside => gitAt' = "claude-org-ja-tmp"
      /\ MG!Op = MG!Into => gitAt' = "claude-org-ja"
  <2>1. CASE MG!Op = MG!Ccmux
    <3>1. at["renga"] # "ja content"
      BY <1>3 DEF MGInv, TreeInv
    <3> QED BY <1>1, <2>1, <3>1, StepFields, StepsDiffer DEF MG!Repaired
  <2>2. CASE MG!Op = MG!Across
    <3>1. at["claude-org"] = "en content"
      BY <1>4, <2>2, StepFields, TreeNow DEF Made, SwapAcross, SwapAt, MGInv
    <3> QED BY <1>1, <2>2, <3>1, StepFields, StepsDiffer DEF MG!Repaired
  <2>3. CASE MG!Op = MG!Run
    BY <1>1, <2>3, StepFields, StepsDiffer DEF MG!Repaired
  <2>4. CASE MG!Op = MG!Aside
    <3>1. at["claude-org-ja-tmp"] = "ja content"
      BY <1>3, <1>4, <2>4, StepFields, TreeNow DEF Made, SwapAside, SwapAt, MGInv, Shown
    <3> QED BY <1>1, <2>4, <3>1, StepFields, StepsDiffer DEF MG!Repaired
  <2>5. CASE MG!Op = MG!Into
    <3>1. at["claude-org-ja"] = "ja content"
      BY <1>3, <1>4, <2>5, StepFields, TreeNow DEF Made, SwapInto, SwapAt, MGInv, Shown
    <3> QED BY <1>1, <2>5, <3>1, StepFields, StepsDiffer DEF MG!Repaired
  <2> QED BY <1>2, <2>1, <2>2, <2>3, <2>4, <2>5 DEF MG!Steps
<1>6. MG!Tree'.at = MG!Tree.at /\ MG!Tree'.link = MG!Tree.link /\ MG!Tree'.runIn = MG!Tree.runIn
  BY <1>1, TreeIs DEF TreeOf
<1>7. /\ SameElsewhere(MG!Tree, MG!Tree', MG!Op.src) /\ Made(MG!Tree', MG!Op.src)
      /\ MG!Tree'.gitAt = gitAt' /\ MG!Tree.gitAt = gitAt
  <2>1. MG!Tree'.gitAt = gitAt' /\ MG!Tree.gitAt = gitAt
    BY TreeNow, TreeThen DEF MGInv
  <2>2. MG!Op.src \notin SwapNames => gitAt' = gitAt
    BY <1>2, <1>5, StepFields DEF SwapNames, MG!Steps
  <2>3. SameElsewhere(MG!Tree, MG!Tree', MG!Op.src)
    BY <1>6, <2>1, <2>2 DEF SameElsewhere, SameCcmux, SameSwap, SwapAt, SameRun
  <2>4. Made(MG!Tree', MG!Op.src)
    <3>1. CASE MG!Op \in {MG!Ccmux, MG!Across, MG!Run}
      BY <1>4, <1>5, <1>6, <2>1, <3>1 DEF Made, CcmuxMoved, SwapAside, SwapAcross, SwapInto, SwapAt, RunMoved
    <3>2. CASE MG!Op = MG!Aside
      BY <1>4, <1>5, <1>6, <2>1, <3>2, StepFields DEF Made, SwapAside, SwapAt
    <3>3. CASE MG!Op = MG!Into
      BY <1>4, <1>5, <1>6, <2>1, <3>3, StepFields DEF Made, SwapInto, SwapAt
    <3> QED BY <1>2, <3>1, <3>2, <3>3 DEF MG!Steps
  <2> QED BY <2>1, <2>3, <2>4
<1>8. /\ WhenceInv' /\ ChainInv' /\ ((Newest(job.of))' <=> Newest(job.of))
  BY <1>1, PastKept DEF Restorable
<1>9. RunInv' /\ GitInv'
  <2>1. at["claude-org"] = "ja content" => gitAt' = gitAt
    <3>1. CASE MG!Op \in {MG!Ccmux, MG!Across, MG!Run}
      BY <1>5, <3>1
    <3>2. CASE MG!Op = MG!Aside
      BY <1>3, <1>4, <3>2, StepFields, TreeNow DEF Made, SwapAside, SwapAt, MGInv
    <3>3. CASE MG!Op = MG!Into
      BY <1>3, <1>4, <3>3, StepFields, TreeNow DEF Made, SwapInto, SwapAt, MGInv
    <3> QED BY <1>2, <3>1, <3>2, <3>3 DEF MG!Steps
  <2> QED BY <1>1, <2>1 DEF RunInv, GitInv, Restorable
<1>10. AheadInv'
  <2>1. \A step : Pending(step)' <=> Pending(step)
    <3>1. Left' = Left
      BY <1>1 DEF Left
    <3> QED BY <1>1, <3>1 DEF Pending
  <2>2. /\ ~Pending(MG!Op)
        /\ MG!Op = MG!Aside => Pending(MG!Across) /\ Pending(MG!Into)
        /\ Pending(MG!Aside) => Pending(MG!Across)
        /\ Pending(MG!Across) => Pending(MG!Into)
    BY <1>1, OrderAfter
  <2>3. \A j \in DOMAIN job'.ops : Ready(before'[job'.of], job'.ops[j].src)
    BY <1>1, <1>2 DEF AheadInv, Restorable
  <2>4. /\ (Pending(MG!Ccmux))' => CcmuxFlat(MG!Tree')
        /\ (Pending(MG!Run))' => RunFlat(MG!Tree')
    BY <1>2, <1>6, <2>1 DEF AheadInv, Restorable, CcmuxFlat, RunFlat
  <2>5. (Pending(MG!Aside))' => SwapFlat(MG!Tree')
    <3> SUFFICES ASSUME Pending(MG!Aside) PROVE SwapFlat(MG!Tree')
      BY <2>1
    <3>1. MG!Op \notin {MG!Aside, MG!Into} /\ SwapFlat(MG!Tree)
      BY <1>2, <2>2 DEF AheadInv, Restorable
    <3>2. gitAt' = gitAt
      BY <1>2, <1>5, <3>1 DEF MG!Steps
    <3> QED BY <1>6, <1>7, <3>1, <3>2 DEF SwapFlat, SwapAt
  <2>6. (Pending(MG!Across))' /\ ~(Pending(MG!Aside))' => SwapAside(MG!Tree') /\ gitAt' = "claude-org-ja-tmp"
    <3> SUFFICES ASSUME Pending(MG!Across), ~Pending(MG!Aside)
                 PROVE  SwapAside(MG!Tree') /\ gitAt' = "claude-org-ja-tmp"
      BY <2>1
    <3>1. /\ MG!Op \notin {MG!Across, MG!Into} /\ SwapAside(MG!Tree)
          /\ MG!Op = MG!Aside \/ gitAt = "claude-org-ja-tmp"
      BY <1>2, <2>2 DEF AheadInv, Restorable
    <3>2. gitAt' = "claude-org-ja-tmp"
      BY <1>2, <1>5, <3>1 DEF MG!Steps
    <3> QED BY <1>6, <1>7, <3>1, <3>2 DEF SwapAside, SwapAt
  <2>7. (Pending(MG!Into))' /\ ~(Pending(MG!Across))' => SwapAcross(MG!Tree')
    <3> SUFFICES ASSUME Pending(MG!Into), ~Pending(MG!Across) PROVE SwapAcross(MG!Tree')
      BY <2>1
    <3>1. MG!Op \notin {MG!Aside, MG!Into} /\ SwapAcross(MG!Tree)
      BY <1>2, <2>2 DEF AheadInv, Restorable
    <3>2. gitAt' = gitAt
      BY <1>2, <1>5, <3>1 DEF MG!Steps
    <3> QED BY <1>6, <1>7, <3>1, <3>2 DEF SwapAcross, SwapAt
  <2> QED BY <1>1, <2>3, <2>4, <2>5, <2>6, <2>7 DEF AheadInv
<1>11. MadeInv'
  BY <1>1, <1>2, <1>4, <1>7 DEF MadeInv
<1>12. ApplyInv'
  <2> DEFINE e == manifest[job.of]
  <2>1. Listed(e) /\ job.k \in DOMAIN e /\ Begun = job.k /\ Begun' = job.k /\ e[job.k].src = MG!Op.src
    BY <1>1, MatchedEntry DEF Begun
  <2>2. Fits(e, before[job.of], job.k, MG!Tree) /\ Newest(job.of)
    BY <1>1, <1>2, <2>1 DEF ApplyInv, Restorable
  <2>3. Undoable(e, job.k, MG!Tree', MG!Op.src)
    BY <1>1, <1>4, TreeThen DEF Undoable, MGInv
  <2> HIDE DEF e
  <2>4. Fits(e, before[job.of], job.k, MG!Tree')
    BY <1>7, <2>1, <2>2, <2>3, FitsForth
  <2> QED BY <1>1, <1>8, <2>1, <2>2, <2>4 DEF ApplyInv, e
<1> QED BY <1>2, <1>8, <1>9, <1>10, <1>11, <1>12, JustApplying DEF Restorable

LEMMA LinkBackRestore ==
    ASSUME MGInv, RecordInv, Restorable, MGInv', RecordInv', MG!LinkBack
    PROVE  Restorable'
<1>1. /\ moving = "link" /\ moving' = "record"
      /\ link' = IF job.keep THEN [link EXCEPT ![MG!Op.src] = MG!Op.dst] ELSE link
      /\ UNCHANGED <<at, runIn, gitAt, manifest, job, before, undone>>
  BY DEF MG!LinkBack, MG!history
<1>2. MG!Op \in MG!Steps /\ MG!Op # MG!Parent /\ Applying /\ Applying' /\ MG!Op' = MG!Op /\ job.keep \in BOOLEAN
  BY <1>1, LinkingStep DEF Applying, MG!Op
<1>3. Made(MG!Tree, MG!Op.src) /\ link[MG!Op.src] = MG!None
  BY <1>1 DEF MadeInv, Restorable
<1>4. /\ MG!Op.src \in MG!Names /\ link \in [MG!Names -> MG!Names \cup {MG!Target, MG!None}]
  BY <1>2, StepFields DEF MG!Steps, MG!Names, MGInv, MG!TypeOK
<1>5. /\ MG!Tree'.at = MG!Tree.at /\ MG!Tree'.runIn = MG!Tree.runIn /\ MG!Tree'.gitAt = MG!Tree.gitAt
      /\ \A n \in MG!Names : n # MG!Op.src => MG!Tree'.link[n] = MG!Tree.link[n]
      /\ ~job.keep => link' = link
  BY <1>1, <1>2, <1>4, TreeIs DEF TreeOf
<1>6. /\ WhenceInv' /\ ChainInv' /\ ((Newest(job.of))' <=> Newest(job.of))
  BY <1>1, PastKept DEF Restorable
<1>7. RunInv' /\ GitInv'
  BY <1>1, PlacesKept DEF Restorable
<1>8. Made(MG!Tree', MG!Op.src)
  <2>1. CASE job.keep
    <3>1. MG!Op.src \in {"ccmux", "claude-org", "r"}
      BY <1>1, <2>1, LinkingStep, StepFields
    <3> QED BY <1>3, <1>5, <3>1 DEF Made, CcmuxMoved, SwapAside, SwapAt, RunMoved
  <2>2. CASE ~job.keep
    BY <1>1, <1>3, <1>5, <2>2, TreeKept
  <2> QED BY <1>2, <2>1, <2>2
<1>9. MadeInv'
  BY <1>1, <1>2, <1>3, <1>8 DEF MadeInv
<1>10. Unlinked' = MG!Tree
  <2>1. [link' EXCEPT ![MG!Op.src] = MG!None] = link
    BY <1>1, <1>2, <1>3, <1>4
  <2> QED BY <1>1, <1>2, <2>1, TreeIs DEF Unlinked
<1>11. ApplyInv'
  <2>1. Begun' = Begun
    BY <1>1 DEF Begun
  <2> QED BY <1>1, <1>2, <1>6, <1>10, <2>1 DEF ApplyInv, Restorable
<1>12. AheadInv'
  <2>1. \A step : Pending(step)' <=> Pending(step)
    <3>1. Left' = Left
      BY <1>1 DEF Left
    <3> QED BY <1>1, <3>1 DEF Pending
  <2>2. /\ ~Pending(MG!Op)
        /\ MG!Op = MG!Aside => Pending(MG!Across)
    BY <1>1, OrderAfter
  <2>3. \A j \in DOMAIN job'.ops : Ready(before'[job'.of], job'.ops[j].src)
    BY <1>1, <1>2 DEF AheadInv, Restorable
  <2>4. /\ MG!Op # MG!Ccmux => MG!Tree'.link["ccmux"] = MG!Tree.link["ccmux"]
        /\ MG!Op # MG!Aside => MG!Tree'.link["claude-org"] = MG!Tree.link["claude-org"]
        /\ MG!Op # MG!Run => MG!Tree'.link["r"] = MG!Tree.link["r"]
    BY <1>2, <1>5, StepSources DEF MG!Names
  <2>5. /\ (Pending(MG!Ccmux))' => CcmuxFlat(MG!Tree')
        /\ (Pending(MG!Run))' => RunFlat(MG!Tree')
    BY <1>2, <1>5, <2>1, <2>2, <2>4 DEF AheadInv, Restorable, CcmuxFlat, RunFlat
  <2>6. (Pending(MG!Aside))' => SwapFlat(MG!Tree')
    BY <1>2, <1>5, <2>1, <2>2, <2>4 DEF AheadInv, Restorable, SwapFlat, SwapAt
  <2>7. (Pending(MG!Across))' /\ ~(Pending(MG!Aside))' => SwapAside(MG!Tree') /\ gitAt' = "claude-org-ja-tmp"
    BY <1>1, <1>2, <1>5, <2>1 DEF AheadInv, Restorable, SwapAside, SwapAt
  <2>8. (Pending(MG!Into))' /\ ~(Pending(MG!Across))' => SwapAcross(MG!Tree')
    BY <1>2, <1>5, <2>1, <2>2, <2>4 DEF AheadInv, Restorable, SwapAcross, SwapAt
  <2> QED BY <1>1, <2>3, <2>5, <2>6, <2>7, <2>8 DEF AheadInv
<1> QED BY <1>2, <1>6, <1>7, <1>9, <1>11, <1>12, JustApplying DEF Restorable
-----------------------------------------------------------------------------
(* The steps of a rollback                                                 *)

LEMMA RollbackRestore ==
    ASSUME MGInv, RecordInv, Restorable, NEW i \in DOMAIN manifest, MG!Rollback(i), inOrder'
    PROVE  Restorable'
<1>1. /\ moving = "idle" /\ moving' = "undo" /\ job' = [MG!NoJob EXCEPT !.of = i, !.k = Len(manifest[i])]
      /\ inOrder' = (inOrder /\ i \notin undone /\ \A j \in DOMAIN manifest : j > i => j \in undone)
      /\ UNCHANGED <<at, link, runIn, gitAt, manifest, before, undone>>
  BY DEF MG!Rollback, MG!disk
<1>2. Newest(i)
  BY <1>1 DEF Newest
<1>3. job'.of = i /\ job'.k = Len(manifest[i])
  BY <1>1 DEF MG!NoJob
<1>4. MG!Tree' = MG!Tree
  BY <1>1, TreeKept
<1>5. FitsAll(i, MG!Tree)
  BY <1>1, <1>2 DEF IdleInv, Restorable
<1>6. WhenceInv' /\ ChainInv' /\ ((Newest(i))' <=> Newest(i))
  BY <1>1, PastKept DEF Restorable
<1>7. UndoInv' /\ IdleInv'
  <2>1. (Newest(job.of))'
    BY <1>2, <1>3, <1>1 DEF Newest
  <2>2. (Fits(manifest[job.of], before[job.of], job.k, MG!Tree))'
    BY <1>1, <1>3, <1>4, <1>5 DEF FitsAll
  <2> QED BY <1>1, <2>1, <2>2 DEF UndoInv, IdleInv
<1>8. RunInv' /\ GitInv'
  BY <1>1, PlacesKept DEF Restorable
<1> QED BY <1>1, <1>6, <1>7, <1>8, NotApplying DEF Restorable, Applying

(* The entry at hand.                                                      *)
LEMMA UndoEntry ==
    ASSUME MGInv, RecordInv, WhenceInv, moving \in {"undo", "back", "repair back"}, job.k # 0
    PROVE  /\ Listed(manifest[job.of]) /\ Whence(manifest[job.of], before[job.of])
           /\ job.k \in DOMAIN manifest[job.of] /\ MG!Entry = manifest[job.of][job.k]
           /\ MG!Entry \in MG!Entries
<1>1. /\ job.of \in DOMAIN manifest /\ manifest[job.of] \in Seq(MG!Entries) /\ Len(manifest[job.of]) \in Nat
      /\ job.k \in 0 .. Len(manifest[job.of])
  BY JobTypes DEF MGInv
<1>2. job.k \in 1 .. Len(manifest[job.of])
  BY <1>1, Downwards
<1>3. Listed(manifest[job.of]) /\ Whence(manifest[job.of], before[job.of])
  BY <1>1 DEF RecordInv, ListsInv, WhenceInv
<1>4. job.k \in DOMAIN manifest[job.of]
  <2>1. DOMAIN manifest[job.of] = 1 .. Len(manifest[job.of])
    BY <1>1, LenProperties
  <2> QED BY <1>2, <2>1
<1>5. MG!Entry = manifest[job.of][job.k]
  BY DEF MG!Entry
<1> QED BY <1>3, <1>4, <1>5, OneEntry

(* A manifest that fits a tree after some of it was undone fits it.        *)
LEMMA FitsWhole ==
    ASSUME MGInv, RecordInv, WhenceInv, moving \in {"undo", "back"}, NEW t,
           Fits(manifest[job.of], before[job.of], job.k, t)
    PROVE  FitsAll(job.of, t)
<1>1. /\ job.of \in DOMAIN manifest /\ manifest[job.of] \in Seq(MG!Entries) /\ Len(manifest[job.of]) \in Nat
      /\ job.k \in 0 .. Len(manifest[job.of])
  BY JobTypes DEF MGInv
<1>2. \A j \in 1 .. Len(manifest[job.of]) : Ready(before[job.of], manifest[job.of][j].src)
  <2>1. DOMAIN manifest[job.of] = 1 .. Len(manifest[job.of])
    BY <1>1
  <2> QED BY <1>1, <2>1 DEF WhenceInv, Whence
<1>3. job.k \in Nat /\ job.k <= Len(manifest[job.of])
  BY <1>1
<1>4. /\ Continues(manifest[job.of], manifest[job.of], job.k)
      /\ AllReady(before[job.of], manifest[job.of], Len(manifest[job.of]))
  BY <1>2 DEF Continues, AllReady
<1> QED BY <1>1, <1>3, <1>4, FitsGrows DEF FitsAll

(* The command has ended, and the newest manifest fits.                    *)
LEMMA IdleAgain ==
    ASSUME MGInv, WhenceInv, ChainInv, UNCHANGED <<manifest, before, undone>>, Newest(job.of),
           FitsAll(job.of, MG!Tree), MG!Tree' = MG!Tree
    PROVE  IdleInv'
<1> SUFFICES ASSUME NEW i \in DOMAIN manifest, (Newest(i))' PROVE (FitsAll(i, MG!Tree))'
  BY DEF IdleInv
<1>1. i = job.of
  BY PastKept, OneNewest DEF MGInv
<1> QED BY <1>1 DEF FitsAll

(* A rename that has been made shows.                                      *)
LEMMA MadeShows ==
    ASSUME MGInv, RunInv, NEW e \in MG!Entries, e.src # "", Made(MG!Tree, e.src),
           e.src \in {"ccmux", "claude-org", "r"} => link[e.src] = MG!None
    PROVE  MG!Exists(e.dst) /\ ~MG!Exists(e.src)
<1>1. /\ e.src \in {"ccmux", "claude-org", "claude-org-en", "claude-org-ja-tmp", "r"}
      /\ e.src = "ccmux" => e.dst = "renga"
      /\ e.src = "claude-org" => e.dst = "claude-org-ja-tmp"
      /\ e.src = "claude-org-en" => e.dst = "claude-org"
      /\ e.src = "claude-org-ja-tmp" => e.dst = "claude-org-ja"
      /\ e.src = "r" => e.dst = MG!Target
  BY EntrySources
<1>2. MG!None # "ccmux content" /\ MG!None # "ja content" /\ MG!None # "run content" /\ MG!None # "made"
      /\ MG!None # "en content"
  BY DEF MG!None
<1>3. \A n \in {"ccmux", "claude-org", "r"} : link[n] = MG!None => (MG!Exists(n) <=> at[n] # MG!None)
  BY DEF MG!Exists, MG!Dir, MG!RunsDir, MG!Target, MG!None
<1>4. CASE e.src = "ccmux"
  BY <1>1, <1>2, <1>3, <1>4, TreeNow, Plainly DEF MGInv, Made, CcmuxMoved
<1>5. CASE e.src = "claude-org"
  <2>1. at["claude-org"] = MG!None /\ at["claude-org-ja-tmp"] # MG!None
    BY <1>2, <1>5, TreeNow DEF MGInv, Made, SwapAside, SwapAt, Shown
  <2> QED BY <1>1, <1>3, <1>5, <2>1, Plainly DEF MGInv
<1>6. CASE e.src = "claude-org-en"
  <2>1. at["claude-org"] # MG!None /\ at["claude-org-en"] = MG!None /\ link["claude-org"] = MG!None
    BY <1>2, <1>6, TreeNow DEF MGInv, Made, SwapAcross, SwapAt
  <2> QED BY <1>1, <1>3, <1>6, <2>1, Plainly DEF MGInv
<1>7. CASE e.src = "claude-org-ja-tmp"
  <2>1. at["claude-org"] = "en content" /\ Shown(at["claude-org-ja-tmp"]) = MG!None /\ Shown(at["claude-org-ja"]) = "ja content"
    BY <1>7, TreeNow DEF MGInv, Made, SwapInto, SwapAt
  <2>2. at["claude-org-ja-tmp"] = MG!None /\ at["claude-org-ja"] # MG!None
    BY <1>2, <2>1 DEF MGInv, TreeInv, Shown
  <2> QED BY <1>1, <1>7, <2>2, Plainly DEF MGInv
<1>8. CASE e.src = "r"
  <2>1. at["r"] = MG!None /\ runIn # MG!None /\ at["claude-org-ja"] = runIn
    BY <1>8, TreeNow DEF MGInv, Made, RunMoved, RunInv
  <2> QED BY <1>1, <1>3, <1>8, <2>1, Plainly DEF MGInv
<1> QED BY <1>1, <1>4, <1>5, <1>6, <1>7, <1>8

(* An entry that is not undone was not made.                               *)
LEMMA SkipRestore ==
    ASSUME MGInv, RecordInv, Restorable, MG!Skip
    PROVE  Restorable'
<1> DEFINE e == manifest[job.of]
           b == before[job.of]
<1>1. /\ moving = "undo" /\ moving' = "undo" /\ job.k # 0 /\ job' = [job EXCEPT !.k = @ - 1]
      /\ MG!Untouched(MG!Entry)
      /\ UNCHANGED <<at, link, runIn, gitAt, manifest, before, undone>>
  BY DEF MG!Skip, MG!disk, MG!history, MGInv, MG!TypeOK
<1>2. job'.of = job.of /\ job'.k = job.k - 1
  BY <1>1, JobTypes DEF MGInv
<1>3. /\ Listed(e) /\ Whence(e, b) /\ job.k \in DOMAIN e /\ MG!Entry = e[job.k] /\ MG!Entry \in MG!Entries
  BY <1>1, UndoEntry DEF Restorable
<1>4. Newest(job.of) /\ Fits(e, b, job.k, MG!Tree)
  BY <1>1 DEF UndoInv, Restorable
<1> HIDE DEF e, b
<1>5. Fits(e, b, job.k - 1, MG!Tree)
  <2> SUFFICES ASSUME /\ MG!Entry.src # "" /\ Made(MG!Tree, MG!Entry.src)
                      /\ MG!Entry.src \in {"ccmux", "claude-org", "r"} => Undoable(e, job.k, MG!Tree, MG!Entry.src)
               PROVE  FALSE
    BY <1>3, <1>4, LastEntry
  <2>1. MG!Entry.op # "ensure_dir"
    BY <1>3, EntrySources
  <2>2. MG!Entry.state = "in_progress" /\ ~(MG!Exists(MG!Entry.dst) /\ ~MG!Exists(MG!Entry.src))
    BY <1>1, <2>1 DEF MG!Untouched
  <2>3. ~LinkNoted(e, job.k, MG!Entry.src)
    BY <1>3, <2>2, OneEntry
  <2>4. MG!Entry.src \in {"ccmux", "claude-org", "r"} => link[MG!Entry.src] = MG!None
    BY <2>3, TreeNow DEF Undoable, MGInv
  <2> QED BY <1>3, <2>2, <2>4, MadeShows DEF Restorable
<1>6. WhenceInv' /\ ChainInv' /\ ((Newest(job.of))' <=> Newest(job.of))
  BY <1>1, PastKept DEF Restorable
<1>7. RunInv' /\ GitInv'
  BY <1>1, PlacesKept DEF Restorable
<1>8. UndoInv' /\ IdleInv'
  <2>1. (Newest(job.of))'
    BY <1>1, <1>2, <1>4 DEF Newest
  <2>2. (Fits(manifest[job.of], before[job.of], job.k, MG!Tree))'
    BY <1>1, <1>2, <1>5, TreeKept DEF e, b
  <2> QED BY <1>1, <2>1, <2>2 DEF UndoInv, IdleInv
<1> QED BY <1>1, <1>6, <1>7, <1>8, NotApplying DEF Restorable, Applying

(* The link is gone before the move.                                       *)
LEMMA UnlinkRestore ==
    ASSUME MGInv, RecordInv, Restorable, MG!Unlink
    PROVE  Restorable'
<1> DEFINE e == manifest[job.of]
           b == before[job.of]
           src == MG!Entry.src
<1>1. /\ moving = "undo" /\ moving' = "back" /\ job.k # 0 /\ ~MG!Untouched(MG!Entry)
      /\ link' = (IF MG!Entry.compat THEN [link EXCEPT ![MG!Entry.src] = MG!None] ELSE link)
      /\ UNCHANGED <<at, runIn, gitAt, manifest, job, before, undone>>
  BY DEF MG!Unlink, MG!history, MGInv, MG!TypeOK
<1>2. /\ Listed(e) /\ job.k \in DOMAIN e /\ MG!Entry = e[job.k] /\ MG!Entry \in MG!Entries
  BY <1>1, UndoEntry DEF Restorable
<1>3. Newest(job.of) /\ Fits(e, b, job.k, MG!Tree)
  BY <1>1 DEF UndoInv, Restorable
<1>4. src \in {"ccmux", "claude-org", "claude-org-en", "claude-org-ja-tmp", "r"}
  BY <1>1, <1>2, EntrySources DEF MG!Untouched
<1>5. /\ Noted(e, job.k, src)
      /\ src = "claude-org" => ~Noted(e, job.k, "claude-org-en") /\ ~Noted(e, job.k, "claude-org-ja-tmp")
      /\ LinkNoted(e, job.k, src) => MG!Entry.compat
  BY <1>2, SwapNoted, OneEntry
<1> HIDE DEF e, b, src
<1>6. /\ FitsCcmux(e, b, job.k, MG!Tree) /\ FitsSwap(e, b, job.k, MG!Tree) /\ FitsRun(e, b, job.k, MG!Tree)
  BY <1>3 DEF Fits
<1>7. link \in [MG!Names -> MG!Names \cup {MG!Target, MG!None}] /\ src \in MG!Names
  BY <1>4 DEF MGInv, MG!TypeOK, MG!Names
<1>8. /\ MG!Tree'.at = MG!Tree.at /\ MG!Tree'.runIn = MG!Tree.runIn /\ MG!Tree'.gitAt = MG!Tree.gitAt
      /\ MG!Tree'.link = link' /\ MG!Tree.link = link
  BY <1>1, TreeIs DEF TreeOf
<1>9. \A n \in MG!Names : n # src => link'[n] = link[n]
  BY <1>1, <1>7 DEF src
<1>10. link'[src] = MG!None
  <2>1. CASE MG!Entry.compat
    BY <1>1, <1>7, <2>1 DEF src
  <2>2. CASE ~MG!Entry.compat
    <3>1. link' = link /\ ~LinkNoted(e, job.k, src)
      BY <1>1, <1>5, <2>2
    <3>2. CASE src = "ccmux"
      BY <1>5, <1>6, <1>8, <3>1, <3>2 DEF FitsCcmux, CcmuxFlat, Undoable
    <3>3. CASE src = "claude-org"
      BY <1>5, <1>6, <1>8, <3>1, <3>3 DEF FitsSwap, SwapFlat, Undoable
    <3>4. CASE src = "r"
      BY <1>5, <1>6, <1>8, <3>1, <3>4 DEF FitsRun, RunFlat, Undoable
    <3>5. CASE src \in {"claude-org-en", "claude-org-ja-tmp"}
      BY <3>1, <3>5 DEF MGInv, TreeInv
    <3> QED BY <1>4, <3>2, <3>3, <3>4, <3>5
  <2> QED BY <2>1, <2>2
<1>11. Fits(e, b, job.k, MG!Tree')
  <2>1. FitsCcmux(e, b, job.k, MG!Tree')
    <3>1. CASE src = "ccmux"
      BY <1>5, <1>6, <1>8, <1>10, <3>1 DEF FitsCcmux, CcmuxFlat, CcmuxMoved, Undoable
    <3>2. CASE src # "ccmux"
      <4>1. SameCcmux(MG!Tree', MG!Tree)
        BY <1>8, <1>9, <3>2 DEF SameCcmux, MG!Names
      <4> QED BY <1>6, <4>1, SameFits
    <3> QED BY <3>1, <3>2
  <2>2. FitsRun(e, b, job.k, MG!Tree')
    <3>1. CASE src = "r"
      BY <1>5, <1>6, <1>8, <1>10, <3>1 DEF FitsRun, RunFlat, RunMoved, Undoable
    <3>2. CASE src # "r"
      <4>1. SameRun(MG!Tree', MG!Tree)
        BY <1>8, <1>9, <3>2 DEF SameRun, MG!Names
      <4> QED BY <1>6, <4>1, SameFits
    <3> QED BY <3>1, <3>2
  <2>3. FitsSwap(e, b, job.k, MG!Tree')
    <3>1. CASE src = "claude-org"
      <4>1. SwapFlat(MG!Tree) \/ SwapAside(MG!Tree)
        BY <1>5, <1>6, <3>1 DEF FitsSwap
      <4>2. SwapFlat(MG!Tree') \/ SwapAside(MG!Tree')
        BY <1>8, <1>10, <3>1, <4>1 DEF SwapFlat, SwapAside, SwapAt
      <4>3. Undoable(e, job.k, MG!Tree', "claude-org")
        BY <1>8, <1>10, <3>1 DEF Undoable
      <4> QED BY <1>5, <3>1, <4>2, <4>3 DEF FitsSwap
    <3>2. CASE src # "claude-org"
      <4>1. SameSwap(MG!Tree', MG!Tree)
        BY <1>8, <1>9, <3>2 DEF SameSwap, SwapAt, MG!Names
      <4> QED BY <1>6, <4>1, SameFits
    <3> QED BY <3>1, <3>2
  <2> QED BY <2>1, <2>2, <2>3 DEF Fits
<1>12. WhenceInv' /\ ChainInv' /\ ((Newest(job.of))' <=> Newest(job.of))
  BY <1>1, PastKept DEF Restorable
<1>13. RunInv' /\ GitInv'
  BY <1>1, PlacesKept DEF Restorable
<1>14. UndoInv' /\ IdleInv'
  <2>1. (Newest(job.of))' /\ MG!Entry' = MG!Entry
    BY <1>1, <1>3 DEF Newest, MG!Entry
  <2>2. (Fits(manifest[job.of], before[job.of], job.k, MG!Tree))'
    BY <1>1, <1>11 DEF e, b
  <2> QED BY <1>1, <1>10, <2>1, <2>2 DEF UndoInv, IdleInv, src
<1> QED BY <1>1, <1>12, <1>13, <1>14, NotApplying DEF Restorable, Applying

(* The tree that the repair of what was moved back will leave.             *)
LEMMA BackTree ==
    ASSUME TreeInv', UNCHANGED <<link, gitAt>>, MG!Entry' = MG!Entry
    PROVE  /\ RepairedBack'.at["ccmux"] = at'["ccmux"] /\ RepairedBack'.at["renga"] = at'["renga"]
           /\ RepairedBack'.at["claude-org"] = at'["claude-org"]
           /\ RepairedBack'.at["claude-org-en"] = at'["claude-org-en"]
           /\ RepairedBack'.at["claude-org-ja-tmp"] = Shown(at'["claude-org-ja-tmp"])
           /\ RepairedBack'.at["claude-org-ja"] = Shown(at'["claude-org-ja"]) /\ RepairedBack'.at["r"] = at'["r"]
           /\ RepairedBack'.link = link /\ RepairedBack'.runIn = runIn'
           /\ RepairedBack'.gitAt =
                IF MG!Entry.op = "rename_project" /\ at'[MG!Entry.src] = "ja content" THEN MG!Entry.src ELSE gitAt
<1>1. \A n \in {"ccmux", "renga", "claude-org", "claude-org-en", "r"} : Shown(at'[n]) = at'[n]
  BY DEF TreeInv, Shown, MG!None
<1>2. RepairedBack' = TreeOf(at', link', runIn', MG!Repaired(MG!Entry.op, MG!Entry.src)')
  BY DEF RepairedBack
<1>3. MG!Repaired(MG!Entry.op, MG!Entry.src)' =
          IF MG!Entry.op = "rename_project" /\ at'[MG!Entry.src] = "ja content" THEN MG!Entry.src ELSE gitAt
  BY DEF MG!Repaired
<1>4. /\ RepairedBack'.at = [n \in MG!Names |-> Shown(at'[n])]
      /\ RepairedBack'.link = link' /\ RepairedBack'.runIn = runIn'
      /\ RepairedBack'.gitAt = MG!Repaired(MG!Entry.op, MG!Entry.src)'
  BY <1>2 DEF TreeOf
<1>5. \A n \in MG!Names : RepairedBack'.at[n] = Shown(at'[n])
  BY <1>4
<1> QED BY <1>1, <1>3, <1>4, <1>5 DEF MG!Names

(* What the move back does: the tree is as just before the rename, but for *)
(* a claude-org-ja that was made for a run and takes the place of the third*)
(* name, which does not count.                                             *)
LEMMA MoveBackTree ==
    ASSUME MGInv, MGInv', RecordInv, Restorable, moving = "back", moving' = "repair back",
           MG!Entry.op # "ensure_dir", UNCHANGED <<link, gitAt, manifest, job>>,
           MG!CanRename(MG!Entry.dst, MG!Entry.src), MG!Rename(MG!Entry.dst, MG!Entry.src)
    PROVE  /\ Fits(manifest[job.of], before[job.of], job.k - 1, RepairedBack')
           /\ runIn' # MG!None => at'["claude-org-ja"] = runIn'
           /\ MG!Entry.src # "claude-org" /\ at'["claude-org"] = "ja content" => gitAt = "claude-org"
<1> DEFINE e == manifest[job.of]
           b == before[job.of]
           src == MG!Entry.src
           t == MG!Tree
           u == RepairedBack'
<1> USE DEF MGInv
<1>1. job.k # 0 /\ MG!Entry' = MG!Entry
  BY DEF MG!TypeOK, MG!Entry
<1>2. /\ Listed(e) /\ Whence(e, b) /\ job.k \in DOMAIN e /\ MG!Entry = e[job.k] /\ MG!Entry \in MG!Entries
  BY <1>1, UndoEntry DEF Restorable
<1>3. /\ src \in {"ccmux", "claude-org", "claude-org-en", "claude-org-ja-tmp", "r"}
      /\ MG!Entry.op = IF src = "r" THEN "move_run" ELSE "rename_project"
      /\ src = "ccmux" => MG!Entry.dst = "renga"
      /\ src = "claude-org" => MG!Entry.dst = "claude-org-ja-tmp"
      /\ src = "claude-org-en" => MG!Entry.dst = "claude-org"
      /\ src = "claude-org-ja-tmp" => MG!Entry.dst = "claude-org-ja"
      /\ src = "r" => MG!Entry.dst = MG!Target
  BY <1>2, EntrySources
<1>4. Fits(e, b, job.k, t) /\ link[src] = MG!None
  BY DEF UndoInv, Restorable
<1>5. MG!None # "ccmux content" /\ MG!None # "ja content" /\ MG!None # "run content" /\ MG!None # "made"
      /\ MG!None # "en content"
  BY DEF MG!None
<1>6. /\ u.at["ccmux"] = at'["ccmux"] /\ u.at["renga"] = at'["renga"]
      /\ u.at["claude-org"] = at'["claude-org"] /\ u.at["claude-org-en"] = at'["claude-org-en"]
      /\ u.at["claude-org-ja-tmp"] = Shown(at'["claude-org-ja-tmp"])
      /\ u.at["claude-org-ja"] = Shown(at'["claude-org-ja"]) /\ u.at["r"] = at'["r"]
      /\ u.link = link /\ u.runIn = runIn'
  BY <1>1, BackTree
<1>7. u.gitAt = IF MG!Entry.op = "rename_project" /\ at'[src] = "ja content" THEN src ELSE gitAt
  BY <1>1, BackTree
<1>8. /\ t.at["ccmux"] = at["ccmux"] /\ t.at["renga"] = at["renga"]
      /\ t.at["claude-org"] = at["claude-org"] /\ t.at["claude-org-en"] = at["claude-org-en"]
      /\ t.at["claude-org-ja-tmp"] = Shown(at["claude-org-ja-tmp"])
      /\ t.at["claude-org-ja"] = Shown(at["claude-org-ja"]) /\ t.at["r"] = at["r"]
      /\ t.link = link /\ t.runIn = runIn /\ t.gitAt = gitAt
  BY TreeNow
<1>9. \/ Made(t, src)
      \/ Fits(e, b, job.k - 1, t) /\ NotMade(t, src)
  BY <1>2, <1>4, LastEntry
<1>10. SameElsewhere(t, u, src) /\ JustBefore(u, src) => Fits(e, b, job.k - 1, u)
  BY <1>2, <1>3, <1>4, FitsBack
<1>11. /\ RunInv /\ GitInv
       /\ at["claude-org"] = "ja content" => gitAt = "claude-org"
  BY DEF Restorable, GitInv
<1> HIDE DEF e, b, src, t, u
<1>12. CASE src = "ccmux"
  <2>1. /\ at["renga"] # MG!None /\ at["ccmux"] = MG!None
        /\ at' = [at EXCEPT !["ccmux"] = at["renga"], !["renga"] = MG!None] /\ runIn' = runIn
    <3>1. MG!Rename("renga", "ccmux") /\ MG!CanRename("renga", "ccmux")
      BY <1>3, <1>12 DEF src
    <3>2. "ccmux" \in MG!Names /\ "renga" \in MG!Names /\ "renga" # "ccmux"
      BY DEF MG!Names
    <3> QED BY <3>1, <3>2, RenameTop DEF MG!CanRename, MG!Free, MG!Target
  <2>2. /\ at'["ccmux"] = at["renga"] /\ at'["renga"] = MG!None
        /\ \A n \in MG!Names \ {"ccmux", "renga"} : at'[n] = at[n]
    BY <2>1 DEF MG!TypeOK, MG!Names
  <2>3. at["renga"] = "ccmux content"
    BY <2>1 DEF TreeInv
  <2>4. SameElsewhere(t, u, src)
    <3>1. u.gitAt = gitAt
      BY <1>6, <1>7, <1>12, <2>2, <2>3
    <3>2. \A n \in {"claude-org", "claude-org-en", "claude-org-ja-tmp", "claude-org-ja", "r"} : at'[n] = at[n]
      BY <2>2 DEF MG!Names
    <3> QED BY <1>6, <1>8, <1>12, <2>1, <3>1, <3>2
            DEF SameElsewhere, SameSwap, SwapAt, SameRun
  <2>5. JustBefore(u, src)
    BY <1>4, <1>6, <1>7, <1>12, <2>2, <2>3 DEF JustBefore, CcmuxFlat
  <2>6. at'["claude-org"] = at["claude-org"] /\ at'["claude-org-ja"] = at["claude-org-ja"]
    BY <2>2 DEF MG!Names
  <2> QED BY <1>10, <1>11, <2>1, <2>4, <2>5, <2>6 DEF e, b, u, RunInv
<1>13. CASE src = "claude-org"
  <2>1. /\ at["claude-org-ja-tmp"] # MG!None /\ at["claude-org"] = MG!None
        /\ at' = [at EXCEPT !["claude-org"] = at["claude-org-ja-tmp"], !["claude-org-ja-tmp"] = MG!None] /\ runIn' = runIn
    <3>1. MG!Rename("claude-org-ja-tmp", "claude-org") /\ MG!CanRename("claude-org-ja-tmp", "claude-org")
      BY <1>3, <1>13 DEF src
    <3>2. "claude-org-ja-tmp" \in MG!Names /\ "claude-org" \in MG!Names /\ "claude-org-ja-tmp" # "claude-org"
      BY DEF MG!Names
    <3> QED BY <3>1, <3>2, RenameTop DEF MG!CanRename, MG!Free, MG!Target
  <2>2. /\ at'["claude-org"] = at["claude-org-ja-tmp"] /\ at'["claude-org-ja-tmp"] = MG!None
        /\ \A n \in MG!Names \ {"claude-org", "claude-org-ja-tmp"} : at'[n] = at[n]
    BY <2>1 DEF MG!TypeOK, MG!Names
  <2>3. SwapAside(t)
    BY <1>5, <1>8, <1>9, <1>13, <2>1 DEF Made, NotMade, SwapFlat, SwapAt
  <2>4. /\ at["claude-org-ja-tmp"] = "ja content" /\ at["claude-org-en"] = "en content"
        /\ Shown(at["claude-org-ja"]) = MG!None
    BY <1>5, <1>8, <2>3 DEF SwapAside, SwapAt, Shown
  <2>5. SameElsewhere(t, u, src)
    BY <1>6, <1>7, <1>8, <1>13, <2>1, <2>2 DEF SameElsewhere, SameCcmux, SameRun, SwapNames, MG!Names
  <2>6. JustBefore(u, src)
    <3>1. u.gitAt = "claude-org"
      BY <1>3, <1>6, <1>7, <1>13, <2>2, <2>4
    <3>2. /\ u.at["claude-org"] = "ja content" /\ u.at["claude-org-en"] = "en content"
          /\ u.at["claude-org-ja-tmp"] = MG!None /\ u.at["claude-org-ja"] = MG!None
      BY <1>5, <1>6, <1>7, <2>2, <2>4 DEF Shown, MG!Names
    <3> QED BY <1>4, <1>6, <1>7, <1>13, <3>1, <3>2 DEF JustBefore, SwapFlat, SwapAt
  <2>7. at'["claude-org-ja"] = at["claude-org-ja"]
    BY <2>2 DEF MG!Names
  <2> QED BY <1>10, <1>11, <1>13, <2>1, <2>5, <2>6, <2>7 DEF e, b, u, src, RunInv
<1>14. CASE src = "claude-org-en"
  <2>1. /\ at["claude-org"] # MG!None /\ at["claude-org-en"] = MG!None
        /\ at' = [at EXCEPT !["claude-org-en"] = at["claude-org"], !["claude-org"] = MG!None] /\ runIn' = runIn
    <3>1. MG!Rename("claude-org", "claude-org-en") /\ MG!CanRename("claude-org", "claude-org-en")
      BY <1>3, <1>14 DEF src
    <3>2. "claude-org" \in MG!Names /\ "claude-org-en" \in MG!Names /\ "claude-org" # "claude-org-en"
      BY DEF MG!Names
    <3> QED BY <3>1, <3>2, RenameTop DEF MG!CanRename, MG!Free, MG!Target
  <2>2. /\ at'["claude-org-en"] = at["claude-org"] /\ at'["claude-org"] = MG!None
        /\ \A n \in MG!Names \ {"claude-org-en", "claude-org"} : at'[n] = at[n]
    BY <2>1 DEF MG!TypeOK, MG!Names
  <2>3. SwapAcross(t)
    BY <1>5, <1>8, <1>9, <1>14, <2>1 DEF Made, NotMade, SwapFlat, SwapAside, SwapAt
  <2>4. SameElsewhere(t, u, src)
    BY <1>6, <1>7, <1>8, <1>14, <2>1, <2>2 DEF SameElsewhere, SameCcmux, SameRun, SwapNames, MG!Names
  <2>5. JustBefore(u, src)
    <3>1. at["claude-org"] = "en content" /\ u.gitAt = gitAt
      BY <1>6, <1>7, <1>8, <1>14, <2>2, <2>3 DEF SwapAcross, SwapAt
    <3>2. /\ u.at["claude-org"] = MG!None /\ u.at["claude-org-en"] = "en content"
          /\ u.at["claude-org-ja-tmp"] = t.at["claude-org-ja-tmp"] /\ u.at["claude-org-ja"] = t.at["claude-org-ja"]
          /\ u.link = t.link /\ u.gitAt = t.gitAt
      BY <1>6, <1>7, <1>8, <2>2, <3>1 DEF MG!Names
    <3> QED BY <1>14, <2>3, <3>2 DEF JustBefore, SwapAside, SwapAcross, SwapAt
  <2>6. at'["claude-org-ja"] = at["claude-org-ja"]
    BY <2>2 DEF MG!Names
  <2> QED BY <1>5, <1>10, <1>11, <2>1, <2>2, <2>4, <2>5, <2>6 DEF e, b, u, RunInv
<1>15. CASE src = "claude-org-ja-tmp"
  <2>1. /\ at["claude-org-ja"] # MG!None /\ at["claude-org-ja-tmp"] = MG!None
        /\ at' = [at EXCEPT !["claude-org-ja-tmp"] = at["claude-org-ja"], !["claude-org-ja"] = MG!None] /\ runIn' = runIn
    <3>1. MG!Rename("claude-org-ja", "claude-org-ja-tmp") /\ MG!CanRename("claude-org-ja", "claude-org-ja-tmp")
      BY <1>3, <1>15 DEF src
    <3>2. "claude-org-ja" \in MG!Names /\ "claude-org-ja-tmp" \in MG!Names /\ "claude-org-ja" # "claude-org-ja-tmp"
      BY DEF MG!Names
    <3> QED BY <3>1, <3>2, RenameTop DEF MG!CanRename, MG!Free, MG!Target
  <2>2. /\ at'["claude-org-ja-tmp"] = at["claude-org-ja"] /\ at'["claude-org-ja"] = MG!None
        /\ \A n \in MG!Names \ {"claude-org-ja-tmp", "claude-org-ja"} : at'[n] = at[n]
    BY <2>1 DEF MG!TypeOK, MG!Names
  <2>3. runIn = MG!None
    <3>1. ~Noted(e, job.k, "r")
      BY <1>2, <1>15, SwapNoted DEF src
    <3>2. b.runIn = MG!None
      BY <1>2, <1>15 DEF Whence, Ready, SwapNames, src
    <3> QED BY <1>4, <1>8, <3>1, <3>2 DEF Fits, FitsRun, SameRun
  <2>4. at'["claude-org"] = at["claude-org"]
    BY <2>2 DEF MG!Names
  <2>5. Fits(e, b, job.k - 1, u)
    <3>1. CASE Made(t, src)
      <4>1. SwapInto(t) /\ at["claude-org-ja"] = "ja content"
        BY <1>5, <1>8, <1>15, <3>1 DEF Made, SwapInto, SwapAt, Shown
      <4>2. SameElsewhere(t, u, src)
        BY <1>6, <1>7, <1>8, <1>15, <2>1, <2>2 DEF SameElsewhere, SameCcmux, SameRun, SwapNames, MG!Names
      <4>3. JustBefore(u, src)
        <5>1. u.gitAt = "claude-org-ja-tmp"
          BY <1>3, <1>6, <1>7, <1>15, <2>2, <4>1
        <5>2. /\ u.at["claude-org"] = t.at["claude-org"] /\ u.at["claude-org-en"] = t.at["claude-org-en"]
              /\ u.at["claude-org-ja-tmp"] = "ja content" /\ u.at["claude-org-ja"] = MG!None
              /\ u.link = t.link
          BY <1>5, <1>6, <1>7, <1>8, <2>2, <4>1 DEF Shown, MG!Names
        <5> QED BY <1>15, <4>1, <5>1, <5>2 DEF JustBefore, SwapAcross, SwapInto, SwapAt
      <4> QED BY <1>10, <4>2, <4>3
    <3>2. CASE Fits(e, b, job.k - 1, t) /\ NotMade(t, src)
      <4>1. at["claude-org-ja"] = "made"
        <5>1. SwapFlat(t)
          BY <1>5, <1>8, <1>15, <2>1, <3>2 DEF NotMade, SwapAside, SwapAcross, SwapAt, Shown
        <5> QED BY <1>5, <1>8, <2>1, <5>1 DEF SwapFlat, SwapAt, Shown
      <4>2. u.gitAt = t.gitAt
        BY <1>6, <1>7, <1>8, <1>15, <2>2, <4>1
      <4>3. SameCcmux(u, t) /\ SameRun(u, t)
        <5>1. at'["ccmux"] = at["ccmux"] /\ at'["renga"] = at["renga"] /\ at'["r"] = at["r"]
          BY <2>2 DEF MG!Names
        <5> QED BY <1>6, <1>8, <2>1, <5>1 DEF SameCcmux, SameRun
      <4>4. /\ Shown(at'["claude-org-ja-tmp"]) = Shown(at["claude-org-ja-tmp"])
            /\ Shown(at'["claude-org-ja"]) = Shown(at["claude-org-ja"])
        BY <1>5, <2>1, <2>2, <4>1 DEF Shown
      <4>5. SameSwap(u, t)
        BY <1>6, <1>7, <1>8, <2>2, <4>2, <4>4 DEF SameSwap, SwapAt, MG!Names
      <4> QED BY <3>2, <4>3, <4>5, SameFits DEF Fits
    <3> QED BY <1>9, <3>1, <3>2
  <2> QED BY <1>11, <2>1, <2>3, <2>4, <2>5 DEF e, b, u
<1>16. CASE src = "r"
  <2>1. at["r"] = MG!None /\ at' = [at EXCEPT !["r"] = "run content"] /\ runIn' = MG!None
    <3>1. MG!Rename(MG!Target, "r") /\ MG!CanRename(MG!Target, "r")
      BY <1>3, <1>16 DEF src
    <3> QED BY <3>1, RenameRunBack DEF MG!CanRename, MG!Free, MG!Target
  <2>2. at'["r"] = "run content" /\ \A n \in MG!Names \ {"r"} : at'[n] = at[n]
    BY <2>1 DEF MG!TypeOK, MG!Names
  <2>3. u.gitAt = gitAt
    BY <1>3, <1>6, <1>7, <1>16
  <2>4. SameElsewhere(t, u, src)
    BY <1>6, <1>7, <1>8, <1>16, <2>2, <2>3 DEF SameElsewhere, SameCcmux, SameSwap, SwapAt, SwapNames, MG!Names
  <2>5. JustBefore(u, src)
    BY <1>4, <1>6, <1>7, <1>16, <2>1, <2>2 DEF JustBefore, RunFlat
  <2>6. at'["claude-org"] = at["claude-org"]
    BY <2>2 DEF MG!Names
  <2> QED BY <1>10, <1>11, <2>1, <2>4, <2>5, <2>6 DEF e, b, u
<1> QED BY <1>3, <1>12, <1>13, <1>14, <1>15, <1>16

LEMMA MoveBackRestore ==
    ASSUME MGInv, MGInv', MovedBack, RecordInv, Restorable, MG!MoveBack
    PROVE  Restorable'
<1>1. moving = "back" /\ UNCHANGED <<link, gitAt, manifest, before, undone>>
  BY DEF MG!MoveBack, MG!history
<1>2. /\ WhenceInv' /\ ChainInv'
      /\ \A i : (Newest(i))' <=> Newest(i)
  BY <1>1, PastKept DEF Restorable
<1>3. Newest(job.of) /\ Fits(manifest[job.of], before[job.of], job.k, MG!Tree)
  BY <1>1 DEF UndoInv, Restorable
<1>4. CASE ~MG!CanRename(MG!Entry.dst, MG!Entry.src)
  <2>1. moving' = "idle" /\ UNCHANGED <<at, runIn>>
    BY <1>4 DEF MG!MoveBack
  <2>2. MG!Tree' = MG!Tree
    BY <1>1, <2>1, TreeKept
  <2>3. FitsAll(job.of, MG!Tree)
    BY <1>1, <1>3, FitsWhole DEF Restorable
  <2>4. IdleInv'
    BY <1>1, <1>3, <2>2, <2>3, IdleAgain DEF Restorable
  <2> QED BY <1>1, <1>2, <2>1, <2>4, PlacesKept, JustIdle DEF Restorable
<1>5. CASE MG!CanRename(MG!Entry.dst, MG!Entry.src)
  <2>1. MG!Rename(MG!Entry.dst, MG!Entry.src) /\ moving' = "repair back" /\ job' = job /\ MG!Entry' = MG!Entry
    BY <1>1, <1>5 DEF MG!MoveBack, MG!Entry
  <2>2. MG!Entry.op # "ensure_dir"
    BY <1>1 DEF MovedBack
  <2>3. /\ Fits(manifest[job.of], before[job.of], job.k - 1, RepairedBack')
        /\ runIn' # MG!None => at'["claude-org-ja"] = runIn'
        /\ MG!Entry.src # "claude-org" /\ at'["claude-org"] = "ja content" => gitAt = "claude-org"
    BY <1>1, <1>5, <2>1, <2>2, MoveBackTree
  <2>4. RunInv' /\ GitInv'
    BY <1>1, <2>1, <2>3 DEF RunInv, GitInv
  <2>5. UndoInv' /\ IdleInv'
    BY <1>1, <1>2, <1>3, <2>1, <2>3 DEF UndoInv, IdleInv
  <2> QED BY <1>2, <2>1, <2>4, <2>5, NotApplying DEF Restorable, Applying
<1> QED BY <1>4, <1>5

(* The gitlinks are right again.                                           *)
LEMMA RepairBackRestore ==
    ASSUME MGInv, MovedBack, RecordInv, Restorable, MG!RepairBack
    PROVE  Restorable'
<1> DEFINE e == manifest[job.of]
           b == before[job.of]
           src == MG!Entry.src
<1>1. /\ moving = "repair back" /\ moving' = "undo" /\ job.k # 0 /\ job' = [job EXCEPT !.k = @ - 1]
      /\ gitAt' = MG!Repaired(MG!Entry.op, MG!Entry.src)
      /\ UNCHANGED <<at, link, runIn, manifest, before, undone>>
  BY DEF MG!RepairBack, MG!history, MGInv, MG!TypeOK
<1>2. job'.of = job.of /\ job'.k = job.k - 1
  BY <1>1, JobTypes DEF MGInv
<1>3. /\ Listed(e) /\ job.k \in DOMAIN e /\ MG!Entry = e[job.k] /\ MG!Entry \in MG!Entries
  BY <1>1, UndoEntry DEF Restorable
<1>4. /\ src \in {"ccmux", "claude-org", "claude-org-en", "claude-org-ja-tmp", "r"}
      /\ MG!Entry.op = IF src = "r" THEN "move_run" ELSE "rename_project"
  BY <1>1, <1>3, EntrySources DEF MovedBack
<1>5. Newest(job.of) /\ Fits(e, b, job.k - 1, RepairedBack)
  BY <1>1 DEF UndoInv, Restorable
<1>6. MG!Tree' = RepairedBack
  BY <1>1, TreeIs DEF RepairedBack
<1>7. gitAt' = IF MG!Entry.op = "rename_project" /\ at[src] = "ja content" THEN src ELSE gitAt
  BY <1>1 DEF MG!Repaired
<1>8. at["claude-org"] = "ja content" /\ src # "claude-org" => gitAt = "claude-org"
  BY DEF GitInv, Restorable
<1>9. /\ RepairedBack.at["claude-org"] = at["claude-org"]
      /\ RepairedBack.at["claude-org-ja-tmp"] = Shown(at["claude-org-ja-tmp"])
  <2>1. Shown(at["claude-org"]) = at["claude-org"]
    BY DEF MGInv, TreeInv, Shown, MG!None
  <2> QED BY <2>1, TreeFields DEF RepairedBack
<1> HIDE DEF e, b, src
<1>10. at["claude-org"] = "ja content" => gitAt' = "claude-org"
  <2> SUFFICES ASSUME at["claude-org"] = "ja content" PROVE gitAt' = "claude-org"
    OBVIOUS
  <2>1. CASE src = "claude-org"
    BY <1>4, <1>7, <2>1
  <2>2. CASE src \in {"ccmux", "claude-org-en"}
    <3>1. at[src] # "ja content"
      BY <2>2 DEF MGInv, TreeInv, MG!None
    <3> QED BY <1>7, <1>8, <2>2, <3>1
  <2>3. CASE src = "r"
    BY <1>4, <1>7, <1>8, <2>3
  <2>4. CASE src = "claude-org-ja-tmp"
    <3>1. at["claude-org-ja-tmp"] # "ja content"
      <4> SUFFICES ASSUME at["claude-org-ja-tmp"] = "ja content" PROVE FALSE
        OBVIOUS
      <4>1. Noted(e, job.k - 1, "claude-org")
        BY <1>3, <2>4, SwapNoted DEF src
      <4>2. SwapFlat(RepairedBack) \/ SwapAside(RepairedBack) \/ SwapAcross(RepairedBack) \/ SwapInto(RepairedBack)
        BY <1>5, <4>1 DEF Fits, FitsSwap
      <4>3. RepairedBack.at["claude-org-ja-tmp"] = "ja content" /\ RepairedBack.at["claude-org"] = "ja content"
        BY <1>9 DEF Shown
      <4> QED BY <4>2, <4>3 DEF SwapFlat, SwapAside, SwapAcross, SwapInto, SwapAt, MG!None
    <3> QED BY <1>7, <1>8, <2>4, <3>1
  <2> QED BY <1>4, <2>1, <2>2, <2>3, <2>4
<1>11. /\ WhenceInv' /\ ChainInv'
       /\ \A i : (Newest(i))' <=> Newest(i)
  BY <1>1, PastKept DEF Restorable
<1>12. RunInv' /\ GitInv'
  BY <1>1, <1>10 DEF RunInv, GitInv, Restorable
<1>13. UndoInv' /\ IdleInv'
  <2>1. (Newest(job.of))'
    BY <1>2, <1>5, <1>11
  <2>2. (Fits(manifest[job.of], before[job.of], job.k, MG!Tree))'
    BY <1>1, <1>2, <1>5, <1>6 DEF e, b
  <2> QED BY <1>1, <2>1, <2>2 DEF UndoInv, IdleInv
<1> QED BY <1>1, <1>11, <1>12, <1>13, NotApplying DEF Restorable, Applying

(* A manifest that has been rolled back, and the next one that can be.     *)
LEMMA RolledBackRestore ==
    ASSUME MGInv, RecordInv, Restorable, MG!RolledBack
    PROVE  Restorable'
<1>1. /\ moving = "undo" /\ moving' = "idle" /\ job.k = 0 /\ undone' = undone \cup {job.of}
      /\ UNCHANGED <<at, link, runIn, gitAt, manifest, before>>
  BY DEF MG!RolledBack, MG!disk
<1>2. Newest(job.of) /\ Fits(manifest[job.of], before[job.of], 0, MG!Tree)
  BY <1>1 DEF UndoInv, Restorable
<1>3. MG!Tree' = MG!Tree
  BY <1>1, TreeKept
<1>4. \A i \in DOMAIN manifest : i \in Nat
  <2>1. manifest \in Seq(Seq(MG!Entries))
    BY DEF MGInv, MG!TypeOK
  <2> QED BY <2>1
<1>5. WhenceInv'
  BY <1>1 DEF WhenceInv, Restorable
<1>6. ASSUME NEW p \in DOMAIN manifest, NEW m \in DOMAIN manifest, (RolledBackAfter(p, m))'
      PROVE  RolledBackAfter(p, m)
  <2>1. /\ p < m /\ p \notin undone' /\ m \notin undone'
        /\ \A j \in DOMAIN manifest : p < j /\ j < m => j \in undone'
    BY <1>1, <1>6 DEF RolledBackAfter
  <2>2. ~(job.of < m)
    BY <1>1, <1>2, <1>4, <2>1 DEF Newest
  <2>3. \A j \in DOMAIN manifest : p < j /\ j < m => j \in undone
    BY <1>1, <2>1, <2>2
  <2> QED BY <1>1, <2>1, <2>3 DEF RolledBackAfter
<1>7. ChainInv'
  BY <1>1, <1>6 DEF ChainInv, FitsAll, Restorable
<1>8. IdleInv'
  <2> SUFFICES ASSUME NEW i \in DOMAIN manifest, (Newest(i))' PROVE (FitsAll(i, MG!Tree))'
    BY <1>1 DEF IdleInv
  <2>1. i \notin undone /\ i # job.of /\ \A j \in DOMAIN manifest : j > i => j \in undone \/ j = job.of
    BY <1>1 DEF Newest
  <2>2. i < job.of
    BY <1>2, <1>4, <2>1 DEF Newest
  <2>3. RolledBackAfter(i, job.of)
    BY <1>2, <1>4, <2>1, <2>2 DEF RolledBackAfter, Newest
  <2>4. FitsAll(i, before[job.of])
    BY <1>2, <2>3 DEF ChainInv, Newest, Restorable
  <2>5. FitsAll(i, MG!Tree)
    BY <1>2, <2>4, NothingNoted, SameFits DEF FitsAll, Fits
  <2> QED BY <1>1, <1>3, <2>5 DEF FitsAll
<1>9. RunInv' /\ GitInv'
  BY <1>1, PlacesKept DEF Restorable
<1> QED BY <1>1, <1>5, <1>7, <1>8, <1>9, JustIdle DEF Restorable

(* Wherever a command is cut short, but for the two places.                *)
LEMMA KillRestore ==
    ASSUME MGInv, RecordInv, Restorable, MG!Kill, ~blind'
    PROVE  Restorable'
<1>1. /\ moving # "idle" /\ moving # "repair back" /\ (moving = "record" => ~job.keep) /\ moving' = "idle"
      /\ UNCHANGED <<at, link, runIn, gitAt, manifest, before, undone>>
  BY DEF MG!Kill, MG!disk
<1>2. MG!Tree' = MG!Tree
  BY <1>1, TreeKept
<1>3. Newest(job.of) /\ FitsAll(job.of, MG!Tree)
  <2>1. CASE Applying
    <3>1. /\ Newest(job.of) /\ Len(manifest[job.of]) = Begun
          /\ Fits(manifest[job.of], before[job.of], Begun, IF moving = "record" THEN Unlinked ELSE MG!Tree)
      BY <2>1 DEF ApplyInv, RecordInv, MatchInv, Restorable
    <3>2. moving = "record" => Unlinked = MG!Tree
      BY <1>1, WithLink DEF MadeInv, Restorable
    <3> QED BY <3>1, <3>2 DEF FitsAll
  <2>2. CASE moving \in {"undo", "back"}
    <3>1. Newest(job.of) /\ Fits(manifest[job.of], before[job.of], job.k, MG!Tree)
      BY <2>2 DEF UndoInv, Restorable
    <3> QED BY <2>2, <3>1, FitsWhole DEF Restorable
  <2> QED BY <1>1, <2>1, <2>2 DEF MGInv, MG!TypeOK, Applying
<1>4. IdleInv'
  BY <1>1, <1>2, <1>3, IdleAgain DEF Restorable
<1> QED BY <1>1, <1>4, PastKept, PlacesKept, JustIdle DEF Restorable

LEMMA NoStepRestore ==
    ASSUME Restorable, UNCHANGED MG!vars
    PROVE  Restorable'
<1>1. UNCHANGED <<at, link, runIn, gitAt, moving, job, manifest, before, undone>>
  BY DEF MG!vars
<1>2. MG!Tree' = MG!Tree /\ MG!Op' = MG!Op /\ MG!Entry' = MG!Entry /\ Begun' = Begun
  BY <1>1, TreeKept DEF MG!Op, MG!Entry, Begun
<1>3. WhenceInv' /\ ChainInv' /\ \A i : (Newest(i))' <=> Newest(i)
  BY <1>1, PastKept DEF Restorable
<1>4. RunInv' /\ GitInv'
  BY <1>1, <1>2 DEF RunInv, GitInv, Restorable
<1>5. AheadInv' /\ MadeInv'
  <2>1. \A step : Pending(step)' <=> Pending(step)
    BY <1>1 DEF Pending, Left
  <2> QED BY <1>1, <1>2, <2>1 DEF AheadInv, MadeInv, Applying, Restorable
<1>6. ApplyInv'
  <2>1. Unlinked' = Unlinked
    BY <1>1, <1>2 DEF Unlinked
  <2> QED BY <1>1, <1>2, <1>3, <2>1 DEF ApplyInv, Applying, Restorable
<1>7. UndoInv'
  <2>1. RepairedBack' = RepairedBack
    BY <1>1, <1>2 DEF RepairedBack, MG!Repaired
  <2> QED BY <1>1, <1>2, <1>3, <2>1 DEF UndoInv, Restorable
<1>8. IdleInv'
  BY <1>1, <1>2, <1>3 DEF IdleInv, FitsAll, Restorable
<1> QED BY <1>3, <1>4, <1>5, <1>6, <1>7, <1>8 DEF Restorable

(* Every step.                                                             *)
LEMMA NextRestore ==
    ASSUME MGInv, MGInv', MovedBack, RecordInv, RecordInv', RestoreInv, [MG!Next]_MG!vars
    PROVE  RestoreInv'
<1> SUFFICES ASSUME inOrder', ~blind' PROVE Restorable'
  BY DEF RestoreInv
<1>1. CASE UNCHANGED MG!vars
  <2>1. inOrder /\ ~blind
    BY <1>1 DEF MG!vars
  <2> QED BY <1>1, <2>1, NoStepRestore DEF RestoreInv
<1>2. CASE \E i \in DOMAIN manifest : MG!Rollback(i)
  <2>1. PICK i \in DOMAIN manifest : MG!Rollback(i)
    BY <1>2
  <2>2. /\ inOrder' = (inOrder /\ i \notin undone /\ \A j \in DOMAIN manifest : j > i => j \in undone)
        /\ blind' = blind
    BY <2>1 DEF MG!Rollback
  <2>3. inOrder /\ ~blind
    BY <2>2
  <2> QED BY <2>1, <2>3, RollbackRestore DEF RestoreInv
<1>3. CASE MG!Kill
  <2>1. inOrder /\ ~blind
    BY <1>3 DEF MG!Kill
  <2> QED BY <1>3, <2>1, KillRestore DEF RestoreInv
<1>4. CASE \E keep \in BOOLEAN : MG!Apply(keep) \/ MG!ApplyFromManifest(keep)
  <2>1. PICK keep \in BOOLEAN : MG!Start(MG!Plan, keep, TRUE) \/ MG!Start(staged, keep, FALSE)
    BY <1>4 DEF MG!Apply, MG!ApplyFromManifest
  <2>2. inOrder /\ ~blind
    <3>1. inOrder' = inOrder /\ blind' = blind
      BY <2>1 DEF MG!Start
    <3> QED BY <3>1
  <2>3. Shape(MG!Plan) /\ Shape(staged)
    BY Shapes DEF MGInv, JobInv
  <2>4. CASE MG!Start(MG!Plan, keep, TRUE)
    BY <2>2, <2>3, <2>4, StartRestore DEF RestoreInv
  <2>5. CASE MG!Start(staged, keep, FALSE)
    BY <2>2, <2>3, <2>5, StartRestore DEF RestoreInv
  <2> QED BY <2>1, <2>4, <2>5
<1>5. CASE \/ MG!Stage \/ MG!EnsureDir \/ MG!Announce \/ MG!Move \/ MG!Repair \/ MG!LinkBack
           \/ MG!Complete \/ MG!Finish \/ MG!Skip \/ MG!Unlink \/ MG!MoveBack \/ MG!RepairBack
           \/ MG!RolledBack
  <2>1. UNCHANGED <<inOrder, blind>>
    BY <1>5 DEF MG!Stage, MG!EnsureDir, MG!Announce, MG!Move, MG!Repair, MG!LinkBack, MG!Complete, MG!Finish,
                MG!Skip, MG!Unlink, MG!MoveBack, MG!RepairBack, MG!RolledBack, MG!history
  <2>2. Restorable
    BY <2>1 DEF RestoreInv
  <2>3. CASE MG!Stage \/ MG!EnsureDir \/ MG!Announce \/ MG!Move
    BY <2>2, <2>3, StageRestore, EnsureDirRestore, AnnounceRestore, MoveRestore
  <2>4. CASE MG!Repair \/ MG!LinkBack \/ MG!Complete \/ MG!Finish
    BY <2>2, <2>4, RepairRestore, LinkBackRestore, CompleteRestore, FinishRestore
  <2>5. CASE MG!Skip \/ MG!Unlink \/ MG!MoveBack \/ MG!RepairBack \/ MG!RolledBack
    BY <2>2, <2>5, SkipRestore, UnlinkRestore, MoveBackRestore, RepairBackRestore, RolledBackRestore
  <2> QED BY <1>5, <2>3, <2>4, <2>5
<1> QED BY <1>1, <1>2, <1>3, <1>4, <1>5 DEF MG!Next

LEMMA InitRestore == MG!Init => RecordInv /\ RestoreInv
<1> SUFFICES ASSUME MG!Init PROVE RecordInv /\ RestoreInv
  OBVIOUS
<1>1. /\ moving = "idle" /\ manifest = <<>> /\ runIn = MG!None /\ gitAt = "claude-org"
      /\ link = [n \in MG!Names |-> MG!None]
  BY DEF MG!Init
<1>2. ~Applying /\ DOMAIN manifest = {}
  BY <1>1 DEF Applying
<1>3. LinksInv
  <2>1. \A n \in MG!Names : link[n] = MG!None
    BY <1>1
  <2> QED BY <1>1, <2>1 DEF LinksInv, MG!Names
<1>4. ListsInv /\ MatchInv
  BY <1>2 DEF ListsInv, MatchInv
<1>5. WhenceInv /\ ChainInv
  BY <1>2 DEF WhenceInv, ChainInv
<1>6. RunInv /\ GitInv
  BY <1>1 DEF RunInv, GitInv
<1>7. AheadInv /\ MadeInv /\ ApplyInv /\ UndoInv /\ IdleInv
  BY <1>1, <1>2 DEF AheadInv, MadeInv, ApplyInv, UndoInv, IdleInv
<1> QED BY <1>3, <1>4, <1>5, <1>6, <1>7 DEF RecordInv, RestoreInv, Restorable

(* When nothing is left to be undone, the tree is the one from before.     *)
LEMMA RestoredTree == ASSUME MGInv, RecordInv, RestoreInv PROVE MG!RollbackRestores
<1> SUFFICES ASSUME moving = "undo", job.k = 0, inOrder, ~blind PROVE MG!Tree = before[job.of]
  BY DEF MG!RollbackRestores
<1> DEFINE b == before[job.of]
           t == MG!Tree
<1>1. Restorable /\ Newest(job.of) /\ job.of \in DOMAIN manifest
  BY DEF RestoreInv, UndoInv, Restorable, Newest
<1>2. SameCcmux(t, b) /\ SameSwap(t, b) /\ SameRun(t, b)
  BY <1>1, NothingNoted DEF UndoInv, Restorable
<1>3. \A n \in Plain : b.link[n] = MG!None /\ t.link[n] = MG!None
  BY <1>1, TreeNow DEF WhenceInv, Whence, Restorable, MGInv, TreeInv, Plain
<1>4. b \in MG!Trees
  <2>1. before \in Seq(MG!Trees) /\ Len(before) = Len(manifest) /\ manifest \in Seq(Seq(MG!Entries))
    BY DEF MGInv, MG!TypeOK
  <2>2. job.of \in 1 .. Len(before)
    BY <1>1, <2>1
  <2> QED BY <2>1, <2>2, ElementOfSeq
<1>5. t = [at |-> [n \in MG!Names |-> Shown(at[n])], link |-> link, runIn |-> runIn, gitAt |-> gitAt]
      /\ link \in [MG!Names -> MG!Names \cup {MG!Target, MG!None}]
  BY TreeIs DEF TreeOf, MGInv, MG!TypeOK
<1> HIDE DEF b, t
<1>6. /\ DOMAIN t.at = MG!Names /\ DOMAIN t.link = MG!Names /\ t.at = [n \in MG!Names |-> t.at[n]]
      /\ t.link = [n \in MG!Names |-> t.link[n]]
      /\ t = [at |-> t.at, link |-> t.link, runIn |-> t.runIn, gitAt |-> t.gitAt]
  BY <1>5
<1>7. /\ b.at = [n \in MG!Names |-> b.at[n]] /\ b.link = [n \in MG!Names |-> b.link[n]]
      /\ b = [at |-> b.at, link |-> b.link, runIn |-> b.runIn, gitAt |-> b.gitAt]
  BY <1>4 DEF MG!Trees
<1>8. \A n \in MG!Names : t.at[n] = b.at[n]
  BY <1>2 DEF SameCcmux, SameSwap, SwapAt, SameRun, MG!Names
<1>9. \A n \in MG!Names : t.link[n] = b.link[n]
  BY <1>2, <1>3 DEF SameCcmux, SameSwap, SameRun, MG!Names, Plain
<1>10. t.runIn = b.runIn /\ t.gitAt = b.gitAt
  BY <1>2 DEF SameSwap, SameRun
<1>11. t.at = b.at /\ t.link = b.link
  BY <1>6, <1>7, <1>8, <1>9
<1> QED BY <1>6, <1>7, <1>10, <1>11 DEF t, b

(* A rollback that goes through leaves the tree, its links and the gitlinks*)
(* as they were before the apply, wherever the apply, or an earlier attempt*)
(* to roll it back, was cut short, as long as it is always the newest apply*)
(* that is rolled back and no kill fell in one of the two places where a   *)
(* rollback is blind (apply_plan and rollback of migrate_workers.py).      *)
THEOREM RollbacksRestore == MG!Spec => []MG!RollbackRestores
<1>1. MG!Init => MGInv /\ MovedBack /\ RecordInv /\ RestoreInv
  BY InitMGInv, InitRestore DEF MG!Init, MovedBack
<1>2. MGInv /\ MovedBack /\ RecordInv /\ RestoreInv /\ [MG!Next]_MG!vars
        => (MGInv /\ MovedBack /\ RecordInv /\ RestoreInv)'
  BY NextMGInv, NextMovedBack, NextRecord, NextRestore
<1>3. MGInv /\ RecordInv /\ RestoreInv => MG!RollbackRestores
  BY RestoredTree
<1> QED BY <1>1, <1>2, <1>3, PTL DEF MG!Spec
-----------------------------------------------------------------------------
(* The programs side by side                                               *)

(* A behaviour is all of the chosen program, or nothing of a program that  *)
(* is not chosen.                                                          *)
LEMMA ArchiveAlone ==
    Spec => \/ [](chosen = "archive") /\ CA!Spec
            \/ []~(chosen = "archive")
<1>1. Init /\ chosen = "archive" => CA!Init
  BY DEF Init
<1>2. [Next]_vars /\ chosen = "archive" => (chosen = "archive")' /\ [CA!Next]_CA!vars
  BY DEF Next, vars, varColdArchive, CA!vars
<1>3. [Next]_vars /\ ~(chosen = "archive") => (~(chosen = "archive"))'
  BY DEF Next, vars
<1> QED BY <1>1, <1>2, <1>3, PTL DEF Spec, CA!Spec

LEMMA MigrationAlone ==
    Spec => \/ [](chosen = "migration") /\ MG!Spec
            \/ []~(chosen = "migration")
<1>1. Init /\ chosen = "migration" => MG!Init
  BY DEF Init
<1>2. [Next]_vars /\ chosen = "migration" => (chosen = "migration")' /\ [MG!Next]_MG!vars
  BY DEF Next, vars, varMigration, MG!vars
<1>3. [Next]_vars /\ ~(chosen = "migration") => (~(chosen = "migration"))'
  BY DEF Next, vars
<1> QED BY <1>1, <1>2, <1>3, PTL DEF Spec, MG!Spec

LEMMA RebuildAlone ==
    Spec => \/ [](chosen = "rebuild") /\ RB!Spec
            \/ []~(chosen = "rebuild")
<1>1. Init /\ chosen = "rebuild" => RB!Init
  BY DEF Init
<1>2. [Next]_vars /\ chosen = "rebuild" => (chosen = "rebuild")' /\ [RB!Next]_RB!vars
  BY DEF Next, vars, varRebuild, RB!vars
<1>3. [Next]_vars /\ ~(chosen = "rebuild") => (~(chosen = "rebuild"))'
  BY DEF Next, vars
<1> QED BY <1>1, <1>2, <1>3, PTL DEF Spec, RB!Spec

(* The projects that swap names are never taken for each other, a rollback *)
(* that goes through restores the tree, and a listed row says where its    *)
(* directory is, in every behaviour of the programs.                       *)
THEOREM MovesKeepAll == ASSUME DirsOK PROVE Spec => []MovesAreWhole
BY ArchiveAlone, MigrationAlone, DirectoriesAreFound, ProjectsAreNotMixed, RollbacksRestore, PTL
   DEF MovesAreWhole

(* A rebuild of a registry that is in step and at rest keeps its runs.     *)
THEOREM RunsSurviveRebuilds == ASSUME NoRunIsNone PROVE Spec => RebuildKeepsRuns
<1>1. [Next]_vars /\ chosen = "rebuild" /\ [RB!RebuildKeepsRuns]_RB!vars
        => [chosen = "rebuild" => RB!RebuildKeepsRuns]_vars
  <2> SUFFICES ASSUME [Next]_vars, chosen = "rebuild", UNCHANGED RB!vars PROVE UNCHANGED vars
    OBVIOUS
  <2>1. CASE Next
    BY <2>1 DEF Next, vars, varRebuild, RB!vars
  <2> QED BY <2>1
<1>2. ~(chosen = "rebuild") => [chosen = "rebuild" => RB!RebuildKeepsRuns]_vars
  OBVIOUS
<1> QED BY <1>1, <1>2, RebuildAlone, CalmRebuildsKeepRuns, PTL DEF Spec, RebuildKeepsRuns
=============================================================================
