---------------------------- MODULE ColdArchive -----------------------------
(***************************************************************************)
(* tools/state_db/curator_archive.py: worker directories that nobody has    *)
(* touched for a long time are moved into the archive, and those that are  *)
(* marked are deleted.  Each directory has a row that says where it is;    *)
(* the move on disk and the update of the row are two steps, one directory  *)
(* after the other.  All moves are of one quarter.                         *)
(***************************************************************************)
EXTENDS Naturals, Sequences, FiniteSets, Functions

CONSTANTS Dirs, Base, MaxCommands, MaxChanges   \* Base[d]: the name d has in the archive

Home(d) == <<"home", d>>
ArchiveTarget(d) == <<"archive", Base[d]>>
Paths == {Home(d) : d \in Dirs} \cup {ArchiveTarget(d) : d \in Dirs}
Lifecycles == {"active", "delete_pending", "archived"}
Rows == [path : Paths, lifecycle : Lifecycles, listed : BOOLEAN]
Nothing == "nothing"
Part == "part of a copy"

VARIABLES
    disk,      \* disk[p]: the directory at path p
    row,       \* row[d]: abs_path and lifecycle, in worker_dirs while listed
    untouched, \* directories whose mtime is older than the limit
    cmd,       \* the running command: phase and candidates
    commands, changes,
    killed,    \* history: a command was killed half way, or could not go back
    marked     \* history: rows that have been marked for deletion

vars == <<disk, row, untouched, cmd, commands, changes, killed, marked>>

Candidates == [dir : Dirs, path : Paths]   \* a directory and its path when it was selected
Idle == [phase |-> "off", todo |-> <<>>]
Now == Head(cmd.todo)

Init ==
    /\ disk = [p \in Paths |-> IF p[1] = "home" THEN p[2] ELSE Nothing]
    /\ row = [d \in Dirs |-> [path |-> Home(d), lifecycle |-> "active", listed |-> TRUE]]
    /\ untouched = Dirs
    /\ cmd = Idle /\ commands = 0 /\ changes = 0
    /\ killed = FALSE /\ marked = {}
-----------------------------------------------------------------------------
(* Directories and their rows, in the order of the query. *)
InAnyOrder(S) == CHOOSE s \in Injection(1 .. Cardinality(S), S) : TRUE

Select(phase, S) ==
    /\ cmd = Idle /\ commands < MaxCommands
    /\ commands' = commands + 1
    /\ cmd' = [phase |-> phase, todo |-> InAnyOrder({[dir |-> d, path |-> row[d].path] : d \in S})]
    /\ UNCHANGED <<disk, row, untouched, changes, killed, marked>>

(* select_archive_candidates: only a directory that is there has a time. *)
SelectArchive ==
    Select("archive", {d \in Dirs : row[d].listed /\ row[d].lifecycle = "active"
                                       /\ disk[row[d].path] = d /\ d \in untouched})

SelectPurge ==
    Select("purge", {d \in Dirs : row[d].listed /\ row[d].lifecycle = "delete_pending"})

Done == /\ cmd.phase \in {"archive", "purge"} /\ cmd.todo = <<>>
        /\ cmd' = Idle
        /\ UNCHANGED <<disk, row, untouched, commands, changes, killed, marked>>

At(phase) == cmd.phase = phase /\ cmd.todo # <<>>
Goto(phase) == cmd' = [cmd EXCEPT !.phase = phase]
NextCandidate == cmd' = [cmd EXCEPT !.phase = "archive", !.todo = Tail(@)]

(* apply_archive: a directory that has gone is passed over, a target that  *)
(* is there ends the command.                                              *)
Skip ==
    /\ At("archive")
    /\ \/ disk[Now.path] = Nothing /\ NextCandidate
       \/ disk[Now.path] # Nothing /\ disk[ArchiveTarget(Now.dir)] # Nothing /\ cmd' = Idle
    /\ UNCHANGED <<disk, row, untouched, commands, changes, killed, marked>>

Movable == At("archive") /\ disk[Now.path] # Nothing /\ disk[ArchiveTarget(Now.dir)] = Nothing

(* os.rename, on one device; ... *)
Rename ==
    /\ Movable
    /\ disk' = [disk EXCEPT ![Now.path] = Nothing, ![ArchiveTarget(Now.dir)] = disk[Now.path]]
    /\ Goto("moved")
    /\ UNCHANGED <<row, untouched, commands, changes, killed, marked>>

(* ... across devices a copy, which may fail half way, ... *)
Copy ==
    /\ Movable
    /\ disk' = [disk EXCEPT ![ArchiveTarget(Now.dir)] = Part]
    /\ Goto("copying")
    /\ UNCHANGED <<row, untouched, commands, changes, killed, marked>>

CopyFails ==
    /\ At("copying")
    /\ cmd' = Idle
    /\ UNCHANGED <<disk, row, untouched, commands, changes, killed, marked>>

(* ... and the removal of the original. *)
Copied ==
    /\ At("copying")
    /\ disk' = [disk EXCEPT ![ArchiveTarget(Now.dir)] = Now.dir, ![Now.path] = Nothing]
    /\ Goto("moved")
    /\ UNCHANGED <<row, untouched, commands, changes, killed, marked>>

(* The row of that path follows, which is still the directory's; no two    *)
(* rows have the same path.                                                *)
Commit ==
    /\ At("moved")
    /\ \A d \in Dirs \ {Now.dir} : row[d].listed => row[d].path # ArchiveTarget(Now.dir)
    /\ row' = [row EXCEPT ![Now.dir].path = ArchiveTarget(Now.dir), ![Now.dir].lifecycle = "archived"]
    /\ NextCandidate
    /\ UNCHANGED <<disk, untouched, commands, changes, killed, marked>>

(* Mistake: the directory stays where it is. *)
CommitFailsInPlace ==
    /\ At("moved")
    /\ cmd' = Idle
    /\ UNCHANGED <<disk, row, untouched, commands, changes, killed, marked>>

(* The database refuses: the directory goes back, and the command ends. *)
CommitFails ==
    /\ At("moved")
    /\ disk' = [disk EXCEPT ![Now.path] = Now.dir, ![ArchiveTarget(Now.dir)] = Nothing]
    /\ cmd' = Idle
    /\ UNCHANGED <<row, untouched, commands, changes, killed, marked>>

(* It cannot go back, and stays where no row says, like after a kill. *)
RollBackFails ==
    /\ At("moved")
    /\ \E left \in {Nothing, Part} : disk' = [disk EXCEPT ![Now.path] = left]
    /\ cmd' = Idle /\ killed' = TRUE
    /\ UNCHANGED <<row, untouched, commands, changes, marked>>

(* apply_purge: the tree, then the row of that path. *)
RemoveTree ==
    /\ At("purge")
    /\ disk' = [disk EXCEPT ![Now.path] = Nothing]
    /\ Goto("removed")
    /\ UNCHANGED <<row, untouched, commands, changes, killed, marked>>

(* Part of the tree cannot be removed: the rest stays, with its row. *)
RemoveTreeFails ==
    /\ At("purge") /\ disk[Now.path] # Nothing
    /\ cmd' = Idle
    /\ UNCHANGED <<disk, row, untouched, commands, changes, killed, marked>>

DeleteRow ==
    /\ At("removed")
    /\ row' = [row EXCEPT ![Now.dir].listed = @ /\ row[Now.dir].path # Now.path]
    /\ cmd' = [cmd EXCEPT !.phase = "purge", !.todo = Tail(@)]
    /\ UNCHANGED <<disk, untouched, commands, changes, killed, marked>>

Kill ==
    /\ cmd # Idle
    /\ cmd' = Idle /\ killed' = TRUE
    /\ UNCHANGED <<disk, row, untouched, commands, changes, marked>>
-----------------------------------------------------------------------------
(* update_worker_dir_lifecycle of another process. *)
SetLifecycle(d) ==
    /\ changes < MaxChanges /\ row[d].listed
    /\ \E lifecycle \in {"active", "delete_pending"} \ {row[d].lifecycle} :
           /\ row' = [row EXCEPT ![d].lifecycle = lifecycle]
           /\ marked' = IF lifecycle = "delete_pending" THEN marked \cup {d} ELSE marked
    /\ changes' = changes + 1
    /\ UNCHANGED <<disk, untouched, cmd, commands, killed>>

(* A worker writes into the directory. *)
Touch(d) ==
    /\ d \in untouched
    /\ untouched' = untouched \ {d}
    /\ UNCHANGED <<disk, row, cmd, commands, changes, killed, marked>>

Next ==
    \/ SelectArchive \/ SelectPurge \/ Done \/ Skip
    \/ Rename \/ Copy \/ CopyFails \/ Copied \/ Commit \/ CommitFails \/ RollBackFails
    \/ RemoveTree \/ RemoveTreeFails \/ DeleteRow \/ Kill
    \/ \E d \in Dirs : SetLifecycle(d) \/ Touch(d)

Spec == Init /\ [][Next]_vars
-----------------------------------------------------------------------------
TypeOK ==
    /\ disk \in [Paths -> Dirs \cup {Nothing, Part}]
    /\ row \in [Dirs -> Rows]
    /\ untouched \subseteq Dirs /\ marked \subseteq Dirs
    /\ cmd \in [phase : {"off", "archive", "copying", "moved", "purge", "removed"},
                todo : Seq(Candidates)]
    /\ killed \in BOOLEAN

(* Between commands, unless one was killed or stuck, every directory that  *)
(* is left is where its row says, and one that was never marked is left.   *)
RowFindsDirectory ==
    cmd = Idle /\ ~killed =>
        \A d \in Dirs :
            /\ row[d].listed => \A p \in Paths : disk[p] = d => p = row[d].path
            /\ d \notin marked => row[d].listed /\ disk[row[d].path] = d
=============================================================================
