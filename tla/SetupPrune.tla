----------------------------- MODULE SetupPrune -----------------------------
(***************************************************************************)
(* tools/org_setup_prune.py: the settings of the roles are rewritten from   *)
(* the template and an override, and two blocks are merged into the user's  *)
(* own settings.  A file is read, backed up under the time of day and       *)
(* written over in place, without a lock; a file that does not parse is     *)
(* never written.  Settings are reduced to the entries that the command     *)
(* tells apart.                                                             *)
(***************************************************************************)
EXTENDS Naturals, Sequences, FiniteSets

CONSTANTS MaxCommands, MaxSeconds, MaxEdits, MaxKills     \* bounds

Roles == {"secretary", "dispatcher"}
Files == Roles \cup {"user"}
Torn == {"cut off"}         \* a file that does not parse
Absent == {"no file"}
Transports == {"renga", "broker"}

(* The entries that the command tells apart.  Of the user's settings, deny:  *)
(* candidate, retired, write guard; allow: the transports; own and added    *)
(* later: the operator's.  Of a role's, template, path, stale; extension    *)
(* and forbidden come from an override.                                     *)
AllEntries == {"candidate", "retired", "write guard", "renga", "broker", "own", "added later",
               "template", "path", "stale", "extension", "forbidden"} \cup Torn \cup Absent

VARIABLES
    file,       \* file[f]: its entries
    override,   \* override[r]: entries of settings.local.override.json
    transport,  \* ORG_TRANSPORT
    backup,     \* [f, second] -> content
    second,     \* the time of day
    cmd,        \* the running command
    commands, edits, kills,
    replaced,   \* history: what a command with back-ups has written over
    clash,      \* history: files with two back-ups in one second
    raced       \* history: files that were edited between the read and the write

vars == <<file, override, transport, backup, second, cmd, commands, edits, kills, replaced, clash, raced>>
setting == <<override, transport>>
bounds == <<commands, edits, kills>>
history == <<replaced, clash, raced>>

NoCommand == [todo |-> <<>>, pc |-> "off", path |-> FALSE, keep |-> FALSE,
              read |-> {}, target |-> {}, rc |-> 0]

Init ==
    /\ \E dispatcher \in {Absent, {"own", "path", "stale"}}, user \in {Absent, {"retired", "broker", "own"}} :
           file = [secretary |-> {"template", "renga", "stale"}, dispatcher |-> dispatcher, user |-> user]
    /\ \E entries \in {{"extension"}, {"forbidden"}, Torn} :
           override = [secretary |-> {}, dispatcher |-> entries]
    /\ transport \in Transports
    /\ backup = <<>> /\ second = 1
    /\ cmd = NoCommand /\ commands = 0 /\ edits = 0 /\ kills = 0
    /\ replaced = [f \in Files |-> {}] /\ clash = {} /\ raced = {}
-----------------------------------------------------------------------------
(* main: --all, --user-common-sandbox, --user-common-allowlist, in this order. *)
StepNames == Roles \cup {"sandbox", "allowlist"}
Steps == {<<>>, <<"secretary", "dispatcher">>}
UserSteps == {<<>>, <<"sandbox">>, <<"allowlist">>, <<"sandbox", "allowlist">>}

Run(steps, path, keep) ==
    /\ cmd.pc = "off" /\ commands < MaxCommands
    /\ steps # <<>>
    /\ commands' = commands + 1
    /\ cmd' = [NoCommand EXCEPT !.todo = steps, !.pc = "read", !.path = path, !.keep = keep]
    /\ UNCHANGED <<file, setting, backup, second, edits, kills, history>>

FileOf(step) == IF step \in Roles THEN step ELSE "user"
Now == file[FileOf(Head(cmd.todo))]

(* Next step; the return code is the first that is not 0. *)
Passed(rc) == [cmd EXCEPT !.todo = Tail(@), !.rc = IF @ = 0 THEN rc ELSE @, !.read = {}, !.target = {},
                          !.pc = IF Len(cmd.todo) = 1 THEN "off" ELSE "read"]

(* build_target and rewrite_allow_entries: only the dispatcher's template  *)
(* needs the path, which is an argument or is found in the current file.   *)
PathKnown(role) == role # "dispatcher" \/ cmd.path \/ "path" \in Now

RoleTarget(role) ==
    {"template", transport} \cup override[role] \cup IF role = "dispatcher" THEN {"path"} ELSE {}

RoleRefused(role) ==
    Now = Torn \/ override[role] = Torn \/ ~PathKnown(role) \/ "forbidden" \in override[role]

Entries(content) == content \ Absent

(* _merge_sandbox_deny for denyRead and denyWrite, of a directory that is there. *)
SandboxTarget ==
    (Entries(Now) \ {"retired"}) \cup {"candidate", "write guard"}

(* merge_user_common_allowlist: the tiers of every transport are taken out. *)
AllowTarget == (Entries(Now) \ Transports) \cup {"broker"}

Target(step) ==
    CASE step \in Roles -> RoleTarget(step) [] step = "sandbox" -> SandboxTarget [] OTHER -> AllowTarget

(* Mistake: a user's settings that do not parse are taken for empty ones. *)
RefusedForRoles(step) == step \in Roles /\ RoleRefused(step)

(* A step that is refused or has nothing to do writes nothing. *)
Refused(step) == IF step \in Roles THEN RoleRefused(step) ELSE Now = Torn
Skipped(step) ==
    \/ step = "allowlist" /\ transport = "renga"
    \/ step \notin Roles /\ ~Refused(step) /\ Target(step) = Now

StepEnds ==
    /\ cmd.pc = "read"
    /\ \/ Skipped(Head(cmd.todo)) /\ cmd' = Passed(0)
       \/ ~Skipped(Head(cmd.todo)) /\ Refused(Head(cmd.todo)) /\ cmd' = Passed(2)
    /\ UNCHANGED <<file, setting, backup, second, bounds, history>>

Decide ==
    /\ cmd.pc = "read"
    /\ ~Skipped(Head(cmd.todo)) /\ ~Refused(Head(cmd.todo))
    /\ cmd' = [cmd EXCEPT !.read = Now, !.target = Target(Head(cmd.todo)), !.pc = "backup"]
    /\ UNCHANGED <<file, setting, backup, second, bounds, history>>

(* write_settings: a back-up is named after the file and the second. *)
Backup ==
    /\ cmd.pc = "backup"
    /\ LET f == FileOf(Head(cmd.todo)) IN
       IF cmd.keep /\ Now # Absent
       THEN /\ backup' = [k \in DOMAIN backup \cup {<<f, second>>} |->
                             IF k = <<f, second>> THEN Now ELSE backup[k]]
            /\ clash' = IF <<f, second>> \in DOMAIN backup THEN clash \cup {f} ELSE clash
       ELSE UNCHANGED <<backup, clash>>
    /\ cmd' = [cmd EXCEPT !.pc = "truncate"]
    /\ UNCHANGED <<file, setting, second, bounds, replaced, raced>>

Truncate ==
    /\ cmd.pc = "truncate"
    /\ LET f == FileOf(Head(cmd.todo)) IN
       /\ raced' = IF Now = cmd.read THEN raced ELSE raced \cup {f}
       /\ replaced' = IF cmd.keep /\ Now # Absent
                      THEN [replaced EXCEPT ![f] = @ \cup {Now}] ELSE replaced
       /\ file' = [file EXCEPT ![f] = Torn]
    /\ cmd' = [cmd EXCEPT !.pc = "write"]
    /\ UNCHANGED <<setting, backup, second, bounds, clash>>

Write ==
    /\ cmd.pc = "write"
    /\ file' = [file EXCEPT ![FileOf(Head(cmd.todo))] = cmd.target]
    /\ cmd' = Passed(0)
    /\ UNCHANGED <<setting, backup, second, bounds, history>>
-----------------------------------------------------------------------------
Tick ==
    /\ second < MaxSeconds
    /\ second' = second + 1
    /\ UNCHANGED <<file, setting, backup, cmd, bounds, history>>

(* The operator, or Claude Code, changes the user's settings. *)
Edit ==
    /\ edits < MaxEdits /\ file["user"] \notin {Torn, Absent}
    /\ edits' = edits + 1
    /\ file' = [file EXCEPT !["user"] = @ \cup {"added later"}]
    /\ UNCHANGED <<setting, backup, second, cmd, commands, kills, history>>

Kill ==
    /\ cmd.pc # "off" /\ kills < MaxKills
    /\ kills' = kills + 1
    /\ cmd' = NoCommand
    /\ UNCHANGED <<file, setting, backup, second, commands, edits, history>>

Next ==
    \/ \E roles \in Steps, user \in UserSteps, path, keep \in BOOLEAN : Run(roles \o user, path, keep)
    \/ StepEnds \/ Decide \/ Backup \/ Truncate \/ Write
    \/ Tick \/ Edit \/ Kill

Spec == Init /\ [][Next]_vars
-----------------------------------------------------------------------------
TypeOK ==
    /\ file \in [Files -> SUBSET AllEntries] /\ override \in [Roles -> SUBSET AllEntries]
    /\ transport \in Transports
    /\ \A k \in DOMAIN backup : k[1] \in Files /\ k[2] \in 1 .. second
    /\ second \in Nat \ {0} /\ commands \in Nat /\ edits \in Nat /\ kills \in Nat
    /\ cmd \in [todo : Seq(StepNames),
                pc : {"off", "read", "backup", "truncate", "write"}, path : BOOLEAN, keep : BOOLEAN,
                read : SUBSET AllEntries, target : SUBSET AllEntries, rc : {0, 2}]
    /\ cmd.pc # "off" => cmd.todo # <<>>

(* A command that keeps back-ups loses nothing: whatever it finds in a file *)
(* when it writes over it is in a back-up, if nobody has edited the file    *)
(* since it was read; but of two back-ups of a file in one second only the  *)
(* later is left.  What a killed command has left half written is never     *)
(* written over.  What the user has added to the own settings stays, if it  *)
(* is not added between the read and the write.  Nothing forbidden is       *)
(* written.                                                                 *)
Backups(f) == {backup[k] : k \in {k \in DOMAIN backup : k[1] = f}}

PruneLosesNothing ==
    /\ \A f \in Files \ (clash \cup raced) : replaced[f] \subseteq Backups(f)
    /\ \A f \in Files : Torn \notin replaced[f]
    /\ edits > 0 /\ "user" \notin raced => "added later" \in file["user"] \/ file["user"] = Torn
    /\ \A f \in Files : "forbidden" \notin file[f]
=============================================================================
