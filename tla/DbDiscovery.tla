----------------------------- MODULE DbDiscovery -----------------------------
(***************************************************************************)
(* How the tools find and open the state database: tools/state_db/         *)
(* discover.py, tools/state_db/__init__.py and the opening shared by       *)
(* journal_append.py, set_run_pr_open.py and pr_watch.py.                  *)
(*                                                                         *)
(* A tool is started from the main checkout or from a worktree of it.  It  *)
(* resolves the database's path, asks whether the file is there, connects  *)
(* (which makes an empty file) and then either applies the schema, one     *)
(* autocommitted CREATE at a time, or verifies it.  Tools run beside one   *)
(* another and may be killed anywhere.                                     *)
(***************************************************************************)
EXTENDS Naturals, FiniteSets, Sequences

CONSTANTS
    Tools,      \* runs of the event-recording tools
    MaxKills    \* bound: tools killed before they are done

VARIABLES
    tables,     \* [Databases -> tables in the file, or Absent]
    tool        \* [Tools -> a run of a tool: where from, where to, how far]

vars == <<tables, tool>>

------------------------------------------------------------------------------
(* Places.  "main" and "tree" are the databases of the main checkout and   *)
(* of the worktree; "named" is the one an override names.                   *)

Databases == {"main", "tree", "named"}

\* Where a tool is started: the worktree's .git pointer may be damaged.
Origins == {"main", "tree", "damaged"}

Absent == {"no file"}

\* schema.sql's tables, in its order, the ones no tool here touches left out.
SchemaSql == <<"projects", "runs", "events", "event_deliveries", "org_sessions">>

RequiredTables == {"runs", "events"}

AllTables == {SchemaSql[i] : i \in DOMAIN SchemaSql}

\* Mutant of Discovered: the root is the checkout the script lies in.
OwnCheckout(origin) == IF origin = "main" THEN "main" ELSE "tree"

\* discover_repo_root: a worktree leads to its main checkout; a pointer that
\* cannot be followed falls through to the worktree itself.
Discovered(origin) == IF origin = "damaged" THEN "tree" ELSE "main"

\* resolve_state_db_path: --db-path, then $STATE_DB_PATH, then discovery.
Resolved(origin, override) == IF override THEN "named" ELSE Discovered(origin)

Init ==
    /\ tables \in [Databases -> {Absent, AllTables}]
    /\ \E origin \in [Tools -> Origins], override \in [Tools -> BOOLEAN] :
         tool = [t \in Tools |->
                   [origin |-> origin[t], override |-> override[t],
                    db |-> Resolved(origin[t], override[t]),
                    step |-> "start", made |-> 0]]

To(t, step) == tool' = [tool EXCEPT ![t].step = step]

File(t) == tables[tool[t].db]

Missing(t) == RequiredTables \ File(t)

\* is_new_db = not db_path.exists()
Look(t) ==
    /\ tool[t].step = "start"
    /\ To(t, IF File(t) = Absent THEN "new" ELSE "old")
    /\ UNCHANGED tables

\* connect: the WAL pragma makes the file if nobody has.
Connect(t) ==
    /\ tool[t].step \in {"new", "old"}
    /\ tables' = IF File(t) = Absent THEN [tables EXCEPT ![tool[t].db] = {}]
                                     ELSE tables
    /\ To(t, IF tool[t].step = "new" THEN "create" ELSE "verify")

\* apply_schema: the next CREATE TABLE of schema.sql; a table that another
\* tool has made is an error, and the tool ends without its event (exit 1).
CreateNext(t) ==
    /\ tool[t].step = "create"
    /\ LET table == SchemaSql[tool[t].made + 1]
       IN  IF table \in File(t)
             THEN To(t, "failed") /\ UNCHANGED tables
             ELSE /\ tables' = [tables EXCEPT ![tool[t].db] = @ \cup {table}]
                  /\ tool' = [tool EXCEPT ![t].made = @ + 1,
                                ![t].step = IF tool[t].made + 1 = Len(SchemaSql)
                                              THEN "open" ELSE "create"]

\* verify_or_exit: a file without the required tables is refused (exit 2).
Verify(t) ==
    /\ tool[t].step = "verify"
    /\ To(t, IF Missing(t) = {} THEN "open" ELSE "refused")
    /\ UNCHANGED tables

\* StateWriter.__init__: the tables of the later schema versions are added.
OpenWriter(t) ==
    /\ tool[t].step = "open"
    /\ tables' = [tables EXCEPT ![tool[t].db] =
                    @ \cup {"org_sessions", "event_deliveries"}]
    /\ To(t, "write")

\* append_event, commit, exit 0.
Record(t) ==
    /\ tool[t].step = "write"
    /\ To(t, IF Missing(t) = {} THEN "recorded" ELSE "failed")
    /\ UNCHANGED tables

Ended == {"recorded", "failed", "refused", "killed"}

Kill(t) ==
    /\ tool[t].step \notin Ended \cup {"start"}
    /\ Cardinality({u \in Tools : tool[u].step = "killed"}) < MaxKills
    /\ To(t, "killed")
    /\ UNCHANGED tables

Next ==
    \E t \in Tools :
        Look(t) \/ Connect(t) \/ CreateNext(t) \/ Verify(t)
          \/ OpenWriter(t) \/ Record(t) \/ Kill(t)

Spec == Init /\ [][Next]_vars

------------------------------------------------------------------------------
Steps == {"start", "new", "old", "create", "verify", "open", "write"} \cup Ended

TypeOK ==
    /\ tables \in [Databases -> {Absent} \cup SUBSET AllTables]
    /\ tool \in [Tools -> [origin : Origins, override : BOOLEAN, db : Databases,
                           step : Steps, made : 0..Len(SchemaSql)]]

(* An event a tool says is recorded is in the main checkout's database,     *)
(* wherever the tool was started, unless the operator named another one or  *)
(* the worktree's pointer is damaged and its own database is there or made. *)
EventsAreTogether ==
    \A t \in Tools :
        tool[t].step = "recorded" /\ ~tool[t].override /\ tool[t].origin /= "damaged"
          => tool[t].db = "main" /\ RequiredTables \subseteq tables["main"]

(* A database without the tables the tools require, which nobody is making  *)
(* any more, is the work of a killed tool: two tools that both found no     *)
(* file, or one that opens the file while another makes it, may end without *)
(* an event but leave a database the next tool accepts.                     *)
UnusableOnlyAfterKill ==
    \A db \in Databases :
        /\ tables[db] /= Absent
        /\ ~(RequiredTables \subseteq tables[db])
        /\ \A t \in Tools : tool[t].db = db => tool[t].step \notin {"new", "create"}
        => \E t \in Tools : tool[t].db = db /\ tool[t].step = "killed"
==============================================================================
