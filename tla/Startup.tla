------------------------------ MODULE Startup ------------------------------
(***************************************************************************)
(* Start-up: what a server process does at the import of app.py, and       *)
(* scripts/seed_key.py next to it.                                         *)
(*                                                                         *)
(* Each of these processes brings the database up to date first            *)
(* (db.init_db).  executescript commits every CREATE ... IF NOT EXISTS by  *)
(* itself; then the columns of test_runs are looked up (Look), and a table *)
(* of an earlier release is given the column group_name (Alter).  No       *)
(* transaction holds these steps together, so that processes starting at   *)
(* the same time interleave between any two of them.  A server process     *)
(* then mounts the modules that config/app.config.json lists (Mount) and   *)
(* serves; seed_key.py stores a key and is done (InsertKey).  Any          *)
(* statement may give up on the lock of another process, and any process   *)
(* may die and be started again.                                           *)
(*                                                                         *)
(* Abstracted: columns other than group_name, indexes, the values of keys, *)
(* what a module's import brings along.                                    *)
(***************************************************************************)
EXTENDS Naturals, Sequences

CONSTANTS
    Workers,        \* server processes
    Scripts,        \* processes that run seed_key.py
    Schema,         \* the tables of db._SCHEMA, in its order
    Files,          \* what enabled_modules in the configuration file may be
    Torn,           \* a file that is being written and is no JSON
    Known,          \* the names in registry._MODULE_IMPORTS
    MaxStarts,      \* bound: starts of processes
    MaxEdits        \* bound: edits of the configuration file

Processes == Workers \union Scripts
Tables == {Schema[i] : i \in DOMAIN Schema}

ASSUME StartupAssumption ==
    /\ Schema \in Seq(STRING) /\ Len(Schema) > 0
    /\ "test_runs" \in Tables
    /\ Torn \notin Files
    /\ \A f \in Files : f \in Seq(STRING)
    /\ MaxStarts \in Nat /\ MaxEdits \in Nat

VARIABLES
    tables,     \* the tables of the database
    column,     \* whether test_runs has the column group_name
    issued,     \* whether table api_keys has a key
    file,       \* enabled_modules
    proc,       \* proc[p]: the process p
    starts,     \* how many starts there have been
    edits       \* how many edits there have been: the version of the file

startup == <<tables, column, issued, file, proc, starts, edits>>

Stages == {"down", "schema", "look", "alter", "mount", "insert", "serving"}

\* next is the statement of _SCHEMA to come.  version is auxiliary, the version
\* of the file the modules were mounted by, and so are died and began: whether
\* the last start died of a duplicate column, and whether the column was there
\* when it began.
Down == [at |-> "down", next |-> 1, mounted |-> {}, version |-> 0, died |-> FALSE, began |-> FALSE]

-----------------------------------------------------------------------------
(***************************************************************************)
(* init_db.                                                                *)
(***************************************************************************)
Start(p) ==
    /\ proc[p].at = "down"
    /\ starts < MaxStarts
    /\ starts' = starts + 1
    /\ proc' = [proc EXCEPT ![p] = [Down EXCEPT !.at = "schema", !.began = column]]
    /\ UNCHANGED <<tables, column, issued, file, edits>>

\* The next CREATE TABLE IF NOT EXISTS; a new test_runs has the column.
Create(p) ==
    /\ proc[p].at = "schema"
    /\ LET table == Schema[proc[p].next]
       IN  /\ tables' = tables \union {table}
           /\ column' = (column \/ (table = "test_runs" /\ table \notin tables))
    /\ proc' = [proc EXCEPT ![p].next = IF @ = Len(Schema) THEN 1 ELSE @ + 1,
                            ![p].at = IF proc[p].next = Len(Schema) THEN "look" ELSE @]
    /\ UNCHANGED <<issued, file, starts, edits>>

AfterInit(p) == IF p \in Workers THEN "mount" ELSE "insert"

\* Mistakes: the column is never added, or added without looking.
LookNever(p) ==
    /\ proc[p].at = "look"
    /\ proc' = [proc EXCEPT ![p].at = AfterInit(p)]
    /\ UNCHANGED <<tables, column, issued, file, starts, edits>>

LookAway(p) ==
    /\ proc[p].at = "look"
    /\ proc' = [proc EXCEPT ![p].at = "alter"]
    /\ UNCHANGED <<tables, column, issued, file, starts, edits>>

Look(p) ==
    /\ proc[p].at = "look"
    /\ proc' = [proc EXCEPT ![p].at = IF column THEN AfterInit(p) ELSE "alter"]
    /\ UNCHANGED <<tables, column, issued, file, starts, edits>>

\* ALTER TABLE raises if another process has added the column meanwhile, and
\* the exception ends the start.
Alter(p) ==
    /\ proc[p].at = "alter"
    /\ column' = TRUE
    /\ proc' = [proc EXCEPT ![p] = IF column THEN [Down EXCEPT !.died = TRUE, !.began = proc[p].began]
                                   ELSE [proc[p] EXCEPT !.at = AfterInit(p)]]
    /\ UNCHANGED <<tables, issued, file, starts, edits>>

-----------------------------------------------------------------------------
(***************************************************************************)
(* After init_db.                                                          *)
(***************************************************************************)
Listed(f) == {f[i] : i \in DOMAIN f}

\* Mistake: a name that is not known ends the loop (break for continue).
MountableUpToUnknown(f) ==
    {m \in Known : \E i \in DOMAIN f : f[i] = m /\ \A j \in 1..i : f[j] \in Known}

\* mount_modules: names that are not known are passed over.
Mountable(f) == Listed(f) \intersect Known

\* A file that cannot be read ends the start.
Mount(p) ==
    /\ proc[p].at = "mount"
    /\ proc' = [proc EXCEPT ![p] =
                  IF file = Torn THEN Down
                  ELSE [Down EXCEPT !.at = "serving", !.mounted = Mountable(file),
                                    !.version = edits]]
    /\ UNCHANGED <<tables, column, issued, file, starts, edits>>

InsertKey(p) ==
    /\ proc[p].at = "insert"
    /\ issued' = TRUE
    /\ proc' = [proc EXCEPT ![p] = Down]
    /\ UNCHANGED <<tables, column, file, starts, edits>>

\* A statement finds the database locked, the import of a module raises, or the
\* process dies before it is up.
Fail(p) ==
    /\ proc[p].at \notin {"down", "serving"}
    /\ proc' = [proc EXCEPT ![p] = Down]
    /\ UNCHANGED <<tables, column, issued, file, starts, edits>>

Die(p) ==
    /\ proc[p].at = "serving"
    /\ proc' = [proc EXCEPT ![p] = Down]
    /\ UNCHANGED <<tables, column, issued, file, starts, edits>>

\* An editor may empty the file and write it again.
Edit ==
    /\ edits < MaxEdits
    /\ edits' = edits + 1
    /\ file' \in (Files \union {Torn}) \ {file}
    /\ UNCHANGED <<tables, column, issued, proc, starts>>

-----------------------------------------------------------------------------
\* The database may be new, of the release before test_runs, of one whose
\* test_runs had no group_name, or up to date.
StartupInit ==
    /\ tables \in {{}, Tables \ {"test_runs"}, Tables}
    /\ column \in BOOLEAN
    /\ column => tables = Tables
    /\ issued = (tables # {})
    /\ file \in Files
    /\ proc = [p \in Processes |-> Down]
    /\ starts = 0
    /\ edits = 0

StartupStep(p) ==
    \/ Start(p) \/ Create(p) \/ Look(p) \/ Alter(p)
    \/ Mount(p) \/ InsertKey(p) \/ Fail(p)

-----------------------------------------------------------------------------
(***************************************************************************)
(* Properties.                                                             *)
(***************************************************************************)
\* Every variable of the start-up has its type.
StartupTypeOK ==
    /\ tables \subseteq Tables
    /\ column \in BOOLEAN /\ issued \in BOOLEAN
    /\ file \in Files \union {Torn}
    /\ proc \in [Processes ->
         [at : Stages, next : Nat, mounted : SUBSET Known, version : Nat,
          died : BOOLEAN, began : BOOLEAN]]
    /\ starts \in Nat /\ edits \in Nat

\* Whatever release the database is of, however many processes start at the
\* same time and die half way, one that serves requests or stores a key finds
\* every table, and in test_runs the column that history rows are written with.
ServingFindsItsSchema ==
    \A p \in Processes : proc[p].at \in {"mount", "insert", "serving"} =>
        tables = Tables /\ column

\* Two processes may both look before either adds the column, and the second
\* then dies of it.  That is over with the migration: a start that finds the
\* column when it begins never dies so, and one that did may be repeated.
MigrationRaceEnds ==
    \A p \in Processes :
        /\ proc[p].died => column /\ ~proc[p].began
        /\ proc[p].at = "alter" => ~proc[p].began
=============================================================================
