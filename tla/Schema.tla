------------------------------- MODULE Schema -------------------------------
(***************************************************************************)
(* The schema of the SQLite database.  Every start of the service migrates *)
(* it, statement by statement and without a transaction: tables that are   *)
(* missing are created, then each column that was added since is looked    *)
(* for and added.  A start may die or fail between two statements, and     *)
(* nothing keeps two of them apart.  The dashboard, a process that only    *)
(* reads, looks whether it finds the columns it needs before it serves.    *)
(***************************************************************************)
EXTENDS Naturals, Sequences

CONSTANTS Starters,    \* processes of the service that start
          OldSchemas   \* the databases there may be: sets of columns

VARIABLES
  schema,    \* the columns there are, as pairs of a table and a name
  place,     \* where each starter stands in the migration
  reader     \* where the dashboard stands in check_schema

schemaVars == <<schema, place, reader>>

Of(table, names) == {table} \X names

CoverageColumns ==
  {"coverage_total_files", "coverage_fully_reviewed_files",
   "coverage_partially_reviewed_files", "coverage_unreviewed_files",
   "coverage_total_diff_bytes", "coverage_reviewed_diff_bytes",
   "coverage_required_batches", "coverage_planned_batches",
   "coverage_completed_batches", "coverage_max_batches", "tool_rounds_used",
   "max_tool_rounds", "tool_calls_used", "max_tool_calls", "coverage_complete"}
ModeColumns ==
  {"execution_mode", "fallback_reason", "context_elapsed_ms", "fallback_elapsed_ms"}
ProgressColumns ==
  {"progress_phase", "progress_message", "progress_current", "progress_total",
   "progress_unit", "progress_updated_at"}

\* What a table has when it is created; columns no property tells apart are one.
Created ==
  [review_requests |-> {"row", "status", "findings", "comments"},
   review_task_runs |-> {"row", "status", "findings", "comments", "error"} \cup ModeColumns,
   review_coverage_files |-> {"row"},
   review_findings |-> {"row"},
   review_comment_records |-> {"row", "discussion_id", "note_id", "publish_position"},
   review_notifications |-> {"row"}]

\* The columns ensured of a table, after it: with each other in any order here,
\* in the order of the code there.
Ensured ==
  [review_requests |-> {"project_name", "project_path_with_namespace", "error_code", "error"},
   review_task_runs |-> {"error_code"} \cup ModeColumns \cup CoverageColumns
                          \cup ProgressColumns,
   review_coverage_files |-> {},
   review_findings |-> {},
   review_comment_records |-> {"publish_position"},
   review_notifications |-> {}]

Tables == <<"review_requests", "review_task_runs", "review_coverage_files",
            "review_findings", "review_comment_records", "review_notifications">>

Exists(table) == \E c \in schema : c[1] = table

\* An old database may lack a table, and of one it has what was added later.
ASSUME OldSchemasAssumption ==
  \A old \in OldSchemas : \A i \in DOMAIN Tables :
    (\E c \in old : c[1] = Tables[i])
      => Of(Tables[i], Created[Tables[i]] \ Ensured[Tables[i]]) \subseteq old

Down == [at |-> "down"]
Migrating(i, missing) == [at |-> "migrating", table |-> i, missing |-> missing, step |-> "check"]

SchemaInit ==
  /\ schema \in OldSchemas
  /\ place = [s \in Starters |-> Down]
  /\ reader = "down"

-----------------------------------------------------------------------------
(* The service starts.                                                     *)

\* create table if not exists: table i, and its columns are next.
Create(s, i) ==
  /\ schema' = schema \cup (IF Exists(Tables[i]) THEN {}
                            ELSE Of(Tables[i], Created[Tables[i]]))
  /\ place' = [place EXCEPT ![s] = Migrating(i, Ensured[Tables[i]])]

Start(s) ==
  /\ place[s].at = "down"
  /\ Create(s, 1)
  /\ UNCHANGED reader

In(s, step) == place[s].at = "migrating" /\ place[s].step = step
Here(s) == Tables[place[s].table]
To(s, step) == place' = [place EXCEPT ![s].step = step]

\* The columns of a table are done: on to the next table, or to serve.
NextTable(s) ==
  /\ In(s, "check") /\ place[s].missing = {}
  /\ \/ place[s].table < Len(Tables) /\ Create(s, place[s].table + 1)
     \/ /\ place[s].table = Len(Tables)
        /\ place' = [place EXCEPT ![s] = [at |-> "serving"]]
        /\ UNCHANGED schema
  /\ UNCHANGED reader

\* The order of the columns is fixed.
NextColumn(s) == CHOOSE c \in place[s].missing : TRUE
Passed(s) ==
  place' = [place EXCEPT ![s].missing = @ \ {NextColumn(s)}, ![s].step = "check"]

\* ensure_column: the column is there already, or is to be added.
CheckColumn(s) ==
  /\ In(s, "check") /\ place[s].missing # {}
  /\ IF <<Here(s), NextColumn(s)>> \in schema THEN Passed(s) ELSE To(s, "alter")
  /\ UNCHANGED <<schema, reader>>

\* It is added; or another starter was faster, which is an error.
AddColumn(s) ==
  /\ In(s, "alter")
  /\ LET column == <<Here(s), NextColumn(s)>> IN
       \/ column \notin schema /\ schema' = schema \cup {column} /\ Passed(s)
       \/ column \in schema /\ UNCHANGED schema /\ To(s, "recheck")
  /\ UNCHANGED reader

Fail(s, why) == place' = [place EXCEPT ![s] = [at |-> "failed", why |-> why]]

\* Faulty variant: the error is taken as it comes.
RecheckNothing(s) ==
  /\ In(s, "recheck") /\ Fail(s, "other starter")
  /\ UNCHANGED <<schema, reader>>

\* After an error the column is looked for again before the start gives up.
Recheck(s) ==
  /\ In(s, "recheck") \/ In(s, "doubt")
  /\ IF <<Here(s), NextColumn(s)>> \in schema THEN Passed(s)
     ELSE Fail(s, IF In(s, "doubt") THEN "trouble" ELSE "other starter")
  /\ UNCHANGED <<schema, reader>>

\* Any statement may fail for a reason of its own: the database stays locked for
\* the busy timeout, the disk is full.  An alter is followed by the second look.
StatementFails(s) ==
  /\ place[s].at = "migrating"
  /\ IF In(s, "alter") THEN To(s, "doubt") ELSE Fail(s, "trouble")
  /\ UNCHANGED <<schema, reader>>

\* The process ends, wherever it is; it may be started again.
Stop(s) ==
  /\ place[s].at # "down"
  /\ place' = [place EXCEPT ![s] = Down]
  /\ UNCHANGED <<schema, reader>>

-----------------------------------------------------------------------------
(* The dashboard connects: check_schema.                                   *)

RequiredTables ==
  {"review_requests", "review_task_runs", "review_findings", "review_comment_records",
   "review_coverage_files"}
RequiredColumns ==
  Of("review_requests", {"project_name", "project_path_with_namespace", "error_code",
                         "error"})
    \cup Of("review_task_runs", {"error_code"} \cup CoverageColumns \cup ModeColumns
                                  \cup ProgressColumns)
    \cup Of("review_comment_records", {"publish_position"})

\* The tables are looked for first, then the columns; what is missing ends it.
ReaderConnects ==
  /\ reader = "down"
  /\ reader' = IF \A t \in RequiredTables : Exists(t) THEN "columns" ELSE "down"
  /\ UNCHANGED <<schema, place>>

ReaderServes ==
  /\ reader = "columns"
  /\ reader' = IF RequiredColumns \subseteq schema THEN "serving" ELSE "down"
  /\ UNCHANGED <<schema, place>>

SchemaNext ==
  \/ \E s \in Starters : \/ Start(s) \/ NextTable(s) \/ CheckColumn(s) \/ AddColumn(s)
                         \/ Recheck(s) \/ StatementFails(s) \/ Stop(s)
  \/ ReaderConnects \/ ReaderServes

-----------------------------------------------------------------------------
\* What the statements of storage/mod.rs write.
WrittenColumns ==
  UNION {Of(t, Created[t] \cup Ensured[t]) : t \in {Tables[i] : i \in 1..Len(Tables)}}

\* What the queries of the dashboard name.
QueriedColumns ==
  Of("review_requests", {"row", "status", "findings", "comments", "error_code", "error",
                         "project_name", "project_path_with_namespace"})
    \cup Of("review_task_runs", {"row", "status", "findings", "comments", "error",
                                 "error_code"}
                                  \cup CoverageColumns \cup ModeColumns \cup ProgressColumns)
    \cup Of("review_coverage_files", {"row"})
    \cup Of("review_findings", {"row"})
    \cup Of("review_comment_records", {"row", "discussion_id", "note_id",
                                       "publish_position"})

(* Whatever an earlier start has left behind, and whoever starts at the    *)
(* same time: no start fails for that, one that is through has all the     *)
(* columns its statements write, and a dashboard that serves, also one     *)
(* that connected in the middle of a migration, has all it asks for        *)
(* (migrate, ensure_column, check_schema).                                 *)
MigrationHolds ==
  /\ \A s \in Starters :
       /\ place[s].at = "failed" => place[s].why = "trouble"
       /\ place[s].at = "serving" => WrittenColumns \subseteq schema
  /\ reader = "serving" => QueriedColumns \subseteq schema
=============================================================================
