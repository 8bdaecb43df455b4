-------------------------- MODULE DashboardProofs --------------------------
(***************************************************************************)
(* Theorems about Schema and Dashboard, for any runs, reviews, starts and  *)
(* old databases.                                                          *)
(*                                                                         *)
(* SchemaInv says where each starter stands in the migration and what must *)
(* be there by then.  RowsInv follows each run by its desk: which of its   *)
(* rows can be open, that the request's row is the last to end and what    *)
(* the rows say of the end.  NumbersInv adds what a run's rows count of    *)
(* findings and comments, sums over its tasks.  PageInv relates a page in  *)
(* the making to the rows: those it read stand still only once the run's   *)
(* request has ended, which is what its first statement reads.  OpenedInv  *)
(* says that a run is opened once, and before it has any finding: what is  *)
(* counted run by run, group by group and along the list is then the same. *)
(***************************************************************************)
EXTENDS Dashboard, FoldFacts

-----------------------------------------------------------------------------
(* The migration.                                                          *)

Places == 1..6
Full(i) == Of(Tables[i], Created[Tables[i]] \cup Ensured[Tables[i]]) \subseteq schema
Base(i) == Of(Tables[i], Created[Tables[i]] \ Ensured[Tables[i]]) \subseteq schema

\* Where a starter stands in the migration: the tables before its own are done,
\* its own is there, and of it the columns it has passed.
Migrations ==
  [at : {"migrating"}, table : Places,
   missing : SUBSET UNION {Ensured[Tables[i]] : i \in Places},
   step : {"check", "alter", "recheck", "doubt"}]
AmidWith(i, m, step) ==
  /\ i \in Places /\ m \subseteq Ensured[Tables[i]]
  /\ step \in {"check", "alter", "recheck", "doubt"}
  /\ step # "check" => m # {}
  /\ step = "recheck" => <<Tables[i], CHOOSE c \in m : TRUE>> \in schema
  /\ Exists(Tables[i])
  /\ Of(Tables[i], (Created[Tables[i]] \cup Ensured[Tables[i]]) \ m) \subseteq schema
  /\ \A j \in Places : j < i => Full(j)
Amid(s) ==
  place[s] \in Migrations /\ AmidWith(place[s].table, place[s].missing, place[s].step)

Standing(s) ==
  \/ place[s] = Down
  \/ Amid(s)
  \/ place[s] = [at |-> "serving"] /\ \A i \in Places : Full(i)
  \/ place[s] = [at |-> "failed", why |-> "trouble"]

SchemaInv ==
  /\ DOMAIN place = Starters
  /\ \A s \in Starters : Standing(s)
  /\ \A i \in Places : Exists(Tables[i]) => Base(i)
  /\ reader \in {"down", "columns", "serving"}
  /\ reader = "columns" => \A t \in RequiredTables : Exists(t)
  /\ reader = "serving" => QueriedColumns \subseteq schema

LEMMA TablesDomain == DOMAIN Tables = Places /\ Len(Tables) = 6
<1> QED BY DEF Tables, Places

LEMMA FullIsWritten ==
  ASSUME \A i \in Places : Full(i) PROVE WrittenColumns \subseteq schema
<1> QED BY TablesDomain DEF WrittenColumns, Full, Places

\* The columns the dashboard asks for are those it looked for, and those a table
\* has had from the first.
LEMMA QueriedAreThere ==
  ASSUME \A i \in Places : Exists(Tables[i]) => Base(i),
         \A t \in RequiredTables : Exists(t), RequiredColumns \subseteq schema
  PROVE  QueriedColumns \subseteq schema
<1>1. Base(1) /\ Base(2) /\ Base(3) /\ Base(4) /\ Base(5)
  BY DEF RequiredTables, Tables, Places
<1>2. Of("review_requests", {"row", "status", "findings", "comments"}) \subseteq schema
  BY <1>1 DEF Base, Tables, Created, Ensured, Of
<1>3. Of("review_task_runs", {"row", "status", "findings", "comments", "error"}) \subseteq schema
  BY <1>1 DEF Base, Tables, Created, Ensured, Of, CoverageColumns, ModeColumns, ProgressColumns
<1>4. Of("review_coverage_files", {"row"}) \subseteq schema
  BY <1>1 DEF Base, Tables, Created, Ensured, Of
<1>5. Of("review_findings", {"row"}) \subseteq schema
  BY <1>1 DEF Base, Tables, Created, Ensured, Of
<1>6. Of("review_comment_records", {"row", "discussion_id", "note_id"}) \subseteq schema
  BY <1>1 DEF Base, Tables, Created, Ensured, Of
<1> QED BY <1>2, <1>3, <1>4, <1>5, <1>6 DEF QueriedColumns, RequiredColumns, Of

LEMMA SchemaInvInit == SchemaInit \/ Started => SchemaInv
<1>1. ASSUME SchemaInit PROVE SchemaInv
  <2>1. schema \in OldSchemas /\ DOMAIN place = Starters /\ reader = "down"
    BY <1>1 DEF SchemaInit
  <2>2. \A s \in Starters : Standing(s)
    BY <1>1 DEF SchemaInit, Standing
  <2>3. \A i \in Places : Exists(Tables[i]) => Base(i)
    BY <2>1, OldSchemasAssumption, TablesDomain DEF Exists, Base
  <2> QED BY <2>1, <2>2, <2>3 DEF SchemaInv
<1>2. ASSUME Started PROVE SchemaInv
  <2>1. \A i \in Places : Full(i) /\ Base(i)
    BY <1>2, TablesDomain DEF Started, WrittenColumns, Full, Base, Of, Places
  <2>2. \A s \in Starters : Standing(s)
    BY <1>2, <2>1 DEF Started, Standing
  <2>3. QueriedColumns \subseteq schema
    <3>1. /\ Full(1) /\ Full(2) /\ Full(3) /\ Full(4) /\ Full(5)
      BY <2>1 DEF Places
    <3> QED BY <3>1 DEF Full, QueriedColumns, Of, Tables, Created, Ensured
  <2> QED BY <1>2, <2>1, <2>2, <2>3 DEF SchemaInv, Started
<1> QED BY <1>1, <1>2

\* Columns are never lost, and whoever does not move stays where it stands.
LEMMA StandingStays ==
  ASSUME NEW s, Standing(s), place'[s] = place[s], schema \subseteq schema'
  PROVE  Standing(s)'
<1>1. \A i : (Full(i) => Full(i)') /\ (Exists(Tables[i]) => Exists(Tables[i])')
  BY DEF Full, Exists
<1>2. CASE Amid(s)
  BY <1>1, <1>2 DEF Amid, AmidWith, Standing
<1> QED BY <1>1, <1>2 DEF Standing

LEMMA OneMoves ==
  ASSUME SchemaInv, NEW s \in Starters, DOMAIN place' = Starters,
         \A r \in Starters \ {s} : place'[r] = place[r],
         schema \subseteq schema', Standing(s)', UNCHANGED reader,
         \A i \in Places : Exists(Tables[i])' => Base(i)'
  PROVE  SchemaInv'
<1>1. \A r \in Starters : Standing(r)'
  <2> SUFFICES ASSUME NEW r \in Starters, r # s PROVE Standing(r)'
    OBVIOUS
  <2>1. place'[r] = place[r] /\ Standing(r)
    BY DEF SchemaInv
  <2> QED BY <2>1, StandingStays
<1>3. reader' = "columns" => \A t \in RequiredTables : Exists(t)'
  BY DEF SchemaInv, Exists
<1>4. reader' = "serving" => QueriedColumns \subseteq schema'
  BY DEF SchemaInv
<1> QED BY <1>1, <1>3, <1>4 DEF SchemaInv

\* What does not create a table leaves all with their columns.
LEMMA BasesStay ==
  ASSUME SchemaInv, NEW i \in Places, NEW n \in Ensured[Tables[i]],
         schema' \in {schema, schema \cup {<<Tables[i], n>>}}, Exists(Tables[i])
  PROVE  /\ schema \subseteq schema'
         /\ \A j \in Places : Exists(Tables[j])' => Base(j)'
<1>1. schema \subseteq schema'
  OBVIOUS
<1>2. ASSUME NEW j \in Places, Exists(Tables[j])' PROVE Exists(Tables[j])
  BY <1>2 DEF Exists
<1>3. \A j \in Places : Base(j) => Base(j)'
  BY <1>1 DEF Base
<1> QED BY <1>1, <1>2, <1>3 DEF SchemaInv

LEMMA CreateStep ==
  ASSUME SchemaInv, NEW s \in Starters, NEW i \in Places, Create(s, i), UNCHANGED reader,
         \A j \in Places : j < i => Full(j)
  PROVE  SchemaInv'
<1>1. schema \subseteq schema'
  BY DEF Create
<1>2. ASSUME NEW j \in Places, Exists(Tables[j])' PROVE Base(j)'
  <2>1. CASE Exists(Tables[j])
    BY <1>1, <2>1 DEF SchemaInv, Base
  <2>2. CASE ~Exists(Tables[j])
    <3>1. ~Exists(Tables[i]) /\ schema' = schema \cup Of(Tables[i], Created[Tables[i]]) /\ Tables[j] = Tables[i]
      BY <1>2, <2>2 DEF Create, Exists, Of
    <3> QED BY <3>1 DEF Base, Of
  <2> QED BY <2>1, <2>2
<1>3. Of(Tables[i], Created[Tables[i]] \ Ensured[Tables[i]]) \subseteq schema'
  <2>1. CASE Exists(Tables[i])
    BY <1>1, <2>1 DEF SchemaInv, Base
  <2>2. CASE ~Exists(Tables[i])
    BY <2>2 DEF Create, Of
  <2> QED BY <2>1, <2>2
<1>4. place'[s] = Migrating(i, Ensured[Tables[i]])
  BY DEF Create, SchemaInv
<1>5. Amid(s)'
  <2>1. \A j \in Places : j < i => Full(j)'
    BY <1>1 DEF Full
  <2>2. Of(Tables[i], (Created[Tables[i]] \cup Ensured[Tables[i]]) \ Ensured[Tables[i]]) \subseteq schema'
    BY <1>3 DEF Of
  <2>3. Exists(Tables[i])'
    <3>1. CASE Exists(Tables[i])
      BY <1>1, <3>1 DEF Exists
    <3>2. CASE ~Exists(Tables[i])
      <4>1. "row" \in Created[Tables[i]]
        BY DEF Places, Tables, Created
      <4>2. <<Tables[i], "row">> \in schema'
        BY <3>2, <4>1 DEF Create, Of
      <4> QED BY <4>2 DEF Exists
    <3> QED BY <3>1, <3>2
  <2>4. place'[s] \in Migrations
    BY <1>4 DEF Migrating, Migrations
  <2>5. AmidWith(i, Ensured[Tables[i]], "check")'
    BY <2>1, <2>2, <2>3 DEF AmidWith
  <2> QED BY <1>4, <2>4, <2>5 DEF Amid, Migrating
<1>6. DOMAIN place' = Starters /\ \A r \in Starters \ {s} : place'[r] = place[r]
  BY DEF Create, SchemaInv
<1> QED BY <1>1, <1>2, <1>5, <1>6, OneMoves DEF Standing

LEMMA SchemaInvNext == SchemaInv /\ SchemaNext => SchemaInv'
<1> SUFFICES ASSUME SchemaInv, SchemaNext PROVE SchemaInv'
  OBVIOUS
<1>0. ASSUME NEW s \in Starters, place[s].at = "migrating" PROVE Amid(s)
  BY <1>0 DEF SchemaInv, Standing, Down
<1>1. ASSUME NEW s \in Starters, Start(s) PROVE SchemaInv'
  <2>1. 1 \in Places /\ \A j \in Places : ~(j < 1)
    BY DEF Places
  <2> QED BY <1>1, <2>1, CreateStep DEF Start
<1>2. ASSUME NEW s \in Starters, NextTable(s) PROVE SchemaInv'
  <2> PICK i : i = place[s].table
    OBVIOUS
  <2>0. /\ i \in Places
        /\ Of(Tables[i], (Created[Tables[i]] \cup Ensured[Tables[i]]) \ place[s].missing) \subseteq schema
        /\ \A j \in Places : j < i => Full(j)
    BY <1>0, <1>2 DEF NextTable, In, Amid, AmidWith
  <2>1. place[s].missing = {} /\ place[s].table = i
    BY <1>2 DEF NextTable
  <2>2. Full(i)
    BY <2>0, <2>1 DEF Full
  <2>3. \A j \in Places : j < i + 1 => Full(j)
    BY <2>0, <2>2 DEF Places
  <2>4. CASE i < Len(Tables) /\ Create(s, i + 1)
    <3>1. i + 1 \in Places
      BY <2>0, <2>4, TablesDomain DEF Places
    <3> QED BY <1>2, <2>3, <2>4, <3>1, CreateStep DEF NextTable
  <2>5. CASE i = Len(Tables) /\ place' = [place EXCEPT ![s] = [at |-> "serving"]] /\ UNCHANGED schema
    <3>0. \A j \in Places : Full(j)
      <4>1. \A j \in Places : j < i + 1
        BY <2>5, TablesDomain DEF Places
      <4> QED BY <2>3, <4>1
    <3>1. \A j \in Places : Full(j)'
      BY <2>5, <3>0 DEF Full
    <3>2. Standing(s)'
      BY <2>5, <3>1 DEF Standing, SchemaInv
    <3>3. \A j \in Places : Exists(Tables[j])' => Base(j)'
      BY <2>5 DEF SchemaInv, Exists, Base
    <3>4. DOMAIN place' = Starters /\ \A r \in Starters \ {s} : place'[r] = place[r]
      BY <2>5 DEF SchemaInv
    <3>5. schema \subseteq schema' /\ UNCHANGED reader
      BY <1>2, <2>5 DEF NextTable
    <3> QED BY <3>2, <3>3, <3>4, <3>5, OneMoves
  <2> QED BY <1>2, <2>1, <2>4, <2>5 DEF NextTable
\* The steps on one column.
<1>3. ASSUME NEW s \in Starters, CheckColumn(s) \/ AddColumn(s) \/ Recheck(s) \/ StatementFails(s)
      PROVE SchemaInv'
  <2>00. Amid(s)
    BY <1>0, <1>3 DEF CheckColumn, AddColumn, Recheck, StatementFails, In
  <2> PICK i, m, step : place[s].table = i /\ place[s].missing = m /\ place[s].step = step
    OBVIOUS
  <2> DEFINE n == CHOOSE c \in m : TRUE
  <2>0. place[s] \in Migrations /\ AmidWith(i, m, step)
    BY <2>00 DEF Amid
  <2>i. /\ i \in Places /\ m \subseteq Ensured[Tables[i]] /\ Exists(Tables[i])
        /\ step \in {"check", "alter", "recheck", "doubt"} /\ (step # "check" => m # {})
        /\ step = "recheck" => <<Tables[i], n>> \in schema
    BY <2>0 DEF AmidWith
  <2>1. NextColumn(s) = n /\ Here(s) = Tables[i] /\ (m # {} => n \in m)
    BY DEF NextColumn, Here
  <2> HIDE DEF n
  <2>2. ASSUME Passed(s), <<Tables[i], n>> \in schema', schema \subseteq schema', m # {}
        PROVE  Standing(s)'
    <3>1. place' = [place EXCEPT ![s].missing = m \ {n}, ![s].step = "check"]
      BY <2>1, <2>2 DEF Passed
    <3>2. /\ place'[s] \in Migrations
          /\ place'[s].table = i /\ place'[s].missing = m \ {n} /\ place'[s].step = "check"
      BY <2>0, <3>1 DEF Migrations, SchemaInv
    <3>3. AmidWith(i, m \ {n}, "check")'
      BY <2>0, <2>2 DEF AmidWith, Of, Exists, Full
    <3> QED BY <3>2, <3>3 DEF Standing, Amid
  <2>3. ASSUME NEW st \in {"alter", "recheck", "doubt"}, To(s, st), schema' = schema, m # {},
               st = "recheck" => <<Tables[i], n>> \in schema
        PROVE  Standing(s)'
    <3>1. /\ place'[s] \in Migrations
          /\ place'[s].table = i /\ place'[s].missing = m /\ place'[s].step = st
      BY <2>0, <2>3 DEF To, Migrations, SchemaInv
    <3>2. AmidWith(i, m, st)'
      BY <2>0, <2>3 DEF AmidWith, Of, Exists, Full, n
    <3> QED BY <3>1, <3>2 DEF Standing, Amid
  <2>4. ASSUME Fail(s, "trouble") PROVE Standing(s)'
    BY <2>4 DEF Fail, Standing, SchemaInv
  <2>5. schema' \in {schema, schema \cup {<<Tables[i], n>>}} /\ UNCHANGED reader
    BY <1>3, <2>1 DEF CheckColumn, AddColumn, Recheck, StatementFails
  <2>6. DOMAIN place' = Starters /\ \A r \in Starters \ {s} : place'[r] = place[r]
    BY <1>3 DEF CheckColumn, AddColumn, Recheck, StatementFails, Passed, To, Fail, SchemaInv
  <2>7. schema \subseteq schema' /\ \A j \in Places : Exists(Tables[j])' => Base(j)'
    <3>1. CASE schema' = schema
      BY <3>1 DEF SchemaInv, Exists, Base
    <3>2. CASE schema' # schema
      <4>1. m # {}
        <5>1. AddColumn(s)
          BY <1>3, <3>2 DEF CheckColumn, Recheck, StatementFails
        <5> QED BY <2>i, <5>1 DEF AddColumn, In
      <4>2. n \in Ensured[Tables[i]]
        BY <2>i, <2>1, <4>1
      <4> QED BY <2>i, <2>5, <4>2, BasesStay
    <3> QED BY <3>1, <3>2
  <2>8. Standing(s)'
    <3>1. CASE CheckColumn(s)
      BY <2>1, <2>2, <2>3, <3>1 DEF CheckColumn
    <3>2. CASE AddColumn(s)
      <4>1. m # {}
        BY <2>i, <3>2 DEF AddColumn, In
      <4> QED BY <2>1, <2>2, <2>3, <3>2, <4>1 DEF AddColumn
    <3>3. CASE Recheck(s)
      <4>1. m # {} /\ schema' = schema /\ step \in {"recheck", "doubt"}
        BY <2>i, <3>3 DEF Recheck, In
      <4>2. CASE <<Tables[i], n>> \in schema
        BY <2>1, <2>2, <3>3, <4>1, <4>2 DEF Recheck
      <4>3. CASE <<Tables[i], n>> \notin schema
        <5>1. step = "doubt"
          BY <2>i, <4>1, <4>3
        <5> QED BY <2>1, <2>4, <3>3, <4>3, <5>1 DEF Recheck, In
      <4> QED BY <4>2, <4>3
    <3>4. CASE StatementFails(s)
      BY <2>i, <2>3, <2>4, <3>4 DEF StatementFails, In
    <3> QED BY <1>3, <3>1, <3>2, <3>3, <3>4
  <2> QED BY <2>5, <2>6, <2>7, <2>8, OneMoves
<1>4. ASSUME NEW s \in Starters, Stop(s) PROVE SchemaInv'
  <2>1. Standing(s)' /\ schema \subseteq schema' /\ UNCHANGED reader
    BY <1>4 DEF Stop, Standing, SchemaInv
  <2>2. DOMAIN place' = Starters /\ \A r \in Starters \ {s} : place'[r] = place[r]
    BY <1>4 DEF Stop, SchemaInv
  <2>3. \A j \in Places : Exists(Tables[j])' => Base(j)'
    BY <1>4 DEF Stop, SchemaInv, Exists, Base
  <2> QED BY <2>1, <2>2, <2>3, OneMoves
<1>5. ASSUME ReaderConnects \/ ReaderServes PROVE SchemaInv'
  <2>1. UNCHANGED <<schema, place>>
    BY <1>5 DEF ReaderConnects, ReaderServes
  <2>2. \A s \in Starters : Standing(s)'
    BY <2>1, StandingStays DEF SchemaInv
  <2>3. \A i \in Places : Exists(Tables[i])' => Base(i)'
    BY <2>1 DEF SchemaInv, Exists, Base
  <2>4. reader' \in {"down", "columns", "serving"}
    BY <1>5 DEF ReaderConnects, ReaderServes
  <2>5. reader' = "columns" => \A t \in RequiredTables : Exists(t)'
    BY <1>5, <2>1 DEF ReaderConnects, ReaderServes, Exists
  <2>6. ASSUME reader' = "serving" PROVE QueriedColumns \subseteq schema'
    <3>1. reader = "columns" /\ RequiredColumns \subseteq schema
      BY <1>5, <2>6 DEF ReaderConnects, ReaderServes
    <3>2. QueriedColumns \subseteq schema
      BY <3>1, QueriedAreThere DEF SchemaInv
    <3> QED BY <2>1, <3>2
  <2>7. DOMAIN place' = Starters
    BY <2>1 DEF SchemaInv
  <2> QED BY <2>2, <2>3, <2>4, <2>5, <2>6, <2>7 DEF SchemaInv
<1> QED BY <1>1, <1>2, <1>3, <1>4, <1>5 DEF SchemaNext

LEMMA SchemaInvStays == SchemaInv /\ UNCHANGED schemaVars => SchemaInv'
<1> SUFFICES ASSUME SchemaInv, UNCHANGED schemaVars PROVE SchemaInv'
  OBVIOUS
<1>1. UNCHANGED <<schema, place, reader>>
  BY DEF schemaVars
<1>2. \A s \in Starters : Standing(s)'
  BY <1>1, StandingStays DEF SchemaInv
<1> QED BY <1>1, <1>2 DEF SchemaInv, Exists, Base

LEMMA SchemaInvHolds == Spec => []SchemaInv
<1>1. Init => SchemaInv
  BY SchemaInvInit DEF Init
<1>2. SchemaInv /\ [Next]_vars => SchemaInv'
  BY SchemaInvNext, SchemaInvStays DEF Next, vars
<1> QED BY <1>1, <1>2, PTL DEF Spec

(* Whatever database an earlier release left, however many starts run side *)
(* by side, die or fail between two statements: none fails because of      *)
(* another, one that is through has all its columns, and so has a          *)
(* dashboard that serves (migrate, ensure_column, check_schema).           *)
THEOREM MigrationHoldsAlways == Spec => []MigrationHolds
<1>1. SchemaInv => MigrationHolds
  <2> SUFFICES ASSUME SchemaInv PROVE MigrationHolds
    OBVIOUS
  <2>0. \A s \in Starters : Amid(s) => place[s].at = "migrating"
    BY DEF Amid, Migrations
  <2>1. ASSUME NEW s \in Starters PROVE place[s].at = "failed" => place[s].why = "trouble"
    BY <2>0 DEF SchemaInv, Standing, Down
  <2>2. ASSUME NEW s \in Starters, place[s].at = "serving" PROVE WrittenColumns \subseteq schema
    <3>1. \A i \in Places : Full(i)
      BY <2>0, <2>2 DEF SchemaInv, Standing, Down
    <3> QED BY <3>1, FullIsWritten
  <2> QED BY <2>1, <2>2 DEF MigrationHolds, SchemaInv
<1> QED BY <1>1, SchemaInvHolds, PTL

-----------------------------------------------------------------------------
(* The rows of the runs.                                                   *)

DeskSteps == {"new", "choosing", "executing", "recording", "publishing", "settling",
            "summarising", "closing", "over"}
Busy == {"executing", "recording", "publishing", "settling"}
Status == {"none", "running", "completed", "failed"}
Requests == [status : Status, findings : Nat, comments : Nat, error : BOOLEAN]
TaskRecords == [status : Status, findings : Nat, comments : Nat, error : BOOLEAN, incomplete : Nat]
VerdictSet == {"none", "completed", "failed"}
Desks(x) ==
  [at : DeskSteps, todo : SUBSET Selected[x], task : Selected[x] \cup {"none"}, left : Nat,
   found : Nat, published : Nat, findings : Nat, comments : Nat,
   verdict : VerdictSet]

\* The rows of a run, and what its task holds of it.
RunTypes(x) ==
  /\ request[x] \in Requests
  /\ task[x] \in [Selected[x] -> TaskRecords]
  /\ files[x] \in [Selected[x] -> Nat]
  /\ findings[x] \in Nat /\ comments[x] \in Nat
  /\ desk[x] \in Desks(x)

\* The task in hand has its row, those to come have none.
TaskInHand(x) ==
  /\ desk[x].at \in Busy =>
       /\ desk[x].task \in Selected[x] \ desk[x].todo
       /\ task[x][desk[x].task].status = "running"
  /\ \A t \in desk[x].todo : task[x][t].status = "none"
  /\ desk[x].at = "new" => desk[x].todo = Selected[x]
  /\ desk[x].at = "summarising" => x \notin Scripts

\* What a row says at each status.
RowsSay(x) ==
  \A t \in Selected[x] :
    /\ task[x][t].status \in {"none", "running"} => task[x][t].findings = 0 /\ task[x][t].comments = 0
    /\ task[x][t].status = "failed" => task[x][t].error
    /\ task[x][t].status \in Ended => files[x][t] = task[x][t].incomplete

\* The run's row is opened first and finished last.
RequestLast(x) ==
  /\ desk[x].at = "new" => request[x].status = "none"
  /\ request[x].status = "none" => desk[x].at \in {"new", "over"}
  /\ request[x].status \in Ended => desk[x].at = "over"
  /\ request[x].status = "failed" => request[x].error

Verdicts(x) ==
  /\ desk[x].at \in {"new", "choosing", "executing", "summarising"} => desk[x].verdict = "none"
  /\ desk[x].at \in {"recording", "publishing"} => desk[x].verdict = "completed"
  /\ desk[x].at \in {"settling", "closing"} => desk[x].verdict \in Ended

\* A row that is left running is that of the task in hand, or a store call failed,
\* or the run is to fail.
Running(x) ==
  \A t \in Selected[x] : task[x][t].status = "running" =>
    \/ desk[x].at \in Busy /\ t = desk[x].task
    \/ x \in broken
    \/ desk[x].at = "closing" /\ desk[x].verdict = "failed"
    \/ desk[x].at = "over" /\ request[x].status # "completed"

RunInv(x) ==
  RunTypes(x) /\ TaskInHand(x) /\ RowsSay(x) /\ RequestLast(x) /\ Verdicts(x) /\ Running(x)

RowsInv ==
  /\ DOMAIN request = Runs /\ DOMAIN task = Runs /\ DOMAIN files = Runs
  /\ DOMAIN findings = Runs /\ DOMAIN comments = Runs /\ DOMAIN desk = Runs
  /\ opened \in Seq(Runs)
  /\ \A i \in 1..Len(opened) : request[opened[i]].status # "none"
  /\ \A x \in Runs : RunInv(x)

Same(x) ==
  /\ request'[x] = request[x] /\ task'[x] = task[x] /\ files'[x] = files[x]
  /\ findings'[x] = findings[x] /\ comments'[x] = comments[x] /\ desk'[x] = desk[x]
  /\ x \in broken' <=> x \in broken

LEMMA SameRun ==
  ASSUME NEW x, RunInv(x), Same(x)
  PROVE  RunInv(x)'
<1>1. RunTypes(x)'
  BY DEF RunInv, Same, RunTypes
<1>2. TaskInHand(x)'
  BY DEF RunInv, Same, TaskInHand
<1>3. RowsSay(x)'
  BY DEF RunInv, Same, RowsSay
<1>4. RequestLast(x)'
  BY DEF RunInv, Same, RequestLast
<1>5. Verdicts(x)'
  BY DEF RunInv, Same, Verdicts
<1>6. Running(x)'
  BY DEF RunInv, Same, Running
<1> QED BY <1>1, <1>2, <1>3, <1>4, <1>5, <1>6 DEF RunInv

RowDomains ==
  /\ DOMAIN request = Runs /\ DOMAIN task = Runs /\ DOMAIN files = Runs
  /\ DOMAIN findings = Runs /\ DOMAIN comments = Runs /\ DOMAIN desk = Runs

\* A run writes its own rows only.
LEMMA OthersSame ==
  ASSUME RowDomains, NEW x \in Runs, Work(x)
  PROVE  RowDomains' /\ \A y \in Runs \ {x} : Same(y)
<1>1. CASE OpenRun(x)
  BY <1>1 DEF OpenRun, Go, Leave, Same, RowDomains
<1>2. CASE OpenTask(x)
  BY <1>2 DEF OpenTask, Break, Abort, Same, RowDomains
<1>3. CASE LoopEnds(x)
  BY <1>3 DEF LoopEnds, Go, Abort, tables, Same, RowDomains
<1>4. CASE Execute(x)
  BY <1>4 DEF Execute, tables, Same, RowDomains
<1>5. CASE RecordFinding(x)
  BY <1>5 DEF RecordFinding, Break, Abort, Same, RowDomains
<1>6. CASE Publish(x)
  BY <1>6 DEF Publish, Break, Abort, Same, RowDomains
<1>7. CASE Published(x)
  BY <1>7 DEF Published, Go, tables, Same, RowDomains
<1>8. CASE Settle(x)
  BY <1>8 DEF Settle, Counted, Abort, Same, RowDomains
<1>9. CASE Summarise(x)
  BY <1>9 DEF Summarise, Break, Abort, Same, RowDomains
<1>10. CASE Close(x)
  BY <1>10 DEF Close, Leave, Same, RowDomains
<1>11. CASE Die(x)
  BY <1>11 DEF Die, Leave, tables, Same, RowDomains
<1> QED BY <1>1, <1>2, <1>3, <1>4, <1>5, <1>6, <1>7, <1>8, <1>9, <1>10, <1>11 DEF Work

\* The rows are not touched: the task goes to another step.
StillRows(x) ==
  /\ request'[x] = request[x] /\ task'[x] = task[x] /\ files'[x] = files[x]

LEMMA StillRowsSay ==
  ASSUME NEW x, RowsSay(x), StillRows(x) PROVE RowsSay(x)'
<1> QED BY DEF RowsSay, StillRows

\* Within a task, from one step to the next.
LEMMA TaskGoesOn ==
  ASSUME NEW x, RunInv(x), StillRows(x), findings'[x] \in Nat, comments'[x] \in Nat,
         desk'[x] \in Desks(x), desk[x].at \in Busy, desk'[x].at \in Busy,
         desk'[x].todo = desk[x].todo, desk'[x].task = desk[x].task, Verdicts(x)',
         broken \subseteq broken'
  PROVE  RunInv(x)'
<1>1. RunTypes(x)'
  BY DEF RunInv, StillRows, RunTypes
<1>2. TaskInHand(x)'
  BY DEF RunInv, StillRows, TaskInHand, Busy
<1>3. RowsSay(x)'
  BY StillRowsSay DEF RunInv
<1>4. RequestLast(x)'
  BY DEF RunInv, StillRows, RequestLast, Busy, Ended
<1>6. Running(x)'
  BY DEF RunInv, StillRows, Running, Busy
<1> QED BY <1>1, <1>2, <1>3, <1>4, <1>6 DEF RunInv

\* The run is to end with an error.
LEMMA AbortStep ==
  ASSUME RowDomains, NEW x \in Runs, RunInv(x), Abort(x), StillRows(x),
         findings'[x] = findings[x], comments'[x] = comments[x],
         desk[x].at \notin {"new", "over"}
  PROVE  RunInv(x)'
<1>0. desk'[x] = [Clear("closing") EXCEPT !.verdict = "failed"]
  BY DEF Abort, RowDomains
<1>a. /\ desk'[x].at = "closing" /\ desk'[x].verdict = "failed" /\ desk'[x].todo = {}
      /\ desk'[x] \in Desks(x)
  BY <1>0 DEF Clear, Desks, DeskSteps, VerdictSet
<1>1. RunTypes(x)'
  BY <1>a DEF RunInv, StillRows, RunTypes
<1>2. TaskInHand(x)'
  BY <1>a DEF TaskInHand, Busy
<1>3. RowsSay(x)'
  BY StillRowsSay DEF RunInv
<1>4. RequestLast(x)'
  BY <1>a DEF RunInv, StillRows, RequestLast, Ended
<1>5. Verdicts(x)'
  BY <1>a DEF Verdicts, Ended
<1>6. Running(x)'
  BY <1>a DEF Running
<1> QED BY <1>1, <1>2, <1>3, <1>4, <1>5, <1>6 DEF RunInv

LEMMA BreakStep ==
  ASSUME RowDomains, NEW x \in Runs, RunInv(x), Break(x), StillRows(x),
         findings'[x] = findings[x], comments'[x] = comments[x],
         desk[x].at \in {"choosing", "recording", "publishing", "summarising"}
  PROVE  RunInv(x)'
<1>1. CASE x \in Scripts /\ ~At(x, "choosing")
  <2>1. desk[x] \in Desks(x) /\ desk[x].at \in Busy
    BY <1>1 DEF RunInv, RunTypes, TaskInHand, At, Busy
  <2>2. desk' = [desk EXCEPT ![x].at = "settling", ![x].verdict = "failed"] /\ broken \subseteq broken'
    BY <1>1 DEF Break
  <2>3. /\ desk'[x] \in Desks(x) /\ desk'[x].at = "settling" /\ desk'[x].verdict = "failed"
        /\ desk'[x].todo = desk[x].todo /\ desk'[x].task = desk[x].task
    BY <2>1, <2>2 DEF Desks, DeskSteps, VerdictSet, RowDomains
  <2>4. Verdicts(x)' /\ desk'[x].at \in Busy
    BY <2>3 DEF Verdicts, Busy, Ended
  <2>5. findings'[x] \in Nat /\ comments'[x] \in Nat
    BY DEF RunInv, RunTypes
  <2> QED BY <2>1, <2>2, <2>3, <2>4, <2>5, TaskGoesOn
<1>2. CASE ~(x \in Scripts /\ ~At(x, "choosing"))
  BY <1>2, AbortStep DEF Break
<1> QED BY <1>1, <1>2

\* Nothing is left but the rows.
LEMMA LeaveStep ==
  ASSUME RowDomains, NEW x \in Runs, RunInv(x), Leave(x), StillRows(x),
         findings'[x] = findings[x], comments'[x] = comments[x], broken \subseteq broken',
         request[x].status \notin Ended
  PROVE  RunInv(x)'
<1>a. desk'[x].at = "over" /\ desk'[x].todo = {} /\ desk'[x] \in Desks(x)
  BY DEF Leave, Clear, Desks, DeskSteps, VerdictSet, RowDomains
<1>1. RunTypes(x)'
  BY <1>a DEF RunInv, StillRows, RunTypes
<1>2. TaskInHand(x)'
  BY <1>a DEF TaskInHand, Busy
<1>3. RowsSay(x)'
  BY StillRowsSay DEF RunInv
<1>4. RequestLast(x)'
  BY <1>a DEF RunInv, StillRows, RequestLast, Ended
<1>5. Verdicts(x)'
  BY <1>a DEF Verdicts
<1>6. Running(x)'
  BY <1>a DEF Running, StillRows, Ended
<1> QED BY <1>1, <1>2, <1>3, <1>4, <1>5, <1>6 DEF RunInv

LEMMA OpenRunStep ==
  ASSUME RowDomains, NEW x \in Runs, RunInv(x), OpenRun(x) PROVE RunInv(x)'
<1>1. CASE Go(x, "choosing") /\ request' = [request EXCEPT ![x].status = "running"]
  <2>a. /\ desk'[x] \in Desks(x) /\ desk'[x].at = "choosing"
        /\ desk'[x].todo = desk[x].todo /\ desk'[x].verdict = desk[x].verdict
    BY <1>1 DEF Go, RowDomains, RunInv, RunTypes, Desks, DeskSteps, VerdictSet
  <2>b. request'[x] \in Requests /\ request'[x].status = "running"
    BY <1>1 DEF RowDomains, RunInv, RunTypes, Requests, Status
  <2>c. /\ task'[x] = task[x] /\ files'[x] = files[x] /\ findings'[x] = findings[x]
        /\ comments'[x] = comments[x] /\ desk[x].at = "new"
    BY <1>1 DEF OpenRun, At
  <2>1. RunTypes(x)'
    BY <2>a, <2>b, <2>c DEF RunInv, RunTypes
  <2>2. TaskInHand(x)'
    BY <2>a, <2>c DEF RunInv, TaskInHand, Busy
  <2>3. RowsSay(x)'
    BY <2>c DEF RunInv, RowsSay
  <2>4. RequestLast(x)'
    BY <2>a, <2>b DEF RequestLast, Ended
  <2>5. Verdicts(x)'
    BY <2>a, <2>c DEF RunInv, Verdicts
  <2>6. Running(x)'
    BY <2>a, <2>c DEF RunInv, Running, TaskInHand
  <2> QED BY <2>1, <2>2, <2>3, <2>4, <2>5, <2>6 DEF RunInv
<1>2. CASE Leave(x) /\ broken' = broken \cup {x} /\ UNCHANGED request
  <2>1. request[x].status = "none"
    BY DEF OpenRun, At, RunInv, RequestLast
  <2>2. StillRows(x) /\ findings'[x] = findings[x] /\ comments'[x] = comments[x] /\ broken \subseteq broken'
    BY <1>2 DEF OpenRun, StillRows
  <2> QED BY <1>2, <2>1, <2>2, LeaveStep DEF Ended
<1> QED BY <1>1, <1>2 DEF OpenRun

LEMMA OpenTaskStep ==
  ASSUME RowDomains, NEW x \in Runs, RunInv(x), OpenTask(x) PROVE RunInv(x)'
<1>0. /\ request'[x] = request[x] /\ files'[x] = files[x] /\ findings'[x] = findings[x]
      /\ comments'[x] = comments[x] /\ desk[x].at = "choosing"
  BY DEF OpenTask, At
<1>1. ASSUME NEW t \in desk[x].todo,
             task' = [task EXCEPT ![x][t].status = "running"],
             desk' = [desk EXCEPT ![x].at = "executing", ![x].task = t,
                                  ![x].todo = @ \ {t}, ![x].published = 0],
             UNCHANGED broken
      PROVE  RunInv(x)'
  <2>0. t \in Selected[x]
    BY DEF RunInv, RunTypes, Desks
  <2>a. /\ desk'[x] \in Desks(x) /\ desk'[x].at = "executing" /\ desk'[x].task = t
        /\ desk'[x].todo = desk[x].todo \ {t} /\ desk'[x].verdict = desk[x].verdict
    BY <1>1, <2>0 DEF RowDomains, RunInv, RunTypes, Desks, DeskSteps, VerdictSet
  <2>b. /\ task'[x] \in [Selected[x] -> TaskRecords]
        /\ \A u \in Selected[x] \ {t} : task'[x][u] = task[x][u]
        /\ task'[x][t] = [task[x][t] EXCEPT !.status = "running"]
    BY <1>1, <2>0 DEF RowDomains, RunInv, RunTypes, TaskRecords, Status
  <2>c. /\ task'[x][t].status = "running" /\ task'[x][t].findings = task[x][t].findings
        /\ task'[x][t].comments = task[x][t].comments /\ task[x][t].status = "none"
    BY <2>0, <2>b DEF RunInv, RunTypes, TaskRecords, TaskInHand
  <2>1. RunTypes(x)'
    BY <1>0, <2>a, <2>b DEF RunInv, RunTypes
  <2>2. TaskInHand(x)'
    <3>1. \A u \in desk'[x].todo : u \in Selected[x] \ {t} /\ u \in desk[x].todo
      BY <2>a DEF RunInv, RunTypes, Desks
    <3> QED BY <2>0, <2>a, <2>b, <2>c, <3>1 DEF RunInv, TaskInHand, Busy
  <2>3. RowsSay(x)'
    <3> SUFFICES ASSUME NEW u \in Selected[x]
                 PROVE /\ task'[x][u].status \in {"none", "running"}
                            => task'[x][u].findings = 0 /\ task'[x][u].comments = 0
                       /\ task'[x][u].status = "failed" => task'[x][u].error
                       /\ task'[x][u].status \in Ended => files'[x][u] = task'[x][u].incomplete
      BY DEF RowsSay
    <3>1. CASE u = t
      BY <2>0, <2>c, <3>1 DEF RunInv, RowsSay, Ended
    <3>2. CASE u # t
      <4>1. task'[x][u] = task[x][u] /\ files'[x][u] = files[x][u]
        BY <1>0, <2>b, <3>2
      <4> QED BY <4>1 DEF RunInv, RowsSay
    <3> QED BY <3>1, <3>2
  <2>4. RequestLast(x)'
    BY <1>0, <2>a DEF RunInv, RequestLast, Ended
  <2>5. Verdicts(x)'
    BY <1>0, <2>a DEF RunInv, Verdicts
  <2>6. Running(x)'
    BY <1>0, <1>1, <2>a, <2>b DEF RunInv, Running, Busy
  <2> QED BY <2>1, <2>2, <2>3, <2>4, <2>5, <2>6 DEF RunInv
<1>2. CASE Break(x) /\ UNCHANGED task
  BY <1>0, <1>2, BreakStep DEF StillRows
<1> QED BY <1>1, <1>2 DEF OpenTask

LEMMA LoopEndsStep ==
  ASSUME RowDomains, NEW x \in Runs, RunInv(x), LoopEnds(x) PROVE RunInv(x)'
<1>0. /\ StillRows(x) /\ findings'[x] = findings[x] /\ comments'[x] = comments[x]
      /\ desk[x].at = "choosing" /\ x \notin Scripts
  BY DEF LoopEnds, At, tables, StillRows
<1>1. CASE Go(x, "summarising")
  <2>a. /\ desk'[x] \in Desks(x) /\ desk'[x].at = "summarising" /\ UNCHANGED broken
        /\ desk'[x].todo = desk[x].todo /\ desk'[x].verdict = desk[x].verdict
    BY <1>1 DEF Go, RowDomains, RunInv, RunTypes, Desks, DeskSteps, VerdictSet
  <2>1. RunTypes(x)'
    BY <1>0, <2>a DEF RunInv, RunTypes, StillRows
  <2>2. TaskInHand(x)'
    BY <1>0, <2>a DEF RunInv, TaskInHand, Busy, StillRows
  <2>3. RowsSay(x)'
    BY <1>0, StillRowsSay DEF RunInv
  <2>4. RequestLast(x)'
    BY <1>0, <2>a DEF RunInv, RequestLast, Ended, StillRows
  <2>5. Verdicts(x)'
    BY <1>0, <2>a DEF RunInv, Verdicts
  <2>6. Running(x)'
    BY <1>0, <2>a DEF RunInv, Running, Busy, StillRows
  <2> QED BY <2>1, <2>2, <2>3, <2>4, <2>5, <2>6 DEF RunInv
<1>2. CASE Abort(x)
  BY <1>0, <1>2, AbortStep
<1> QED BY <1>1, <1>2 DEF LoopEnds

LEMMA ExecuteStep ==
  ASSUME RowDomains, NEW x \in Runs, RunInv(x), Execute(x) PROVE RunInv(x)'
<1>0. /\ StillRows(x) /\ findings'[x] = findings[x] /\ comments'[x] = comments[x] /\ UNCHANGED broken
      /\ desk[x].at = "executing" /\ desk[x] \in Desks(x)
  BY DEF Execute, At, tables, StillRows, RunInv, RunTypes
<1> DEFINE Moved ==
             /\ desk'[x] \in Desks(x) /\ desk'[x].todo = desk[x].todo /\ desk'[x].task = desk[x].task
             /\ \/ desk'[x].at = "recording" /\ desk'[x].verdict = "completed"
                \/ desk'[x].at = "settling" /\ desk'[x].verdict = "failed"
<1>1. Moved
  <2>1. ASSUME NEW n \in 0..MaxFindings,
               desk' = [desk EXCEPT ![x].at = "recording", ![x].found = n, ![x].left = n,
                                    ![x].verdict = "completed"]
        PROVE  Moved
    <3>1. n \in Nat
      BY DashboardAssumption
    <3> QED BY <1>0, <2>1, <3>1 DEF RowDomains, Desks, DeskSteps, VerdictSet
  <2>2. CASE desk' = [desk EXCEPT ![x].at = "settling", ![x].verdict = "failed"]
    BY <1>0, <2>2 DEF RowDomains, Desks, DeskSteps, VerdictSet
  <2> HIDE DEF Moved
  <2> QED BY <2>1, <2>2 DEF Execute
<1>2. Verdicts(x)' /\ desk'[x].at \in Busy /\ desk[x].at \in Busy
  BY <1>0, <1>1 DEF Verdicts, Busy, Ended
<1>3. findings'[x] \in Nat /\ comments'[x] \in Nat
  BY <1>0 DEF RunInv, RunTypes
<1> QED BY <1>0, <1>1, <1>2, <1>3, TaskGoesOn

LEMMA RecordFindingStep ==
  ASSUME RowDomains, NEW x \in Runs, RunInv(x), RecordFinding(x) PROVE RunInv(x)'
<1>0. /\ StillRows(x) /\ comments'[x] = comments[x]
      /\ desk[x].at = "recording" /\ desk[x] \in Desks(x) /\ findings[x] \in Nat
  BY DEF RecordFinding, At, StillRows, RunInv, RunTypes
<1> DEFINE Moved ==
      /\ desk'[x] \in Desks(x) /\ desk'[x].todo = desk[x].todo /\ desk'[x].task = desk[x].task
      /\ desk'[x].at \in {"recording", "publishing"} /\ desk'[x].verdict = desk[x].verdict
<1>1. ASSUME Moved, UNCHANGED broken, findings'[x] \in Nat PROVE RunInv(x)'
  <2>1. Verdicts(x)' /\ desk'[x].at \in Busy /\ desk[x].at \in Busy
    BY <1>0, <1>1 DEF RunInv, Verdicts, Busy, Ended
  <2>2. comments'[x] \in Nat
    BY <1>0 DEF RunInv, RunTypes
  <2> QED BY <1>0, <1>1, <2>1, <2>2, TaskGoesOn
<1>2. CASE desk[x].left > 0 /\ findings' = [findings EXCEPT ![x] = @ + 1]
           /\ desk' = [desk EXCEPT ![x].left = @ - 1] /\ UNCHANGED broken
  <2>1. desk[x].left - 1 \in Nat
    BY <1>0, <1>2 DEF Desks
  <2>2. Moved /\ findings'[x] \in Nat
    BY <1>0, <1>2, <2>1 DEF RowDomains, Desks, DeskSteps, VerdictSet
  <2> HIDE DEF Moved
  <2> QED BY <1>1, <1>2, <2>2
<1>3. CASE Break(x) /\ UNCHANGED findings
  BY <1>0, <1>3, BreakStep
<1>4. ASSUME desk[x].left = 0, UNCHANGED <<findings, broken>>,
             NEW drafts \in IF x \in Scripts THEN 1..desk[x].found + 1
                            ELSE {k \in 0..desk[x].found : k = 0 <=> desk[x].found = 0},
             desk' = [desk EXCEPT ![x].at = "publishing", ![x].left = drafts]
      PROVE  RunInv(x)'
  <2>1. drafts \in Nat
    BY <1>0 DEF Desks
  <2>2. Moved /\ findings'[x] \in Nat
    BY <1>0, <1>4, <2>1 DEF RowDomains, Desks, DeskSteps, VerdictSet
  <2> HIDE DEF Moved
  <2> QED BY <1>1, <1>4, <2>2
<1> HIDE DEF Moved
<1> QED BY <1>2, <1>3, <1>4 DEF RecordFinding

LEMMA PublishStep ==
  ASSUME RowDomains, NEW x \in Runs, RunInv(x), Publish(x) \/ Published(x) PROVE RunInv(x)'
<1>0. /\ StillRows(x) /\ findings'[x] = findings[x]
      /\ desk[x].at = "publishing" /\ desk[x] \in Desks(x) /\ comments[x] \in Nat
  BY DEF Publish, Published, At, StillRows, tables, RunInv, RunTypes
<1> DEFINE Moved ==
      /\ desk'[x] \in Desks(x) /\ desk'[x].todo = desk[x].todo /\ desk'[x].task = desk[x].task
      /\ \/ desk'[x].at \in {"publishing", "settling"} /\ desk'[x].verdict = desk[x].verdict
         \/ desk'[x].at = "settling" /\ desk'[x].verdict = "failed"
<1>1. ASSUME Moved, UNCHANGED broken, comments'[x] \in Nat PROVE RunInv(x)'
  <2>1. Verdicts(x)' /\ desk'[x].at \in Busy /\ desk[x].at \in Busy
    BY <1>0, <1>1 DEF RunInv, Verdicts, Busy, Ended
  <2>2. findings'[x] \in Nat
    BY <1>0 DEF RunInv, RunTypes
  <2> QED BY <1>0, <1>1, <2>1, <2>2, TaskGoesOn
<1>2. CASE Published(x)
  <2>1. Moved /\ comments'[x] \in Nat /\ UNCHANGED broken
    BY <1>0, <1>2 DEF Published, Go, tables, RowDomains, Desks, DeskSteps, VerdictSet
  <2> HIDE DEF Moved
  <2> QED BY <1>1, <2>1
<1>3. CASE Publish(x)
  <2>1. desk[x].left - 1 \in Nat
    BY <1>0, <1>3 DEF Desks, Publish
  <2>2. CASE /\ comments' = [comments EXCEPT ![x] = @ + 1]
             /\ desk' = [desk EXCEPT ![x].left = @ - 1, ![x].published = @ + 1]
             /\ UNCHANGED broken
    <3>1. Moved /\ comments'[x] \in Nat
      BY <1>0, <2>1, <2>2 DEF RowDomains, Desks, DeskSteps, VerdictSet
    <3> HIDE DEF Moved
    <3> QED BY <1>1, <2>2, <3>1
  <2>3. CASE /\ desk' = IF x \in Scripts
                        THEN [desk EXCEPT ![x].at = "settling", ![x].verdict = "failed"]
                        ELSE [desk EXCEPT ![x].left = @ - 1]
             /\ UNCHANGED <<comments, broken>>
    <3>1. Moved /\ comments'[x] \in Nat
      BY <1>0, <2>1, <2>3 DEF RowDomains, Desks, DeskSteps, VerdictSet
    <3> HIDE DEF Moved
    <3> QED BY <1>1, <2>3, <3>1
  <2>4. CASE Break(x) /\ UNCHANGED comments
    BY <1>0, <2>4, BreakStep
  <2> HIDE DEF Moved
  <2> QED BY <1>3, <2>2, <2>3, <2>4 DEF Publish
<1> QED BY <1>2, <1>3

LEMMA SummariseStep ==
  ASSUME RowDomains, NEW x \in Runs, RunInv(x), Summarise(x) PROVE RunInv(x)'
<1>0. /\ StillRows(x) /\ findings'[x] = findings[x]
      /\ desk[x].at = "summarising" /\ desk[x] \in Desks(x) /\ comments[x] \in Nat
  BY DEF Summarise, At, StillRows, RunInv, RunTypes
<1> DEFINE Moved ==
      /\ desk'[x] \in Desks(x) /\ desk'[x].todo = desk[x].todo
      /\ desk'[x].at = "closing" /\ desk'[x].verdict = "completed"
<1>1. ASSUME Moved, UNCHANGED broken, comments'[x] \in Nat PROVE RunInv(x)'
  <2>1. RunTypes(x)'
    BY <1>0, <1>1 DEF RunInv, RunTypes, StillRows
  <2>2. TaskInHand(x)'
    BY <1>0, <1>1 DEF RunInv, TaskInHand, Busy, StillRows
  <2>3. RowsSay(x)'
    BY <1>0, StillRowsSay DEF RunInv
  <2>4. RequestLast(x)'
    BY <1>0, <1>1 DEF RunInv, RequestLast, Ended, StillRows
  <2>5. Verdicts(x)'
    BY <1>0, <1>1 DEF RunInv, Verdicts, Ended
  <2>6. Running(x)'
    BY <1>0, <1>1 DEF RunInv, Running, Busy, StillRows
  <2> QED BY <2>1, <2>2, <2>3, <2>4, <2>5, <2>6 DEF RunInv
<1>2. CASE /\ comments' = [comments EXCEPT ![x] = @ + 1]
           /\ desk' = [desk EXCEPT ![x].at = "closing", ![x].comments = @ + 1,
                                   ![x].verdict = "completed"]
           /\ UNCHANGED broken
  <2>1. Moved /\ comments'[x] \in Nat
    BY <1>0, <1>2 DEF RowDomains, Desks, DeskSteps, VerdictSet
  <2> HIDE DEF Moved
  <2> QED BY <1>1, <1>2, <2>1
<1>3. CASE /\ desk' = [desk EXCEPT ![x].at = "closing", ![x].verdict = "completed"]
           /\ UNCHANGED <<comments, broken>>
  <2>1. Moved /\ comments'[x] \in Nat
    BY <1>0, <1>3 DEF RowDomains, Desks, DeskSteps, VerdictSet
  <2> HIDE DEF Moved
  <2> QED BY <1>1, <1>3, <2>1
<1>4. CASE Break(x) /\ UNCHANGED comments
  BY <1>0, <1>4, BreakStep
<1> HIDE DEF Moved
<1> QED BY <1>2, <1>3, <1>4 DEF Summarise

LEMMA CloseStep ==
  ASSUME RowDomains, NEW x \in Runs, RunInv(x), Close(x) PROVE RunInv(x)'
<1>0. /\ task'[x] = task[x] /\ files'[x] = files[x] /\ findings'[x] = findings[x]
      /\ comments'[x] = comments[x] /\ desk[x].at = "closing" /\ desk[x] \in Desks(x) /\ Leave(x)
  BY DEF Close, At, RunInv, RunTypes
<1>1. CASE UNCHANGED broken /\ request' = [request EXCEPT ![x] = Total(x)]
  <2>a. desk'[x].at = "over" /\ desk'[x].todo = {} /\ desk'[x] \in Desks(x)
    BY <1>0 DEF Leave, Clear, Desks, DeskSteps, VerdictSet, RowDomains
  <2>b. /\ request'[x] \in Requests /\ request'[x].status = desk[x].verdict
        /\ request'[x].error = (desk[x].verdict # "completed")
        /\ desk[x].verdict \in Ended
    BY <1>0, <1>1 DEF Total, RowDomains, Requests, Desks, Status, RunInv, Verdicts, Ended
  <2>1. RunTypes(x)'
    BY <1>0, <2>a, <2>b DEF RunInv, RunTypes
  <2>2. TaskInHand(x)'
    BY <2>a DEF TaskInHand, Busy
  <2>3. RowsSay(x)'
    BY <1>0 DEF RunInv, RowsSay
  <2>4. RequestLast(x)'
    BY <2>a, <2>b DEF RequestLast, Ended
  <2>5. Verdicts(x)'
    BY <2>a DEF Verdicts
  <2>6. Running(x)'
    BY <1>0, <1>1, <2>a, <2>b DEF RunInv, Running, Busy, Ended
  <2> QED BY <2>1, <2>2, <2>3, <2>4, <2>5, <2>6 DEF RunInv
<1>2. CASE broken' = broken \cup {x} /\ UNCHANGED request
  <2>1. request[x].status \notin Ended
    BY <1>0 DEF RunInv, RequestLast
  <2> QED BY <1>0, <1>2, <2>1, LeaveStep DEF StillRows
<1> QED BY <1>1, <1>2 DEF Close

LEMMA DieStep ==
  ASSUME RowDomains, NEW x \in Runs, RunInv(x), Die(x) PROVE RunInv(x)'
<1>1. request[x].status \notin Ended
  BY DEF Die, At, RunInv, RequestLast
<1> QED BY <1>1, LeaveStep DEF Die, tables, StillRows

Cleared(step, todo, verdict, f, c) ==
  [Clear(step) EXCEPT !.todo = todo, !.verdict = verdict, !.findings = f, !.comments = c]

LEMMA OutcomeFailed ==
  ASSUME NEW x, NEW n, desk[x].verdict = "failed"
  PROVE  Outcome(x, n) = [status |-> "failed", error |-> TRUE, incomplete |-> n,
                          findings |-> 0, comments |-> 0]
<1> QED BY DEF Outcome

LEMMA OutcomeCompleted ==
  ASSUME NEW x, NEW n, desk[x].verdict = "completed"
  PROVE  Outcome(x, n) = [status |-> "completed", error |-> FALSE, incomplete |-> n,
                          findings |-> desk[x].found, comments |-> desk[x].published]
<1> QED BY DEF Outcome

\* After a task, counted or not.
LEMMA CountedDesk ==
  ASSUME RowDomains, NEW x \in Runs, RunInv(x), desk[x].at = "settling", Counted(x)
  PROVE  /\ desk'[x] \in Desks(x) /\ desk'[x].todo = desk[x].todo
         /\ desk'[x].at = IF x \in Scripts THEN "closing" ELSE "choosing"
         /\ desk'[x].verdict = IF x \in Scripts THEN desk[x].verdict ELSE "none"
         /\ desk'[x].findings = desk[x].findings + Outcome(x, 0).findings
         /\ desk'[x].comments = desk[x].comments + Outcome(x, 0).comments
<1>1. desk[x] \in Desks(x)
  BY DEF RunInv, RunTypes
<1>2. Outcome(x, 0).findings \in Nat /\ Outcome(x, 0).comments \in Nat
  BY <1>1 DEF Outcome, Desks
<1>3. desk[x].findings \in Nat /\ desk[x].comments \in Nat
  BY <1>1 DEF Desks
<1> DEFINE f == desk[x].findings + Outcome(x, 0).findings
           c == desk[x].comments + Outcome(x, 0).comments
           step == IF x \in Scripts THEN "closing" ELSE "choosing"
           verdict == IF x \in Scripts THEN desk[x].verdict ELSE "none"
<1>4. desk'[x] = Cleared(step, desk[x].todo, verdict, f, c)
  BY DEF Counted, RowDomains, Cleared
<1>5. /\ step \in DeskSteps /\ verdict \in VerdictSet /\ f \in Nat /\ c \in Nat
      /\ desk[x].todo \in SUBSET Selected[x]
  BY <1>1, <1>2, <1>3 DEF DeskSteps, Desks, VerdictSet
<1> HIDE DEF step, verdict, f, c
<1>7. /\ desk'[x] \in Desks(x) /\ desk'[x].todo = desk[x].todo /\ desk'[x].at = step
      /\ desk'[x].verdict = verdict /\ desk'[x].findings = f /\ desk'[x].comments = c
  <2>1. desk'[x].todo = desk[x].todo
    BY <1>4 DEF Cleared, Clear
  <2>2. desk'[x].at = step
    BY <1>4 DEF Cleared, Clear
  <2>3. desk'[x].verdict = verdict
    BY <1>4 DEF Cleared, Clear
  <2>4. desk'[x].findings = f
    BY <1>4 DEF Cleared, Clear
  <2>5. desk'[x].comments = c
    BY <1>4 DEF Cleared, Clear
  <2>8. desk'[x] = [at |-> step, todo |-> desk[x].todo, task |-> "none", left |-> 0, found |-> 0,
                    published |-> 0, findings |-> f, comments |-> c, verdict |-> verdict]
    BY <1>4 DEF Cleared, Clear
  <2>7. desk'[x] \in Desks(x)
    BY <1>5, <2>8 DEF Desks
  <2> QED BY <2>1, <2>2, <2>3, <2>4, <2>5, <2>7
<1> QED BY <1>7 DEF step, verdict, f, c

LEMMA SettleStep ==
  ASSUME RowDomains, NEW x \in Runs, RunInv(x), Settle(x) PROVE RunInv(x)'
<1> DEFINE t == desk[x].task
<1>0. /\ request'[x] = request[x] /\ findings'[x] = findings[x] /\ comments'[x] = comments[x]
      /\ desk[x].at = "settling" /\ desk[x] \in Desks(x) /\ t \in Selected[x]
      /\ task[x][t].status = "running" /\ desk[x].verdict \in Ended
  BY DEF Settle, At, RunInv, RunTypes, TaskInHand, Busy, Verdicts
<1>1. ASSUME NEW n \in 0..1,
             task' = [task EXCEPT ![x][desk[x].task] = Outcome(x, n)],
             files' = [files EXCEPT ![x][desk[x].task] = n],
             Counted(x) \/ (desk[x].verdict = "failed" /\ Abort(x)), UNCHANGED broken
      PROVE  RunInv(x)'
  <2>a. /\ desk'[x] \in Desks(x) /\ desk'[x].todo \subseteq desk[x].todo
        /\ \/ desk'[x].at = "closing" /\ desk'[x].verdict = desk[x].verdict
           \/ desk'[x].at = "choosing" /\ desk'[x].verdict = "none"
    <3>1. CASE Counted(x)
      BY <1>0, <3>1, CountedDesk
    <3>2. CASE desk[x].verdict = "failed" /\ Abort(x)
      BY <3>2 DEF Abort, Clear, RowDomains, Desks, DeskSteps, VerdictSet
    <3> QED BY <1>1, <3>1, <3>2
  <2>b. /\ Outcome(x, n) \in TaskRecords
        /\ Outcome(x, n).status \in Ended /\ Outcome(x, n).incomplete = n
        /\ Outcome(x, n).status = "failed" => Outcome(x, n).error
    <3>1. CASE desk[x].verdict = "completed"
      <4>1. Outcome(x, n) = [status |-> "completed", error |-> FALSE, incomplete |-> n,
                             findings |-> desk[x].found, comments |-> desk[x].published]
        BY <3>1, OutcomeCompleted
      <4>2. desk[x].found \in Nat /\ desk[x].published \in Nat /\ n \in Nat
        BY <1>0 DEF Desks
      <4> QED BY <4>1, <4>2 DEF TaskRecords, Status, Ended
    <3>2. CASE desk[x].verdict = "failed"
      <4>1. Outcome(x, n) = [status |-> "failed", error |-> TRUE, incomplete |-> n,
                             findings |-> 0, comments |-> 0]
        BY <3>2, OutcomeFailed
      <4> QED BY <4>1 DEF TaskRecords, Status, Ended
    <3> QED BY <1>0, <3>1, <3>2 DEF Ended
  <2>c. /\ task'[x] \in [Selected[x] -> TaskRecords] /\ files'[x] \in [Selected[x] -> Nat]
        /\ task'[x][t] = Outcome(x, n) /\ files'[x][t] = n
        /\ \A u \in Selected[x] \ {t} : task'[x][u] = task[x][u] /\ files'[x][u] = files[x][u]
    BY <1>0, <1>1, <2>b DEF RowDomains, RunInv, RunTypes
  <2>1. RunTypes(x)'
    BY <1>0, <2>a, <2>c DEF RunInv, RunTypes
  <2>2. TaskInHand(x)'
    <3>1. \A u \in desk'[x].todo : u \in desk[x].todo /\ u \in Selected[x] \ {t}
      BY <1>0, <2>a DEF RunInv, TaskInHand, Busy, Desks
    <3>2. \A u \in desk'[x].todo : task'[x][u].status = "none"
      BY <2>c, <3>1 DEF RunInv, TaskInHand
    <3> QED BY <2>a, <3>2 DEF TaskInHand, Busy
  <2>3. RowsSay(x)'
    <3> SUFFICES ASSUME NEW u \in Selected[x]
                 PROVE /\ task'[x][u].status \in {"none", "running"}
                            => task'[x][u].findings = 0 /\ task'[x][u].comments = 0
                       /\ task'[x][u].status = "failed" => task'[x][u].error
                       /\ task'[x][u].status \in Ended => files'[x][u] = task'[x][u].incomplete
      BY DEF RowsSay
    <3>1. CASE u = t
      BY <2>b, <2>c, <3>1 DEF Ended
    <3>2. CASE u # t
      <4>1. task'[x][u] = task[x][u] /\ files'[x][u] = files[x][u]
        BY <2>c, <3>2
      <4> QED BY <4>1 DEF RunInv, RowsSay
    <3> QED BY <3>1, <3>2
  <2>4. RequestLast(x)'
    BY <1>0, <2>a DEF RunInv, RequestLast, Ended
  <2>5. Verdicts(x)'
    BY <1>0, <2>a DEF Verdicts
  <2>6. Running(x)'
    <3> SUFFICES ASSUME NEW u \in Selected[x], task'[x][u].status = "running", x \notin broken'
                 PROVE desk'[x].at = "closing" /\ desk'[x].verdict = "failed"
      BY DEF Running
    <3>1. u # t
      BY <2>b, <2>c DEF Ended
    <3>2. task[x][u].status = "running" /\ x \notin broken
      BY <1>1, <2>c, <3>1
    <3> QED BY <1>0, <3>1, <3>2 DEF RunInv, Running
  <2> QED BY <2>1, <2>2, <2>3, <2>4, <2>5, <2>6 DEF RunInv
<1>2. CASE /\ broken' = broken \cup {x}
           /\ IF x \in Scripts THEN Counted(x) ELSE Abort(x)
           /\ UNCHANGED <<task, files>>
  <2>1. CASE Abort(x)
    BY <1>0, <1>2, <2>1, AbortStep DEF StillRows
  <2>2. CASE x \in Scripts /\ Counted(x)
    <3>a. /\ desk'[x] \in Desks(x) /\ desk'[x].todo = desk[x].todo
          /\ desk'[x].at = "closing" /\ desk'[x].verdict = desk[x].verdict
      BY <1>0, <2>2, CountedDesk
    <3>b. StillRows(x)
      BY <1>0, <1>2 DEF StillRows
    <3>1. RunTypes(x)'
      BY <1>0, <3>a, <3>b DEF RunInv, RunTypes, StillRows
    <3>2. TaskInHand(x)'
      BY <3>a, <3>b DEF RunInv, TaskInHand, Busy, StillRows
    <3>3. RowsSay(x)'
      BY <3>b, StillRowsSay DEF RunInv
    <3>4. RequestLast(x)'
      BY <1>0, <3>a DEF RunInv, RequestLast, Ended
    <3>5. Verdicts(x)'
      BY <1>0, <3>a DEF Verdicts
    <3>6. Running(x)'
      BY <1>2 DEF Running
    <3> QED BY <3>1, <3>2, <3>3, <3>4, <3>5, <3>6 DEF RunInv
  <2> QED BY <1>2, <2>1, <2>2
<1> HIDE DEF t
<1> QED BY <1>1, <1>2 DEF Settle

LEMMA WorkStep ==
  ASSUME RowDomains, NEW x \in Runs, RunInv(x), Work(x) PROVE RunInv(x)'
<1> QED BY OpenRunStep, OpenTaskStep, LoopEndsStep, ExecuteStep, RecordFindingStep, PublishStep,
           SettleStep, SummariseStep, CloseStep, DieStep DEF Work

LEMMA OpenedStays ==
  ASSUME RowsInv, NEW x \in Runs, Work(x)
  PROVE  /\ opened' \in Seq(Runs)
         /\ \A i \in 1..Len(opened') : request'[opened'[i]].status # "none"
<1>0. RowDomains /\ RunInv(x) /\ opened \in Seq(Runs)
  BY DEF RowsInv, RowDomains
<1>1. \A y \in Runs : request[y].status # "none" => request'[y].status # "none"
  <2> SUFFICES ASSUME request[x].status # "none" PROVE request'[x].status # "none"
    BY <1>0, OthersSame DEF Same
  <2>1. desk[x].at # "new"
    BY <1>0 DEF RunInv, RequestLast
  <2>2. request' = request \/ Close(x)
    BY <2>1 DEF Work, OpenRun, OpenTask, LoopEnds, Execute, RecordFinding, Publish, Published,
                Settle, Summarise, Die, tables, At
  <2>3. ASSUME Close(x) PROVE request' = request \/ request'[x].status \in Ended
    BY <1>0, <2>3 DEF Close, Total, At, RunInv, Verdicts, RowDomains
  <2> QED BY <2>2, <2>3 DEF Ended
<1>2. CASE opened' = opened
  <2>1. \A i \in 1..Len(opened) : opened[i] \in Runs
    BY <1>0
  <2> QED BY <1>0, <1>1, <1>2, <2>1 DEF RowsInv
<1>3. CASE opened' = Append(opened, x) /\ request' = [request EXCEPT ![x].status = "running"]
  <2>1. request'[x].status = "running"
    BY <1>0, <1>3 DEF RowDomains, RunInv, RunTypes, Requests
  <2>2. \A i \in 1..Len(opened') : opened'[i] = x \/ (i \in 1..Len(opened) /\ opened'[i] = opened[i])
    BY <1>0, <1>3
  <2>3. \A i \in 1..Len(opened) : opened[i] \in Runs /\ request[opened[i]].status # "none"
    BY <1>0 DEF RowsInv
  <2> QED BY <1>0, <1>1, <1>3, <2>1, <2>2, <2>3
<1>4. opened' = opened \/ OpenRun(x)
  BY DEF Work, OpenTask, LoopEnds, Execute, RecordFinding, Publish, Published,
         Settle, Summarise, Close, Die, tables
<1> QED BY <1>2, <1>3, <1>4 DEF OpenRun

LEMMA RowsInvInit == RowsInit => RowsInv
<1> SUFFICES ASSUME RowsInit PROVE RowsInv
  OBVIOUS
<1>1. RowDomains /\ opened = <<>>
  BY DEF RowsInit, RowDomains
<1>2. ASSUME NEW x \in Runs PROVE RunInv(x)
  <2>a. /\ request[x] = Fresh /\ task[x] = [t \in Selected[x] |-> NoRow]
        /\ files[x] = [t \in Selected[x] |-> 0] /\ findings[x] = 0 /\ comments[x] = 0
        /\ desk[x] = [Clear("new") EXCEPT !.todo = Selected[x]]
    BY DEF RowsInit
  <2>b. /\ desk[x] \in Desks(x) /\ desk[x].at = "new" /\ desk[x].todo = Selected[x]
        /\ desk[x].verdict = "none"
    BY <2>a DEF Clear, Desks, DeskSteps, VerdictSet
  <2>c. NoRow \in TaskRecords /\ Fresh \in Requests /\ NoRow.status = "none" /\ Fresh.status = "none"
        /\ NoRow.findings = 0 /\ NoRow.comments = 0
    BY DEF NoRow, Fresh, TaskRecords, Requests, Status
  <2>1. RunTypes(x)
    BY <2>a, <2>b, <2>c DEF RunTypes
  <2>2. TaskInHand(x) /\ RowsSay(x) /\ Running(x)
    <3>1. \A t \in Selected[x] : task[x][t] = NoRow
      BY <2>a
    <3> QED BY <2>b, <2>c, <3>1 DEF TaskInHand, RowsSay, Running, Busy, Ended
  <2>3. RequestLast(x) /\ Verdicts(x)
    BY <2>a, <2>b, <2>c DEF RequestLast, Verdicts, Ended
  <2> QED BY <2>1, <2>2, <2>3 DEF RunInv
<1> QED BY <1>1, <1>2 DEF RowsInv, RowDomains

LEMMA RowsInvNext == RowsInv /\ [Next]_vars => RowsInv'
<1> SUFFICES ASSUME RowsInv, [Next]_vars PROVE RowsInv'
  OBVIOUS
<1>0. RowDomains
  BY DEF RowsInv, RowDomains
<1>1. ASSUME NEW x \in Runs, Work(x) PROVE RowsInv'
  <2>1. RowDomains' /\ \A y \in Runs \ {x} : Same(y)
    BY <1>0, <1>1, OthersSame
  <2>2. \A y \in Runs \ {x} : RunInv(y)'
    BY <2>1, SameRun DEF RowsInv
  <2>3. RunInv(x)'
    BY <1>0, <1>1, WorkStep DEF RowsInv
  <2> QED BY <1>1, <2>1, <2>2, <2>3, OpenedStays DEF RowsInv, RowDomains
<1>2. CASE UNCHANGED <<tables, desk, broken>>
  <2>1. \A y \in Runs : Same(y)
    BY <1>2 DEF tables, Same
  <2>2. \A y \in Runs : RunInv(y)'
    BY <2>1, SameRun DEF RowsInv
  <2> QED BY <1>2, <2>2 DEF RowsInv, tables
<1>3. UNCHANGED <<tables, desk, broken>> \/ \E x \in Runs : Work(x)
  BY DEF Next, vars, rowVars, Read, ReadRun, ReadTasks, ReadFiles, ReadFindings, ReadComments
<1> QED BY <1>1, <1>2, <1>3

LEMMA RowsInvHolds == Spec => []RowsInv
<1>1. Init => RowsInv
  BY RowsInvInit DEF Init
<1> QED BY <1>1, RowsInvNext, PTL DEF Spec

(* Once a run is shown as ended, neither what is shown of it nor any of    *)
(* its rows changes, whatever the other runs do (finish_review_request is  *)
(* the last statement of a run, after finish_task_run).                    *)
THEOREM ShownStatusSettlesAlways == Spec => ShownStatusSettles
<1>1. ASSUME RowsInv, [Next]_vars,
             NEW x \in Runs, request[x].status # "none", Shown(x) \in Ended
      PROVE  /\ Shown(x)' = Shown(x) /\ task'[x] = task[x] /\ findings'[x] = findings[x]
             /\ comments'[x] = comments[x]
  <2>1. request[x].status \in Ended /\ desk[x].at = "over"
    <3>0. RunInv(x)
      BY <1>1 DEF RowsInv
    <3>1. request[x].status \in Status /\ request[x].status # "running"
      BY <1>1, <3>0 DEF Shown, Ended, RunInv, RunTypes, Requests
    <3> QED BY <1>1, <3>0, <3>1 DEF RunInv, RequestLast, Ended, Status
  <2>2. ~Work(x)
    BY <2>1 DEF Work, OpenRun, OpenTask, LoopEnds, Execute, RecordFinding, Publish, Published,
                Settle, Summarise, Close, Die, At
  <2>3. Same(x)
    <3>1. UNCHANGED <<tables, desk, broken>> \/ \E y \in Runs : Work(y)
      BY <1>1 DEF Next, vars, rowVars, Read, ReadRun, ReadTasks, ReadFiles, ReadFindings, ReadComments
    <3>2. CASE UNCHANGED <<tables, desk, broken>>
      BY <3>2 DEF tables, Same
    <3>3. ASSUME NEW y \in Runs, Work(y) PROVE Same(x)
      BY <2>2, <3>3, OthersSame, <1>1 DEF RowsInv, RowDomains
    <3> QED BY <3>1, <3>2, <3>3
  <2> QED BY <2>3 DEF Same, Shown, AnotherThanCompleted, TaskRows
<1>2. RowsInv /\ [Next]_vars =>
        [\A x \in Runs : request[x].status # "none" /\ Shown(x) \in Ended =>
           /\ Shown(x)' = Shown(x) /\ task'[x] = task[x] /\ findings'[x] = findings[x]
           /\ comments'[x] = comments[x]]_rowVars
  BY <1>1
<1> QED BY <1>2, RowsInvHolds, PTL DEF Spec, ShownStatusSettles

-----------------------------------------------------------------------------
(* The numbers.                                                            *)

FoundBy(x) == [t \in Selected[x] |-> task[x][t].findings]
SaidBy(x) == [t \in Selected[x] |-> task[x][t].comments]
SumFound(x) == SumFunctionOnSet(FoundBy(x), TaskRows(x))
SumSaid(x) == SumFunctionOnSet(SaidBy(x), TaskRows(x))

\* No task of the run has failed so far.
Plain(x) ==
  \A t \in TaskRows(x) :
    task[x][t].status = "completed" \/ (desk[x].at \in Busy /\ t = desk[x].task)

Recorded(x) ==
  IF desk[x].at = "recording" THEN desk[x].found - desk[x].left
  ELSE IF desk[x].at \in {"publishing", "settling"} THEN desk[x].found ELSE 0
Made(x) == IF desk[x].at \in Busy THEN desk[x].published ELSE 0

\* What is in the tables, in the locals and in the rows of the tasks is the same.
Balanced(x) ==
  /\ findings[x] = desk[x].findings + Recorded(x)
  /\ comments[x] = desk[x].comments + Made(x)
  /\ SumFound(x) = desk[x].findings
  /\ desk[x].comments - SumSaid(x) \in IF desk[x].at = "closing" THEN {0, 1} ELSE {0}

Numbers(x) ==
  /\ desk[x].at = "new" => findings[x] = 0 /\ comments[x] = 0
                           /\ desk[x].findings = 0 /\ desk[x].comments = 0
  /\ desk[x].at \notin {"new", "over"} /\ desk[x].verdict # "failed" /\ Plain(x) => Balanced(x)
  /\ request[x].status = "completed" /\ (\A t \in TaskRows(x) : task[x][t].status = "completed")
       => /\ findings[x] = request[x].findings /\ SumFound(x) = request[x].findings
          /\ comments[x] = request[x].comments /\ request[x].comments - SumSaid(x) \in {0, 1}

SameTasks(x) == task'[x] = task[x]

LEMMA SumsStay ==
  ASSUME NEW x, SameTasks(x)
  PROVE  TaskRows(x)' = TaskRows(x) /\ SumFound(x)' = SumFound(x) /\ SumSaid(x)' = SumSaid(x)
<1>1. TaskRows(x)' = TaskRows(x) /\ FoundBy(x)' = FoundBy(x) /\ SaidBy(x)' = SaidBy(x)
  BY DEF SameTasks, TaskRows, FoundBy, SaidBy
<1> QED BY <1>1 DEF SumFound, SumSaid

LEMMA TaskSums ==
  ASSUME NEW x \in Runs, RunTypes(x)
  PROVE  /\ IsFiniteSet(TaskRows(x)) /\ TaskRows(x) \subseteq Selected[x]
         /\ \A t \in Selected[x] : FoundBy(x)[t] = task[x][t].findings /\ FoundBy(x)[t] \in Nat
                                   /\ SaidBy(x)[t] = task[x][t].comments /\ SaidBy(x)[t] \in Nat
         /\ SumFound(x) \in Int /\ SumSaid(x) \in Int
<1>1. IsFiniteSet(TaskRows(x)) /\ TaskRows(x) \subseteq Selected[x]
  BY FS_Subset, DashboardAssumption DEF TaskRows
<1>2. \A t \in Selected[x] : FoundBy(x)[t] = task[x][t].findings /\ FoundBy(x)[t] \in Nat
                             /\ SaidBy(x)[t] = task[x][t].comments /\ SaidBy(x)[t] \in Nat
  BY DEF RunTypes, FoundBy, SaidBy, TaskRecords
<1>3. /\ \A t \in TaskRows(x) : FoundBy(x)[t] \in Int
      /\ \A t \in TaskRows(x) : SaidBy(x)[t] \in Int
  BY <1>1, <1>2
<1>4. SumFound(x) \in Int
  BY <1>1, <1>3, SumType DEF SumFound
<1>5. SumSaid(x) \in Int
  BY <1>1, <1>3, SumType DEF SumSaid
<1> QED BY <1>1, <1>2, <1>4, <1>5

\* A row that is opened adds nothing.
LEMMA SumsOfOpened ==
  ASSUME NEW x \in Runs, RunTypes(x), RunTypes(x)', NEW t \in Selected[x],
         task[x][t].status = "none", task'[x][t].status # "none",
         task'[x][t].findings = 0, task'[x][t].comments = 0,
         \A u \in Selected[x] \ {t} : task'[x][u] = task[x][u]
  PROVE  /\ TaskRows(x)' = TaskRows(x) \cup {t}
         /\ SumFound(x)' = SumFound(x) /\ SumSaid(x)' = SumSaid(x)
<1> PICK S, f, g, c, d : /\ S = TaskRows(x) /\ f = FoundBy(x) /\ g = FoundBy(x)'
                         /\ c = SaidBy(x) /\ d = SaidBy(x)'
  OBVIOUS
<1>1. TaskRows(x)' = S \cup {t} /\ t \notin S
  BY DEF TaskRows
<1>2. IsFiniteSet(S) /\ S \subseteq Selected[x]
  BY TaskSums
<1>3. \A u \in Selected[x] : g[u] = task'[x][u].findings /\ d[u] = task'[x][u].comments
  BY DEF FoundBy, SaidBy
<1>4. \A u \in Selected[x] : f[u] = task[x][u].findings /\ c[u] = task[x][u].comments
                             /\ f[u] \in Nat /\ c[u] \in Nat
  BY TaskSums
<1>5. \A u \in S : f[u] \in Int /\ f[u] = g[u]
  BY <1>1, <1>2, <1>3, <1>4
<1>6. \A u \in S : c[u] \in Int /\ c[u] = d[u]
  BY <1>1, <1>2, <1>3, <1>4
<1>7. g[t] = 0 /\ d[t] = 0
  BY <1>3
<1>8. SumFunctionOnSet(g, S \cup {t}) = SumFunctionOnSet(f, S)
  BY <1>1, <1>2, <1>5, <1>7, SumZero
<1>9. SumFunctionOnSet(d, S \cup {t}) = SumFunctionOnSet(c, S)
  BY <1>1, <1>2, <1>6, <1>7, SumZero
<1> QED BY <1>1, <1>8, <1>9 DEF SumFound, SumSaid

\* A row that is finished adds its numbers.
LEMMA SumsOfFinished ==
  ASSUME NEW x \in Runs, RunTypes(x), RunTypes(x)', NEW t \in TaskRows(x),
         task'[x][t].status # "none", task[x][t].findings = 0, task[x][t].comments = 0,
         \A u \in Selected[x] \ {t} : task'[x][u] = task[x][u]
  PROVE  /\ TaskRows(x)' = TaskRows(x)
         /\ SumFound(x)' = SumFound(x) + task'[x][t].findings
         /\ SumSaid(x)' = SumSaid(x) + task'[x][t].comments
<1> PICK S, f, g, c, d : /\ S = TaskRows(x) /\ f = FoundBy(x) /\ g = FoundBy(x)'
                         /\ c = SaidBy(x) /\ d = SaidBy(x)'
  OBVIOUS
<1>1. TaskRows(x)' = S /\ t \in S /\ t \in Selected[x]
  BY DEF TaskRows
<1>2. IsFiniteSet(S) /\ S \subseteq Selected[x]
  BY TaskSums
<1>3. \A u \in Selected[x] : g[u] = task'[x][u].findings /\ d[u] = task'[x][u].comments
                             /\ g[u] \in Nat /\ d[u] \in Nat
  BY DEF FoundBy, SaidBy, RunTypes, TaskRecords
<1>4. \A u \in Selected[x] : f[u] = task[x][u].findings /\ c[u] = task[x][u].comments
                             /\ f[u] \in Nat /\ c[u] \in Nat
  BY TaskSums
<1>5. /\ \A u \in S : f[u] \in Int /\ g[u] \in Int
      /\ \A u \in S \ {t} : f[u] = g[u]
      /\ \A u \in S : c[u] \in Int /\ d[u] \in Int
      /\ \A u \in S \ {t} : c[u] = d[u]
  BY <1>1, <1>2, <1>3, <1>4
<1>6. f[t] = 0 /\ c[t] = 0
  BY <1>1, <1>4
<1>7. SumFunctionOnSet(g, S) = SumFunctionOnSet(f, S) + g[t]
  BY <1>1, <1>2, <1>5, <1>6, SumFilled
<1>8. SumFunctionOnSet(d, S) = SumFunctionOnSet(c, S) + d[t]
  BY <1>1, <1>2, <1>5, <1>6, SumFilled
<1> QED BY <1>1, <1>3, <1>7, <1>8 DEF SumFound, SumSaid

\* A run that is to fail, or that is over without success, has nothing to add up.
LEMMA NothingToAdd ==
  ASSUME NEW x, desk'[x].at = "over" \/ desk'[x].verdict = "failed", desk'[x].at # "new",
         request'[x].status # "completed"
  PROVE  Numbers(x)'
<1> QED BY DEF Numbers

LEMMA BreakAddsNothing ==
  ASSUME RowDomains, NEW x \in Runs, RunInv(x), Break(x), UNCHANGED request,
         desk[x].at \notin {"new", "over"}
  PROVE  Numbers(x)'
<1>1. request'[x].status # "completed"
  BY DEF RunInv, RequestLast, Ended
<1>2. desk[x] \in Desks(x)
  BY DEF RunInv, RunTypes
<1>3. desk'[x].verdict = "failed" /\ desk'[x].at # "new"
  BY <1>2 DEF Break, Abort, Clear, RowDomains, Desks
<1> QED BY <1>1, <1>3, NothingToAdd

LEMMA AbortAddsNothing ==
  ASSUME RowDomains, NEW x \in Runs, RunInv(x), Abort(x), UNCHANGED request,
         desk[x].at \notin {"new", "over"}
  PROVE  Numbers(x)'
<1>1. request'[x].status # "completed"
  BY DEF RunInv, RequestLast, Ended
<1>2. desk'[x].verdict = "failed" /\ desk'[x].at = "closing"
  BY DEF Abort, Clear, RowDomains
<1> QED BY <1>1, <1>2, NothingToAdd

LEMMA LeaveAddsNothing ==
  ASSUME RowDomains, NEW x \in Runs, Leave(x), request'[x].status # "completed"
  PROVE  Numbers(x)'
<1>1. desk'[x].at = "over"
  BY DEF Leave, Clear, RowDomains
<1> QED BY <1>1, NothingToAdd

\* A step of a run whose task rows stay, at work before and after.
LEMMA NumbersKept ==
  ASSUME NEW x, Numbers(x), desk[x].at \notin {"new", "over"}, desk[x].verdict # "failed",
         desk'[x].at \notin {"new", "over"}, request'[x].status # "completed",
         Plain(x)' => Plain(x), Plain(x) /\ Plain(x)' /\ Balanced(x) => Balanced(x)'
  PROVE  Numbers(x)'
<1> QED BY DEF Numbers

LEMMA PlainStays ==
  ASSUME NEW x, SameTasks(x), desk'[x].at \in Busy => desk[x].at \in Busy /\ desk'[x].task = desk[x].task
  PROVE  Plain(x)' => Plain(x)
<1> QED BY DEF Plain, SameTasks, TaskRows

LEMMA OpenRunNumbers ==
  ASSUME RowDomains, NEW x \in Runs, RunInv(x), OpenRun(x), Numbers(x) PROVE Numbers(x)'
<1>0. /\ task' = task /\ findings' = findings /\ comments' = comments
      /\ desk[x].at = "new" /\ request[x].status = "none"
      /\ findings[x] = 0 /\ comments[x] = 0 /\ desk[x].findings = 0 /\ desk[x].comments = 0
  BY DEF OpenRun, At, RunInv, RequestLast, Numbers
<1>1. CASE Go(x, "choosing") /\ request' = [request EXCEPT ![x].status = "running"]
  <2>1. /\ desk'[x].at = "choosing" /\ desk'[x].findings = 0 /\ desk'[x].comments = 0
        /\ request'[x].status = "running"
    BY <1>0, <1>1 DEF Go, RowDomains, RunInv, RunTypes, Desks, Requests
  <2>2. TaskRows(x) = {}
    BY <1>0 DEF RunInv, TaskInHand, TaskRows
  <2>3. SumFunctionOnSet(FoundBy(x), {}) = 0 /\ SumFunctionOnSet(SaidBy(x), {}) = 0
    BY SumEmpty
  <2>4. SumFound(x)' = 0 /\ SumSaid(x)' = 0
    BY <1>0, <2>2, <2>3, SumsStay DEF SumFound, SumSaid, SameTasks
  <2>5. Recorded(x)' = 0 /\ Made(x)' = 0
    BY <2>1 DEF Recorded, Made, Busy
  <2>6. Balanced(x)'
    BY <1>0, <2>1, <2>4, <2>5 DEF Balanced
  <2> QED BY <2>1, <2>6 DEF Numbers
<1>2. CASE Leave(x) /\ UNCHANGED request
  BY <1>0, <1>2, LeaveAddsNothing
<1> QED BY <1>1, <1>2 DEF OpenRun

LEMMA OpenTaskNumbers ==
  ASSUME RowDomains, NEW x \in Runs, RunInv(x), RunInv(x)', OpenTask(x), Numbers(x) PROVE Numbers(x)'
<1>0. /\ request' = request /\ findings' = findings /\ comments' = comments
      /\ desk[x].at = "choosing" /\ desk[x].verdict = "none" /\ request[x].status # "completed"
      /\ desk[x] \in Desks(x) /\ RunTypes(x) /\ RunTypes(x)'
  BY DEF OpenTask, At, RunInv, Verdicts, RequestLast, Ended, RunTypes
<1>1. ASSUME NEW t \in desk[x].todo,
             task' = [task EXCEPT ![x][t].status = "running"],
             desk' = [desk EXCEPT ![x].at = "executing", ![x].task = t,
                                  ![x].todo = @ \ {t}, ![x].published = 0]
      PROVE  Numbers(x)'
  <2>1. /\ t \in Selected[x] /\ task[x][t].status = "none"
        /\ task[x][t].findings = 0 /\ task[x][t].comments = 0 /\ task[x][t] \in TaskRecords
    BY <1>0 DEF RunInv, TaskInHand, RowsSay, Desks, RunTypes
  <2>2. task'[x][t] = [task[x][t] EXCEPT !.status = "running"]
    BY <1>0, <1>1, <2>1 DEF RowDomains, RunTypes
  <2>3. task'[x][t].status = "running" /\ task'[x][t].findings = 0 /\ task'[x][t].comments = 0
    BY <2>1, <2>2 DEF TaskRecords
  <2>4. \A u \in Selected[x] \ {t} : task'[x][u] = task[x][u]
    BY <1>0, <1>1 DEF RowDomains, RunTypes
  <2>5. /\ TaskRows(x)' = TaskRows(x) \cup {t}
        /\ SumFound(x)' = SumFound(x) /\ SumSaid(x)' = SumSaid(x)
    BY <1>0, <2>1, <2>3, <2>4, SumsOfOpened
  <2>6. /\ desk'[x].at = "executing" /\ desk'[x].task = t /\ desk'[x].published = 0
        /\ desk'[x].findings = desk[x].findings /\ desk'[x].comments = desk[x].comments
    BY <1>0, <1>1 DEF RowDomains, Desks
  <2>7. Plain(x)' => Plain(x)
    BY <2>1, <2>4, <2>5, <2>6 DEF Plain, TaskRows
  <2>8. Recorded(x) = 0 /\ Made(x) = 0 /\ Recorded(x)' = 0 /\ Made(x)' = 0
    BY <1>0, <2>6 DEF Recorded, Made, Busy
  <2>9. Balanced(x) => Balanced(x)'
    BY <1>0, <2>5, <2>6, <2>8 DEF Balanced
  <2> QED BY <1>0, <2>6, <2>7, <2>9, NumbersKept
<1>2. CASE Break(x) /\ UNCHANGED task
  BY <1>0, <1>2, BreakAddsNothing
<1> QED BY <1>1, <1>2 DEF OpenTask

LEMMA LoopEndsNumbers ==
  ASSUME RowDomains, NEW x \in Runs, RunInv(x), LoopEnds(x), Numbers(x) PROVE Numbers(x)'
<1>0. /\ request' = request /\ task' = task /\ findings' = findings /\ comments' = comments
      /\ desk[x].at = "choosing" /\ desk[x].verdict = "none" /\ request[x].status # "completed"
      /\ desk[x] \in Desks(x)
  BY DEF LoopEnds, At, tables, RunInv, Verdicts, RequestLast, Ended, RunTypes
<1>1. CASE Go(x, "summarising")
  <2>1. /\ desk'[x].at = "summarising"
        /\ desk'[x].findings = desk[x].findings /\ desk'[x].comments = desk[x].comments
    BY <1>0, <1>1 DEF Go, RowDomains, Desks
  <2>2. SumFound(x)' = SumFound(x) /\ SumSaid(x)' = SumSaid(x)
    BY <1>0, SumsStay DEF SameTasks
  <2>3. Recorded(x) = 0 /\ Made(x) = 0 /\ Recorded(x)' = 0 /\ Made(x)' = 0
    BY <1>0, <2>1 DEF Recorded, Made, Busy
  <2>4. Balanced(x) => Balanced(x)'
    BY <1>0, <2>1, <2>2, <2>3 DEF Balanced
  <2>5. Plain(x)' => Plain(x)
    BY <1>0, <2>1, PlainStays DEF SameTasks, Busy
  <2> QED BY <1>0, <2>1, <2>4, <2>5, NumbersKept
<1>2. CASE Abort(x)
  BY <1>0, <1>2, AbortAddsNothing
<1> QED BY <1>1, <1>2 DEF LoopEnds

LEMMA ExecuteNumbers ==
  ASSUME RowDomains, NEW x \in Runs, RunInv(x), Execute(x), Numbers(x) PROVE Numbers(x)'
<1>0. /\ request' = request /\ task' = task /\ findings' = findings /\ comments' = comments
      /\ desk[x].at = "executing" /\ desk[x].verdict = "none" /\ request[x].status # "completed"
      /\ desk[x] \in Desks(x)
  BY DEF Execute, At, tables, RunInv, Verdicts, RequestLast, Ended, RunTypes
<1>1. ASSUME NEW n \in 0..MaxFindings,
             desk' = [desk EXCEPT ![x].at = "recording", ![x].found = n, ![x].left = n,
                                  ![x].verdict = "completed"]
      PROVE  Numbers(x)'
  <2>1. /\ desk'[x].at = "recording" /\ desk'[x].found = n /\ desk'[x].left = n
        /\ desk'[x].task = desk[x].task /\ desk'[x].published = desk[x].published
        /\ desk'[x].findings = desk[x].findings /\ desk'[x].comments = desk[x].comments
    BY <1>0, <1>1 DEF RowDomains, Desks
  <2>2. SumFound(x)' = SumFound(x) /\ SumSaid(x)' = SumSaid(x)
    BY <1>0, SumsStay DEF SameTasks
  <2>3. Recorded(x) = 0 /\ Recorded(x)' = 0 /\ Made(x)' = Made(x)
    BY <1>0, <2>1 DEF Recorded, Made, Busy
  <2>4. Balanced(x) => Balanced(x)'
    BY <1>0, <2>1, <2>2, <2>3 DEF Balanced
  <2>5. Plain(x)' => Plain(x)
    BY <1>0, <2>1, PlainStays DEF SameTasks, Busy
  <2> QED BY <1>0, <2>1, <2>4, <2>5, NumbersKept
<1>2. CASE desk' = [desk EXCEPT ![x].at = "settling", ![x].verdict = "failed"]
  <2>1. desk'[x].at = "settling" /\ desk'[x].verdict = "failed"
    BY <1>0, <1>2 DEF RowDomains, Desks
  <2> QED BY <1>0, <2>1, NothingToAdd
<1> QED BY <1>1, <1>2 DEF Execute

LEMMA RecordFindingNumbers ==
  ASSUME RowDomains, NEW x \in Runs, RunInv(x), RecordFinding(x), Numbers(x) PROVE Numbers(x)'
<1>0. /\ request' = request /\ task' = task /\ comments' = comments
      /\ desk[x].at = "recording" /\ desk[x].verdict = "completed" /\ request[x].status # "completed"
      /\ desk[x] \in Desks(x) /\ findings[x] \in Nat
  BY DEF RecordFinding, At, tables, RunInv, Verdicts, RequestLast, Ended, RunTypes
<1>1. SumFound(x)' = SumFound(x) /\ SumSaid(x)' = SumSaid(x)
  BY <1>0, SumsStay DEF SameTasks
<1>2. CASE desk[x].left > 0 /\ findings' = [findings EXCEPT ![x] = @ + 1]
           /\ desk' = [desk EXCEPT ![x].left = @ - 1]
  <2>1. /\ desk'[x].at = "recording" /\ desk'[x].found = desk[x].found /\ desk'[x].left = desk[x].left - 1
        /\ desk'[x].task = desk[x].task /\ desk'[x].published = desk[x].published
        /\ desk'[x].findings = desk[x].findings /\ desk'[x].comments = desk[x].comments
        /\ findings'[x] = findings[x] + 1
    BY <1>0, <1>2 DEF RowDomains, Desks
  <2>2. desk[x].left \in Nat /\ desk[x].found \in Nat /\ desk[x].findings \in Nat
    BY <1>0 DEF Desks
  <2>3. Recorded(x) \in Int /\ Recorded(x)' = Recorded(x) + 1 /\ Made(x)' = Made(x)
    BY <1>0, <2>1, <2>2 DEF Recorded, Made, Busy
  <2>4. Balanced(x) => Balanced(x)'
    BY <1>0, <1>1, <2>1, <2>2, <2>3 DEF Balanced
  <2>5. Plain(x)' => Plain(x)
    BY <1>0, <2>1, PlainStays DEF SameTasks, Busy
  <2> QED BY <1>0, <2>1, <2>4, <2>5, NumbersKept
<1>3. CASE Break(x)
  BY <1>0, <1>3, BreakAddsNothing
<1>4. ASSUME desk[x].left = 0, UNCHANGED findings, NEW drafts,
             desk' = [desk EXCEPT ![x].at = "publishing", ![x].left = drafts]
      PROVE  Numbers(x)'
  <2>1. /\ desk'[x].at = "publishing" /\ desk'[x].found = desk[x].found
        /\ desk'[x].task = desk[x].task /\ desk'[x].published = desk[x].published
        /\ desk'[x].findings = desk[x].findings /\ desk'[x].comments = desk[x].comments
    BY <1>0, <1>4 DEF RowDomains, Desks
  <2>2. desk[x].found \in Nat
    BY <1>0 DEF Desks
  <2>3. Recorded(x)' = Recorded(x) /\ Made(x)' = Made(x)
    BY <1>0, <1>4, <2>1, <2>2 DEF Recorded, Made, Busy
  <2>4. Balanced(x) => Balanced(x)'
    BY <1>0, <1>1, <1>4, <2>1, <2>3 DEF Balanced
  <2>5. Plain(x)' => Plain(x)
    BY <1>0, <2>1, PlainStays DEF SameTasks, Busy
  <2> QED BY <1>0, <2>1, <2>4, <2>5, NumbersKept
<1> QED BY <1>2, <1>3, <1>4 DEF RecordFinding

LEMMA PublishNumbers ==
  ASSUME RowDomains, NEW x \in Runs, RunInv(x), Publish(x) \/ Published(x), Numbers(x) PROVE Numbers(x)'
<1>0. /\ request' = request /\ task' = task /\ findings' = findings
      /\ desk[x].at = "publishing" /\ desk[x].verdict = "completed" /\ request[x].status # "completed"
      /\ desk[x] \in Desks(x) /\ comments[x] \in Nat
  BY DEF Publish, Published, At, tables, RunInv, Verdicts, RequestLast, Ended, RunTypes
<1>1. SumFound(x)' = SumFound(x) /\ SumSaid(x)' = SumSaid(x)
  BY <1>0, SumsStay DEF SameTasks
<1>2. ASSUME desk'[x].at \in {"publishing", "settling"}, desk'[x].found = desk[x].found,
             desk'[x].task = desk[x].task,
             desk'[x].findings = desk[x].findings, desk'[x].comments = desk[x].comments,
             NEW k \in 0..1, comments'[x] = comments[x] + k,
             desk'[x].published = desk[x].published + k
      PROVE  Numbers(x)'
  <2>1. desk[x].published \in Nat /\ desk[x].comments \in Nat
    BY <1>0 DEF Desks
  <2>2. /\ Recorded(x)' = Recorded(x)
        /\ Made(x) = desk[x].published /\ Made(x)' = desk'[x].published
    BY <1>0, <1>2 DEF Recorded, Made, Busy
  <2>4. Balanced(x) => Balanced(x)'
    BY <1>0, <1>1, <1>2, <2>1, <2>2 DEF Balanced
  <2>5. Plain(x)' => Plain(x)
    BY <1>0, <1>2, PlainStays DEF SameTasks, Busy
  <2> QED BY <1>0, <1>2, <2>4, <2>5, NumbersKept
<1>3. CASE Published(x)
  <2>1. /\ desk'[x].at = "settling" /\ desk'[x].found = desk[x].found /\ desk'[x].task = desk[x].task
        /\ desk'[x].findings = desk[x].findings /\ desk'[x].comments = desk[x].comments
        /\ comments'[x] = comments[x] /\ desk'[x].published = desk[x].published
        /\ desk[x].published \in Nat
    BY <1>0, <1>3 DEF Published, Go, tables, RowDomains, Desks
  <2> QED BY <1>0, <1>2, <2>1
<1>4. CASE /\ comments' = [comments EXCEPT ![x] = @ + 1]
           /\ desk' = [desk EXCEPT ![x].left = @ - 1, ![x].published = @ + 1]
  <2>1. /\ desk'[x].at = "publishing" /\ desk'[x].found = desk[x].found /\ desk'[x].task = desk[x].task
        /\ desk'[x].findings = desk[x].findings /\ desk'[x].comments = desk[x].comments
        /\ comments'[x] = comments[x] + 1 /\ desk'[x].published = desk[x].published + 1
        /\ desk[x].published \in Nat
    BY <1>0, <1>4 DEF RowDomains, Desks
  <2> QED BY <1>0, <1>2, <2>1
<1>5. CASE desk' = [desk EXCEPT ![x].at = "settling", ![x].verdict = "failed"]
  <2>1. desk'[x].at = "settling" /\ desk'[x].verdict = "failed"
    BY <1>0, <1>5 DEF RowDomains, Desks
  <2> QED BY <1>0, <2>1, NothingToAdd
<1>6. CASE desk' = [desk EXCEPT ![x].left = @ - 1] /\ UNCHANGED comments
  <2>1. /\ desk'[x].at = "publishing" /\ desk'[x].found = desk[x].found /\ desk'[x].task = desk[x].task
        /\ desk'[x].findings = desk[x].findings /\ desk'[x].comments = desk[x].comments
        /\ comments'[x] = comments[x] /\ desk'[x].published = desk[x].published
        /\ desk[x].published \in Nat
    BY <1>0, <1>6 DEF RowDomains, Desks
  <2> QED BY <1>0, <1>2, <2>1
<1>7. CASE Break(x)
  BY <1>0, <1>7, BreakAddsNothing
<1> QED BY <1>3, <1>4, <1>5, <1>6, <1>7 DEF Publish

LEMMA SettleNumbers ==
  ASSUME RowDomains, NEW x \in Runs, RunInv(x), RunInv(x)', Settle(x), Numbers(x) PROVE Numbers(x)'
<1> DEFINE t == desk[x].task
<1>0. /\ request' = request /\ findings' = findings /\ comments' = comments
      /\ desk[x].at = "settling" /\ desk[x] \in Desks(x) /\ t \in Selected[x]
      /\ task[x][t].status = "running" /\ desk[x].verdict \in Ended
      /\ request[x].status # "completed" /\ RunTypes(x) /\ RunTypes(x)'
      /\ task[x][t].findings = 0 /\ task[x][t].comments = 0
  BY DEF Settle, At, RunInv, RunTypes, TaskInHand, Busy, Verdicts, RequestLast, Ended, RowsSay
<1>1. ASSUME NEW n \in 0..1, task' = [task EXCEPT ![x][desk[x].task] = Outcome(x, n)],
             Counted(x)
      PROVE  Numbers(x)'
  <2>1. /\ desk'[x].at \in {"closing", "choosing"}
        /\ desk'[x].findings = desk[x].findings + Outcome(x, 0).findings
        /\ desk'[x].comments = desk[x].comments + Outcome(x, 0).comments
    BY <1>0, <1>1, CountedDesk
  <2>2. task'[x][t] = Outcome(x, n) /\ \A u \in Selected[x] \ {t} : task'[x][u] = task[x][u]
    BY <1>0, <1>1 DEF RowDomains, RunTypes
  <2>3. CASE desk[x].verdict = "completed"
    <3>1. /\ task'[x][t].status = "completed" /\ task'[x][t].findings = desk[x].found
          /\ task'[x][t].comments = desk[x].published
          /\ desk'[x].findings = desk[x].findings + desk[x].found
          /\ desk'[x].comments = desk[x].comments + desk[x].published
      BY <2>1, <2>2, <2>3, OutcomeCompleted
    <3>2. t \in TaskRows(x)
      BY <1>0 DEF TaskRows
    <3>3. /\ TaskRows(x)' = TaskRows(x)
          /\ SumFound(x)' = SumFound(x) + desk[x].found
          /\ SumSaid(x)' = SumSaid(x) + desk[x].published
      <4>1. task'[x][t].status # "none"
        BY <3>1
      <4>2. /\ TaskRows(x)' = TaskRows(x)
            /\ SumFound(x)' = SumFound(x) + task'[x][t].findings
            /\ SumSaid(x)' = SumSaid(x) + task'[x][t].comments
        BY <1>0, <2>2, <3>2, <4>1, SumsOfFinished
      <4> QED BY <3>1, <4>2
    <3>4. /\ Recorded(x) = desk[x].found /\ Made(x) = desk[x].published
          /\ Recorded(x)' = 0 /\ Made(x)' = 0
      BY <1>0, <2>1 DEF Recorded, Made, Busy
    <3>5. /\ desk[x].found \in Nat /\ desk[x].published \in Nat
          /\ desk[x].findings \in Nat /\ desk[x].comments \in Nat
      BY <1>0 DEF Desks
    <3>6. SumFound(x) \in Int /\ SumSaid(x) \in Int
      BY <1>0, TaskSums
    <3>7. Balanced(x) => Balanced(x)'
      BY <1>0, <2>1, <3>1, <3>3, <3>4, <3>5, <3>6 DEF Balanced
    <3>8. Plain(x)' => Plain(x)
      BY <1>0, <2>1, <2>2, <3>3 DEF Plain, Busy, TaskRows
    <3> QED BY <1>0, <2>1, <2>3, <3>7, <3>8, NumbersKept
  <2>4. CASE desk[x].verdict = "failed"
    <3>1. task'[x][t].status = "failed"
      BY <2>2, <2>4, OutcomeFailed
    <3>2. ~Plain(x)'
      BY <1>0, <2>1, <3>1 DEF Plain, TaskRows, Busy
    <3> QED BY <1>0, <2>1, <3>2 DEF Numbers
  <2> HIDE DEF t
  <2> QED BY <1>0, <2>3, <2>4 DEF Ended
<1>2. CASE x \in Scripts /\ Counted(x) /\ task' = task
  <2>1. desk'[x].at = "closing"
    BY <1>0, <1>2, CountedDesk
  <2>2. ~Plain(x)'
    BY <1>0, <1>2, <2>1 DEF Plain, TaskRows, Busy
  <2> QED BY <1>0, <2>1, <2>2 DEF Numbers
<1>3. CASE Abort(x)
  BY <1>0, <1>3, AbortAddsNothing
<1> HIDE DEF t
<1> QED BY <1>1, <1>2, <1>3 DEF Settle

LEMMA SummariseNumbers ==
  ASSUME RowDomains, NEW x \in Runs, RunInv(x), Summarise(x), Numbers(x) PROVE Numbers(x)'
<1>0. /\ request' = request /\ task' = task /\ findings' = findings
      /\ desk[x].at = "summarising" /\ desk[x].verdict = "none" /\ request[x].status # "completed"
      /\ desk[x] \in Desks(x) /\ comments[x] \in Nat /\ RunTypes(x)
  BY DEF Summarise, At, tables, RunInv, Verdicts, RequestLast, Ended, RunTypes
<1>1. SumFound(x)' = SumFound(x) /\ SumSaid(x)' = SumSaid(x)
  BY <1>0, SumsStay DEF SameTasks
<1>2. ASSUME NEW k \in 0..1, desk'[x].at = "closing", desk'[x].findings = desk[x].findings,
             desk'[x].comments = desk[x].comments + k, comments'[x] = comments[x] + k
      PROVE  Numbers(x)'
  <2>1. desk[x].comments \in Nat /\ SumSaid(x) \in Int
    BY <1>0, TaskSums DEF Desks
  <2>2. Recorded(x) = 0 /\ Made(x) = 0 /\ Recorded(x)' = 0 /\ Made(x)' = 0
    BY <1>0, <1>2 DEF Recorded, Made, Busy
  <2>4. Balanced(x) => Balanced(x)'
    BY <1>0, <1>1, <1>2, <2>1, <2>2 DEF Balanced
  <2>5. Plain(x)' => Plain(x)
    BY <1>0, <1>2, PlainStays DEF SameTasks, Busy
  <2> QED BY <1>0, <1>2, <2>4, <2>5, NumbersKept
<1>3. CASE /\ comments' = [comments EXCEPT ![x] = @ + 1]
           /\ desk' = [desk EXCEPT ![x].at = "closing", ![x].comments = @ + 1,
                                   ![x].verdict = "completed"]
  <2>1. /\ desk'[x].at = "closing" /\ desk'[x].findings = desk[x].findings
        /\ desk'[x].comments = desk[x].comments + 1 /\ comments'[x] = comments[x] + 1
    BY <1>0, <1>3 DEF RowDomains, Desks
  <2> QED BY <1>2, <2>1
<1>4. CASE /\ desk' = [desk EXCEPT ![x].at = "closing", ![x].verdict = "completed"]
           /\ UNCHANGED comments
  <2>1. /\ desk'[x].at = "closing" /\ desk'[x].findings = desk[x].findings
        /\ desk'[x].comments = desk[x].comments + 0 /\ comments'[x] = comments[x] + 0
    BY <1>0, <1>4 DEF RowDomains, Desks
  <2> QED BY <1>2, <2>1
<1>5. CASE Break(x)
  BY <1>0, <1>5, BreakAddsNothing
<1> QED BY <1>3, <1>4, <1>5 DEF Summarise

LEMMA CloseNumbers ==
  ASSUME RowDomains, NEW x \in Runs, RunInv(x), Close(x), Numbers(x) PROVE Numbers(x)'
<1>0. /\ task' = task /\ findings' = findings /\ comments' = comments
      /\ desk[x].at = "closing" /\ request[x].status # "completed" /\ Leave(x)
      /\ desk[x] \in Desks(x) /\ RunTypes(x)
  BY DEF Close, At, RunInv, RequestLast, Ended, RunTypes
<1>1. CASE request' = [request EXCEPT ![x] = Total(x)] /\ desk[x].verdict = "completed"
  <2>1. /\ desk'[x].at = "over"
        /\ request'[x].findings = desk[x].findings /\ request'[x].comments = desk[x].comments
    BY <1>0, <1>1 DEF Leave, Clear, Total, RowDomains
  <2>2. TaskRows(x)' = TaskRows(x) /\ SumFound(x)' = SumFound(x) /\ SumSaid(x)' = SumSaid(x)
    BY <1>0, SumsStay DEF SameTasks
  <2>3. Recorded(x) = 0 /\ Made(x) = 0
    BY <1>0 DEF Recorded, Made, Busy
  <2>4. desk[x].findings \in Nat /\ desk[x].comments \in Nat
    BY <1>0 DEF Desks
  <2>5. (\A t \in TaskRows(x) : task[x][t].status = "completed") => Balanced(x)
    BY <1>0, <1>1 DEF Plain, Numbers
  <2> QED BY <1>0, <2>1, <2>2, <2>3, <2>4, <2>5 DEF Numbers, Balanced
<1>2. CASE request' = [request EXCEPT ![x] = Total(x)] /\ desk[x].verdict = "failed"
  <2>1. request'[x].status # "completed"
    BY <1>0, <1>2 DEF Total, RowDomains
  <2> QED BY <1>0, <2>1, LeaveAddsNothing
<1>3. CASE UNCHANGED request
  BY <1>0, <1>3, LeaveAddsNothing
<1> QED BY <1>0, <1>1, <1>2, <1>3 DEF Close, RunInv, Verdicts, Ended

LEMMA DieNumbers ==
  ASSUME RowDomains, NEW x \in Runs, RunInv(x), Die(x) PROVE Numbers(x)'
<1>1. request[x].status \notin Ended /\ request' = request
  BY DEF Die, At, RunInv, RequestLast, tables
<1> QED BY <1>1, LeaveAddsNothing DEF Die, Ended

LEMMA WorkNumbers ==
  ASSUME RowDomains, NEW x \in Runs, RunInv(x), Work(x), Numbers(x) PROVE Numbers(x)'
<1>1. RunInv(x)'
  BY WorkStep
<1> QED BY <1>1, OpenRunNumbers, OpenTaskNumbers, LoopEndsNumbers, ExecuteNumbers,
           RecordFindingNumbers, PublishNumbers, SettleNumbers, SummariseNumbers, CloseNumbers,
           DieNumbers DEF Work

LEMMA SameNumbers ==
  ASSUME NEW x, Numbers(x), Same(x) PROVE Numbers(x)'
<1>1. TaskRows(x)' = TaskRows(x) /\ SumFound(x)' = SumFound(x) /\ SumSaid(x)' = SumSaid(x)
  BY SumsStay DEF Same, SameTasks
<1>2. (Plain(x) <=> Plain(x)') /\ Recorded(x)' = Recorded(x) /\ Made(x)' = Made(x)
  BY <1>1 DEF Same, Plain, Recorded, Made
<1>3. Balanced(x) <=> Balanced(x)'
  BY <1>1, <1>2 DEF Same, Balanced
<1> QED BY <1>1, <1>2, <1>3 DEF Numbers, Same

NumbersInv == \A x \in Runs : Numbers(x)

LEMMA NumbersInvNext == RowsInv /\ NumbersInv /\ [Next]_vars => NumbersInv'
<1> SUFFICES ASSUME RowsInv, NumbersInv, [Next]_vars PROVE NumbersInv'
  OBVIOUS
<1>0. RowDomains
  BY DEF RowsInv, RowDomains
<1>1. ASSUME NEW x \in Runs, Work(x) PROVE NumbersInv'
  <2>1. \A y \in Runs \ {x} : Same(y)
    BY <1>0, <1>1, OthersSame
  <2>2. Numbers(x)'
    BY <1>0, <1>1, WorkNumbers DEF RowsInv, NumbersInv
  <2> QED BY <2>1, <2>2, SameNumbers DEF NumbersInv
<1>2. CASE UNCHANGED <<tables, desk, broken>>
  <2>1. \A y \in Runs : Same(y)
    BY <1>2 DEF tables, Same
  <2> QED BY <2>1, SameNumbers DEF NumbersInv
<1>3. UNCHANGED <<tables, desk, broken>> \/ \E x \in Runs : Work(x)
  BY DEF Next, vars, rowVars, Read, ReadRun, ReadTasks, ReadFiles, ReadFindings, ReadComments
<1> QED BY <1>1, <1>2, <1>3

LEMMA NumbersInvInit == RowsInit => NumbersInv
<1> SUFFICES ASSUME RowsInit, NEW x \in Runs PROVE Numbers(x)
  BY DEF NumbersInv
<1>1. desk[x].at = "new" /\ desk[x].findings = 0 /\ desk[x].comments = 0
  BY DEF RowsInit, Clear
<1>2. findings[x] = 0 /\ comments[x] = 0 /\ request[x].status = "none"
  BY DEF RowsInit, Fresh
<1> QED BY <1>1, <1>2 DEF Numbers

LEMMA NumbersInvHolds == Spec => [](RowsInv /\ NumbersInv)
<1>1. Init => NumbersInv
  BY NumbersInvInit DEF Init
<1> QED BY <1>1, NumbersInvNext, RowsInvHolds, PTL DEF Spec

-----------------------------------------------------------------------------
(* The page of a run.                                                      *)

PageFields ==
  {"at", "of", "status", "row", "tasks", "completed", "list", "unread", "files", "failure",
   "findings", "comments"}

PageShape ==
  /\ DOMAIN page = PageFields /\ page.of \in Runs
  /\ page.at \in {"tasks", "files", "findings", "comments", "sent"}

\* The rows that were read of ended tasks are still the rows, and the files that
\* were read with them are theirs.
PageList ==
  page.at # "tasks" =>
    /\ DOMAIN page.files = DOMAIN page.list /\ DOMAIN page.list \subseteq Selected[page.of]
    /\ page.unread \subseteq DOMAIN page.list /\ (page.at # "files" => page.unread = {})
    /\ \A t \in DOMAIN page.list : page.list[t].status \in Ended =>
         /\ task[page.of][t] = page.list[t]
         /\ t \notin page.unread => page.files[t] = page.list[t].incomplete

\* What was read of a run that had ended.
PageEnded ==
  page.status \in Ended =>
    /\ desk[page.of].at = "over" /\ request[page.of].status # "none"
    /\ page.status = Shown(page.of) /\ page.row = request[page.of]
    /\ page.tasks = Cardinality(TaskRows(page.of))
    /\ page.completed =
         Cardinality({t \in TaskRows(page.of) : task[page.of][t].status = "completed"})
    /\ page.at # "tasks" =>
         /\ page.list = [t \in TaskRows(page.of) |-> task[page.of][t]]
         /\ page.status = "failed" => page.failure \/ page.of \in broken
    /\ page.at \in {"comments", "sent"} => page.findings = Min({ListLimit, findings[page.of]})
    /\ page.at = "sent" => page.comments = Min({ListLimit, comments[page.of]})

PageInv == page.at = "idle" \/ (PageShape /\ PageList /\ PageEnded)

LEMMA OverStays ==
  ASSUME RowsInv, [Next]_vars, NEW x \in Runs, desk[x].at = "over" PROVE Same(x)
<1>1. ~Work(x)
  BY DEF Work, OpenRun, OpenTask, LoopEnds, Execute, RecordFinding, Publish, Published,
         Settle, Summarise, Close, Die, At
<1>2. UNCHANGED <<tables, desk, broken>> \/ \E y \in Runs : Work(y)
  BY DEF Next, vars, rowVars, Read, ReadRun, ReadTasks, ReadFiles, ReadFindings, ReadComments
<1>3. CASE UNCHANGED <<tables, desk, broken>>
  BY <1>3 DEF tables, Same
<1>4. ASSUME NEW y \in Runs, Work(y) PROVE Same(x)
  BY <1>1, <1>4, OthersSame DEF RowsInv, RowDomains
<1> QED BY <1>2, <1>3, <1>4

\* An ended row is not written any more.
LEMMA EndedRowsStay ==
  ASSUME RowsInv, [Next]_vars, NEW x \in Runs, NEW t \in Selected[x], task[x][t].status \in Ended
  PROVE  task'[x][t] = task[x][t]
<1>0. RowDomains /\ RunInv(x) /\ task[x][t].status \notin {"none", "running"}
  BY DEF RowsInv, RowDomains, Ended
<1>1. CASE task' = task
  BY <1>1
<1>2. ASSUME NEW y \in Runs \ {x}, Work(y) PROVE task'[x][t] = task[x][t]
  BY <1>0, <1>2, OthersSame DEF Same
<1>3. CASE OpenTask(x)
  <2>1. \A u \in desk[x].todo : u \in Selected[x] /\ task[x][u].status = "none"
    BY <1>0 DEF RunInv, RunTypes, Desks, TaskInHand
  <2>2. ASSUME NEW u \in desk[x].todo, task' = [task EXCEPT ![x][u].status = "running"]
        PROVE  task'[x][t] = task[x][t]
    BY <1>0, <2>1, <2>2 DEF RowDomains, RunInv, RunTypes
  <2> QED BY <1>1, <1>3, <2>2 DEF OpenTask
<1>4. CASE Settle(x)
  <2>1. desk[x].task \in Selected[x] /\ task[x][desk[x].task].status = "running"
    BY <1>0, <1>4 DEF Settle, At, RunInv, TaskInHand, Busy
  <2>2. ASSUME NEW n, task' = [task EXCEPT ![x][desk[x].task] = Outcome(x, n)]
        PROVE  task'[x][t] = task[x][t]
    BY <1>0, <2>1, <2>2 DEF RowDomains, RunInv, RunTypes
  <2> QED BY <1>1, <1>4, <2>2 DEF Settle
<1>5. UNCHANGED <<tables, desk, broken>> \/ \E y \in Runs : Work(y)
  BY DEF Next, vars, rowVars, Read, ReadRun, ReadTasks, ReadFiles, ReadFindings, ReadComments
<1>6. Work(x) => task' = task \/ OpenTask(x) \/ Settle(x)
  BY DEF Work, OpenRun, LoopEnds, Execute, RecordFinding, Publish, Published,
         Summarise, Close, Die, tables
<1> QED BY <1>1, <1>2, <1>3, <1>4, <1>5, <1>6 DEF tables

\* The page is not touched.
LEMMA PageStays ==
  ASSUME RowsInv, PageInv, [Next]_vars, page' = page PROVE PageInv'
<1> SUFFICES ASSUME page.at # "idle" PROVE (PageShape /\ PageList /\ PageEnded)'
  BY DEF PageInv
<1>0. PageShape /\ PageList /\ PageEnded
  BY DEF PageInv
<1>1. PageShape'
  BY <1>0 DEF PageShape
<1>2. PageList'
  <2>1. page.of \in Runs
    BY <1>0 DEF PageShape
  <2>2. ASSUME page.at # "tasks", NEW t \in DOMAIN page.list, page.list[t].status \in Ended
        PROVE  task'[page.of][t] = page.list[t]
    <3>1. t \in Selected[page.of] /\ task[page.of][t] = page.list[t]
      BY <1>0, <2>2 DEF PageList
    <3> QED BY <2>1, <2>2, <3>1, EndedRowsStay
  <2> QED BY <1>0, <2>2 DEF PageList
<1>3. PageEnded'
  <2> SUFFICES ASSUME page.status \in Ended PROVE PageEnded'
    BY DEF PageEnded
  <2>1. Same(page.of)
    BY <1>0, OverStays DEF PageShape, PageEnded
  <2>2. TaskRows(page.of)' = TaskRows(page.of) /\ Shown(page.of)' = Shown(page.of)
    BY <2>1 DEF Same, TaskRows, Shown, AnotherThanCompleted
  <2> QED BY <1>0, <2>1, <2>2 DEF PageEnded, Same
<1> QED BY <1>1, <1>2, <1>3

LEMMA ReadRunStep ==
  ASSUME RowsInv, NEW x \in Runs, ReadRun(x) PROVE PageInv'
<1>0. /\ tables' = tables /\ desk' = desk /\ broken' = broken
      /\ request[x].status # "none" /\ RunInv(x)
  BY DEF ReadRun, RowsInv, Listed
<1>1. page' = [at |-> "tasks", of |-> x, status |-> Shown(x), row |-> request[x],
               tasks |-> Cardinality(TaskRows(x)),
               completed |-> Cardinality({t \in TaskRows(x) : task[x][t].status = "completed"}),
               list |-> <<>>, unread |-> {}, files |-> <<>>, failure |-> FALSE,
               findings |-> 0, comments |-> 0]
  BY DEF ReadRun
<1>2. PageShape' /\ PageList'
  BY <1>1 DEF PageShape, PageList, PageFields
<1>3. PageEnded'
  <2> SUFFICES ASSUME page'.status \in Ended PROVE PageEnded'
    BY DEF PageEnded
  <2>1. request[x].status \in Ended
    BY <1>0, <1>1 DEF Shown, Ended, RunInv, RunTypes, Requests, Status
  <2>2. desk[x].at = "over"
    BY <1>0, <2>1 DEF RunInv, RequestLast
  <2>3. TaskRows(x)' = TaskRows(x) /\ Shown(x)' = Shown(x) /\ request' = request /\ task' = task
    BY <1>0 DEF tables, TaskRows, Shown, AnotherThanCompleted
  <2>4. /\ page'.of = x /\ page'.at = "tasks" /\ page'.status = Shown(x) /\ page'.row = request[x]
        /\ page'.tasks = Cardinality(TaskRows(x))
        /\ page'.completed = Cardinality({t \in TaskRows(x) : task[x][t].status = "completed"})
    BY <1>1
  <2> QED BY <1>0, <2>2, <2>3, <2>4 DEF PageEnded
<1> QED BY <1>2, <1>3 DEF PageInv

LEMMA ReadTasksStep ==
  ASSUME RowsInv, PageInv, ReadTasks PROVE PageInv'
<1> PICK x : x = page.of
  OBVIOUS
<1> DEFINE rows == [t \in TaskRows(x) |-> task[x][t]]
           fails == \/ page.row.error
                    \/ page.status = "failed" /\ \E t \in DOMAIN rows : TaskFailure(rows[t])
<1>0. /\ tables' = tables /\ desk' = desk /\ broken' = broken /\ page.at = "tasks"
      /\ PageShape /\ PageEnded /\ x \in Runs /\ RunInv(x)
  BY DEF ReadTasks, PageInv, PageShape, RowsInv
<1>1. page' = [page EXCEPT !.at = "files", !.list = rows, !.unread = DOMAIN rows,
                           !.files = [t \in DOMAIN rows |-> 0], !.failure = fails]
  BY DEF ReadTasks
<1>2. /\ page'.at = "files" /\ page'.list = rows /\ page'.unread = TaskRows(x)
      /\ page'.files = [t \in TaskRows(x) |-> 0] /\ page'.failure = fails
      /\ page'.of = x /\ page'.status = page.status /\ page'.row = page.row
      /\ page'.tasks = page.tasks /\ page'.completed = page.completed /\ DOMAIN page' = PageFields
  BY <1>0, <1>1 DEF PageShape, PageFields
<1>3. /\ TaskRows(x)' = TaskRows(x) /\ Shown(x)' = Shown(x) /\ request' = request
      /\ task' = task /\ TaskRows(x) \subseteq Selected[x]
  BY <1>0 DEF tables, TaskRows, Shown, AnotherThanCompleted
<1>4. PageShape'
  BY <1>0, <1>2 DEF PageShape
<1>5. PageList'
  BY <1>2, <1>3 DEF PageList
<1>6. PageEnded'
  <2> SUFFICES ASSUME page.status \in Ended PROVE PageEnded'
    BY <1>2 DEF PageEnded
  <2>1. /\ desk[x].at = "over" /\ request[x].status # "none"
        /\ page.status = Shown(x) /\ page.row = request[x] /\ page.tasks = Cardinality(TaskRows(x))
        /\ page.completed = Cardinality({t \in TaskRows(x) : task[x][t].status = "completed"})
    BY <1>0 DEF PageEnded
  <2>2. page.status = "failed" => fails \/ x \in broken
    <3> SUFFICES ASSUME page.status = "failed", x \notin broken PROVE fails
      OBVIOUS
    <3>1. CASE request[x].status = "failed"
      BY <1>0, <2>1, <3>1 DEF RunInv, RequestLast
    <3>2. CASE request[x].status = "completed"
      <4>1. PICK t \in TaskRows(x) : task[x][t].status # "completed"
        BY <2>1, <3>2 DEF Shown, AnotherThanCompleted
      <4>2. t \in Selected[x] /\ task[x][t].status \in Status /\ task[x][t].status # "none"
        BY <1>0, <4>1 DEF TaskRows, RunInv, RunTypes, TaskRecords
      <4>3. task[x][t].status # "running"
        BY <1>0, <2>1, <3>2, <4>2 DEF RunInv, Running, Busy
      <4>4. task[x][t].status = "failed" /\ task[x][t].error
        BY <1>0, <4>1, <4>2, <4>3 DEF Status, RunInv, RowsSay
      <4> QED BY <4>1, <4>4 DEF TaskFailure
    <3>3. request[x].status # "running"
      BY <2>1 DEF Shown
    <3>4. request[x].status \in Status
      BY <1>0 DEF RunInv, RunTypes, Requests
    <3> QED BY <2>1, <3>1, <3>2, <3>3, <3>4 DEF Status
  <2> HIDE DEF fails
  <2> QED BY <1>0, <1>2, <1>3, <2>1, <2>2 DEF PageEnded
<1> QED BY <1>4, <1>5, <1>6 DEF PageInv

LEMMA ReadFilesStep ==
  ASSUME RowsInv, PageInv, ReadFiles PROVE PageInv'
<1> PICK x : x = page.of
  OBVIOUS
<1>0. /\ tables' = tables /\ desk' = desk /\ broken' = broken /\ page.at = "files"
      /\ PageShape /\ PageEnded /\ PageList /\ RunInv(x)
      /\ TaskRows(x)' = TaskRows(x) /\ Shown(x)' = Shown(x) /\ task' = task /\ request' = request
  BY DEF ReadFiles, PageInv, PageShape, RowsInv, tables, TaskRows, Shown, AnotherThanCompleted
<1>1. ASSUME NEW t \in page.unread,
             page' = [page EXCEPT !.unread = @ \ {t}, !.files[t] = files[page.of][t]]
      PROVE  PageInv'
  <2>0. t \in DOMAIN page.files /\ t \in DOMAIN page.list /\ t \in Selected[x]
    BY <1>0, <1>1 DEF PageList
  <2>1. /\ page'.at = "files" /\ page'.list = page.list /\ page'.of = x
        /\ page'.status = page.status /\ page'.row = page.row /\ page'.tasks = page.tasks
        /\ page'.completed = page.completed /\ page'.failure = page.failure
        /\ DOMAIN page' = PageFields
    BY <1>0, <1>1 DEF PageShape, PageFields
  <2>2. /\ page'.unread = page.unread \ {t} /\ page'.files[t] = files[x][t]
        /\ DOMAIN page'.files = DOMAIN page.files
        /\ \A u \in DOMAIN page.files \ {t} : page'.files[u] = page.files[u]
    BY <1>0, <1>1, <2>0 DEF PageShape, PageFields
  <2>3. page.list[t].status \in Ended => files[x][t] = page.list[t].incomplete
    BY <1>0, <2>0 DEF PageList, RunInv, RowsSay
  <2>4. PageShape'
    BY <1>0, <2>1 DEF PageShape
  <2>5. PageList'
    <3>1. \A u \in DOMAIN page.list : page.list[u].status \in Ended =>
            /\ task[x][u] = page.list[u]
            /\ u \notin page'.unread => page'.files[u] = page.list[u].incomplete
      BY <1>0, <2>2, <2>3 DEF PageList
    <3>2. /\ DOMAIN page'.files = DOMAIN page.list /\ DOMAIN page.list \subseteq Selected[x]
          /\ page'.unread \subseteq DOMAIN page.list
      BY <1>0, <2>2 DEF PageList
    <3> QED BY <1>0, <2>1, <3>1, <3>2 DEF PageList
  <2>6. PageEnded'
    BY <1>0, <2>1 DEF PageEnded
  <2> QED BY <2>4, <2>5, <2>6 DEF PageInv
<1>2. CASE page.unread = {} /\ page' = [page EXCEPT !.at = "findings"]
  <2>1. /\ page'.at = "findings" /\ page'.list = page.list /\ page'.of = x
        /\ page'.status = page.status /\ page'.row = page.row /\ page'.tasks = page.tasks
        /\ page'.completed = page.completed /\ page'.failure = page.failure
        /\ page'.unread = page.unread /\ page'.files = page.files /\ DOMAIN page' = PageFields
    BY <1>0, <1>2 DEF PageShape, PageFields
  <2>2. PageShape'
    BY <1>0, <2>1 DEF PageShape
  <2>3. PageList'
    BY <1>0, <1>2, <2>1 DEF PageList
  <2>4. PageEnded'
    BY <1>0, <2>1 DEF PageEnded
  <2> QED BY <2>2, <2>3, <2>4 DEF PageInv
<1> QED BY <1>1, <1>2 DEF ReadFiles

LEMMA ReadNumbersStep ==
  ASSUME RowsInv, PageInv, ReadFindings \/ ReadComments PROVE PageInv'
<1> PICK x : x = page.of
  OBVIOUS
<1>0. /\ tables' = tables /\ desk' = desk /\ broken' = broken /\ page.at \in {"findings", "comments"}
      /\ PageShape /\ PageEnded /\ PageList
      /\ TaskRows(x)' = TaskRows(x) /\ Shown(x)' = Shown(x) /\ task' = task /\ request' = request
      /\ findings' = findings /\ comments' = comments
  BY DEF ReadFindings, ReadComments, PageInv, PageShape, tables, TaskRows, Shown, AnotherThanCompleted
<1>1. /\ page'.list = page.list /\ page'.of = x
      /\ page'.status = page.status /\ page'.row = page.row /\ page'.tasks = page.tasks
      /\ page'.completed = page.completed /\ page'.failure = page.failure
      /\ page'.unread = page.unread /\ page'.files = page.files /\ DOMAIN page' = PageFields
  BY <1>0 DEF PageShape, PageFields, ReadFindings, ReadComments
<1>2. \/ page.at = "findings" /\ page'.at = "comments" /\ page'.findings = Min({ListLimit, findings[x]})
      \/ page.at = "comments" /\ page'.at = "sent" /\ page'.findings = page.findings
         /\ page'.comments = Min({ListLimit, comments[x]})
  BY <1>0 DEF PageShape, PageFields, ReadFindings, ReadComments
<1>3. PageShape'
  BY <1>0, <1>1, <1>2 DEF PageShape
<1>4. PageList'
  BY <1>0, <1>1, <1>2 DEF PageList
<1>5. PageEnded'
  BY <1>0, <1>1, <1>2 DEF PageEnded
<1> QED BY <1>3, <1>4, <1>5 DEF PageInv

LEMMA PageInvNext == RowsInv /\ PageInv /\ [Next]_vars => PageInv'
<1> SUFFICES ASSUME RowsInv, PageInv, [Next]_vars PROVE PageInv'
  OBVIOUS
<1>1. CASE page' = page
  BY <1>1, PageStays
<1>2. page' = page \/ Read
  BY DEF Next, vars, rowVars, Work, OpenRun, OpenTask, LoopEnds, Execute, RecordFinding, Publish,
         Published, Settle, Summarise, Close, Die
<1>3. CASE Read
  BY <1>3, ReadRunStep, ReadTasksStep, ReadFilesStep, ReadNumbersStep DEF Read
<1> QED BY <1>1, <1>2, <1>3

LEMMA PageInvHolds == Spec => [](RowsInv /\ NumbersInv /\ PageInv)
<1>1. Init => PageInv
  BY DEF Init, RowsInit, NoPage, PageInv
<1> QED BY <1>1, PageInvNext, NumbersInvHolds, PTL DEF Spec

(* The files shown with an ended review are those its row counts, though   *)
(* row and files are read one after the other while its run goes on: they  *)
(* are written in one transaction, after which neither changes.            *)
THEOREM CoverageShownWholeAlways == Spec => []CoverageShownWhole
<1>1. PageInv => CoverageShownWhole
  BY DEF PageInv, PageShape, PageList, CoverageShownWhole
<1> QED BY <1>1, PageInvHolds, PTL

(* The page of an ended run is whole, though it is read in pieces: a       *)
(* completed run lists what its row counts, as far as the limit, and the   *)
(* numbers of its tasks add up to it but for the summary's comment; a      *)
(* failed one has a failure to show, unless a store call has failed.       *)
THEOREM PageWholeAlways == Spec => []PageWhole
<1>1. ASSUME RowsInv, NumbersInv, PageInv, page.at = "sent", page.status = "completed"
      PROVE  /\ page.tasks = Cardinality(DOMAIN page.list) /\ page.completed = page.tasks
             /\ page.findings = Min({ListLimit, page.row.findings})
             /\ page.comments = Min({ListLimit, page.row.comments})
             /\ page.row.findings = SumFunction([t \in DOMAIN page.list |-> page.list[t].findings])
             /\ page.row.comments - SumFunction([t \in DOMAIN page.list |-> page.list[t].comments])
                  \in {0, 1}
  <2> PICK x : x = page.of
    OBVIOUS
  <2>1. /\ x \in Runs /\ RunInv(x) /\ Numbers(x) /\ RunTypes(x)
        /\ Shown(x) = "completed" /\ page.row = request[x]
        /\ page.tasks = Cardinality(TaskRows(x))
        /\ page.completed = Cardinality({t \in TaskRows(x) : task[x][t].status = "completed"})
        /\ page.list = [t \in TaskRows(x) |-> task[x][t]]
        /\ page.findings = Min({ListLimit, findings[x]})
        /\ page.comments = Min({ListLimit, comments[x]})
    BY <1>1 DEF PageInv, PageShape, PageEnded, Ended, RowsInv, NumbersInv, RunInv
  <2>2. request[x].status = "completed" /\ \A t \in TaskRows(x) : task[x][t].status = "completed"
    BY <2>1 DEF Shown, AnotherThanCompleted
  <2>3. {t \in TaskRows(x) : task[x][t].status = "completed"} = TaskRows(x)
    BY <2>2
  <2>4. /\ findings[x] = request[x].findings /\ SumFound(x) = request[x].findings
        /\ comments[x] = request[x].comments /\ request[x].comments - SumSaid(x) \in {0, 1}
    BY <2>1, <2>2 DEF Numbers
  <2>5. IsFiniteSet(TaskRows(x)) /\ TaskRows(x) \subseteq Selected[x]
    BY <2>1, TaskSums
  <2> DEFINE f == [t \in TaskRows(x) |-> task[x][t].findings]
             c == [t \in TaskRows(x) |-> task[x][t].comments]
  <2>6. /\ [t \in DOMAIN page.list |-> page.list[t].findings] = f
        /\ [t \in DOMAIN page.list |-> page.list[t].comments] = c
    BY <2>1
  <2>7. /\ \A t \in TaskRows(x) : f[t] \in Int /\ f[t] = FoundBy(x)[t]
        /\ \A t \in TaskRows(x) : c[t] \in Int /\ c[t] = SaidBy(x)[t]
    BY <2>1, <2>5, TaskSums
  <2>8. SumFunction(f) = SumFunctionOnSet(f, TaskRows(x)) /\ SumFunction(c) = SumFunctionOnSet(c, TaskRows(x))
    BY DEF SumFunction
  <2> HIDE DEF f, c
  <2>9. SumFunctionOnSet(f, TaskRows(x)) = SumFound(x)
    BY <2>5, <2>7, SumSame DEF SumFound
  <2>10. SumFunctionOnSet(c, TaskRows(x)) = SumSaid(x)
    BY <2>5, <2>7, SumSame DEF SumSaid
  <2> QED BY <2>1, <2>3, <2>4, <2>6, <2>8, <2>9, <2>10
<1>2. ASSUME PageInv, page.at = "sent", page.status = "failed"
      PROVE  page.failure \/ page.of \in broken
  BY <1>2 DEF PageInv, PageShape, PageEnded, Ended
<1>3. RowsInv /\ NumbersInv /\ PageInv => PageWhole
  BY <1>1, <1>2 DEF PageWhole
<1> QED BY <1>3, PageInvHolds, PTL

-----------------------------------------------------------------------------
(* The lists and counts.                                                   *)

\* The step of the fold of RunList.
BeforeStep(c, list, x) == IF x \in c THEN <<x>> \o list ELSE list
Picking == INSTANCE FoldFacts WITH Op <- BeforeStep

Elements(s) == {s[i] : i \in 1..Len(s)}
NoneTwice(s) == \A i, j \in 1..Len(s) : s[i] = s[j] => i = j
\* The last element of s that is in c.
LastIn(s, c, x) ==
  \E j \in 1..Len(s) : s[j] = x /\ x \in c /\ \A i \in 1..Len(s) : s[i] \in c => i <= j
Picks(s, c, r) ==
  /\ IsFiniteSet(Elements(s))
  /\ NoneTwice(s) => Len(r) = Cardinality(Elements(s) \cap c)
  /\ Elements(s) \cap c # {} => LastIn(s, c, r[1]) /\ Len(r) > 0

LEMMA ElementsAppend ==
  ASSUME NEW U, NEW s \in Seq(U), NEW x \in U
  PROVE  /\ Elements(Append(s, x)) = Elements(s) \cup {x}
         /\ NoneTwice(Append(s, x)) => NoneTwice(s) /\ x \notin Elements(s)
<1> DEFINE n == Len(s)
           r == Append(s, x)
<1>1. n \in Nat /\ Len(r) = n + 1 /\ r[n + 1] = x /\ \A i \in 1..n : r[i] = s[i]
  BY LenProperties, AppendProperties
<1>2. \A i \in 1..n + 1 : i \in 1..n \/ i = n + 1
  BY <1>1
<1>3. \A i \in 1..n : i \in 1..n + 1 /\ i # n + 1
  BY <1>1
<1>4. n + 1 \in 1..n + 1
  BY <1>1
<1> HIDE DEF n, r
<1>5. {r[i] : i \in 1..n + 1} = {s[i] : i \in 1..n} \cup {x}
  BY <1>1, <1>2, <1>3, <1>4
<1>6. (\A i, j \in 1..n + 1 : r[i] = r[j] => i = j)
        => (\A i, j \in 1..n : s[i] = s[j] => i = j) /\ x \notin {s[i] : i \in 1..n}
  BY <1>1, <1>3, <1>4
<1> QED BY <1>1, <1>5, <1>6 DEF Elements, NoneTwice, n, r

LEMMA PickedFacts ==
  ASSUME NEW U, NEW c, NEW s \in Seq(U)
  PROVE  Picking!Result(c, <<>>, s) \in Seq(U) /\ Picks(s, c, Picking!Result(c, <<>>, s))
<1> DEFINE S == {q \in Seq(U) : /\ Picking!Result(c, <<>>, q) \in Seq(U)
                                /\ Picks(q, c, Picking!Result(c, <<>>, q))}
<1>1. <<>> \in S
  <2>1. Picking!Result(c, <<>>, <<>>) = <<>>
    BY Picking!FoldEmpty
  <2>2. Elements(<<>>) = {} /\ Len(<<>>) = 0 /\ <<>> \in Seq(U)
    BY EmptySeq DEF Elements
  <2>3. Picks(<<>>, c, <<>>)
    <3>1. {} \cap c = {}
      OBVIOUS
    <3> QED BY <2>2, <3>1, FS_EmptySet DEF Picks
  <2> QED BY <2>1, <2>2, <2>3
<1>2. ASSUME NEW q \in Seq(U), NEW x \in U, q \in S PROVE Append(q, x) \in S
  <2> DEFINE r == Picking!Result(c, <<>>, q)
             p == Append(q, x)
             v == IF x \in c THEN <<x>> \o r ELSE r
             n == Len(q)
  <2>1. Picking!Result(c, <<>>, p) = v
    <3>1. Picking!Result(c, <<>>, Append(q, x)) = BeforeStep(c, Picking!Result(c, <<>>, q), x)
      BY Picking!FoldAppend
    <3> QED BY <3>1 DEF BeforeStep
  <2>2. r \in Seq(U) /\ Picks(q, c, r)
    BY <1>2
  <2>3. /\ p \in Seq(U) /\ n \in Nat /\ Len(p) = n + 1 /\ p[n + 1] = x /\ \A i \in 1..n : p[i] = q[i]
    BY LenProperties, AppendProperties
  <2>4. Elements(p) = Elements(q) \cup {x} /\ (NoneTwice(p) => NoneTwice(q) /\ x \notin Elements(q))
    BY ElementsAppend
  <2> HIDE DEF r, p, n
  <2>5. /\ v \in Seq(U) /\ (x \in c => v[1] = x /\ Len(v) = Len(r) + 1 /\ Len(v) > 0)
        /\ (x \notin c => v = r)
    <3>1. <<x>> \in Seq(U) /\ Len(<<x>>) = 1 /\ <<x>>[1] = x
      OBVIOUS
    <3>2. Len(r) \in Nat /\ Len(<<x>> \o r) = 1 + Len(r) /\ <<x>> \o r \in Seq(U)
          /\ (<<x>> \o r)[1] = x
      BY <2>2, <3>1, ConcatProperties, LenProperties
    <3> QED BY <2>2, <3>2
  <2> HIDE DEF v
  <2>6. IsFiniteSet(Elements(p))
    BY <2>2, <2>4, FS_AddElement DEF Picks
  <2>7. NoneTwice(p) => Len(v) = Cardinality(Elements(p) \cap c)
    <3> SUFFICES ASSUME NoneTwice(p) PROVE Len(v) = Cardinality(Elements(p) \cap c)
      OBVIOUS
    <3> DEFINE E == Elements(q) \cap c
    <3>1. IsFiniteSet(E) /\ Len(r) = Cardinality(E) /\ x \notin E
      BY <2>2, <2>4, FS_Subset DEF Picks
    <3>2. CASE x \in c
      <4>1. Elements(p) \cap c = E \cup {x}
        BY <2>4, <3>2
      <4> HIDE DEF E
      <4>2. Cardinality(E \cup {x}) = Cardinality(E) + 1
        BY <3>1, FS_AddElement
      <4> QED BY <2>5, <3>1, <3>2, <4>1, <4>2
    <3>3. CASE x \notin c
      <4>1. Elements(p) \cap c = E
        BY <2>4, <3>3
      <4> QED BY <2>5, <3>1, <3>3, <4>1
    <3> QED BY <3>2, <3>3
  <2>8. Elements(p) \cap c # {} => LastIn(p, c, v[1]) /\ Len(v) > 0
    <3>1. CASE x \in c
      <4>1. LastIn(p, c, x)
        <5>1. n + 1 \in 1..Len(p) /\ \A i \in 1..Len(p) : i <= n + 1
          BY <2>3
        <5> QED BY <2>3, <3>1, <5>1 DEF LastIn
      <4> QED BY <2>5, <3>1, <4>1
    <3>2. CASE x \notin c
      <4> SUFFICES ASSUME Elements(p) \cap c # {} PROVE LastIn(p, c, r[1]) /\ Len(r) > 0
        BY <2>5, <3>2
      <4>1. LastIn(q, c, r[1]) /\ Len(r) > 0
        BY <2>2, <2>4, <3>2 DEF Picks
      <4>2. PICK j \in 1..n : q[j] = r[1] /\ r[1] \in c /\ \A i \in 1..n : q[i] \in c => i <= j
        BY <4>1 DEF LastIn, n
      <4>3. j \in 1..Len(p) /\ p[j] = r[1]
        BY <2>3, <4>2
      <4>4. ASSUME NEW i \in 1..Len(p), p[i] \in c PROVE i <= j
        <5>1. i # n + 1
          BY <2>3, <3>2, <4>4
        <5>2. i \in 1..n
          BY <2>3, <5>1
        <5> QED BY <2>3, <4>2, <4>4, <5>2
      <4> QED BY <4>1, <4>2, <4>3, <4>4 DEF LastIn
    <3> QED BY <3>1, <3>2
  <2>9. p \in S
    BY <2>1, <2>3, <2>5, <2>6, <2>7, <2>8 DEF Picks
  <2> QED BY <2>9 DEF p
<1> HIDE DEF S
<1>3. s \in S
  BY <1>1, <1>2, SeqInduction
<1> QED BY <1>3 DEF S

\* A run is opened once, with its row, and has no finding before.
OpenedInv ==
  /\ NoneTwice(opened)
  /\ \A x \in Runs : request[x].status # "none" => x \in Elements(opened)
  /\ \A x \in Runs : request[x].status = "none" => findings[x] = 0

LEMMA OpenedStep ==
  ASSUME RowsInv, OpenedInv, NEW x \in Runs, Work(x)
  PROVE  OpenedInv'
<1>0. RowDomains /\ RunInv(x) /\ opened \in Seq(Runs)
  BY DEF RowsInv, RowDomains
<1>1. \A y \in Runs \ {x} : request'[y] = request[y] /\ findings'[y] = findings[y]
  BY <1>0, OthersSame DEF Same
<1>2. CASE opened' = Append(opened, x) /\ request' = [request EXCEPT ![x].status = "running"]
           /\ UNCHANGED findings /\ desk[x].at = "new"
  <2>1. request'[x].status = "running"
    BY <1>0, <1>2 DEF RowDomains, RunInv, RunTypes, Requests
  <2>2. Elements(opened') = Elements(opened) \cup {x}
    BY <1>0, <1>2, ElementsAppend
  <2>3. request[x].status = "none"
    BY <1>0, <1>2 DEF RunInv, RequestLast
  <2>4. x \notin Elements(opened)
    BY <2>3 DEF RowsInv, Elements
  <2>5. NoneTwice(opened')
    <3> DEFINE n == Len(opened)
    <3>1. /\ n \in Nat /\ Len(opened') = n + 1 /\ opened'[n + 1] = x
          /\ \A i \in 1..n : opened'[i] = opened[i]
      BY <1>0, <1>2, LenProperties, AppendProperties
    <3>2. \A i \in 1..n + 1 : i \in 1..n \/ i = n + 1
      BY <3>1
    <3>3. (\A i \in 1..n : opened[i] # x) /\ \A i, j \in 1..n : opened[i] = opened[j] => i = j
      BY <2>4 DEF OpenedInv, NoneTwice, Elements
    <3> HIDE DEF n
    <3> QED BY <3>1, <3>2, <3>3 DEF NoneTwice
  <2> QED BY <1>1, <1>2, <2>1, <2>2, <2>5 DEF OpenedInv
<1>3. CASE /\ opened' = opened
           /\ request'[x].status # "none" => request[x].status # "none"
           /\ request'[x].status = "none" => findings'[x] = findings[x] /\ request[x].status = "none"
  BY <1>1, <1>3 DEF OpenedInv
<1>4. ASSUME OpenRun(x) PROVE OpenedInv'
  <2>1. \/ opened' = Append(opened, x) /\ request' = [request EXCEPT ![x].status = "running"]
        \/ UNCHANGED <<request, opened>>
    BY <1>4 DEF OpenRun
  <2>2. UNCHANGED findings /\ desk[x].at = "new"
    BY <1>4 DEF OpenRun, At
  <2> QED BY <1>2, <1>3, <2>1, <2>2
<1>5. ASSUME Close(x) PROVE OpenedInv'
  <2>1. desk[x].at = "closing" /\ request[x].status # "none" /\ UNCHANGED <<opened, findings>>
    BY <1>0, <1>5 DEF Close, At, RunInv, RequestLast
  <2>2. request' = request \/ request'[x].status \in Ended
    BY <1>0, <1>5 DEF Close, Total, At, RunInv, Verdicts, RowDomains
  <2> QED BY <1>3, <2>1, <2>2 DEF Ended
<1>6. ASSUME RecordFinding(x) PROVE OpenedInv'
  <2>1. desk[x].at = "recording" /\ request[x].status # "none" /\ UNCHANGED <<opened, request>>
    BY <1>0, <1>6 DEF RecordFinding, At, RunInv, RequestLast
  <2> QED BY <1>3, <2>1
<1>7. UNCHANGED <<request, findings, opened>> \/ OpenRun(x) \/ Close(x) \/ RecordFinding(x)
  BY DEF Work, OpenTask, LoopEnds, Execute, Publish, Published, Settle, Summarise, Die, tables
<1> QED BY <1>3, <1>4, <1>5, <1>6, <1>7

LEMMA OpenedInvNext == RowsInv /\ OpenedInv /\ [Next]_vars => OpenedInv'
<1> SUFFICES ASSUME RowsInv, OpenedInv, [Next]_vars PROVE OpenedInv'
  OBVIOUS
<1>1. CASE UNCHANGED <<tables, desk, broken>>
  BY <1>1 DEF tables, OpenedInv, NoneTwice, Elements
<1>2. UNCHANGED <<tables, desk, broken>> \/ \E x \in Runs : Work(x)
  BY DEF Next, vars, rowVars, Read, ReadRun, ReadTasks, ReadFiles, ReadFindings, ReadComments
<1> QED BY <1>1, <1>2, OpenedStep

LEMMA OpenedInvHolds == Spec => [](RowsInv /\ OpenedInv)
<1>1. Init => OpenedInv
  <2> SUFFICES ASSUME RowsInit PROVE OpenedInv
    BY DEF Init
  <2>1. opened = <<>> /\ \A x \in Runs : request[x].status = "none" /\ findings[x] = 0
    BY DEF RowsInit, Fresh
  <2>2. NoneTwice(<<>>)
    BY EmptySeq DEF NoneTwice
  <2> QED BY <2>1, <2>2 DEF OpenedInv
<1> QED BY <1>1, OpenedInvNext, RowsInvHolds, PTL DEF Spec

\* Sums as the model writes them.
FieldFold(r, field, S) ==
  (CHOOSE it : it = [s \in SUBSET S |-> IF s = {} THEN 0
     ELSE r[CHOOSE x \in s : TRUE][field] + it[s \ {CHOOSE x \in s : TRUE}]])[S]

LEMMA FieldSum ==
  ASSUME NEW r, NEW field, NEW S
  PROVE  FieldFold(r, field, S) = SumFunctionOnSet([x \in S |-> r[x][field]], S)
<1> DEFINE f == [x \in S |-> r[x][field]]
           F(it) == it = [s \in SUBSET S |-> IF s = {} THEN 0
              ELSE r[CHOOSE x \in s : TRUE][field] + it[s \ {CHOOSE x \in s : TRUE}]]
           G(it) == it = [s \in SUBSET S |-> IF s = {} THEN 0
              ELSE f[CHOOSE x \in s : TRUE] + it[s \ {CHOOSE x \in s : TRUE}]]
<1>1. FieldFold(r, field, S) = (CHOOSE it : F(it))[S]
  BY DEF FieldFold
<1>2. SumFunctionOnSet(f, S) = (CHOOSE it : G(it))[S]
  BY DEF SumFunctionOnSet, FoldFunctionOnSet, MapThenFoldSet
<1>3. \A s \in SUBSET S : s # {} => f[CHOOSE x \in s : TRUE] = r[CHOOSE x \in s : TRUE][field]
  OBVIOUS
<1>4. \A it : F(it) <=> G(it)
  <2> HIDE DEF f
  <2> QED BY <1>3
<1> HIDE DEF F, G, f
<1>5. (CHOOSE it : F(it)) = (CHOOSE it : G(it))
  BY <1>4
<1> QED BY <1>1, <1>2, <1>5 DEF f


LEMMA ListedFacts ==
  ASSUME RowsInv, OpenedInv
  PROVE  /\ Listed = Elements(opened) /\ Listed \subseteq Runs /\ IsFiniteSet(Listed)
         /\ \A x \in Listed : request[x] \in Requests /\ request[x].status # "none"
         /\ \A x \in Runs \ Listed : findings[x] = 0
         /\ \A x \in Runs : findings[x] \in Nat
<1>1. Listed = Elements(opened)
  BY DEF Listed, Elements
<1>2. \A x \in Listed : x \in Runs /\ request[x].status # "none"
  BY <1>1 DEF RowsInv, Elements
<1>3. IsFiniteSet(Listed)
  BY <1>2, DashboardAssumption, FS_Subset
<1>4. \A x \in Runs : request[x] \in Requests /\ findings[x] \in Nat
  BY DEF RowsInv, RunInv, RunTypes
<1>5. \A x \in Runs \ Listed : findings[x] = 0
  BY <1>1 DEF OpenedInv
<1> QED BY <1>1, <1>2, <1>3, <1>4, <1>5

LEMMA ShownFacts ==
  ASSUME NEW x
  PROVE  /\ Shown(x) = "running" <=> request[x].status = "running"
         /\ Shown(x) = "failed" <=>
              /\ request[x].status # "running"
              /\ ~(request[x].status = "completed" /\ ~AnotherThanCompleted(x))
         /\ Shown(x) \in {"running", "completed", "failed"}
<1> QED BY DEF Shown

LEMMA AmountIsSum ==
  ASSUME NEW field, NEW xs
  PROVE  Amount(field, xs) = SumFunctionOnSet([x \in xs |-> request[x][field]], xs)
<1>1. Amount(field, xs) = FieldFold(request, field, xs)
  BY DEF Amount, MapThenSumSet, MapThenFoldSet, FieldFold
<1> QED BY <1>1, FieldSum

Fields == {"runs", "running", "failed", "findings", "comments"}

\* What the groups count adds up to what the summary counts.
LEMMA GroupsAddUp ==
  ASSUME RowsInv, OpenedInv, NEW where, NEW h, NEW in, NEW rows,
         Grouped(Listed, h, DOMAIN rows, in),
         \A g \in DOMAIN rows : rows[g] = Group(in[g], where),
         NEW field \in Fields
  PROVE  FieldFold(rows, field, DOMAIN rows) = Summary(where)[field]
<1> DEFINE D == DOMAIN rows
           t == [g \in D |-> rows[g][field]]
<1>0. /\ IsFiniteSet(Listed) /\ \A x \in Listed : request[x] \in Requests
      /\ D = {h[x] : x \in Listed} /\ \A g \in D : in[g] = {x \in Listed : h[x] = g}
      /\ Grouped(Listed, h, D, in)
  BY ListedFacts DEF Grouped
<1>1. FieldFold(rows, field, D) = SumFunctionOnSet(t, D)
  BY FieldSum
<1>2. \A g \in D : t[g] = Group(in[g], where)[field]
  OBVIOUS
<1> HIDE DEF t, D
<1>3. ASSUME NEW T \in SUBSET Listed, \A g \in D : t[g] = Cardinality(in[g] \cap T)
      PROVE  SumFunctionOnSet(t, D) = Cardinality(T)
  <2>1. IsFiniteSet(Listed) /\ Grouped(Listed, h, D, in)
    BY <1>0
  <2> QED BY ONLY <2>1, <1>3, T \in SUBSET Listed, CountGroups
<1>4. CASE field = "runs"
  <2>1. \A g \in D : t[g] = Cardinality(in[g]) /\ in[g] = in[g] \cap Listed
    BY <1>0, <1>2, <1>4 DEF Group
  <2>2. SumFunctionOnSet(t, D) = Cardinality(Listed)
    BY <1>3, <2>1
  <2> QED BY <1>1, <1>4, <2>2 DEF Summary, D
<1>5. CASE field = "running"
  <2> DEFINE T == {x \in Listed : Shown(x) = "running"}
  <2>1. \A g \in D : {x \in in[g] : request[x].status = "running"} = in[g] \cap T
    BY <1>0, ShownFacts
  <2>2. \A g \in D : t[g] = Cardinality({x \in in[g] : request[x].status = "running"})
    BY <1>2, <1>5 DEF Group
  <2>3. T \in SUBSET Listed /\ Summary(where)["running"] = Cardinality(T)
    BY DEF Summary
  <2> HIDE DEF T
  <2>4. SumFunctionOnSet(t, D) = Cardinality(T)
    BY <1>3, <2>1, <2>2, <2>3
  <2> QED BY <1>1, <1>5, <2>3, <2>4 DEF D
<1>6. CASE field = "failed"
  <2> DEFINE T == {x \in Listed : Shown(x) = "failed"}
             F(xs) == {x \in xs : /\ request[x].status # "running"
                                  /\ ~(request[x].status = "completed" /\ ~AnotherThanCompleted(x))}
  <2>1. \A g \in D : F(in[g]) = in[g] \cap T
    BY <1>0, ShownFacts
  <2>2. \A g \in D : t[g] = Cardinality(F(in[g]))
    BY <1>2, <1>6 DEF Group, FailedIn
  <2>3. T \in SUBSET Listed /\ Summary(where)["failed"] = Cardinality(T)
    BY DEF Summary
  <2> HIDE DEF T, F
  <2>4. SumFunctionOnSet(t, D) = Cardinality(T)
    BY <1>3, <2>1, <2>2, <2>3
  <2> QED BY <1>1, <1>6, <2>3, <2>4 DEF D
<1>7. ASSUME field \in {"findings", "comments"}
      PROVE  FieldFold(rows, field, D) = Summary(where)[field]
  <2> DEFINE f == [x \in Listed |-> request[x][field]]
  <2>1. \A x \in Listed : f[x] \in Int
    BY <1>0, <1>7 DEF Requests
  <2>2. Summary(where)[field] = SumFunctionOnSet(f, Listed)
    <3>1. Summary(where)[field] = Amount(field, Listed)
      BY <1>7 DEF Summary
    <3> QED BY <3>1, AmountIsSum
  <2>3. \A g \in D : t[g] = SumFunctionOnSet(f, in[g])
    <3> SUFFICES ASSUME NEW g \in D PROVE t[g] = SumFunctionOnSet(f, in[g])
      OBVIOUS
    <3> DEFINE e == [x \in in[g] |-> request[x][field]]
    <3>1. t[g] = Amount(field, in[g])
      <4>1. Group(in[g], where)["findings"] = Amount("findings", in[g])
            /\ Group(in[g], where)["comments"] = Amount("comments", in[g])
        BY DEF Group
      <4> QED BY <1>2, <1>7, <4>1
    <3>2. t[g] = SumFunctionOnSet(e, in[g])
      BY <3>1, AmountIsSum
    <3>3. in[g] \in SUBSET Listed /\ \A x \in in[g] : e[x] = f[x] /\ f[x] \in Int
      BY <1>0, <2>1
    <3> HIDE DEF e, f
    <3>4. IsFiniteSet(in[g])
      BY <1>0, <3>3, FS_Subset
    <3>5. SumFunctionOnSet(f, in[g]) = SumFunctionOnSet(e, in[g])
      BY <3>3, <3>4, SumSame
    <3> QED BY <3>2, <3>5
  <2> HIDE DEF f
  <2>4. SumFunctionOnSet(t, D) = SumFunctionOnSet(f, Listed)
    BY <1>0, <2>1, <2>3, SumGroups
  <2> QED BY <1>1, <2>2, <2>4
<1> QED BY <1>4, <1>5, <1>6, <1>7 DEF Fields, D

LEMMA MinTwo ==
  ASSUME NEW a \in Int, NEW b \in Int
  PROVE  Min({a, b}) = IF a <= b THEN a ELSE b
<1> DEFINE m == IF a <= b THEN a ELSE b
<1>1. m \in {a, b} /\ \A y \in {a, b} : m <= y
  OBVIOUS
<1>2. \A x \in {a, b} : (\A y \in {a, b} : x <= y) => x = m
  BY <1>1
<1> HIDE DEF m
<1>3. Min({a, b}) = m
  BY <1>1, <1>2 DEF Min
<1> QED BY <1>3 DEF m

LEMMA MaxTwo ==
  ASSUME NEW a \in Int, NEW b \in Int
  PROVE  Max({a, b}) = IF a >= b THEN a ELSE b
<1> DEFINE m == IF a >= b THEN a ELSE b
<1>1. m \in {a, b} /\ \A y \in {a, b} : m >= y
  OBVIOUS
<1>2. \A x \in {a, b} : (\A y \in {a, b} : x >= y) => x = m
  BY <1>1
<1> HIDE DEF m
<1>3. Max({a, b}) = m
  BY <1>1, <1>2 DEF Max
<1> QED BY <1>3 DEF m

\* How much is shown of n rows.
LEMMA UpToIs ==
  ASSUME NEW n \in Int, NEW limit \in Int, NEW most \in Int, NEW offset \in Int
  PROVE  LET from == IF offset <= 0 THEN 0 ELSE offset
             wanted == IF limit <= 1 THEN 1 ELSE limit
             some == IF most <= wanted THEN most ELSE wanted
         IN  /\ From(offset) = from
             /\ UpTo(n, limit, most, offset) = IF n <= from + some THEN n ELSE from + some
<1> DEFINE from == IF offset <= 0 THEN 0 ELSE offset
           wanted == IF limit <= 1 THEN 1 ELSE limit
           some == IF most <= wanted THEN most ELSE wanted
<1>1. From(offset) = from
  <2>1. Max({0, offset}) = IF 0 >= offset THEN 0 ELSE offset
    BY MaxTwo
  <2> QED BY <2>1 DEF From
<1>2. Max({1, limit}) = wanted
  <2>1. Max({1, limit}) = IF 1 >= limit THEN 1 ELSE limit
    BY MaxTwo
  <2> QED BY <2>1
<1>3. from \in Int /\ wanted \in Int
  OBVIOUS
<1> HIDE DEF from, wanted
<1>4. Min({most, wanted}) = some
  BY <1>3, MinTwo
<1>5. some \in Int /\ from + some \in Int
  BY <1>3
<1> HIDE DEF some
<1>6. Min({n, from + some}) = IF n <= from + some THEN n ELSE from + some
  BY <1>5, MinTwo
<1>7. UpTo(n, limit, most, offset) = IF n <= from + some THEN n ELSE from + some
  BY <1>1, <1>2, <1>4, <1>6 DEF UpTo
<1> QED BY <1>1, <1>7 DEF from, wanted, some

Matching(where, filter) == {x \in Of_(where, filter) : Shown(x) \in filter.statuses}
Picked(where, filter) == Picking!Result(Matching(where, filter), <<>>, opened)

LEMMA RunListIs ==
  ASSUME NEW where, NEW filter, NEW limit, NEW offset
  PROVE  RunList(where, filter, limit, offset) =
           SubSeq(Picked(where, filter), From(offset) + 1,
                  UpTo(Len(Picked(where, filter)), limit, 200, offset))
<1> QED BY DEF RunList, FoldLeft, MapThenFoldSet, Picked, Matching, Picking!Result, BeforeStep,
               Picking!Max, Max

LEMMA PickedIs ==
  ASSUME RowsInv, OpenedInv, NEW where, NEW filter
  PROVE  LET list == Picked(where, filter)
             set == Matching(where, filter)
         IN  /\ set \subseteq Listed /\ list \in Seq(Runs) /\ Len(list) = Cardinality(set)
             /\ Len(list) \in Nat
             /\ set # {} => LastIn(opened, set, list[1]) /\ Len(list) > 0
<1> DEFINE list == Picked(where, filter)
           set == Matching(where, filter)
<1>1. opened \in Seq(Runs) /\ NoneTwice(opened)
  BY DEF RowsInv, OpenedInv
<1>2. list \in Seq(Runs) /\ Picks(opened, set, list)
  BY <1>1, PickedFacts DEF Picked
<1>3. set \subseteq Listed /\ Listed = Elements(opened) /\ Elements(opened) \cap set = set
  <2>1. set \subseteq Listed
    BY DEF Matching, Of_
  <2> QED BY <2>1, ListedFacts
<1> HIDE DEF list, set
<1>4. Len(list) = Cardinality(set) /\ (set # {} => LastIn(opened, set, list[1]) /\ Len(list) > 0)
  BY <1>1, <1>2, <1>3 DEF Picks
<1>5. Len(list) \in Nat
  BY <1>2, LenProperties
<1> QED BY <1>2, <1>3, <1>4, <1>5 DEF list, set

\* A first page.
LEMMA FirstPage ==
  ASSUME RowsInv, OpenedInv, NEW where, NEW filter
  PROVE  LET list == RunList(where, filter, 200, 0)
             set == Matching(where, filter)
         IN  /\ Len(list) = Min({200, Cardinality(set)})
             /\ set # {} => LastIn(opened, set, list[1])
<1> DEFINE all == Picked(where, filter)
           set == Matching(where, filter)
           n == Len(all)
           m == IF n <= 200 THEN n ELSE 200
<1>1. /\ all \in Seq(Runs) /\ n = Cardinality(set) /\ n \in Nat
      /\ set # {} => LastIn(opened, set, all[1]) /\ n > 0
  BY PickedIs
<1>2. From(0) = 0 /\ UpTo(n, 200, 200, 0) = m
  <2>1. n \in Int /\ 200 \in Int /\ 0 \in Int
    BY <1>1
  <2> HIDE DEF n
  <2> QED BY <2>1, UpToIs
<1>3. RunList(where, filter, 200, 0) = SubSeq(all, 1, m)
  BY <1>2, RunListIs
<1>4. Min({200, n}) = m
  <2>1. n \in Int /\ 200 \in Int
    BY <1>1
  <2> HIDE DEF n
  <2>2. Min({200, n}) = IF 200 <= n THEN 200 ELSE n
    BY <2>1, MinTwo
  <2> QED BY <2>1, <2>2
<1>5. m \in Nat /\ m <= n /\ (n > 0 => m > 0)
  BY <1>1
<1> HIDE DEF all, set, m
<1>6. Len(SubSeq(all, 1, m)) = m /\ (m > 0 => SubSeq(all, 1, m)[1] = all[1])
  BY <1>1, <1>5, SubSeqProperties
<1> QED BY <1>1, <1>3, <1>4, <1>5, <1>6 DEF set

\* Page after page, a list that does not change.
LEMMA PageByPage ==
  ASSUME RowsInv, OpenedInv, NEW where, NEW filter
  PROVE  RunList(where, filter, 2, 0) = RunList(where, filter, 0, -1) \o RunList(where, filter, 1, 1)
<1> DEFINE all == Picked(where, filter)
           n == Len(all)
           one == IF n <= 1 THEN n ELSE 1
           two == IF n <= 2 THEN n ELSE 2
<1>1. all \in Seq(Runs) /\ n \in Nat
  BY PickedIs
<1>2. /\ From(0) = 0 /\ From(-1) = 0 /\ From(1) = 1
      /\ UpTo(n, 2, 200, 0) = two /\ UpTo(n, 0, 200, -1) = one /\ UpTo(n, 1, 200, 1) = two
  <2>1. n \in Int /\ 200 \in Int /\ 0 \in Int /\ 1 \in Int /\ 2 \in Int /\ -1 \in Int
    BY <1>1
  <2> HIDE DEF n
  <2>2. From(0) = 0 /\ UpTo(n, 2, 200, 0) = two
    BY <2>1, UpToIs
  <2>3. From(-1) = 0 /\ UpTo(n, 0, 200, -1) = one
    BY <2>1, UpToIs
  <2>4. From(1) = 1 /\ UpTo(n, 1, 200, 1) = two
    BY <2>1, UpToIs
  <2> QED BY <2>2, <2>3, <2>4
<1>3. /\ RunList(where, filter, 2, 0) = SubSeq(all, 1, two)
      /\ RunList(where, filter, 0, -1) = SubSeq(all, 1, one)
      /\ RunList(where, filter, 1, 1) = SubSeq(all, 2, two)
  <2>1. \A limit, offset :
          RunList(where, filter, limit, offset)
            = SubSeq(all, From(offset) + 1, UpTo(n, limit, 200, offset))
    BY RunListIs
  <2>2. 0 + 1 = 1 /\ 1 + 1 = 2
    OBVIOUS
  <2> HIDE DEF all, n, one, two
  <2>3. RunList(where, filter, 2, 0) = SubSeq(all, 1, two)
    BY <1>2, <2>1, <2>2
  <2>4. RunList(where, filter, 0, -1) = SubSeq(all, 1, one)
    BY <1>2, <2>1, <2>2
  <2>5. RunList(where, filter, 1, 1) = SubSeq(all, 2, two)
    BY <1>2, <2>1, <2>2
  <2> QED BY <2>3, <2>4, <2>5
<1> HIDE DEF all
<1>4. CASE n = 0
  <2>1. SubSeq(all, 1, 0) = <<>> /\ SubSeq(all, 2, 0) = <<>>
    BY <1>1, SubSeqEmpty
  <2> QED BY <1>3, <1>4, <2>1, ConcatEmptySeq, EmptySeq
<1>5. CASE n > 0
  <2>1. one = 1 /\ 1 \in 1..n + 1 /\ one \in 1 - 1..n /\ two \in one..n /\ one + 1 = 2
    <3> HIDE DEF n
    <3>1. n \in Int /\ n >= 1
      BY <1>1, <1>5
    <3> QED BY <3>1
  <2>2. SubSeq(all, 1, one) \o SubSeq(all, one + 1, two) = SubSeq(all, 1, two)
    <3> HIDE DEF one, two
    <3> QED BY <1>1, <2>1, ConcatAdjacentSubSeq
  <2> QED BY <1>3, <2>1, <2>2
<1> QED BY <1>1, <1>4, <1>5

InProject(where, p) == {x \in Listed : where[x].project = p}
\* All merge requests, also those the limit leaves out.
AllRequests(where) == [m \in Spots(where) |-> Group(RunsAt(where, m), where)]
AllMrs(where) == {where[x].mr : x \in Listed}

LEMMA ProjectsGrouped ==
  ASSUME NEW where
  PROVE  LET rows == Projects(where)
             in == [p \in DOMAIN rows |-> InProject(where, p)]
         IN  /\ Grouped(Listed, [x \in Listed |-> where[x].project], DOMAIN rows, in)
             /\ \A p \in DOMAIN rows : rows[p] = Group(in[p], where)
<1> DEFINE rows == Projects(where)
           in == [p \in DOMAIN rows |-> InProject(where, p)]
           h == [x \in Listed |-> where[x].project]
<1>1. DOMAIN rows = {where[x].project : x \in Listed}
  BY DEF Projects
<1>2. {h[x] : x \in Listed} = {where[x].project : x \in Listed}
  OBVIOUS
<1>3. \A p \in DOMAIN rows : in[p] = {x \in Listed : h[x] = p}
  BY DEF InProject
<1>4. \A p \in DOMAIN rows : rows[p] = Group(in[p], where)
  BY DEF Projects, InProject
<1> HIDE DEF rows, in, h
<1>5. Grouped(Listed, h, DOMAIN rows, in)
  BY <1>1, <1>2, <1>3 DEF Grouped
<1> QED BY <1>4, <1>5 DEF rows, in, h

LEMMA RequestsGrouped ==
  ASSUME NEW where
  PROVE  LET rows == AllRequests(where)
             in == [m \in DOMAIN rows |-> RunsAt(where, m)]
         IN  /\ Grouped(Listed, [x \in Listed |-> where[x]], DOMAIN rows, in)
             /\ \A m \in DOMAIN rows : rows[m] = Group(in[m], where)
<1> DEFINE rows == AllRequests(where)
           in == [m \in DOMAIN rows |-> RunsAt(where, m)]
           h == [x \in Listed |-> where[x]]
<1>1. DOMAIN rows = {where[x] : x \in Listed}
  BY DEF AllRequests, Spots
<1>2. {h[x] : x \in Listed} = {where[x] : x \in Listed}
  OBVIOUS
<1>3. \A m \in DOMAIN rows : in[m] = {x \in Listed : h[x] = m}
  BY DEF RunsAt
<1>4. \A m \in DOMAIN rows : rows[m] = Group(in[m], where)
  BY DEF AllRequests
<1> HIDE DEF rows, in, h
<1>5. Grouped(Listed, h, DOMAIN rows, in)
  BY <1>1, <1>2, <1>3 DEF Grouped
<1> QED BY <1>4, <1>5 DEF rows, in, h

\* Every run is shown in one of three ways.
LEMMA ShownAddUp ==
  ASSUME RowsInv, OpenedInv, NEW where
  PROVE  Summary(where).runs
           = Summary(where).running + Summary(where).completed + Summary(where).failed
<1> DEFINE A == {x \in Listed : Shown(x) = "running"}
           B == {x \in Listed : Shown(x) = "completed"}
           C == {x \in Listed : Shown(x) = "failed"}
<1>1. IsFiniteSet(Listed)
  BY ListedFacts
<1>2. /\ Listed = (A \cup B) \cup C /\ A \cap B = {} /\ (A \cup B) \cap C = {}
      /\ A \subseteq Listed /\ B \subseteq Listed /\ C \subseteq Listed /\ A \cup B \subseteq Listed
  BY ShownFacts
<1>3. /\ Summary(where).runs = Cardinality(Listed) /\ Summary(where).running = Cardinality(A)
      /\ Summary(where).completed = Cardinality(B) /\ Summary(where).failed = Cardinality(C)
  BY DEF Summary
<1> HIDE DEF A, B, C
<1>4. IsFiniteSet(A) /\ IsFiniteSet(B) /\ IsFiniteSet(C) /\ IsFiniteSet(A \cup B)
  BY <1>1, <1>2, FS_Subset
<1>5. /\ Cardinality(A) \in Nat /\ Cardinality(B) \in Nat /\ Cardinality(C) \in Nat
      /\ Cardinality(A \cup B) \in Nat
  BY <1>4, FS_CardinalityType
<1>6. Cardinality(A \cup B) = Cardinality(A) + Cardinality(B) - Cardinality(A \cap B)
  BY <1>4, FS_Union
<1>7. Cardinality((A \cup B) \cup C) = Cardinality(A \cup B) + Cardinality(C) - Cardinality((A \cup B) \cap C)
  BY <1>4, FS_Union
<1>8. Cardinality({}) = 0
  BY FS_EmptySet
<1>9. /\ Cardinality(A \cup B) = Cardinality(A) + Cardinality(B)
      /\ Cardinality(Listed) = Cardinality(A \cup B) + Cardinality(C)
  <2>1. Cardinality(A \cap B) = 0 /\ Cardinality((A \cup B) \cap C) = 0
    BY <1>2, <1>8
  <2>2. Cardinality(Listed) = Cardinality((A \cup B) \cup C)
    BY <1>2
  <2>3. \A a, b, c, d, e \in Nat : e = 0 => (c = a + b - e => c = a + b)
    OBVIOUS
  <2> QED BY <1>5, <1>6, <1>7, <2>1, <2>2
<1> QED BY <1>3, <1>9

\* The merge requests of the projects are all there are.
LEMMA SpotsAddUp ==
  ASSUME RowsInv, OpenedInv, NEW where \in Placements
  PROVE  FieldFold(Projects(where), "mergeRequests", DOMAIN Projects(where)) = Summary(where).mergeRequests
<1> DEFINE W == {where[x] : x \in Listed}
           D == DOMAIN Projects(where)
           h == [m \in W |-> m.project]
           in == [p \in D |-> {m \in W : m.project = p}]
           t == [p \in D |-> Projects(where)[p]["mergeRequests"]]
           of(p) == {where[x].mr : x \in InProject(where, p)}
<1>1. IsFiniteSet(Listed) /\ Listed \subseteq Runs
  BY ListedFacts
<1>2. IsFiniteSet(W)
  <2> DEFINE e == [x \in Listed |-> where[x]]
  <2>1. e \in Surjection(Listed, W)
    BY DEF Surjection
  <2> HIDE DEF e, W
  <2> QED BY <1>1, <2>1, FS_Surjection
<1>3. Grouped(W, h, D, in)
  <2>1. D = {where[x].project : x \in Listed}
    BY DEF Projects
  <2>2. {h[m] : m \in W} = {where[x].project : x \in Listed}
    OBVIOUS
  <2>3. \A p \in D : in[p] = {m \in W : h[m] = p}
    OBVIOUS
  <2> HIDE DEF W, h, in, D
  <2> QED BY <2>1, <2>2, <2>3 DEF Grouped
<1>4. \A m \in W : m = [project |-> m.project, mr |-> m.mr]
  BY <1>1, DashboardAssumption
<1>5. ASSUME NEW p \in D PROVE Cardinality(of(p)) = Cardinality(in[p] \cap W)
  <2> DEFINE E == {m \in W : m.project = p}
             f == [m \in E |-> m.mr]
  <2>1. f \in Bijection(E, of(p))
    <3>1. \A m \in E : m.mr \in of(p)
      BY DEF InProject
    <3>2. \A r \in of(p) : \E m \in E : m.mr = r
      BY DEF InProject
    <3>3. \A m, n \in E : m.mr = n.mr => m = n
      BY <1>4
    <3> HIDE DEF E, of
    <3>4. f \in [E -> of(p)] /\ \A m \in E : f[m] = m.mr
      BY <3>1
    <3> HIDE DEF f
    <3>5. f \in Injection(E, of(p))
      BY <3>3, <3>4 DEF Injection, IsInjective
    <3>6. f \in Surjection(E, of(p))
      BY <3>2, <3>4 DEF Surjection
    <3> QED BY <3>5, <3>6 DEF Bijection
  <2>2. E \subseteq W /\ in[p] \cap W = E
    OBVIOUS
  <2> HIDE DEF f, E, of, in, W
  <2>3. IsFiniteSet(E)
    BY <1>2, <2>2, FS_Subset
  <2>4. Cardinality(E) = Cardinality(of(p))
    <3> DEFINE R == of(p)
    <3>1. f \in Surjection(E, R) /\ f \in Injection(E, R)
      BY <2>1 DEF Bijection
    <3> HIDE DEF R
    <3>2. Cardinality(R) = Cardinality(E)
      BY <2>3, <3>1, FS_Surjection
    <3> QED BY <3>2 DEF R
  <2> QED BY <2>2, <2>4
<1>6. \A p \in D : t[p] = Cardinality(of(p))
  BY DEF Projects, Group, InProject
<1>7. FieldFold(Projects(where), "mergeRequests", D) = SumFunctionOnSet(t, D)
  <2> HIDE DEF D
  <2> QED BY FieldSum DEF t
<1>8. Summary(where).mergeRequests = Cardinality(W)
  BY DEF Summary
<1> HIDE DEF W, D, h, in, t, of
<1>9. \A p \in D : t[p] = Cardinality(in[p] \cap W)
  BY <1>5, <1>6
<1>10. SumFunctionOnSet(t, D) = Cardinality(W)
  <2>1. W \in SUBSET W
    OBVIOUS
  <2> QED BY ONLY <1>2, <1>3, <1>9, <2>1, CountGroups
<1> QED BY <1>7, <1>8, <1>10 DEF D

\* The lists asked for one project and one status, and for one merge request.
ProjectListed(where, p, status) ==
  Len(RunList(where, Asked({status}, {p}, AllMrs(where)), 200, 0))
    = Min({200, Projects(where)[p][status]})

LEMMA ProjectList ==
  ASSUME RowsInv, OpenedInv, NEW where, NEW p \in DOMAIN Projects(where),
         NEW status \in {"running", "failed"}
  PROVE  ProjectListed(where, p, status)
<1> USE DEF ProjectListed
<1> DEFINE filter == Asked({status}, {p}, AllMrs(where))
           xs == InProject(where, p)
<1>1. Matching(where, filter) = {x \in xs : Shown(x) = status}
  <2>1. filter.statuses = {status} /\ filter.projects = {p} /\ filter.mrs = AllMrs(where)
    BY DEF Asked
  <2> QED BY <2>1 DEF Matching, Of_, InProject, AllMrs
<1>2. Projects(where)[p] = Group(xs, where)
  BY DEF Projects, InProject
<1>0. Len(RunList(where, filter, 200, 0)) = Min({200, Cardinality(Matching(where, filter))})
  BY FirstPage
<1> HIDE DEF xs
<1>3. CASE status = "running"
  <2>1. {x \in xs : Shown(x) = status} = {x \in xs : request[x].status = "running"}
    BY <1>3, ShownFacts
  <2>2. Group(xs, where)["running"] = Cardinality({x \in xs : request[x].status = "running"})
    BY DEF Group
  <2> QED BY <1>0, <1>1, <1>2, <1>3, <2>1, <2>2
<1>4. CASE status = "failed"
  <2>1. {x \in xs : Shown(x) = status}
          = {x \in xs : /\ request[x].status # "running"
                        /\ ~(request[x].status = "completed" /\ ~AnotherThanCompleted(x))}
    BY <1>4, ShownFacts
  <2>2. Group(xs, where)["failed"]
          = Cardinality({x \in xs : /\ request[x].status # "running"
                                    /\ ~(request[x].status = "completed" /\ ~AnotherThanCompleted(x))})
    BY DEF Group, FailedIn
  <2> QED BY <1>0, <1>1, <1>2, <1>4, <2>1, <2>2
<1> QED BY <1>3, <1>4

LEMMA LatestIs ==
  ASSUME RowsInv, OpenedInv, NEW xs, NEW x, LastIn(opened, xs, x)
  PROVE  /\ Latest(xs) \in 1..Len(opened) /\ opened[Latest(xs)] = x /\ x \in xs
         /\ \A i \in 1..Len(opened) : opened[i] \in xs => i <= Latest(xs)
<1> DEFINE I == {i \in 1..Len(opened) : opened[i] \in xs}
<1>0. Len(opened) \in Nat
  BY LenProperties DEF RowsInv
<1>1. PICK j \in 1..Len(opened) : opened[j] = x /\ x \in xs /\ \A i \in 1..Len(opened) : opened[i] \in xs => i <= j
  BY DEF LastIn
<1>2. j \in I /\ \A i \in I : j >= i
  BY <1>0, <1>1
<1>3. \A k \in I : (\A i \in I : k >= i) => k = j
  BY <1>0, <1>2
<1> HIDE DEF I
<1>4. Max(I) = j
  BY <1>2, <1>3 DEF Max
<1> QED BY <1>1, <1>4 DEF I, Latest

LEMMA RequestList ==
  ASSUME RowsInv, OpenedInv, NEW where \in Placements, NEW most,
         NEW m \in DOMAIN MergeRequests(where, most)
  PROVE  LET list == RunList(where, Asked(Statuses, {m.project}, {m.mr}), 200, 0)
         IN  /\ Len(list) = Min({200, MergeRequests(where, most)[m].runs})
             /\ Shown(list[1]) = MergeRequests(where, most)[m].lastStatus
<1> DEFINE filter == Asked(Statuses, {m.project}, {m.mr})
           xs == RunsAt(where, m)
           list == RunList(where, filter, 200, 0)
<1>1. /\ MergeRequests(where, most)[m] = Group(xs, where) /\ xs # {}
      /\ m \in {where[x] : x \in Listed}
  BY DEF MergeRequests, RunsAt, Spots
<1>2. Matching(where, filter) = xs
  <2>1. \A x \in Listed : where[x] = [project |-> where[x].project, mr |-> where[x].mr]
    BY ListedFacts, DashboardAssumption
  <2>2. \A x \in Listed : where[x].project = m.project /\ where[x].mr = m.mr <=> where[x] = m
    BY <1>1, <2>1
  <2>3. filter.statuses = Statuses /\ filter.projects = {m.project} /\ filter.mrs = {m.mr}
    BY DEF Asked
  <2>4. \A x : Shown(x) \in Statuses
    BY ShownFacts DEF Statuses, Ended
  <2> HIDE DEF filter
  <2> QED BY <2>2, <2>3, <2>4 DEF Matching, Of_, RunsAt
<1> HIDE DEF filter, xs, list
<1>3. Len(list) = Min({200, Cardinality(xs)}) /\ LastIn(opened, xs, list[1])
  BY <1>1, <1>2, FirstPage DEF list
<1>4. /\ Group(xs, where).runs = Cardinality(xs)
      /\ Group(xs, where).lastStatus = Shown(opened[Latest(xs)])
  BY DEF Group
<1>5. Shown(list[1]) = MergeRequests(where, most)[m].lastStatus
  BY <1>1, <1>3, <1>4, LatestIs
<1> QED BY <1>1, <1>3, <1>4, <1>5 DEF list, filter

\* The findings of the projects.
RowsOf(where, mrs, p) == RowList(findings, where, Asked({}, {p}, mrs), 500, 0)
RowsFold(where, mrs, S) ==
  (CHOOSE it : it = [s \in SUBSET S |-> IF s = {} THEN 0
     ELSE RowList(findings, where, Asked({}, {CHOOSE p \in s : TRUE}, mrs), 500, 0)
            + it[s \ {CHOOSE p \in s : TRUE}]])[S]

LEMMA RowsFoldIsSum ==
  ASSUME NEW where, NEW mrs, NEW S
  PROVE  RowsFold(where, mrs, S) = SumFunctionOnSet([p \in S |-> RowsOf(where, mrs, p)], S)
<1> DEFINE f == [p \in S |-> RowsOf(where, mrs, p)]
           A(s) == RowList(findings, where, Asked({}, {CHOOSE p \in s : TRUE}, mrs), 500, 0)
           B(s) == f[CHOOSE x \in s : TRUE]
           F(it) == it = [s \in SUBSET S |-> IF s = {} THEN 0
                                             ELSE A(s) + it[s \ {CHOOSE p \in s : TRUE}]]
           G(it) == it = [s \in SUBSET S |-> IF s = {} THEN 0
                                             ELSE B(s) + it[s \ {CHOOSE p \in s : TRUE}]]
<1>1. RowsFold(where, mrs, S) = (CHOOSE it : F(it))[S]
  BY DEF RowsFold
<1>2. SumFunctionOnSet(f, S) = (CHOOSE it : G(it))[S]
  BY DEF SumFunctionOnSet, FoldFunctionOnSet, MapThenFoldSet
<1>3. \A s \in SUBSET S : s # {} => A(s) = B(s)
  BY DEF RowsOf
<1>4. \A it : F(it) <=> G(it)
  <2> HIDE DEF A, B, f
  <2> QED BY <1>3
<1> HIDE DEF F, G, f
<1>5. (CHOOSE it : F(it)) = (CHOOSE it : G(it))
  BY <1>4
<1> QED BY <1>1, <1>2, <1>5 DEF f

LEMMA RowsOfIs ==
  ASSUME RowsInv, OpenedInv, NEW where, NEW p
  PROVE  LET n == SumFunctionOnSet(findings, InProject(where, p))
         IN  n \in Nat /\ RowsOf(where, AllMrs(where), p) = IF n <= 500 THEN n ELSE 500
<1> DEFINE filter == Asked({}, {p}, AllMrs(where))
           xs == InProject(where, p)
           n == SumFunctionOnSet(findings, xs)
           m == IF n <= 500 THEN n ELSE 500
<1>1. IsFiniteSet(xs) /\ \A x \in xs : findings[x] \in Nat
  <2>1. xs \subseteq Listed
    BY DEF InProject
  <2> HIDE DEF xs
  <2> QED BY <2>1, ListedFacts, FS_Subset
<1>2. Of_(where, filter) = xs
  BY DEF Of_, Asked, InProject, AllMrs
<1> HIDE DEF filter, xs
<1>3. n \in Nat
  BY <1>1, SumNat
<1>4. SumFunctionOnSet(findings, Of_(where, filter)) = n
  BY <1>2
<1> HIDE DEF n
<1>5. From(0) = 0 /\ UpTo(n, 500, 500, 0) = m
  <2>1. n \in Int /\ 500 \in Int /\ 0 \in Int
    BY <1>3
  <2> QED BY <2>1, UpToIs
<1>6. m \in Nat
  BY <1>3
<1> HIDE DEF m
<1>7. Max({0, m - 0}) = m
  <2>1. m - 0 = m /\ m \in Int /\ 0 \in Int
    BY <1>6
  <2>2. Max({0, m}) = IF 0 >= m THEN 0 ELSE m
    BY <2>1, MaxTwo
  <2>3. Max({0, m}) = m
    BY <1>6, <2>2
  <2> QED BY <2>1, <2>3
<1>8. RowList(findings, where, filter, 500, 0) = m
  <2>1. RowList(findings, where, filter, 500, 0)
          = Max({0, UpTo(SumFunctionOnSet(findings, Of_(where, filter)), 500, 500, 0) - From(0)})
    BY DEF RowList, MapThenSumSet, MapThenFoldSet, SumFunctionOnSet, FoldFunctionOnSet
  <2> QED BY <1>4, <1>5, <1>7, <2>1
<1> QED BY <1>3, <1>8 DEF n, m, filter, xs, RowsOf

LEMMA FindingsAddUp ==
  ASSUME RowsInv, OpenedInv, NEW where,
         \A p \in DOMAIN Projects(where) : RowsOf(where, AllMrs(where), p) < 500
  PROVE  FindingTotal = RowsFold(where, AllMrs(where), DOMAIN Projects(where))
<1> DEFINE D == DOMAIN Projects(where)
           in == [p \in D |-> InProject(where, p)]
           h == [x \in Listed |-> where[x].project]
           t == [p \in D |-> RowsOf(where, AllMrs(where), p)]
<1>1. /\ IsFiniteSet(Listed) /\ Listed \subseteq Runs
      /\ \A x \in Runs \ Listed : findings[x] = 0
      /\ \A x \in Runs : findings[x] \in Nat
  BY ListedFacts
<1>2. Grouped(Listed, h, D, in)
  BY ProjectsGrouped
<1>3. \A p \in D : t[p] = SumFunctionOnSet(findings, in[p])
  <2> SUFFICES ASSUME NEW p \in D
               PROVE  RowsOf(where, AllMrs(where), p) = SumFunctionOnSet(findings, InProject(where, p))
    OBVIOUS
  <2> DEFINE n == SumFunctionOnSet(findings, InProject(where, p))
  <2>1. n \in Nat /\ RowsOf(where, AllMrs(where), p) = IF n <= 500 THEN n ELSE 500
    BY RowsOfIs
  <2>2. RowsOf(where, AllMrs(where), p) < 500
    OBVIOUS
  <2> HIDE DEF n
  <2>3. RowsOf(where, AllMrs(where), p) = n
    BY <2>1, <2>2
  <2> QED BY <2>3 DEF n
<1>4. RowsFold(where, AllMrs(where), D) = SumFunctionOnSet(t, D)
  <2> HIDE DEF D
  <2> QED BY RowsFoldIsSum
<1> HIDE DEF D, in, h, t
<1>5. SumFunctionOnSet(t, D) = SumFunctionOnSet(findings, Listed)
  <2>1. \A x \in Listed : findings[x] \in Int
    BY <1>1
  <2> QED BY ONLY <1>1, <1>2, <1>3, <2>1, SumGroups
<1>6. SumFunctionOnSet(findings, Runs) = SumFunctionOnSet(findings, Listed)
  <2>1. IsFiniteSet(Runs) /\ Listed \in SUBSET Runs /\ \A x \in Runs : findings[x] \in Int
    BY <1>1, DashboardAssumption
  <2> QED BY <1>1, <2>1, SumRestrict
<1>7. FindingTotal = SumFunctionOnSet(findings, Runs)
  BY DEF FindingTotal, MapThenSumSet, MapThenFoldSet, SumFunctionOnSet, FoldFunctionOnSet
<1> QED BY <1>4, <1>5, <1>6, <1>7 DEF D

LEMMA ProjectsAddUp ==
  ASSUME RowsInv, OpenedInv, NEW where, NEW field \in Fields
  PROVE  FieldFold(Projects(where), field, DOMAIN Projects(where)) = Summary(where)[field]
<1> DEFINE rows == Projects(where)
           in == [p \in DOMAIN rows |-> InProject(where, p)]
           h == [x \in Listed |-> where[x].project]
<1>1. Grouped(Listed, h, DOMAIN rows, in) /\ \A p \in DOMAIN rows : rows[p] = Group(in[p], where)
  BY ProjectsGrouped
<1> HIDE DEF rows, in, h
<1>2. FieldFold(rows, field, DOMAIN rows) = Summary(where)[field]
  BY <1>1, GroupsAddUp
<1> QED BY <1>2 DEF rows

LEMMA RequestsAddUp ==
  ASSUME RowsInv, OpenedInv, NEW where, NEW field \in Fields
  PROVE  FieldFold(AllRequests(where), field, DOMAIN AllRequests(where)) = Summary(where)[field]
<1> DEFINE rows == AllRequests(where)
           in == [m \in DOMAIN rows |-> RunsAt(where, m)]
           h == [x \in Listed |-> where[x]]
<1>1. Grouped(Listed, h, DOMAIN rows, in) /\ \A m \in DOMAIN rows : rows[m] = Group(in[m], where)
  BY RequestsGrouped
<1> HIDE DEF rows, in, h
<1>2. FieldFold(rows, field, DOMAIN rows) = Summary(where)[field]
  BY <1>1, GroupsAddUp
<1> QED BY <1>2 DEF rows

\* The first ones of a finite set in an order: those that fewer than most come
\* before.
LEMMA FirstOnes ==
  ASSUME NEW W, IsFiniteSet(W), NEW last \in [W -> Nat], NEW most \in Nat,
         \A k, m \in W : last[k] = last[m] => k = m
  PROVE  LET rank == [m \in W |-> Cardinality({k \in W : last[k] > last[m]})]
             first == {m \in W : rank[m] < most}
             n == Cardinality(W)
         IN  /\ n \in Nat /\ Cardinality(first) = IF most <= n THEN most ELSE n
             /\ n <= most => first = W
             /\ \A m \in first, k \in W \ first : last[k] < last[m]
<1> DEFINE newer(m) == {k \in W : last[k] > last[m]}
           rank == [m \in W |-> Cardinality(newer(m))]
           first == {m \in W : rank[m] < most}
           n == Cardinality(W)
           b == IF most <= n THEN most ELSE n
<1>0. n \in Nat
  BY FS_CardinalityType
<1>1. \A m \in W : IsFiniteSet(newer(m)) /\ rank[m] \in Nat /\ rank[m] < n
  <2> SUFFICES ASSUME NEW m \in W
               PROVE  IsFiniteSet(newer(m)) /\ Cardinality(newer(m)) \in Nat /\ Cardinality(newer(m)) < n
    OBVIOUS
  <2>1. newer(m) \in SUBSET W /\ newer(m) # W
    OBVIOUS
  <2> HIDE DEF newer
  <2>2. IsFiniteSet(newer(m)) /\ Cardinality(newer(m)) <= n /\ Cardinality(newer(m)) # n
    BY <2>1, FS_Subset
  <2>3. Cardinality(newer(m)) \in Nat
    BY <2>2, FS_CardinalityType
  <2> QED BY <1>0, <2>2, <2>3
<1>2. ASSUME NEW k \in W, NEW m \in W, last[k] > last[m]
      PROVE  rank[k] < rank[m]
  <2>1. newer(k) \in SUBSET newer(m) /\ newer(k) # newer(m)
    <3>1. k \in newer(m) /\ k \notin newer(k)
      BY <1>2
    <3>2. \A l \in newer(k) : l \in newer(m)
      BY <1>2
    <3> QED BY <3>1, <3>2
  <2>2. IsFiniteSet(newer(m)) /\ rank[k] = Cardinality(newer(k)) /\ rank[m] = Cardinality(newer(m))
    BY <1>1
  <2>3. rank[k] \in Nat /\ rank[m] \in Nat
    BY <1>1
  <2> HIDE DEF newer, rank
  <2>4. rank[k] <= rank[m] /\ rank[k] # rank[m]
    BY <2>1, <2>2, FS_Subset
  <2> QED BY <2>3, <2>4
<1>3. \A k, m \in W : rank[k] = rank[m] => k = m
  <2> SUFFICES ASSUME NEW k \in W, NEW m \in W, rank[k] = rank[m], k # m
               PROVE  FALSE
    OBVIOUS
  <2>1. last[k] > last[m] \/ last[m] > last[k]
    <3>1. last[k] \in Nat /\ last[m] \in Nat /\ last[k] # last[m]
      OBVIOUS
    <3> QED BY <3>1
  <2>2. rank[k] < rank[m] \/ rank[m] < rank[k]
    BY <1>2, <2>1
  <2>3. rank[k] \in Nat /\ rank[m] \in Nat
    BY <1>1
  <2> HIDE DEF rank
  <2> QED BY <2>2, <2>3
<1>4. \A i \in 0..n - 1 : \E m \in W : rank[m] = i
  <2>1. \A m \in W : rank[m] \in 0..n - 1
    <3> SUFFICES ASSUME NEW m \in W PROVE rank[m] \in 0..n - 1
      OBVIOUS
    <3>1. rank[m] \in Nat /\ rank[m] < n
      BY <1>1
    <3> HIDE DEF rank, n
    <3> QED BY <1>0, <3>1
  <2>2. rank \in [W -> 0..n - 1]
    BY <2>1
  <2> HIDE DEF rank
  <2>3. rank \in Injection(W, 0..n - 1)
    BY <1>3, <2>2 DEF Injection, IsInjective
  <2>4. IsFiniteSet(0..n - 1) /\ Cardinality(0..n - 1) = n
    <3>1. 0 \in Int /\ n - 1 \in Int /\ (0 > n - 1 <=> n = 0) /\ n - 1 - 0 + 1 = n
      BY <1>0
    <3> QED BY <3>1, FS_Interval
  <2>5. rank \in Surjection(W, 0..n - 1)
    BY <2>3, <2>4, FS_Injection
  <2> QED BY <2>5 DEF Surjection
<1>5. \A m \in W, k \in W : rank[m] < most /\ ~(rank[k] < most) => last[k] < last[m]
  <2> SUFFICES ASSUME NEW m \in W, NEW k \in W, rank[m] < most, ~(rank[k] < most)
               PROVE  last[k] < last[m]
    OBVIOUS
  <2>1. last[k] \in Nat /\ last[m] \in Nat /\ rank[k] \in Nat /\ rank[m] \in Nat
    BY <1>1
  <2>2. last[k] > last[m] => rank[k] < rank[m]
    BY <1>2
  <2>3. last[k] # last[m]
    <3>1. k # m
      OBVIOUS
    <3> QED BY <3>1
  <2> HIDE DEF rank
  <2> QED BY <2>1, <2>2, <2>3
<1>6. first \in SUBSET W /\ \A m \in W : m \in first <=> rank[m] < most
  OBVIOUS
<1>7. Cardinality(first) = b
  <2> DEFINE g == [m \in first |-> rank[m]]
  <2>1. \A m \in first : rank[m] \in 0..b - 1
    <3> SUFFICES ASSUME NEW m \in first PROVE rank[m] \in 0..b - 1
      OBVIOUS
    <3>1. rank[m] \in Nat /\ rank[m] < n /\ rank[m] < most
      BY <1>1, <1>6
    <3> HIDE DEF rank, first, n
    <3> QED BY <1>0, <3>1
  <2>2. \A i \in 0..b - 1 : \E m \in first : rank[m] = i
    <3> SUFFICES ASSUME NEW i \in 0..b - 1 PROVE \E m \in first : rank[m] = i
      OBVIOUS
    <3>1. i \in 0..n - 1 /\ i < most
      BY <1>0
    <3>2. PICK m \in W : rank[m] = i
      BY <1>4, <3>1
    <3> QED BY <1>6, <3>1, <3>2
  <2> HIDE DEF rank, first
  <2>3. g \in [first -> 0..b - 1]
    BY <2>1
  <2>4. g \in Injection(first, 0..b - 1)
    BY <1>3, <1>6, <2>3 DEF Injection, IsInjective
  <2>5. g \in Surjection(first, 0..b - 1)
    BY <2>2, <2>3 DEF Surjection
  <2> HIDE DEF g
  <2>6. IsFiniteSet(0..b - 1) /\ Cardinality(0..b - 1) = b
    <3>1. b \in Nat
      BY <1>0
    <3> HIDE DEF b
    <3>2. 0 \in Int /\ b - 1 \in Int /\ (0 > b - 1 <=> b = 0) /\ b - 1 - 0 + 1 = b
      BY <3>1
    <3> QED BY <3>2, FS_Interval
  <2> QED BY <2>4, <2>5, <2>6, FS_Injection
<1>8. n <= most => first = W
  <2> SUFFICES ASSUME n <= most PROVE \A m \in W : rank[m] < most
    BY <1>6
  <2> TAKE m \in W
  <2>1. rank[m] \in Nat /\ rank[m] < n
    BY <1>1
  <2> HIDE DEF rank, n
  <2> QED BY <1>0, <2>1
<1> QED BY <1>0, <1>5, <1>6, <1>7, <1>8

LEMMA SpotLatest ==
  ASSUME RowsInv, OpenedInv, NEW where, NEW m \in Spots(where)
  PROVE  LET last == Latest(RunsAt(where, m))
         IN  /\ last \in 1..Len(opened) /\ where[opened[last]] = m
             /\ \A i \in 1..Len(opened) : where[opened[i]] = m => i <= last
<1> DEFINE xs == RunsAt(where, m)
<1>1. xs # {} /\ Elements(opened) \cap xs = xs /\ Listed = Elements(opened)
  BY ListedFacts DEF Spots, RunsAt
<1>2. opened \in Seq(Runs)
  BY DEF RowsInv
<1>3. PICK x : LastIn(opened, xs, x)
  <2> HIDE DEF xs
  <2> QED BY <1>1, <1>2, PickedFacts DEF Picks
<1>4. /\ Latest(xs) \in 1..Len(opened) /\ opened[Latest(xs)] = x /\ x \in xs
      /\ \A i \in 1..Len(opened) : opened[i] \in xs => i <= Latest(xs)
  <2> HIDE DEF xs
  <2> QED BY <1>3, LatestIs
<1>5. \A i \in 1..Len(opened) : where[opened[i]] = m => opened[i] \in xs
  BY <1>1 DEF RunsAt, Elements
<1> QED BY <1>4, <1>5 DEF RunsAt

\* What the limit leaves of the list of merge requests.
LEMMA RequestsCut ==
  ASSUME RowsInv, OpenedInv, NEW where, NEW most \in Nat
  PROVE  LET requests == MergeRequests(where, most)
             n == Summary(where).mergeRequests
         IN  /\ Cardinality(DOMAIN requests) = Min({most, n})
             /\ n <= most => requests = AllRequests(where)
             /\ \A i \in 1..Len(opened), m \in DOMAIN requests :
                  where[opened[i]] \notin DOMAIN requests => i < Latest(RunsAt(where, m))
<1> DEFINE W == Spots(where)
           last == [m \in W |-> Latest(RunsAt(where, m))]
           rank == [m \in W |-> Cardinality({k \in W : last[k] > last[m]})]
           first == {m \in W : rank[m] < most}
           n == Cardinality(W)
<1>1. IsFiniteSet(W)
  <2> DEFINE e == [x \in Listed |-> where[x]]
  <2>1. e \in Surjection(Listed, W)
    BY DEF Surjection, Spots
  <2>2. IsFiniteSet(Listed)
    BY ListedFacts
  <2> HIDE DEF e, W
  <2> QED BY <2>1, <2>2, FS_Surjection
<1>2. Len(opened) \in Nat
  BY LenProperties DEF RowsInv
<1>3. \A m \in W : /\ last[m] \in 1..Len(opened) /\ where[opened[last[m]]] = m
                   /\ \A i \in 1..Len(opened) : where[opened[i]] = m => i <= last[m]
  BY SpotLatest
<1>4. \A i \in 1..Len(opened) : where[opened[i]] \in W
  BY DEF Spots, Listed
<1>5. n = Summary(where).mergeRequests
  BY DEF Spots, Summary
<1>6. DOMAIN MergeRequests(where, most) = first
  BY DEF MergeRequests, Newer
<1>7. /\ last \in [W -> Nat]
      /\ \A k, m \in W : last[k] = last[m] => k = m
  <2> HIDE DEF W
  <2>1. \A m \in W : last[m] \in Nat
    BY <1>2, <1>3
  <2> QED BY <1>3, <2>1
<1>8. /\ n \in Nat /\ Cardinality(first) = IF most <= n THEN most ELSE n
      /\ n <= most => first = W
      /\ \A m \in first, k \in W \ first : last[k] < last[m]
  <2> HIDE DEF W, last
  <2> QED BY <1>1, <1>7, FirstOnes
<1>9. Cardinality(first) = Min({most, n})
  <2>1. most \in Int /\ n \in Int
    BY <1>8
  <2> HIDE DEF n, first
  <2> QED BY <1>8, <2>1, MinTwo
<1>10. n <= most => MergeRequests(where, most) = AllRequests(where)
  <2>1. n <= most => DOMAIN MergeRequests(where, most) = W
    BY <1>6, <1>8
  <2>2. MergeRequests(where, most)
          = [m \in DOMAIN MergeRequests(where, most) |-> Group(RunsAt(where, m), where)]
    BY DEF MergeRequests
  <2>3. AllRequests(where) = [m \in W |-> Group(RunsAt(where, m), where)]
    BY DEF AllRequests
  <2> HIDE DEF W, n
  <2> QED BY <2>1, <2>2, <2>3
<1>11. ASSUME NEW i \in 1..Len(opened), NEW m \in first, where[opened[i]] \notin first
       PROVE  i < last[m]
  <2> DEFINE k == where[opened[i]]
  <2>1. k \in W \ first /\ i <= last[k]
    BY <1>3, <1>4, <1>11
  <2>2. last[k] < last[m]
    BY <1>8, <2>1
  <2>3. last[k] \in Nat /\ last[m] \in Nat
    BY <1>2, <1>3, <2>1, m \in W
  <2> HIDE DEF last, k
  <2> QED BY <1>2, <2>1, <2>2, <2>3
<1>12. \A m \in first : last[m] = Latest(RunsAt(where, m))
  OBVIOUS
<1> HIDE DEF W, last, rank, first, n
<1> QED BY <1>5, <1>6, <1>9, <1>10, <1>11, <1>12

LEMMA CountsFollow == RowsInv /\ OpenedInv => CountsAgree
<1> USE DEF CountsAgree
<1> HAVE RowsInv /\ OpenedInv
<1> TAKE where \in Placements, most \in RequestLimits
<1> DEFINE summary == Summary(where)
           projects == Projects(where)
           requests == MergeRequests(where, most)
           Ids == DOMAIN projects
           Mrs == {where[x].mr : x \in Listed}
           AddUp(rows) ==
             \A field \in {"runs", "running", "failed", "findings", "comments"} :
               MapThenSumSet(LAMBDA g : rows[g][field], DOMAIN rows) = summary[field]
           List(status, p, mrs) == RunList(where, Asked({status}, {p}, mrs), 200, 0)
           All(limit, offset) == RunList(where, Asked(Statuses, Ids, Mrs), limit, offset)
           Rows(p) == RowList(findings, where, Asked({}, {p}, Mrs), 500, 0)
<1>0. Mrs = AllMrs(where) /\ most \in Nat
  BY DashboardAssumption DEF AllMrs
<1>1. AddUp(projects)
  <2> SUFFICES ASSUME NEW field \in Fields
               PROVE  MapThenSumSet(LAMBDA g : projects[g][field], DOMAIN projects) = summary[field]
    BY DEF Fields
  <2>1. MapThenSumSet(LAMBDA g : projects[g][field], DOMAIN projects)
          = FieldFold(projects, field, DOMAIN projects)
    BY DEF MapThenSumSet, MapThenFoldSet, FieldFold
  <2>2. FieldFold(projects, field, DOMAIN projects) = summary[field]
    BY ProjectsAddUp
  <2> QED BY <2>1, <2>2
<1>2. summary.mergeRequests <= most => AddUp(requests)
  <2> SUFFICES ASSUME summary.mergeRequests <= most, NEW field \in Fields
               PROVE  MapThenSumSet(LAMBDA g : requests[g][field], DOMAIN requests) = summary[field]
    BY DEF Fields
  <2>1. MapThenSumSet(LAMBDA g : requests[g][field], DOMAIN requests)
          = FieldFold(requests, field, DOMAIN requests)
    BY DEF MapThenSumSet, MapThenFoldSet, FieldFold
  <2>2. requests = AllRequests(where)
    BY <1>0, RequestsCut
  <2>3. FieldFold(AllRequests(where), field, DOMAIN AllRequests(where)) = summary[field]
    BY RequestsAddUp
  <2> HIDE DEF requests, summary
  <2> QED BY <2>1, <2>2, <2>3
<1>3. summary.runs = summary.running + summary.completed + summary.failed
  BY ShownAddUp
<1>4. Cardinality(Ids) = summary.projects
  BY DEF Projects, Summary
<1>5. MapThenSumSet(LAMBDA p : projects[p].mergeRequests, Ids) = summary.mergeRequests
  <2>1. MapThenSumSet(LAMBDA p : projects[p].mergeRequests, Ids) = FieldFold(projects, "mergeRequests", Ids)
    BY DEF MapThenSumSet, MapThenFoldSet, FieldFold
  <2> QED BY <2>1, SpotsAddUp
<1>6. \A p \in Ids, status \in {"running", "failed"} :
        Len(List(status, p, Mrs)) = Min({200, projects[p][status]})
  <2> SUFFICES ASSUME NEW p \in Ids, NEW status \in {"running", "failed"}
               PROVE  Len(List(status, p, Mrs)) = Min({200, projects[p][status]})
    OBVIOUS
  <2>1. ProjectListed(where, p, status)
    BY ProjectList
  <2>2. Len(RunList(where, Asked({status}, {p}, AllMrs(where)), 200, 0)) = Min({200, projects[p][status]})
    BY <2>1 DEF ProjectListed
  <2> QED BY <1>0, <2>2
<1>7. \A m \in DOMAIN requests :
        LET list == RunList(where, Asked(Statuses, {m.project}, {m.mr}), 200, 0)
        IN  /\ Len(list) = Min({200, requests[m].runs})
            /\ Shown(list[1]) = requests[m].lastStatus
  BY RequestList
<1>8. All(2, 0) = All(0, -1) \o All(1, 1)
  BY PageByPage
<1>10. /\ Cardinality(DOMAIN requests) = Min({most, summary.mergeRequests})
       /\ \A i \in 1..Len(opened), m \in DOMAIN requests :
            where[opened[i]] \notin DOMAIN requests => i < Latest(RunsAt(where, m))
  BY <1>0, RequestsCut
<1>9. (\A p \in Ids : Rows(p) < 500) => FindingTotal = MapThenSumSet(Rows, Ids)
  <2>1. MapThenSumSet(Rows, Ids) = RowsFold(where, Mrs, Ids)
    BY DEF MapThenSumSet, MapThenFoldSet, RowsFold
  <2>2. \A p : Rows(p) = RowsOf(where, AllMrs(where), p)
    BY <1>0 DEF RowsOf
  <2> HIDE DEF Rows, Mrs
  <2> QED BY <1>0, <2>1, <2>2, FindingsAddUp
<1> HIDE DEF AddUp, List, All, Rows, Mrs, Ids, summary, projects, requests
<1> QED BY <1>1, <1>2, <1>3, <1>4, <1>5, <1>6, <1>7, <1>8, <1>9, <1>10
        DEF AddUp, List, All, Rows, Mrs, Ids, summary, projects, requests

(* All that is counted and listed of the runs agrees, for any runs, in any *)
(* state of their rows: of each run the summary, the project, the merge    *)
(* request and the lists tell the same, where the list of merge requests   *)
(* shows them all; where its limit is below their number, it shows those   *)
(* reviewed last (summary, projects, merge_requests, runs, findings_list,  *)
(* finding_summary).                                                       *)
THEOREM CountsAgreeAlways == Spec => []CountsAgree
<1> QED BY OpenedInvHolds, CountsFollow, PTL
=============================================================================
