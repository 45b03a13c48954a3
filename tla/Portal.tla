-------------------------------- MODULE Portal --------------------------------
(***************************************************************************)
(* A planned statement is started and run: Portal::start and run           *)
(* (src/src/portal.h), the executors they build, and the statements        *)
(* QlManager dispatches (src/src/execution/execution_manager.cpp).         *)
(*                                                                         *)
(* Of the executors only InsertExecutor produces something: the scans end  *)
(* at once, so DELETE and UPDATE change nothing, and no executor has       *)
(* columns (AbstractExecutor::cols returns a null reference), so that a    *)
(* projection, and with it every SELECT, ends the process.  QlManager      *)
(* holds no planner (rmdb.cpp gives it a null one): setting a knob does    *)
(* the same.                                                               *)
(***************************************************************************)
EXTENDS Planner, Bags

CONSTANTS OpenTables,   \* fhs_: the tables with an open record file
          OpenIndexes   \* ihs_: <<table, columns>> with an open index file

VARIABLES
  root,     \* PortalStmt: the portal tag and the root executor
  rows,     \* the records inserted, each with its table
  entries,  \* the index entries inserted: <<table, columns, key, row>>
  call      \* the operation QlManager calls on another component

portalVars == <<root, rows, entries, call>>
statementVars == <<parse, query, idx, knobs, scans, conds, scantbl, joined_tables,
                   join, plan>>

NoRoot == [tag |-> "none", tab_name |-> "", exec |-> "none"]
PortalStmt(tag, exec, tab_name) == [tag |-> tag, tab_name |-> tab_name, exec |-> exec]

PortalInit ==
  /\ PlannerInit
  /\ root = NoRoot
  /\ rows = <<>>
  /\ entries = {}
  /\ call = <<>>

Started(stmt) == root' = stmt /\ pc' = "started" /\ UNCHANGED error
-----------------------------------------------------------------------------
\* IndexScanExecutor: a condition whose left side is another table must have
\* this one on its right.
IndexScanAsserts(p) ==
  \A k \in DOMAIN p.conds :
    p.conds[k].lhs_col.tab_name # p.tab_name =>
      ~p.conds[k].is_rhs_val /\ p.conds[k].rhs_col.tab_name = p.tab_name
ScanError(p) ==
  CASE p.tab_name \notin OpenTables -> "out_of_range"
    [] p.tag = "T_IndexScan" /\ ~IndexScanAsserts(p) -> "assert"
    [] OTHER -> ""

\* convert_plan_executor: what making the executor of the plan p ends in, ""
\* when it is made.
RECURSIVE ExecutorError(_)
ExecutorError(p) ==
  CASE p.plan = "ScanPlan" -> ScanError(p)
    [] p.plan = "JoinPlan" ->      \* NestedLoopJoinExecutor reads left_->cols()
         IF ExecutorError(p.left) # "" THEN ExecutorError(p.left)
         ELSE IF ExecutorError(p.right) # "" THEN ExecutorError(p.right) ELSE "null cols"
    [] p.plan = "SortPlan" -> ExecutorError(p.subplan)
    [] p.plan = "ProjectionPlan" -> \* ProjectionExecutor reads prev_->cols()
         IF ExecutorError(p.subplan) # "" THEN ExecutorError(p.subplan) ELSE "null cols"
    [] OTHER -> ""                 \* no plan: no executor

\* start: commands and DDL.
StartCommand ==
  /\ pc = "planned"
  /\ plan.plan \in {"OtherPlan", "SetKnobPlan", "DDLPlan"}
  /\ Started(PortalStmt(IF plan.plan = "DDLPlan" THEN "PORTAL_MULTI_QUERY"
                        ELSE "PORTAL_CMD_UTILITY", "none", ""))
  /\ UNCHANGED <<statementVars, rows, entries, call>>

\* start: SELECT.
StartSelect ==
  /\ pc = "planned"
  /\ plan.plan = "DMLPlan"
  /\ plan.tag = "T_select"
  /\ Abort(ExecutorError(plan.subplan))
  /\ UNCHANGED <<statementVars, portalVars>>

\* start: DELETE and UPDATE: the scan is made and ends at once, is_end being
\* AbstractExecutor's; the executor gets no rid.
StartDeleteUpdate ==
  /\ pc = "planned"
  /\ plan.plan = "DMLPlan"
  /\ plan.tag \in {"T_Delete", "T_Update"}
  /\ IF ScanError(plan.subplan) = ""
     THEN Started(PortalStmt("PORTAL_DML_WITHOUT_SELECT",
                             IF plan.tag = "T_Delete" THEN "DeleteExecutor"
                             ELSE "UpdateExecutor", plan.tab_name))
     ELSE Abort(ScanError(plan.subplan)) /\ UNCHANGED root
  /\ UNCHANGED <<statementVars, rows, entries, call>>

\* start: INSERT, with the constructor of InsertExecutor.
StartInsert ==
  /\ pc = "planned"
  /\ plan.plan = "DMLPlan"
  /\ plan.tag = "T_Insert"
  /\ IF ~IsTable(plan.tab_name) THEN Throw("TableNotFoundError") /\ UNCHANGED root
     ELSE IF Len(plan.values) # Len(Db[plan.tab_name].cols)
          THEN Throw("InvalidValueCountError") /\ UNCHANGED root
     ELSE IF plan.tab_name \notin OpenTables THEN Abort("out_of_range") /\ UNCHANGED root
     ELSE Started(PortalStmt("PORTAL_DML_WITHOUT_SELECT", "InsertExecutor",
                             plan.tab_name))
  /\ UNCHANGED <<statementVars, rows, entries, call>>
-----------------------------------------------------------------------------
\* The bytes of the raw buffer of value v in a column of len bytes: a number
\* fills it, a string is followed by zeros.
RawBytes(v, len) ==
  [b \in 1 .. len |-> IF v.type = "TYPE_STRING"
                      THEN IF b <= Len(v.val) THEN SubSeq(v.val, b, b) ELSE "0"
                      ELSE <<v.type, v.val, b>>]

\* Mutant: the strings' length is not checked.
ValueErrorTypeOnly(col, v) == IF col.type # v.type THEN "IncompatibleTypeError" ELSE ""
\* InsertExecutor::Next: what a value that does not fit its column ends in.
ValueError(col, v) ==
  IF col.type # v.type THEN "IncompatibleTypeError" ELSE InitRaw(v, col.len)

\* The record: every column's bytes at its offset.
RecordOf(cols, values) ==
  LET size == cols[Len(cols)].offset + cols[Len(cols)].len
      At(k, b) == b > cols[k].offset /\ b <= cols[k].offset + cols[k].len
      Writer(b) == CHOOSE k \in DOMAIN cols :
                     At(k, b) /\ \A l \in DOMAIN cols : At(l, b) => l <= k
  IN [b \in 1 .. size |->
        RawBytes(values[Writer(b)], cols[Writer(b)].len)[b - cols[Writer(b)].offset]]

\* Mutant: the first column only.
KeyOfFirst(tab_name, rec, names) ==
  LET c == GetCol(tab_name, names[1])
  IN SubSeq(rec, c.offset + 1, c.offset + c.len)

\* The key of an index: the bytes of its columns, one after the other.
RECURSIVE KeyOf(_, _, _)
KeyOf(tab_name, rec, names) ==
  IF names = <<>> THEN <<>>
  ELSE LET c == GetCol(tab_name, Head(names))
       IN SubSeq(rec, c.offset + 1, c.offset + c.len)
            \o KeyOf(tab_name, rec, Tail(names))

\* run: INSERT.  The record is inserted before the indexes are looked up: an
\* index without a file ends the process with the entries before it made.
RunInsert ==
  /\ pc = "started"
  /\ root.exec = "InsertExecutor"
  /\ LET tab == root.tab_name
         cols == Db[tab].cols
         indexes == Db[tab].indexes
         e == FirstError([k \in DOMAIN cols |-> ValueError(cols[k], plan.values[k])])
         rec == RecordOf(cols, plan.values)
         closed == {k \in DOMAIN indexes : <<tab, indexes[k]>> \notin OpenIndexes}
         made == {k \in DOMAIN indexes : \A c \in closed : k < c}
     IN IF e # "" THEN Throw(e) /\ UNCHANGED <<rows, entries>>
        ELSE /\ rows' = Append(rows, [tab_name |-> tab, rec |-> rec])
             /\ entries' = entries \cup
                  {<<tab, indexes[k], KeyOf(tab, rec, indexes[k]), Len(rows) + 1>> :
                     k \in made}
             /\ IF closed = {} THEN pc' = "done" /\ UNCHANGED error
                ELSE Abort("out_of_range")
  /\ UNCHANGED <<statementVars, root, call>>

\* run: DeleteExecutor and UpdateExecutor return nothing.
RunDeleteUpdate ==
  /\ pc = "started"
  /\ root.exec \in {"DeleteExecutor", "UpdateExecutor"}
  /\ pc' = "done"
  /\ UNCHANGED <<statementVars, error, portalVars>>

\* run_mutli_query: the operation of SmManager.
DDLCall == [T_CreateTable |-> "create_table", T_DropTable |-> "drop_table",
            T_CreateIndex |-> "create_index", T_DropIndex |-> "drop_index"]
RunMultiQuery ==
  /\ pc = "started"
  /\ root.tag = "PORTAL_MULTI_QUERY"
  /\ call' = <<DDLCall[plan.tag], plan.tab_name>>
  /\ pc' = "done"
  /\ UNCHANGED <<statementVars, error, root, rows, entries>>

\* run_cmd_utility: the operation of SmManager or TransactionManager; "begin"
\* makes the statement's transaction an explicit one.
UtilityCall == [T_Help |-> "help", T_ShowTable |-> "show_tables",
                T_DescTable |-> "desc_table", T_Transaction_begin |-> "set_txn_mode",
                T_Transaction_commit |-> "commit",
                T_Transaction_rollback |-> "abort", T_Transaction_abort |-> "abort"]
RunCmdUtility ==
  /\ pc = "started"
  /\ root.tag = "PORTAL_CMD_UTILITY"
  /\ IF plan.plan = "SetKnobPlan" THEN Abort("null planner") /\ UNCHANGED call
     ELSE IF plan.tag = "T_DescTable" /\ ~IsTable(plan.tab_name)
          THEN Throw("TableNotFoundError") /\ UNCHANGED call
     ELSE call' = <<UtilityCall[plan.tag], plan.tab_name>> /\ pc' = "done" /\ UNCHANGED error
  /\ UNCHANGED <<statementVars, root, rows, entries>>

PortalStep == \/ StartCommand \/ StartSelect \/ StartDeleteUpdate \/ StartInsert
              \/ RunInsert \/ RunDeleteUpdate \/ RunMultiQuery \/ RunCmdUtility

PortalNext == (PlannerNext /\ UNCHANGED portalVars) \/ PortalStep

queryVars == <<analyzerVars, plannerVars, portalVars>>
PortalSpec == PortalInit /\ [][PortalNext]_queryVars /\ WF_queryVars(PortalNext)

-----------------------------------------------------------------------------
(* What is checked of a statement from its parse tree to its execution:    *)
(* the analysis, the plan and the inserted record.                         *)

\* The plan below the projection and the sort.
Tree == LET p == plan.subplan.subplan IN IF p.plan = "SortPlan" THEN p.subplan ELSE p
SelectPlanned == pc = "planned" /\ parse.node = "SelectStmt"

RECURSIVE Nodes(_)
Nodes(p) == CASE p.plan = "ScanPlan" -> SetToBag({p})
              [] p.plan = "JoinPlan" -> SetToBag({p}) (+) Nodes(p.left) (+) Nodes(p.right)
              [] OTHER -> EmptyBag

\* A condition up to turning it around: "x < y" is "y > x".
Mirror == {<<"OP_EQ", "OP_EQ">>, <<"OP_NE", "OP_NE">>, <<"OP_LT", "OP_GT">>,
           <<"OP_GT", "OP_LT">>, <<"OP_LE", "OP_GE">>, <<"OP_GE", "OP_LE">>}
Turned(c) ==
  {c} \cup IF c.is_rhs_val THEN {}
           ELSE {[c EXCEPT !.lhs_col = c.rhs_col, !.rhs_col = c.lhs_col, !.op = m[2]] :
                   m \in {n \in Mirror : n[1] = c.op}}
RECURSIVE CondBag(_)
CondBag(cs) == IF cs = <<>> THEN EmptyBag
               ELSE SetToBag({Turned(Head(cs))}) (+) CondBag(Tail(cs))
RECURSIVE PlanConds(_)
PlanConds(p) ==
  CASE p.plan = "ScanPlan" -> CondBag(p.conds)
    [] p.plan = "JoinPlan" -> CondBag(p.conds) (+) PlanConds(p.left) (+) PlanConds(p.right)
    [] OTHER -> EmptyBag

\* A condition of the WHERE clause, with its columns' tables and its value's
\* length filled in.
Analysed(e) ==
  LET c == ConditionOf(e)
      lhs == CheckColumn(query.tables, c.lhs_col).col
  IN IF c.is_rhs_val
     THEN [c EXCEPT !.lhs_col = lhs, !.rhs_val.raw = GetCol(lhs.tab_name, lhs.col_name).len]
     ELSE [c EXCEPT !.lhs_col = lhs, !.rhs_col = CheckColumn(query.tables, c.rhs_col).col]

\* make_one_rel loses no condition and repeats none: those of the scans and the
\* joins together are the WHERE clause's, each at most turned around together
\* with its operator.
PlanKeepsConditions ==
  SelectPlanned =>
    PlanConds(Tree) = CondBag([k \in DOMAIN parse.conds |-> Analysed(parse.conds[k])])

TablesUnder(p) == {q.tab_name : q \in {n \in BagToSet(Nodes(p)) : n.plan = "ScanPlan"}}

\* make_one_rel scans every table of the FROM clause exactly once, whatever the
\* order in which the conditions join them.
PlanScansEveryTable ==
  SelectPlanned =>
    LET S == {q \in BagToSet(Nodes(Tree)) : q.plan = "ScanPlan"}
    IN /\ {q.tab_name : q \in S} = {query.tables[k] : k \in DOMAIN query.tables}
       /\ Cardinality(S) = Len(query.tables)
       /\ \A q \in S : CopiesIn(q, Nodes(Tree)) = 1

\* A condition of a join has its left column in a table of the left child and
\* its right one in a table of the right child, also after push_conds.
JoinConditionsOriented ==
  SelectPlanned =>
    \A p \in {q \in BagToSet(Nodes(Tree)) : q.plan = "JoinPlan"} :
      \A k \in DOMAIN p.conds :
        /\ p.conds[k].lhs_col.tab_name \in TablesUnder(p.left)
        /\ p.conds[k].rhs_col.tab_name \in TablesUnder(p.right)

\* The joins of a plan can be executed: every table is under exactly one child,
\* and the columns a join compares come from the child it looks for them in.
JoinsWellFormed == PlanScansEveryTable /\ JoinConditionsOriented
-----------------------------------------------------------------------------
\* What is read back from a column of an inserted record is the value given,
\* as select_from reads it: a string up to its first zero byte.
ReadsBack(rec, col, v) ==
  LET bytes == [b \in 1 .. col.len |-> rec[col.offset + b]]
      text == SelectSeq(bytes, LAMBDA x : x # "0")
  IN IF v.type = "TYPE_STRING" THEN text = [b \in 1 .. Len(v.val) |-> SubSeq(v.val, b, b)]
     ELSE bytes = RawBytes(v, 4)

\* An INSERT that stores a record stores the values given, each in its column
\* and of its type; one that is refused stores nothing.
InsertedAsGiven ==
  /\ pc = "failed" => rows = <<>> /\ entries = {}
  /\ \A r \in DOMAIN rows :
       \A k \in DOMAIN plan.values :
         /\ plan.values[k].type = Db[rows[r].tab_name].cols[k].type
         /\ ReadsBack(rows[r].rec, Db[rows[r].tab_name].cols[k], plan.values[k])

\* After an INSERT every index of the table has one entry for the record, whose
\* key is the values of the index's columns in the index's order.
IndexesFollowRows ==
  pc = "done" =>
    \A r \in DOMAIN rows :
      LET tab == rows[r].tab_name
          ValueOf(n) == plan.values[CHOOSE k \in DOMAIN Db[tab].cols : Db[tab].cols[k].name = n]
          Part(n) == RawBytes(ValueOf(n), GetCol(tab, n).len)
          Key(ns) == IF Len(ns) = 1 THEN Part(ns[1]) ELSE Part(ns[1]) \o Part(ns[2])
      IN entries = {<<tab, Db[tab].indexes[x], Key(Db[tab].indexes[x]), r>> :
                      x \in DOMAIN Db[tab].indexes}

\* An INSERT is done as a whole: the record is stored as given, with an entry
\* in every index, or nothing is.
InsertComplete == InsertedAsGiven /\ IndexesFollowRows
=============================================================================
