------------------------------- MODULE Planner -------------------------------
(***************************************************************************)
(* The plan of an analysed statement: Optimizer::plan_query and the        *)
(* Planner of src/src/optimizer/planner.cpp.  A SELECT over several tables *)
(* is planned condition by condition: each joins a table to the plan made  *)
(* so far, joins two new ones, or is pushed down to the node both of its   *)
(* tables are under.                                                       *)
(***************************************************************************)
EXTENDS Analyzer

CONSTANT KnobSettings   \* what the setters left in the two knobs

VARIABLES
  knobs,          \* enable_nestedloop_join, enable_sortmerge_join
  scans,          \* table_scan_executors
  conds,          \* the conditions that are left
  scantbl,        \* the tables a join has taken
  joined_tables,
  join,           \* table_join_executors
  plan            \* what plan_query returns

plannerVars == <<knobs, scans, conds, scantbl, joined_tables, join, plan>>
joinVars == <<scans, conds, scantbl, joined_tables, join>>
-----------------------------------------------------------------------------
\* The plans of plan.h.
ScanPlan(tag, tab_name, cs, index_col_names) ==
  [plan |-> "ScanPlan", tag |-> tag, tab_name |-> tab_name, conds |-> cs,
   index_col_names |-> index_col_names]
JoinPlan(tag, left, right, cs) ==
  [plan |-> "JoinPlan", tag |-> tag, left |-> left, right |-> right, conds |-> cs]
ProjectionPlan(subplan, sel_cols) ==
  [plan |-> "ProjectionPlan", subplan |-> subplan, sel_cols |-> sel_cols]
SortPlan(subplan, sel_col, is_desc) ==
  [plan |-> "SortPlan", subplan |-> subplan, sel_col |-> sel_col,
   is_desc |-> is_desc]
DMLPlan(tag, subplan, tab_name, values, cs) ==
  [plan |-> "DMLPlan", tag |-> tag, subplan |-> subplan, tab_name |-> tab_name,
   values |-> values, conds |-> cs]
DDLPlan(tag, tab_name, col_names, cols) ==
  [plan |-> "DDLPlan", tag |-> tag, tab_name |-> tab_name, col_names |-> col_names,
   cols |-> cols]
OtherPlan(tag, tab_name) == [plan |-> "OtherPlan", tag |-> tag, tab_name |-> tab_name]
SetKnobPlan(knob, val) == [plan |-> "SetKnobPlan", set_knob_type |-> knob,
                           bool_value |-> val]
NoPlan == [plan |-> "nullptr"]
-----------------------------------------------------------------------------
\* get_index_cols: the columns compared with "=" and a value, in the order of
\* the conditions, if the table has an index over exactly these; else none.
IndexCols(tab_name, cs) ==
  LET eq == SelectSeq(cs, LAMBDA c : /\ c.is_rhs_val
                                     /\ c.op = "OP_EQ"
                                     /\ c.lhs_col.tab_name = tab_name)
      names == [k \in DOMAIN eq |-> eq[k].lhs_col.col_name]
      indexes == Db[tab_name].indexes
  IN IF \E k \in DOMAIN indexes : indexes[k] = names THEN names ELSE <<>>

MakeScan(tab_name, cs) ==
  LET names == IndexCols(tab_name, cs)
  IN ScanPlan(IF names = <<>> THEN "T_SeqScan" ELSE "T_IndexScan", tab_name, cs, names)

\* pop_conds: the conditions a table's scan takes: those with a value, and the
\* ones that compare columns of one table, whichever it is.
Pops(c, tab_name) ==
  \/ c.lhs_col.tab_name = tab_name /\ c.is_rhs_val
  \/ c.lhs_col.tab_name = c.rhs_col.tab_name

\* The columns change sides.
SwapOp == [OP_EQ |-> "OP_EQ", OP_NE |-> "OP_NE", OP_LT |-> "OP_GT",
           OP_GT |-> "OP_LT", OP_LE |-> "OP_GE", OP_GE |-> "OP_LE"]
\* Mutant: the operator stays.
SwappedSides(c) == [c EXCEPT !.lhs_col = c.rhs_col, !.rhs_col = c.lhs_col]
Swapped(c) == [c EXCEPT !.lhs_col = c.rhs_col, !.rhs_col = c.lhs_col,
                        !.op = SwapOp[c.op]]

\* Mutant: the node takes the condition as it is.
RECURSIVE PushCondsAsIs(_, _)
PushCondsAsIs(c, p) ==
  IF p.plan = "ScanPlan"
  THEN [res |-> IF p.tab_name = c.lhs_col.tab_name THEN 1
                ELSE IF p.tab_name = c.rhs_col.tab_name THEN 2 ELSE 0,
        plan |-> p]
  ELSE IF p.plan = "JoinPlan"
  THEN LET left == PushCondsAsIs(c, p.left)
           right == PushCondsAsIs(c, p.right)
       IN IF left.res = 3 THEN [res |-> 3, plan |-> [p EXCEPT !.left = left.plan]]
          ELSE IF right.res = 3 THEN [res |-> 3, plan |-> [p EXCEPT !.right = right.plan]]
          ELSE IF left.res = 0 \/ right.res = 0
          THEN [res |-> left.res + right.res, plan |-> p]
          ELSE [res |-> 3, plan |-> [p EXCEPT !.conds = Append(@, c)]]
  ELSE [res |-> 0, plan |-> p]

\* push_conds: 3 when a node below took the condition, else which sides of it
\* the plan p provides (0, 1 for the left, 2 for the right).
RECURSIVE PushConds(_, _)
PushConds(c, p) ==
  IF p.plan = "ScanPlan"
  THEN [res |-> IF p.tab_name = c.lhs_col.tab_name THEN 1
                ELSE IF p.tab_name = c.rhs_col.tab_name THEN 2 ELSE 0,
        plan |-> p]
  ELSE IF p.plan = "JoinPlan"
  THEN LET left == PushConds(c, p.left)
           right == PushConds(c, p.right)
           taken == IF left.res = 2 THEN Swapped(c) ELSE c
       IN IF left.res = 3 THEN [res |-> 3, plan |-> [p EXCEPT !.left = left.plan]]
          ELSE IF right.res = 3 THEN [res |-> 3, plan |-> [p EXCEPT !.right = right.plan]]
          ELSE IF left.res = 0 \/ right.res = 0
          THEN [res |-> left.res + right.res, plan |-> p]
          ELSE [res |-> 3, plan |-> [p EXCEPT !.conds = Append(@, taken)]]
  ELSE [res |-> 0, plan |-> p]

\* pop_scan: the position of the first scan of the table, 0 if there is none.
PopScan(tab_name) ==
  LET at == {k \in DOMAIN scans : scans[k].tab_name = tab_name}
  IN IF at = {} THEN 0 ELSE Least(at)
PlanAt(k) == IF k = 0 THEN NoPlan ELSE scans[k]
TablesAt(ks) == {scans[k].tab_name : k \in ks \ {0}}
-----------------------------------------------------------------------------
PlannerInit ==
  /\ AnalyzerInit
  /\ knobs \in KnobSettings
  /\ scans = <<>>
  /\ conds = <<>>
  /\ scantbl = {}
  /\ joined_tables = {}
  /\ join = NoPlan
  /\ plan = NoPlan

Planned(p) == plan' = p /\ pc' = "planned" /\ UNCHANGED <<error, joinVars>>

\* plan_query: the statements it plans itself.
OtherTag == [Help |-> "T_Help", ShowTables |-> "T_ShowTable",
             DescTable |-> "T_DescTable", TxnBegin |-> "T_Transaction_begin",
             TxnAbort |-> "T_Transaction_abort",
             TxnCommit |-> "T_Transaction_commit",
             TxnRollback |-> "T_Transaction_rollback"]
PlanOther ==
  /\ pc = "analyzed"
  /\ \/ /\ parse.node \in DOMAIN OtherTag
        /\ Planned(OtherPlan(OtherTag[parse.node],
                             IF parse.node = "DescTable" THEN parse.tab_name ELSE ""))
     \/ /\ parse.node = "SetStmt"
        /\ Planned(SetKnobPlan(parse.set_knob_type, parse.bool_val))
  /\ UNCHANGED <<parse, query, idx, knobs>>

\* do_planner: tables and indexes.
InterpSvType == [SV_TYPE_INT |-> "TYPE_INT", SV_TYPE_FLOAT |-> "TYPE_FLOAT",
                 SV_TYPE_STRING |-> "TYPE_STRING"]
DDLTag == [CreateTable |-> "T_CreateTable", DropTable |-> "T_DropTable",
           CreateIndex |-> "T_CreateIndex", DropIndex |-> "T_DropIndex"]
PlanDDL ==
  /\ pc = "analyzed"
  /\ parse.node \in DOMAIN DDLTag
  /\ Planned(DDLPlan(DDLTag[parse.node], parse.tab_name,
       IF parse.node \in {"CreateIndex", "DropIndex"} THEN parse.col_names ELSE <<>>,
       IF parse.node = "CreateTable"
       THEN [k \in DOMAIN parse.fields |->
               [name |-> parse.fields[k].col_name,
                type |-> InterpSvType[parse.fields[k].type_len.type],
                len |-> parse.fields[k].type_len.len]]
       ELSE <<>>))
  /\ UNCHANGED <<parse, query, idx, knobs>>

PlanInsert ==
  /\ pc = "analyzed"
  /\ parse.node = "InsertStmt"
  /\ Planned(DMLPlan("T_Insert", NoPlan, parse.tab_name, query.values, <<>>))
  /\ UNCHANGED <<parse, query, idx, knobs>>

\* do_planner: DELETE and UPDATE scan their table.
PlanDeleteUpdate ==
  /\ pc = "analyzed"
  /\ parse.node \in {"DeleteStmt", "UpdateStmt"}
  /\ IF IsTable(parse.tab_name)
     THEN Planned(DMLPlan(IF parse.node = "DeleteStmt" THEN "T_Delete" ELSE "T_Update",
                          MakeScan(parse.tab_name, query.conds), parse.tab_name,
                          <<>>, query.conds))
     ELSE Throw("TableNotFoundError") /\ UNCHANGED <<plan, joinVars>>
  /\ UNCHANGED <<parse, query, idx, knobs>>
-----------------------------------------------------------------------------
\* make_one_rel: the scan of the i-th table takes its conditions.
MakeScans ==
  /\ pc = "analyzed"
  /\ parse.node = "SelectStmt"
  /\ idx <= Len(query.tables)
  /\ LET tab == query.tables[idx]
     IN /\ scans' = Append(scans,
                           MakeScan(tab, SelectSeq(query.conds, LAMBDA c : Pops(c, tab))))
        /\ query' = [query EXCEPT !.conds = SelectSeq(@, LAMBDA c : ~Pops(c, tab))]
  /\ idx' = idx + 1
  /\ UNCHANGED <<parse, pc, error, knobs, conds, scantbl, joined_tables, join, plan>>

\* One table needs no join; several with no condition left start from the first.
EndScans ==
  /\ pc = "analyzed"
  /\ parse.node = "SelectStmt"
  /\ idx > Len(query.tables)
  /\ IF Len(query.tables) = 1
     THEN /\ join' = scans[1]
          /\ pc' = "sort"
          /\ UNCHANGED <<query, conds, scantbl>>
     ELSE /\ conds' = query.conds
          /\ query' = [query EXCEPT !.conds = <<>>]
          /\ join' = IF query.conds = <<>> THEN scans[1] ELSE NoPlan
          /\ scantbl' = IF query.conds = <<>> THEN {1} ELSE {}
          /\ pc' = IF query.conds = <<>> THEN "rest" ELSE "first"
  /\ idx' = 1
  /\ UNCHANGED <<parse, error, knobs, scans, joined_tables, plan>>

\* The first join; joined_tables starts with as many empty names as there are
\* tables, so that the absent table of a value counts as joined.
FirstJoin ==
  /\ pc = "first"
  /\ LET c == conds[1]
         l == PopScan(c.lhs_col.tab_name)
         r == PopScan(c.rhs_col.tab_name)
         tag == IF knobs.nestedloop THEN "T_NestLoop" ELSE "T_SortMerge"
     IN /\ scantbl' = {l, r} \ {0}
        /\ joined_tables' = {""} \cup TablesAt({l, r})
        /\ IF knobs.nestedloop \/ knobs.sortmerge
           THEN /\ join' = JoinPlan(tag, PlanAt(l), PlanAt(r), <<c>>)
                /\ conds' = Tail(conds)
                /\ pc' = "next"
                /\ UNCHANGED error
           ELSE Throw("RMDBError") /\ UNCHANGED <<join, conds>>
  /\ UNCHANGED <<parse, query, idx, knobs, scans, plan>>

\* The join of one more condition.  With exactly one new table the plan so far
\* becomes the right child and the condition is turned so that its left side is
\* the new table.
JoinWith(c, l, r, reverse) ==
  IF l # 0 /\ r # 0
  THEN JoinPlan("T_NestLoop", JoinPlan("T_NestLoop", PlanAt(l), PlanAt(r), <<c>>),
                join, <<>>)
  ELSE IF l # 0 \/ r # 0
  THEN IF reverse THEN JoinPlan("T_NestLoop", PlanAt(r), join, <<Swapped(c)>>)
       ELSE JoinPlan("T_NestLoop", PlanAt(l), join, <<c>>)
  ELSE PushConds(c, join).plan

NextJoin ==
  /\ pc = "next"
  /\ conds # <<>>
  /\ LET c == conds[1]
         leftNew == c.lhs_col.tab_name \notin joined_tables
         l == IF leftNew THEN PopScan(c.lhs_col.tab_name) ELSE 0
         joined == joined_tables \cup TablesAt({l})
         reverse == c.rhs_col.tab_name \notin joined
         r == IF reverse THEN PopScan(c.rhs_col.tab_name) ELSE 0
     IN /\ join' = JoinWith(c, l, r, reverse)
        /\ scantbl' = scantbl \cup ({l, r} \ {0})
        /\ joined_tables' = joined \cup TablesAt({r})
  /\ conds' = Tail(conds)
  /\ UNCHANGED <<parse, query, idx, pc, error, knobs, scans, plan>>

EndJoins ==
  /\ pc = "next"
  /\ conds = <<>>
  /\ pc' = "rest"
  /\ UNCHANGED <<parse, query, idx, error, plannerVars>>

\* Mutant: the loop starts at the second table.
RestJoinFromTwo ==
  /\ pc = "rest"
  /\ IF idx > Len(scans)
     THEN /\ pc' = "sort"
          /\ idx' = 1
          /\ UNCHANGED join
     ELSE /\ join' = IF idx \in scantbl \cup {1} THEN join
                     ELSE JoinPlan("T_NestLoop", scans[idx], join, <<>>)
          /\ idx' = idx + 1
          /\ UNCHANGED pc
  /\ UNCHANGED <<parse, query, error, knobs, scans, conds, scantbl, joined_tables,
                 plan>>
\* The tables no condition joins.
RestJoin ==
  /\ pc = "rest"
  /\ IF idx > Len(scans)
     THEN /\ pc' = "sort"
          /\ idx' = 1
          /\ UNCHANGED join
     ELSE /\ join' = IF idx \in scantbl THEN join
                     ELSE JoinPlan("T_NestLoop", scans[idx], join, <<>>)
          /\ idx' = idx + 1
          /\ UNCHANGED pc
  /\ UNCHANGED <<parse, query, error, knobs, scans, conds, scantbl, joined_tables,
                 plan>>

\* generate_sort_plan: the last column of that name, whatever table the ORDER
\* BY names, or no column; then the projection and the statement.
SortColumn(order) ==
  LET found == Candidates(query.tables, order.cols.col_name)
      p == CHOOSE q \in found : \A o \in found : o[1] < q[1] \/ (o[1] = q[1] /\ o[2] <= q[2])
  IN IF found = {} THEN NoCol ELSE TabCol(query.tables[p[1]], order.cols.col_name)
FinishSelect ==
  /\ pc = "sort"
  /\ LET sorted == IF parse.has_sort
                   THEN SortPlan(join, SortColumn(parse.order),
                                 parse.order.orderby_dir = "OrderBy_DESC")
                   ELSE join
     IN Planned(DMLPlan("T_select", ProjectionPlan(sorted, query.cols), "", <<>>, <<>>))
  /\ UNCHANGED <<parse, query, idx, knobs>>

PlanQuery == \/ PlanOther \/ PlanDDL \/ PlanInsert \/ PlanDeleteUpdate
             \/ MakeScans \/ EndScans \/ FirstJoin \/ NextJoin \/ EndJoins
             \/ RestJoin \/ FinishSelect

PlannerNext == (DoAnalyze /\ UNCHANGED plannerVars) \/ PlanQuery
=============================================================================
