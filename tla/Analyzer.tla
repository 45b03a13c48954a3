------------------------------- MODULE Analyzer -------------------------------
(***************************************************************************)
(* Semantic analysis of one statement (src/src/analyze/analyze.cpp): the   *)
(* parse tree becomes a Query whose columns name their tables and whose    *)
(* conditions compare columns with columns or values of their type.        *)
(*                                                                         *)
(* A thrown RMDBError ends the statement with "failed", a failed assertion *)
(* or the use of a null pointer with "aborted": the process dies.          *)
(***************************************************************************)
EXTENDS SqlTree, FiniteSets

CONSTANTS Db,           \* the catalogue: table name -> [cols, indexes]
          Statements    \* the parse trees given to do_analyze

VARIABLES
  parse,   \* the parse tree
  query,   \* Query: tables, cols, conds, values
  idx,     \* loop index
  pc,      \* the next step
  error    \* what was thrown

\* A statement with a WHERE clause has a list of conditions.
ASSUME StatementsAssumption ==
  \A s \in Statements : s.node \in {"SelectStmt", "DeleteStmt"} =>
    /\ {"node", "conds"} \subseteq DOMAIN s
    /\ Len(s.conds) \in Nat /\ DOMAIN s.conds = 1 .. Len(s.conds)

analyzerVars == <<parse, query, idx, pc, error>>

TabCol(tab_name, col_name) == [tab_name |-> tab_name, col_name |-> col_name]
NoCol == TabCol("", "")
NoVal == [type |-> "none", val |-> "", raw |-> 0]
EmptyQuery == [tables |-> <<>>, cols |-> <<>>, conds |-> <<>>, values |-> <<>>]

Least(S) == CHOOSE x \in S : \A y \in S : x <= y

\* An exception, and a failed assertion.
Throw(e) == pc' = "failed" /\ error' = e
Abort(e) == pc' = "aborted" /\ error' = e
-----------------------------------------------------------------------------
IsTable(tab_name) == tab_name \in DOMAIN Db
IsCol(tab_name, col_name) ==
  \E k \in DOMAIN Db[tab_name].cols : Db[tab_name].cols[k].name = col_name

\* TabMeta::get_col: the first column of that name.
GetCol(tab_name, col_name) ==
  LET cols == Db[tab_name].cols
  IN cols[Least({k \in DOMAIN cols : cols[k].name = col_name})]

\* get_all_cols: every column of every table of the list, as pairs of a
\* position in the list and a position in the table.
AllCols(tables) ==
  UNION {{<<t, k>> : k \in DOMAIN Db[tables[t]].cols} : t \in DOMAIN tables}
ColName(tables, p) == Db[tables[p[1]]].cols[p[2]].name

\* The same as a list.
ColsOf(tables) ==
  LET upto[t \in 0 .. Len(tables)] ==
        IF t = 0 THEN <<>>
        ELSE upto[t - 1] \o [k \in DOMAIN Db[tables[t]].cols |->
                               TabCol(tables[t], ColName(tables, <<t, k>>))]
  IN upto[Len(tables)]

\* The columns of that name.
Candidates(tables, col_name) ==
  {p \in AllCols(tables) : ColName(tables, p) = col_name}
\* check_column: a qualified column is taken as it is, the table of another is
\* inferred.  The result is a column or an error.
CheckColumn(tables, target) ==
  LET found == Candidates(tables, target.col_name)
  IN IF target.tab_name # "" THEN [col |-> target, error |-> ""]
     ELSE IF Cardinality(found) > 1
          THEN [col |-> NoCol, error |-> "AmbiguousColumnError"]
     ELSE IF found = {} THEN [col |-> NoCol, error |-> "ColumnNotFoundError"]
     ELSE [col |-> TabCol(tables[(CHOOSE p \in found : TRUE)[1]], target.col_name),
           error |-> ""]

\* convert_sv_value; a BoolLit has no type and is an InternalError.
TypeOf == [IntLit |-> "TYPE_INT", FloatLit |-> "TYPE_FLOAT",
           StringLit |-> "TYPE_STRING"]
ConvertSvValue(lit) == [type |-> TypeOf[lit.node], val |-> lit.val, raw |-> 0]

\* convert_sv_comp_op.
ConvertSvCompOp == [SV_OP_EQ |-> "OP_EQ", SV_OP_NE |-> "OP_NE",
                    SV_OP_LT |-> "OP_LT", SV_OP_GT |-> "OP_GT",
                    SV_OP_LE |-> "OP_LE", SV_OP_GE |-> "OP_GE"]

\* Value::init_raw(len): the assertion on a number's length, the overflow of a
\* string.  The result is the error, or "" when the raw buffer is made.
InitRaw(v, len) ==
  CASE v.type \in {"TYPE_INT", "TYPE_FLOAT"} -> IF len = 4 THEN "" ELSE "assert"
    [] v.type = "TYPE_STRING" ->
         IF len < Len(v.val) THEN "StringOverflowError" ELSE ""

\* get_clause for one expression whose value, if it has one, converts.
ConditionOf(e) ==
  LET isCol == e.rhs.node = "Col"
  IN [lhs_col |-> TabCol(e.lhs.tab_name, e.lhs.col_name),
      op |-> ConvertSvCompOp[e.op],
      is_rhs_val |-> ~isCol,
      rhs_col |-> IF isCol THEN TabCol(e.rhs.tab_name, e.rhs.col_name) ELSE NoCol,
      rhs_val |-> IF isCol THEN NoVal ELSE ConvertSvValue(e.rhs)]
-----------------------------------------------------------------------------
AnalyzerInit ==
  /\ parse \in Statements
  /\ query = EmptyQuery
  /\ idx = 1
  /\ pc = "analyze"
  /\ error = ""

\* do_analyze, SELECT: the tables, moved out of the tree, and their columns.
AnalyzeSelect ==
  /\ pc = "analyze"
  /\ parse.node = "SelectStmt"
  /\ parse' = [parse EXCEPT !.tabs = <<>>]
  /\ query' = [query EXCEPT !.tables = parse.tabs,
                            !.cols = [k \in DOMAIN parse.cols |->
                                        TabCol(parse.cols[k].tab_name,
                                               parse.cols[k].col_name)]]
  /\ IF \A k \in DOMAIN parse.tabs : IsTable(parse.tabs[k])
     THEN pc' = "columns" /\ UNCHANGED error
     ELSE Throw("TableNotFoundError")
  /\ UNCHANGED idx

\* The target list: every column, or each one with its table.
AnalyzeColumns ==
  /\ pc = "columns"
  /\ LET tables == query.tables
         found == [k \in DOMAIN query.cols |-> CheckColumn(tables, query.cols[k])]
         bad == {k \in DOMAIN found : found[k].error # ""}
     IN IF query.cols = <<>>
        THEN /\ query' = [query EXCEPT !.cols = ColsOf(tables)]
             /\ pc' = "clause"
             /\ UNCHANGED error
        ELSE IF bad = {}
        THEN /\ query' = [query EXCEPT !.cols = [k \in DOMAIN found |-> found[k].col]]
             /\ pc' = "clause"
             /\ UNCHANGED error
        ELSE /\ Throw(found[Least(bad)].error)
             /\ UNCHANGED query
  /\ UNCHANGED <<parse, idx>>

\* do_analyze, DELETE.
AnalyzeDelete ==
  /\ pc = "analyze"
  /\ parse.node = "DeleteStmt"
  /\ pc' = "clause"
  /\ UNCHANGED <<parse, query, idx, error>>

\* get_clause, and the columns of the tables check_clause starts with.
ClauseTables == IF parse.node = "DeleteStmt" THEN <<parse.tab_name>> ELSE query.tables
GetClause ==
  /\ pc = "clause"
  /\ IF \E k \in DOMAIN parse.conds : parse.conds[k].rhs.node = "BoolLit"
     THEN Throw("InternalError") /\ UNCHANGED query
     ELSE /\ query' = [query EXCEPT !.conds =
                         [k \in DOMAIN parse.conds |-> ConditionOf(parse.conds[k])]]
          /\ IF \A k \in DOMAIN ClauseTables : IsTable(ClauseTables[k])
             THEN pc' = "check" /\ UNCHANGED error
             ELSE Throw("TableNotFoundError")
  /\ UNCHANGED <<parse, idx>>

\* get_table and get_col.
ColumnError(c) == IF ~IsTable(c.tab_name) THEN "TableNotFoundError"
                  ELSE IF ~IsCol(c.tab_name, c.col_name) THEN "ColumnNotFoundError"
                  ELSE ""
FirstError(errors) ==
  LET bad == {k \in DOMAIN errors : errors[k] # ""}
  IN IF bad = {} THEN "" ELSE errors[Least(bad)]

\* Mutant: the type of a value is not compared.
CheckConditionUntyped(cond, lhs, rhs) ==
  LET left == GetCol(lhs.tab_name, lhs.col_name)
  IN IF ColumnError(lhs) # "" THEN ColumnError(lhs)
     ELSE IF cond.is_rhs_val THEN InitRaw(cond.rhs_val, left.len)
     ELSE ColumnError(rhs)

\* check_clause for one condition: its columns, then its types.  The error of
\* the first test that fails, or "".
CheckCondition(cond, lhs, rhs) ==
  LET left == GetCol(lhs.tab_name, lhs.col_name)
      right == GetCol(rhs.tab_name, rhs.col_name)
      Compare(t) == IF left.type # t THEN "IncompatibleTypeError" ELSE ""
  IN IF ColumnError(lhs) # "" THEN ColumnError(lhs)
     ELSE IF cond.is_rhs_val
          THEN FirstError(<<InitRaw(cond.rhs_val, left.len),
                            Compare(cond.rhs_val.type)>>)
     ELSE IF ColumnError(rhs) # "" THEN ColumnError(rhs)
     ELSE Compare(right.type)

CheckClause ==
  /\ pc = "check"
  /\ idx \in DOMAIN query.conds
  /\ LET cond == query.conds[idx]
         lhs == CheckColumn(ClauseTables, cond.lhs_col)
         rhs == IF cond.is_rhs_val THEN [col |-> NoCol, error |-> ""]
                ELSE CheckColumn(ClauseTables, cond.rhs_col)
         found == FirstError(<<lhs.error, rhs.error>>)
         e == IF found # "" THEN found ELSE CheckCondition(cond, lhs.col, rhs.col)
         raw == IF cond.is_rhs_val THEN GetCol(lhs.col.tab_name, lhs.col.col_name).len ELSE 0
     IN IF e = ""
        THEN /\ query' = [query EXCEPT !.conds[idx] =
                  [cond EXCEPT !.lhs_col = lhs.col, !.rhs_col = rhs.col, !.rhs_val.raw = raw]]
             /\ idx' = idx + 1
             /\ UNCHANGED <<pc, error>>
        ELSE /\ IF e = "assert" THEN Abort("init_raw") ELSE Throw(e)
             /\ UNCHANGED <<query, idx>>
  /\ UNCHANGED parse

EndClause ==
  /\ pc = "check"
  /\ idx \notin DOMAIN query.conds
  /\ pc' = "analyzed"
  /\ idx' = 1
  /\ UNCHANGED <<parse, query, error>>

\* do_analyze, INSERT.
AnalyzeInsert ==
  /\ pc = "analyze"
  /\ parse.node = "InsertStmt"
  /\ IF \E k \in DOMAIN parse.vals : parse.vals[k].node = "BoolLit"
     THEN Throw("InternalError") /\ UNCHANGED query
     ELSE /\ query' = [query EXCEPT !.values =
                         [k \in DOMAIN parse.vals |-> ConvertSvValue(parse.vals[k])]]
          /\ pc' = "analyzed"
          /\ UNCHANGED error
  /\ UNCHANGED <<parse, idx>>

\* do_analyze, UPDATE and every other statement: nothing.
AnalyzeOther ==
  /\ pc = "analyze"
  /\ parse.node \notin {"SelectStmt", "DeleteStmt", "InsertStmt"}
  /\ pc' = "analyzed"
  /\ UNCHANGED <<parse, query, idx, error>>

DoAnalyze == \/ AnalyzeSelect \/ AnalyzeColumns \/ AnalyzeDelete \/ GetClause
             \/ CheckClause \/ EndClause \/ AnalyzeInsert \/ AnalyzeOther

AnalyzerSpec == AnalyzerInit /\ [][DoAnalyze]_analyzerVars
-----------------------------------------------------------------------------
\* Once the WHERE clause is checked every condition compares a column that
\* exists with a column or a value of its type, and a value has a raw buffer as
\* long as the column.
ConditionsTyped ==
  pc = "analyzed" =>
    \A k \in DOMAIN query.conds :
      LET c == query.conds[k]
          col == GetCol(c.lhs_col.tab_name, c.lhs_col.col_name)
      IN /\ ColumnError(c.lhs_col) = ""
         /\ IF c.is_rhs_val THEN c.rhs_val.type = col.type /\ c.rhs_val.raw = col.len
            ELSE /\ ColumnError(c.rhs_col) = ""
                 /\ GetCol(c.rhs_col.tab_name, c.rhs_col.col_name).type = col.type
=============================================================================
