------------------------------- MODULE SqlTree -------------------------------
(***************************************************************************)
(* The syntax trees of src/src/parser/ast.h: one constructor for each      *)
(* struct, and the semantic value SemValue of a grammar symbol.            *)
(***************************************************************************)
EXTENDS Integers, Sequences, TLC

nullptr == [node |-> "nullptr"]

\* Help, ShowTables, TxnBegin, TxnCommit, TxnAbort, TxnRollback: no fields.
Leaf(kind) == [node |-> kind]

TypeLen(type, len) == [node |-> "TypeLen", type |-> type, len |-> len]
ColDef(col_name, type_len) ==
  [node |-> "ColDef", col_name |-> col_name, type_len |-> type_len]
CreateTable(tab_name, fields) ==
  [node |-> "CreateTable", tab_name |-> tab_name, fields |-> fields]
DropTable(tab_name) == [node |-> "DropTable", tab_name |-> tab_name]
DescTable(tab_name) == [node |-> "DescTable", tab_name |-> tab_name]
CreateIndex(tab_name, col_names) ==
  [node |-> "CreateIndex", tab_name |-> tab_name, col_names |-> col_names]
DropIndex(tab_name, col_names) ==
  [node |-> "DropIndex", tab_name |-> tab_name, col_names |-> col_names]

\* IntLit, FloatLit, StringLit, BoolLit.
Lit(kind, val) == [node |-> kind, val |-> val]
Col(tab_name, col_name) ==
  [node |-> "Col", tab_name |-> tab_name, col_name |-> col_name]
SetClause(col_name, val) ==
  [node |-> "SetClause", col_name |-> col_name, val |-> val]
BinaryExpr(lhs, op, rhs) ==
  [node |-> "BinaryExpr", lhs |-> lhs, op |-> op, rhs |-> rhs]
OrderBy(cols, orderby_dir) ==
  [node |-> "OrderBy", cols |-> cols, orderby_dir |-> orderby_dir]

InsertStmt(tab_name, vals) ==
  [node |-> "InsertStmt", tab_name |-> tab_name, vals |-> vals]
DeleteStmt(tab_name, conds) ==
  [node |-> "DeleteStmt", tab_name |-> tab_name, conds |-> conds]
UpdateStmt(tab_name, set_clauses, conds) ==
  [node |-> "UpdateStmt", tab_name |-> tab_name, set_clauses |-> set_clauses,
   conds |-> conds]
SelectStmt(cols, tabs, conds, order) ==
  [node |-> "SelectStmt", cols |-> cols, tabs |-> tabs, conds |-> conds,
   has_sort |-> order # nullptr, order |-> order]
SetStmt(set_knob_type, bool_val) ==
  [node |-> "SetStmt", set_knob_type |-> set_knob_type, bool_val |-> bool_val]

-----------------------------------------------------------------------------
\* SemValue: the fields assigned so far; the others are default constructed,
\* a vector empty and a pointer null.
NoValue == <<>>
Put(v, field, x) == (field :> x) @@ v
Vector(v, field) == IF field \in DOMAIN v THEN v[field] ELSE <<>>
Pointer(v, field) == IF field \in DOMAIN v THEN v[field] ELSE nullptr
=============================================================================
