------------------------------ MODULE SqlGrammar ------------------------------
(***************************************************************************)
(* The SQL statements of src/src/parser/yacc.y and the tree each of them   *)
(* stands for, defined without a parser: a phrase is an interval <<a, b>>  *)
(* of the statement s, a list is cut at its separators, and the set of     *)
(* trees of a phrase is empty when the phrase is not of its kind.          *)
(***************************************************************************)
EXTENDS Integers, Sequences, FiniteSets, TLC, SqlTree

Values == [VALUE_INT |-> "IntLit", VALUE_FLOAT |-> "FloatLit",
           VALUE_STRING |-> "StringLit", VALUE_BOOL |-> "BoolLit"]

CompOps == ("=" :> "SV_OP_EQ") @@ ("<" :> "SV_OP_LT") @@ (">" :> "SV_OP_GT") @@
           ("NEQ" :> "SV_OP_NE") @@ ("LEQ" :> "SV_OP_LE") @@
           ("GEQ" :> "SV_OP_GE")

\* The phrase p of s reads exactly as the tokens k.
Reads(s, p, k) == /\ p[2] - p[1] + 1 = Len(k)
                  /\ \A i \in 1 .. Len(k) : s[p[1] + i - 1] = k[i]

\* Where the tokens of the set seps are in the phrase p of s.
Places(s, p, seps) == {i \in p[1] .. p[2] : s[i] \in seps}

\* The phrases between the separators, and the list of their trees.
Pieces(s, p, seps) ==
  LET at == Places(s, p, seps) \cup {p[1] - 1, p[2] + 1}
      Cut(j) == CHOOSE i \in at : Cardinality({k \in at : k < i}) = j - 1
  IN [j \in 1 .. Cardinality(at) - 1 |-> <<Cut(j) + 1, Cut(j + 1) - 1>>]

ListOf(s, p, seps, Trees(_, _)) ==
  LET q == Pieces(s, p, seps)
      trees == [j \in DOMAIN q |-> Trees(s, q[j])]
  IN IF p[2] < p[1] \/ \E j \in DOMAIN q : trees[j] = {} THEN {}
     ELSE {[j \in DOMAIN q |-> CHOOSE t \in trees[j] : TRUE]}

Name(s, p) == IF Reads(s, p, <<"IDENTIFIER">>) THEN {p[1]} ELSE {}

ColTree(s, p) ==
  CASE Reads(s, p, <<"IDENTIFIER">>) ->
         {Col("", p[1])}
    [] Reads(s, p, <<"IDENTIFIER", ".", "IDENTIFIER">>) ->
         {Col(p[1], p[2])}
    [] OTHER -> {}

ValueTree(s, p) ==
  IF p[1] = p[2] /\ s[p[1]] \in DOMAIN Values
  THEN {Lit(Values[s[p[1]]], p[1])} ELSE {}

CondTree(s, p) ==
  {BinaryExpr(l, CompOps[s[i]], r) :
     <<i, l, r>> \in
       UNION {{<<i, l, r>> : l \in ColTree(s, <<p[1], i - 1>>),
                             r \in ColTree(s, <<i + 1, p[2]>>) \cup
                                   ValueTree(s, <<i + 1, p[2]>>)} :
              i \in Places(s, p, DOMAIN CompOps)}}

FieldTree(s, p) ==
  LET Def(type, len) == {ColDef(p[1], TypeLen(type, len))}
  IN CASE Reads(s, p, <<"IDENTIFIER", "INT">>) -> Def("SV_TYPE_INT", "sizeof int")
       [] Reads(s, p, <<"IDENTIFIER", "FLOAT">>) ->
            Def("SV_TYPE_FLOAT", "sizeof float")
       [] Reads(s, p, <<"IDENTIFIER", "CHAR", "(", "VALUE_INT", ")">>) ->
            Def("SV_TYPE_STRING", p[1] + 3)
       [] OTHER -> {}

SetTree(s, p) ==
  {SetClause(n, v) :
     n \in Name(s, <<p[1], p[1]>> ),
     v \in IF p[2] = p[1] + 2 /\ s[p[1] + 1] = "=" THEN ValueTree(s, <<p[2], p[2]>>)
           ELSE {}}

\* WHERE c AND ..., or nothing at all: no conditions.
WhereTree(s, p) ==
  IF p[2] < p[1] THEN {<<>>}
  ELSE IF s[p[1]] = "WHERE" THEN ListOf(s, <<p[1] + 1, p[2]>>, {"AND"}, CondTree)
  ELSE {}

\* ORDER BY col [ASC | DESC], or nothing at all: a null order.
OrderTree(s, p) ==
  IF p[2] < p[1] THEN {nullptr}
  ELSE IF p[2] < p[1] + 2 THEN {}
  ELSE IF ~Reads(s, <<p[1], p[1] + 1>>, <<"ORDER", "BY">>) THEN {}
  ELSE LET last == s[p[2]]
           dir == CASE last = "ASC" -> "OrderBy_ASC"
                    [] last = "DESC" -> "OrderBy_DESC"
                    [] OTHER -> "OrderBy_DEFAULT"
           end == IF last \in {"ASC", "DESC"} THEN p[2] - 1 ELSE p[2]
       IN {OrderBy(c, dir) : c \in ColTree(s, <<p[1] + 2, end>>)}

\* The first place of a token in p, or the place after p.
FirstPlace(s, p, k) ==
  LET at == Places(s, p, {k})
  IN IF at = {} THEN p[2] + 1 ELSE CHOOSE i \in at : \A j \in at : i <= j
-----------------------------------------------------------------------------
SelectTree(s, p) ==
  LET from == FirstPlace(s, p, "FROM")
      order == FirstPlace(s, p, "ORDER")
      where == FirstPlace(s, <<p[1], order - 1>>, "WHERE")
      star == Reads(s, <<p[1] + 1, from - 1>>, <<"*">>)
  IN {SelectStmt(c, t, w, o) :
        c \in IF star THEN {<<>>}
              ELSE ListOf(s, <<p[1] + 1, from - 1>>, {","}, ColTree),
        t \in ListOf(s, <<from + 1, where - 1>>, {",", "JOIN"}, Name),
        w \in WhereTree(s, <<where, order - 1>>),
        o \in OrderTree(s, <<order, p[2]>>)}

UpdateTree(s, p) ==
  LET where == FirstPlace(s, p, "WHERE")
  IN IF p[2] < p[1] + 2 THEN {}
     ELSE {UpdateStmt(t, c, w) :
             t \in IF s[p[1] + 2] = "SET" THEN Name(s, <<p[1] + 1, p[1] + 1>>)
                   ELSE {},
             c \in ListOf(s, <<p[1] + 3, where - 1>>, {","}, SetTree),
             w \in WhereTree(s, <<where, p[2]>>)}

DeleteTree(s, p) ==
  {DeleteStmt(t, w) :
     t \in IF p[2] >= p[1] + 2 /\ s[p[1] + 1] = "FROM"
           THEN Name(s, <<p[1] + 2, p[1] + 2>>) ELSE {},
     w \in WhereTree(s, <<p[1] + 3, p[2]>>)}

\* head ( list ): the phrase between the parentheses.
Parenthesised(s, p, head) ==
  /\ p[2] >= p[1] + Len(head) + 1
  /\ Reads(s, <<p[1], p[1] + Len(head) - 1>>, head)
  /\ s[p[1] + Len(head)] = "("
  /\ s[p[2]] = ")"

Head3(s, p, head, Trees(_, _), Node(_, _)) ==
  IF Parenthesised(s, p, head)
  THEN {Node(p[1] + 2, l) :
          l \in ListOf(s, <<p[1] + Len(head) + 1, p[2] - 1>>, {","}, Trees)}
  ELSE {}

InsertTree(s, p) ==
  Head3(s, p, <<"INSERT", "INTO", "IDENTIFIER", "VALUES">>, ValueTree, InsertStmt)

CreateTree(s, p) ==
  Head3(s, p, <<"CREATE", "TABLE", "IDENTIFIER">>, FieldTree, CreateTable)

IndexTree(s, p) ==
  Head3(s, p, <<"CREATE", "INDEX", "IDENTIFIER">>, Name, CreateIndex)
  \cup
  Head3(s, p, <<"DROP", "INDEX", "IDENTIFIER">>, Name, DropIndex)

KnobTree(s, p) ==
  IF p[2] = p[1] + 3 /\ Reads(s, <<p[1] + 2, p[2]>>, <<"=", "VALUE_BOOL">>)
  THEN {SetStmt(k, p[2]) :
          k \in CASE s[p[1] + 1] = "ENABLE_NESTLOOP" -> {"EnableNestLoop"}
                  [] s[p[1] + 1] = "ENABLE_SORTMERGE" -> {"EnableSortMerge"}
                  [] OTHER -> {}}
  ELSE {}

SimpleTree(s, p) ==
  CASE Reads(s, p, <<"SHOW", "TABLES">>) -> {Leaf("ShowTables")}
    [] Reads(s, p, <<"TXN_BEGIN">>) -> {Leaf("TxnBegin")}
    [] Reads(s, p, <<"TXN_COMMIT">>) -> {Leaf("TxnCommit")}
    [] Reads(s, p, <<"TXN_ABORT">>) -> {Leaf("TxnAbort")}
    [] Reads(s, p, <<"TXN_ROLLBACK">>) -> {Leaf("TxnRollback")}
    [] Reads(s, p, <<"DROP", "TABLE", "IDENTIFIER">>) ->
         {DropTable(p[2])}
    [] Reads(s, p, <<"DESC", "IDENTIFIER">>) ->
         {DescTable(p[2])}
    [] OTHER -> {}

StmtTree(s, p) ==
  IF p[2] < p[1] THEN {}
  ELSE CASE s[p[1]] = "SELECT" -> SelectTree(s, p)
         [] s[p[1]] = "UPDATE" -> UpdateTree(s, p)
         [] s[p[1]] = "DELETE" -> DeleteTree(s, p)
         [] s[p[1]] = "INSERT" -> InsertTree(s, p)
         [] s[p[1]] = "SET" -> KnobTree(s, p)
         [] OTHER -> CreateTree(s, p) \cup IndexTree(s, p) \cup SimpleTree(s, p)

\* The trees of a whole input: a statement and its semicolon, HELP, or an
\* EXIT or the end of the input, whose tree is null.
InputTree(s) ==
  CASE s = <<"HELP">> -> {Leaf("Help")}
    [] s \in {<<"EXIT">>, <<"T_EOF">>} -> {nullptr}
    [] Len(s) > 0 /\ s[Len(s)] = ";" -> StmtTree(s, <<1, Len(s) - 1>>)
    [] OTHER -> {}
=============================================================================
