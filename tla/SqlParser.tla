------------------------------ MODULE SqlParser ------------------------------
(***************************************************************************)
(* yyparse (src/src/parser/yacc.tab.cpp) on one statement: the LALR driver *)
(* bison generated, its tables (SqlTables) and the semantic actions of the *)
(* SQL grammar.  The scanner is Tokens: yylex returns any of Tokens[n] as  *)
(* the n-th token, and as the last the end of the statement.  The          *)
(* text of a token is abstracted to its position in the statement, so that *)
(* no two tokens of a statement carry the same value.                      *)
(*                                                                         *)
(* yyvs keeps the slots above the top of the stack: a rule with an empty   *)
(* right-hand side starts from the value that was last stored there.       *)
(***************************************************************************)
EXTENDS SqlTables, SqlGrammar

CONSTANTS Tokens,       \* bound: what the scanner may return first, second, ...
          YYINITDEPTH   \* size of the parser's stacks

VARIABLES
  seen,          \* history: the tokens yylex has returned
  label,            \* the label of yyparse control is at
  yychar,        \* lookahead token, or YYEMPTY
  yylval,        \* semantic value of the last token read
  yyss,          \* state stack, the top last
  yyvs,          \* value stack with the stale slots above its top
  yyn,           \* rule to reduce by
  yyerrstatus,   \* tokens to shift before errors are reported again
  yynerrs,       \* syntax errors reported
  parse_tree,    \* the global the analyzer reads
  yyresult       \* what yyparse returns; -1 while it runs

parserVars == <<seen, label, yychar, yylval, yyss, yyvs, yyn, yyerrstatus, yynerrs,
          parse_tree, yyresult>>

Labels == {"backup", "reduce", "errlab", "errlab1", "return", "done"}
-----------------------------------------------------------------------------
\* The field of yylval the scanner stores a token's value in.
ValueField == ("IDENTIFIER" :> "sv_str") @@ ("VALUE_STRING" :> "sv_str") @@
              ("VALUE_INT" :> "sv_int") @@ ("VALUE_FLOAT" :> "sv_float") @@
              ("VALUE_BOOL" :> "sv_bool")
-----------------------------------------------------------------------------
\* The semantic actions.  y is yyval after its default assignment, and d[i]
\* is the value of the i-th symbol of the right-hand side ($i).

TxnActions(n, y) ==
  LET kind == <<"TxnBegin", "TxnCommit", "TxnAbort", "TxnRollback">>
  IN Put(y, "sv_node", Leaf(kind[n - 10]))

DdlActions(n, y, d) ==
  CASE n = 15 -> Put(y, "sv_node", Leaf("ShowTables"))
    [] n = 16 -> Put(y, "sv_node", SetStmt(d[2].sv_setKnobType, d[4].sv_bool))
    [] n = 17 -> Put(y, "sv_node",
                     CreateTable(d[3].sv_str, Vector(d[5], "sv_fields")))
    [] n = 18 -> Put(y, "sv_node", DropTable(d[3].sv_str))
    [] n = 19 -> Put(y, "sv_node", DescTable(d[2].sv_str))
    [] n = 20 -> Put(y, "sv_node",
                     CreateIndex(d[3].sv_str, Vector(d[5], "sv_strs")))
    [] n = 21 -> Put(y, "sv_node",
                     DropIndex(d[3].sv_str, Vector(d[5], "sv_strs")))

DmlActions(n, y, d) ==
  CASE n = 22 -> Put(y, "sv_node",
                     InsertStmt(d[3].sv_str, Vector(d[6], "sv_vals")))
    [] n = 23 -> Put(y, "sv_node",
                     DeleteStmt(d[3].sv_str, Vector(d[4], "sv_conds")))
    [] n = 24 -> Put(y, "sv_node",
                     UpdateStmt(d[2].sv_str, Vector(d[4], "sv_set_clauses"),
                                Vector(d[5], "sv_conds")))
    [] n = 25 -> Put(y, "sv_node",
                     SelectStmt(Vector(d[2], "sv_cols"), Vector(d[4], "sv_strs"),
                                Vector(d[5], "sv_conds"),
                                Pointer(d[6], "sv_orderby")))

\* The lists: a first element makes a vector, the next ones are pushed back.
PushBack(y, list, x) == Put(y, list, Append(Vector(y, list), x))

FieldActions(n, y, d) ==
  CASE n = 26 -> Put(y, "sv_fields", <<d[1].sv_field>>)
    [] n = 27 -> PushBack(y, "sv_fields", d[3].sv_field)
    [] n = 28 -> Put(y, "sv_strs", <<d[1].sv_str>>)
    [] n = 29 -> PushBack(y, "sv_strs", d[3].sv_str)
    [] n = 30 -> Put(y, "sv_field", ColDef(d[1].sv_str, d[2].sv_type_len))
    [] n = 31 -> Put(y, "sv_type_len", TypeLen("SV_TYPE_INT", "sizeof int"))
    [] n = 32 -> Put(y, "sv_type_len", TypeLen("SV_TYPE_STRING", d[3].sv_int))
    [] n = 33 -> Put(y, "sv_type_len", TypeLen("SV_TYPE_FLOAT", "sizeof float"))

ValueActions(n, y, d) ==
  CASE n = 34 -> Put(y, "sv_vals", <<d[1].sv_val>>)
    [] n = 35 -> PushBack(y, "sv_vals", d[3].sv_val)
    [] n = 36 -> Put(y, "sv_val", Lit("IntLit", d[1].sv_int))
    [] n = 37 -> Put(y, "sv_val", Lit("FloatLit", d[1].sv_float))
    [] n = 38 -> Put(y, "sv_val", Lit("StringLit", d[1].sv_str))
    [] n = 39 -> Put(y, "sv_val", Lit("BoolLit", d[1].sv_bool))

\* Rule 41, an absent WHERE, does nothing.
CondActions(n, y, d) ==
  CASE n = 40 -> Put(y, "sv_cond",
                     BinaryExpr(d[1].sv_col, d[2].sv_comp_op, d[3].sv_expr))
    [] n = 41 -> y
    [] n = 42 -> Put(y, "sv_conds", Vector(d[2], "sv_conds"))
    [] n = 43 -> Put(y, "sv_conds", <<d[1].sv_cond>>)
    [] n = 44 -> PushBack(y, "sv_conds", d[3].sv_cond)
    [] n = 45 -> Put(y, "sv_col", Col(d[1].sv_str, d[3].sv_str))
    [] n = 46 -> Put(y, "sv_col", Col("", d[1].sv_str))
    [] n = 47 -> Put(y, "sv_cols", <<d[1].sv_col>>)
    [] n = 48 -> PushBack(y, "sv_cols", d[3].sv_col)

ExprActions(n, y, d) ==
  LET op == <<"SV_OP_EQ", "SV_OP_LT", "SV_OP_GT", "SV_OP_NE", "SV_OP_LE",
              "SV_OP_GE">>
  IN CASE n \in 49 .. 54 -> Put(y, "sv_comp_op", op[n - 48])
       [] n = 55 -> Put(y, "sv_expr", d[1].sv_val)
       [] n = 56 -> Put(y, "sv_expr", d[1].sv_col)

SelectorActions(n, y, d) ==
  CASE n = 57 -> Put(y, "sv_set_clauses", <<d[1].sv_set_clause>>)
    [] n = 58 -> PushBack(y, "sv_set_clauses", d[3].sv_set_clause)
    [] n = 59 -> Put(y, "sv_set_clause", SetClause(d[1].sv_str, d[3].sv_val))
    [] n = 60 -> Put(y, "sv_cols", <<>>)
    [] n = 61 -> y
    [] n = 62 -> Put(y, "sv_strs", <<d[1].sv_str>>)
    [] n \in {63, 64} -> PushBack(y, "sv_strs", d[3].sv_str)

\* Rule 66, an absent ORDER BY, does nothing.
OrderActions(n, y, d) ==
  CASE n = 65 -> Put(y, "sv_orderby", Pointer(d[3], "sv_orderby"))
    [] n = 66 -> y
    [] n = 67 -> Put(y, "sv_orderby", OrderBy(d[1].sv_col, d[2].sv_orderby_dir))
    [] n = 68 -> Put(y, "sv_orderby_dir", "OrderBy_ASC")
    [] n = 69 -> Put(y, "sv_orderby_dir", "OrderBy_DESC")
    [] n = 70 -> Put(y, "sv_orderby_dir", "OrderBy_DEFAULT")
    [] n = 71 -> Put(y, "sv_setKnobType", "EnableNestLoop")
    [] n = 72 -> Put(y, "sv_setKnobType", "EnableSortMerge")

\* The switch of yyreduce; the rules without an action keep $$ = $1.
SemanticAction(n, y, d) ==
  CASE n \in 11 .. 14 -> TxnActions(n, y)
    [] n \in 15 .. 21 -> DdlActions(n, y, d)
    [] n \in 22 .. 25 -> DmlActions(n, y, d)
    [] n \in 26 .. 33 -> FieldActions(n, y, d)
    [] n \in 34 .. 39 -> ValueActions(n, y, d)
    [] n \in 40 .. 48 -> CondActions(n, y, d)
    [] n \in 49 .. 56 -> ExprActions(n, y, d)
    [] n \in 57 .. 64 -> SelectorActions(n, y, d)
    [] n \in 65 .. 72 -> OrderActions(n, y, d)
    [] OTHER -> y
-----------------------------------------------------------------------------
ParserInit ==
  /\ seen = <<>>
  /\ label = "backup"
  /\ yychar = YYEMPTY
  /\ yylval = NoValue
  /\ yyss = <<0>>
  /\ yyvs = [i \in 1 .. YYINITDEPTH |-> NoValue]
  /\ yyn = 0
  /\ yyerrstatus = 0
  /\ yynerrs = 0
  /\ parse_tree = [node |-> "previous"]
  /\ yyresult = -1

Top(s) == s[Len(s)]
yystate == Top(yyss)
yytoken == YYTRANSLATE(yychar)

Return(result) ==
  /\ label' = "return"
  /\ yyresult' = result

\* yynewstate, yysetstate: push the state; a full stack is memory exhausted,
\* since a value that is no plain data cannot be moved to a larger one.
NewState(below, s) ==
  /\ yyss' = Append(below, s)
  /\ IF Len(below) + 1 >= YYINITDEPTH THEN Return(2)
     ELSE IF s = YYFINAL THEN Return(0)
     ELSE label' = "backup" /\ UNCHANGED yyresult

\* yybackup, up to the call of yylex.
ReadToken ==
  /\ label = "backup"
  /\ yypact[yystate] # YYPACT_NINF
  /\ yychar = YYEMPTY
  /\ \E t \in IF Len(seen) < Len(Tokens) THEN Tokens[Len(seen) + 1] ELSE {"T_EOF"} :
       /\ seen' = Append(seen, t)
       /\ yychar' = TokenCode[t]
       /\ yylval' = IF t \in DOMAIN ValueField
                    THEN Put(yylval, ValueField[t], Len(seen) + 1) ELSE yylval
  /\ UNCHANGED <<label, yyss, yyvs, yyn, yyerrstatus, yynerrs, parse_tree, yyresult>>

\* The entry of yytable for the state and the lookahead, 0 when it has none.
Entry(s, token) ==
  LET i == yypact[s] + token
  IN IF i < 0 \/ YYLAST < i THEN 0
     ELSE IF yycheck[i] # token THEN 0 ELSE yytable[i]

\* yybackup: shift the lookahead.
Shift ==
  /\ label = "backup"
  /\ yypact[yystate] # YYPACT_NINF
  /\ yychar # YYEMPTY
  /\ Entry(yystate, yytoken) > 0
  /\ yyerrstatus' = IF yyerrstatus = 0 THEN 0 ELSE yyerrstatus - 1
  /\ yyvs' = [yyvs EXCEPT ![Len(yyss) + 1] = yylval]
  /\ yychar' = YYEMPTY
  /\ NewState(yyss, Entry(yystate, yytoken))
  /\ UNCHANGED <<seen, yylval, yyn, yynerrs, parse_tree>>

\* yybackup and yydefault: choose the rule to reduce by, or find the error.
Decide ==
  /\ label = "backup"
  /\ \/ yypact[yystate] = YYPACT_NINF
     \/ yychar # YYEMPTY /\ Entry(yystate, yytoken) <= 0
  /\ LET e == IF yypact[yystate] = YYPACT_NINF THEN 0
              ELSE Entry(yystate, yytoken)
         rule == IF e < 0 THEN -e ELSE yydefact[yystate]
     IN /\ yyn' = rule
        /\ label' = IF rule = 0 THEN "errlab" ELSE "reduce"
  /\ UNCHANGED <<seen, yychar, yylval, yyss, yyvs, yyerrstatus, yynerrs,
                 parse_tree, yyresult>>

\* yyreduce: run the action of the rule, pop its right-hand side and go to
\* the state of its left-hand side.  The rules of start accept at once.
Goto(s, lhs) ==
  LET i == yypgoto[lhs] + s
  IN IF i < 0 \/ YYLAST < i THEN yydefgoto[lhs]
     ELSE IF yycheck[i] # s THEN yydefgoto[lhs] ELSE yytable[i]

ReduceStart ==
  /\ label = "reduce"
  /\ yyn \in 2 .. 5
  /\ parse_tree' = CASE yyn = 2 -> yyvs[Len(yyss) - 1].sv_node
                     [] yyn = 3 -> Leaf("Help")
                     [] yyn \in {4, 5} -> nullptr
  /\ Return(0)
  /\ UNCHANGED <<seen, yychar, yylval, yyss, yyvs, yyn, yyerrstatus, yynerrs>>

ReduceKeepsLast ==
  /\ label = "reduce"
  /\ yyn \notin 2 .. 5
  /\ LET base == Len(yyss) - yyr2[yyn]
         below == SubSeq(yyss, 1, base)
         d == [i \in 1 .. yyr2[yyn] |-> yyvs[base + i]]
     IN /\ yyvs' = [yyvs EXCEPT ![base + 1] =
                      SemanticAction(yyn, yyvs[Len(yyss)], d)]
        /\ NewState(below, Goto(Top(below), yyr1[yyn] - YYNTOKENS))
  /\ UNCHANGED <<seen, yychar, yylval, yyn, yyerrstatus, yynerrs, parse_tree>>

Reduce ==
  /\ label = "reduce"
  /\ yyn \notin 2 .. 5
  /\ LET yylen == yyr2[yyn]
         base == Len(yyss) - yylen
         below == SubSeq(yyss, 1, base)
         d == [i \in 1 .. yylen |-> yyvs[base + i]]
     IN /\ yyvs' = [yyvs EXCEPT ![base + 1] =
                      SemanticAction(yyn, yyvs[base + 1], d)]
        /\ NewState(below, Goto(Top(below), yyr1[yyn] - YYNTOKENS))
  /\ UNCHANGED <<seen, yychar, yylval, yyn, yyerrstatus, yynerrs, parse_tree>>

\* yyerrlab: report the error unless recovering from one; a lookahead that
\* already failed after an error is discarded, at end of input the parse fails.
Errlab ==
  /\ label = "errlab"
  /\ yynerrs' = IF yyerrstatus = 0 THEN yynerrs + 1 ELSE yynerrs
  /\ IF yyerrstatus = 3 /\ yychar = 0
     THEN Return(1) /\ UNCHANGED yychar
     ELSE /\ label' = "errlab1"
          /\ yychar' = IF yyerrstatus = 3 /\ yychar > 0 THEN YYEMPTY ELSE yychar
          /\ UNCHANGED yyresult
  /\ UNCHANGED <<seen, yylval, yyss, yyvs, yyn, yyerrstatus, parse_tree>>

\* yyerrlab1: pop states until one shifts the error token (symbol 1), and
\* shift it; no state of this grammar does, so the parse is aborted.
ShiftsError(s) == yypact[s] # YYPACT_NINF /\ Entry(s, 1) > 0

Errlab1NoAbort ==
  /\ label = "errlab1"
  /\ yyerrstatus' = 3
  /\ yyss' = IF Len(yyss) = 1 THEN yyss ELSE SubSeq(yyss, 1, Len(yyss) - 1)
  /\ UNCHANGED <<seen, label, yychar, yylval, yyvs, yyn, yynerrs, parse_tree, yyresult>>

Errlab1 ==
  /\ label = "errlab1"
  /\ yyerrstatus' = 3
  /\ IF ShiftsError(yystate)
     THEN /\ yyvs' = [yyvs EXCEPT ![Len(yyss) + 1] = yylval]
          /\ NewState(yyss, Entry(yystate, 1))
     ELSE /\ IF Len(yyss) = 1
             THEN Return(1) /\ UNCHANGED yyss
             ELSE /\ yyss' = SubSeq(yyss, 1, Len(yyss) - 1)
                  /\ UNCHANGED <<label, yyresult>>
          /\ UNCHANGED yyvs
  /\ UNCHANGED <<seen, yychar, yylval, yyn, yynerrs, parse_tree>>

\* yyreturnlab: pop the stacks and return.
YyReturn ==
  /\ label = "return"
  /\ yyss' = <<0>>
  /\ label' = "done"
  /\ UNCHANGED <<seen, yychar, yylval, yyvs, yyn, yyerrstatus, yynerrs,
                 parse_tree, yyresult>>

ParserNext == \/ ReadToken \/ Shift \/ Decide \/ ReduceStart \/ Reduce
        \/ Errlab \/ Errlab1 \/ YyReturn

ParserSpec == ParserInit /\ [][ParserNext]_parserVars /\ WF_parserVars(ParserNext)
-----------------------------------------------------------------------------
\* yyparse accepts exactly the inputs the grammar of yacc.y derives, and leaves
\* in parse_tree the tree of that input: a list holds its elements in order, a
\* clause that is absent is empty although its value starts from a stale slot.
AcceptsTheGrammar ==
  label = "done" =>
    /\ (yyresult = 0) <=> (InputTree(seen) # {})
    /\ yyresult = 0 => InputTree(seen) = {parse_tree}
=============================================================================
