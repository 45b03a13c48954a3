---------------------------- MODULE MCStatements ----------------------------
(***************************************************************************)
(* A statement for TLC, in three systems that share no state: the text     *)
(* given to the scanner, the tokens given to the parser, and the tree      *)
(* given to the analyzer, planner and portal.  A behaviour is of one of    *)
(* them (part), and the others stay as they start.                         *)
(***************************************************************************)
EXTENDS SqlParser, SqlScanner, Portal

VARIABLE part

vars == <<part, parserVars, scannerVars, queryVars>>

(* All sequences of at most n elements. *)
Over(S, n) == UNION {[1 .. k -> S] : k \in 0 .. n}

-----------------------------------------------------------------------------
(* The tokens.  The first may be any; later, one operator and one literal  *)
(* stand for the others, so that lists, WHERE and ORDER BY clauses are     *)
(* within reach.                                                           *)
ListTokens == {"SELECT", "FROM", "WHERE", "AND", "ORDER", "BY", "DESC",
               "IDENTIFIER", "VALUE_INT", "=", ",", ".", "*", ";",
               "UPDATE", "SET", "DELETE", "CREATE", "TABLE", "(", ")", "INT",
               "CHAR", "INSERT", "INTO", "VALUES", "T_EOF"}

MCTokens == [n \in 1 .. 11 |-> IF n < 7 THEN DOMAIN TokenCode ELSE ListTokens]

-----------------------------------------------------------------------------
(* The texts: comments of both kinds, strings, numbers and operators, and  *)
(* what they turn into when one character is missing.                      *)
Slash == 47
Star == 42
Minus == 45
Quote == 39

MixedTexts == Over({Slash, Star, NewLine, 97}, 4)
         \cup Over({Minus, Slash, NewLine, 97}, 4)
         \cup Over({43, Minus, 49, 46, 97}, 4)
         \cup Over({Quote, 97, NewLine, 59}, 4)
         \cup Over({60, 61, 62, 49, 64, 13, 32}, 3)

(* Every keyword: as it is, in lower case, cut short, run on, and before   *)
(* an operator.                                                            *)
KeywordTexts ==
  UNION {LET k == Codes(LexKeywords[n])
             low == [j \in DOMAIN k |-> k[j] + 32]
         IN {k, low, <<k[1]>> \o SubSeq(low, 2, Len(k)), SubSeq(k, 1, Len(k) - 1),
             k \o <<97>>, low \o <<49>>, low \o <<95>>, low \o <<61>>, k \o <<32>> \o k,
             <<49>> \o k} :
         n \in 1 .. 30}

MCTexts == MixedTexts \cup KeywordTexts

(* What may be read after a statement, whose comment may not be closed. *)
NextTexts == {<<>>, <<97>>, <<Star, Slash, 97>>, <<Slash, Star, 97>>}

-----------------------------------------------------------------------------
(* The trees, and the tables they are about: four to join, with one column *)
(* of the same name each and one more, and two that share a column name,   *)
(* with columns of every type.                                             *)
Field(name, type, len, offset) ==
  [name |-> name, type |-> type, len |-> len, offset |-> offset]

JoinTable(indexes) ==
  [cols |-> <<Field("k", "TYPE_INT", 4, 0), Field("v", "TYPE_INT", 4, 4)>>,
   indexes |-> indexes]

MCDb ==
  [a |-> JoinTable(<<<<"k">>>>),
   b |-> JoinTable(<<>>),
   c |-> JoinTable(<<>>),
   d |-> JoinTable(<<>>),
   p |-> [cols |-> <<Field("id", "TYPE_INT", 4, 0), Field("s", "TYPE_STRING", 3, 4),
                     Field("f", "TYPE_FLOAT", 4, 7)>>,
          indexes |-> <<<<"s", "id">>, <<"f">>>>],
   q |-> [cols |-> <<Field("id", "TYPE_INT", 4, 0)>>, indexes |-> <<>>]]
MCOpenTables == {"a", "b", "c", "d", "p"}
MCOpenIndexes == {<<"a", <<"k">>>>, <<"p", <<"s", "id">>>>, <<"p", <<"f">>>>}

Equal(l, r) == BinaryExpr(l, "SV_OP_EQ", r)
Less(l, r) == BinaryExpr(l, "SV_OP_LT", r)

(* SELECT * over four tables with up to three conditions: any two tables,  *)
(* or a table and a value.                                                 *)
ColumnPairs == {Less(Col(t, "k"), Col(u, "k")) :
                  t \in {"a", "b", "c", "d"}, u \in {"a", "b", "c", "d"}}
JoinConds == {e \in ColumnPairs : e.lhs # e.rhs}
  \cup {Equal(Col("a", "k"), Lit("IntLit", 1)), Less(Col("c", "k"), Lit("IntLit", 1))}
JoinStatements ==
  {SelectStmt(<<>>, <<"a", "b", "c", "d">>, cs, nullptr) : cs \in Over(JoinConds, 3)}

(* The same with fewer tables and ORDER BY, and conditions that compare    *)
(* two columns of one table.                                               *)
KnobStatements ==
  {SelectStmt(<<>>, ts, cs, o) :
     ts \in {<<"a", "b">>, <<"a", "b", "c">>},
     cs \in Over({Less(Col("a", "k"), Col("b", "v")), Less(Col("b", "v"), Col("a", "k")),
                  Equal(Col("b", "k"), Lit("IntLit", 1))}, 2)
              \cup Over({Equal(Col("b", "k"), Col("b", "v")),
                         Equal(Col("a", "k"), Lit("IntLit", 1))}, 2),
     o \in {nullptr, OrderBy(Col("", "v"), "OrderBy_DESC"),
            OrderBy(Col("a", "x"), "OrderBy_ASC")}}

(* Every kind of statement over two tables, with names that do not         *)
(* resolve, tables that do not exist and values of every type.             *)
Names == {Col("", "id"), Col("", "s"), Col("p", "id"), Col("q", "f"), Col("x", "id"),
          Col("", "x"), Col("p", "f"), Col("p", "s")}
Literals == {Lit("IntLit", 1), Lit("FloatLit", 2), Lit("StringLit", "abc"),
           Lit("StringLit", "abcd"), Lit("BoolLit", TRUE)}
OneCondition == {<<>>} \cup {<<Equal(l, r)>> : l \in Names, r \in Names \cup Literals}
TypedStatements ==
       {SelectStmt(cs, ts, w, nullptr) :
          cs \in {<<>>} \cup {<<n>> : n \in Names},
          ts \in {<<"p">>, <<"p", "q">>, <<"x">>}, w \in OneCondition}
  \cup {DeleteStmt(t, w) : t \in {"p", "q", "x"}, w \in OneCondition}
  \cup {UpdateStmt(t, <<>>, <<>>) : t \in {"p", "x"}}
  \cup {InsertStmt(t, vs) : t \in {"p", "q", "x"}, vs \in Over(Literals, 3)}
  \cup {Leaf(k) : k \in {"Help", "ShowTables", "TxnBegin", "TxnAbort", "TxnCommit",
                         "TxnRollback"}}
  \cup {DescTable("p"), DescTable("x"), SetStmt("EnableNestLoop", TRUE),
        CreateTable("x", <<ColDef("y", TypeLen("SV_TYPE_INT", 4))>>), DropTable("p"),
        CreateIndex("p", <<"id">>), DropIndex("p", <<"id">>)}

MCStatementTrees == JoinStatements \cup KnobStatements \cup TypedStatements
AllKnobs == [nestedloop : BOOLEAN, sortmerge : BOOLEAN]
DefaultKnobs == [nestedloop |-> TRUE, sortmerge |-> FALSE]

-----------------------------------------------------------------------------
(* The knobs are only varied where there are few statements: those of      *)
(* KnobStatements.                                                         *)
KnobsVary == part = "execute" /\ parse.node = "SelectStmt"
             /\ parse.tabs \in {<<"a", "b">>, <<"a", "b", "c">>}
Init ==
  /\ part \in {"scan", "parse", "execute"}
  /\ ParserInit /\ ScannerInit /\ PortalInit
  /\ part # "execute" => parse = Leaf("Help")
  /\ KnobsVary \/ knobs = DefaultKnobs

Parse ==
  /\ part = "parse" /\ ParserNext
  /\ UNCHANGED <<part, scannerVars, queryVars>>
Scan ==
  /\ part = "scan" /\ ScannerNext
  /\ UNCHANGED <<part, parserVars, queryVars>>
Execute ==
  /\ part = "execute" /\ PortalNext
  /\ UNCHANGED <<part, parserVars, scannerVars>>

Next == Parse \/ Scan \/ Execute

(* A statement is one thread's: it goes on as long as it can. *)
Spec == Init /\ [][Next]_vars /\ WF_vars(Next)

(* A statement ends at every stage: yyparse() returns whatever tokens it   *)
(* gets, yylex() returns and its buffer is deleted whatever it reads, and  *)
(* every statement is answered, refused or ends the process, as analysis,  *)
(* planning and execution do not loop.                                     *)
StageEnded ==
  /\ part = "parse" => label = "done"
  /\ part = "scan" => at = "idle"
  /\ part = "execute" => pc \in {"done", "failed", "aborted"}

EveryStageEnds == []<>StageEnded
=============================================================================
