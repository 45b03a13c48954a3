------------------------------ MODULE SqlTables ------------------------------
(***************************************************************************)
(* The tables bison generated for the SQL grammar (src/src/parser/         *)
(* yacc.tab.cpp).  A C array is a function whose domain starts at 0.       *)
(***************************************************************************)
EXTENDS Integers, Sequences, TLC

\* A C array from the sequence of its elements.
Array(s) == [i \in 0 .. Len(s) - 1 |-> s[i + 1]]

YYFINAL == 44
YYLAST == 118
YYNTOKENS == 54
YYPACT_NINF == -80
YYEMPTY == -2

\* The terminals by symbol number; the characters are 45 .. 53.
yytname == <<"end of file", "error", "invalid token", "SHOW", "TABLES",
  "CREATE", "TABLE", "DROP", "DESC", "INSERT", "INTO", "VALUES", "DELETE",
  "FROM", "ASC", "ORDER", "BY", "WHERE", "UPDATE", "SET", "SELECT", "INT",
  "CHAR", "FLOAT", "INDEX", "AND", "JOIN", "EXIT", "HELP", "TXN_BEGIN",
  "TXN_COMMIT", "TXN_ABORT", "TXN_ROLLBACK", "ORDER_BY", "ENABLE_NESTLOOP",
  "ENABLE_SORTMERGE", "LEQ", "NEQ", "GEQ", "T_EOF", "IDENTIFIER",
  "VALUE_STRING", "VALUE_INT", "VALUE_FLOAT", "VALUE_BOOL", ";", "=",
  "(", ")", ",", ".", "<", ">", "*">>

\* The characters the scanner returns as themselves, by code.
CharCode == (";" :> 59) @@ ("=" :> 61) @@ ("(" :> 40) @@ (")" :> 41) @@
            ("," :> 44) @@ ("." :> 46) @@ ("<" :> 60) @@ (">" :> 62) @@
            ("*" :> 42)

\* The value yylex returns for a token: enum yytokentype, or the character.
TokenCode == [t \in {yytname[i] : i \in 4 .. 54} |->
                IF t \in DOMAIN CharCode THEN CharCode[t]
                ELSE 254 + (CHOOSE i \in 4 .. 45 : yytname[i] = t)]

\* YYTRANSLATE: the symbol number of what yylex returned; the undefined
\* token 2 for every code the grammar does not use.
yytranslate == [c \in 0 .. 299 |->
  CASE c = 0 -> 0
    [] c \in 256 .. 299 -> c - 255
    [] c = 59 -> 45 [] c = 61 -> 46 [] c = 40 -> 47 [] c = 41 -> 48
    [] c = 44 -> 49 [] c = 46 -> 50 [] c = 60 -> 51 [] c = 62 -> 52
    [] c = 42 -> 53
    [] OTHER -> 2]

YYTRANSLATE(c) == IF c \in 0 .. 299 THEN yytranslate[c] ELSE 2

\* Index in yytable of the row of each state.
yypact == Array(<<
  29, 2, 11, 15, -26, 6, 38, -26, -8, -38, -80, -80, -80, -80, -80, -80, -80,
  18, -15, -80, -80, -80, -80, -80, -80, -26, -26, -26, -26, -80, -80, -26,
  -26, 34, -80, -80, 8, 45, -80, -80, 47, 54, 49, -80, -80, -80, 46, 50, -80,
  51, 70, 77, 60, 58, 63, -26, 60, 60, 60, 60, 57, 63, -80, -80, -5, -80, 59,
  -80, -80, -6, -80, -80, 17, -80, 48, 31, -80, 41, 32, -80, 81, 26, 60, -80,
  32, -26, -26, 92, -80, 60, -80, 61, -80, -80, -80, 60, -80, -80, -80, -80,
  -80, 43, -80, 63, -80, -80, -80, -80, -80, -80, 44, -80, -80, -80, -80, 93,
  -80, -80, 68, -80, -80, 32, -80, -80, -80, -80, 63, 64, -80, 5, -80, -80,
  -80, -80, -80>>)

\* Default reduction of each state, 0 for an error.
yydefact == Array(<<
  0, 0, 0, 0, 0, 0, 0, 0, 0, 0, 4, 3, 11, 12, 13, 14, 5, 0, 0, 9, 6, 10, 7,
  8, 15, 0, 0, 0, 0, 73, 19, 0, 0, 0, 71, 72, 0, 74, 60, 47, 61, 0, 0, 46, 1,
  2, 0, 0, 18, 0, 0, 41, 0, 0, 0, 0, 0, 0, 0, 0, 0, 0, 23, 74, 41, 57, 0, 16,
  48, 41, 62, 45, 0, 26, 0, 0, 28, 0, 0, 43, 42, 0, 0, 24, 0, 0, 0, 66, 17,
  0, 31, 0, 33, 30, 20, 0, 21, 38, 36, 37, 39, 0, 34, 0, 53, 52, 54, 49, 50,
  51, 0, 58, 59, 64, 63, 0, 25, 27, 0, 29, 22, 0, 44, 55, 56, 40, 0, 0, 35,
  70, 65, 32, 69, 68, 67>>)

\* Index in yytable of the row of each nonterminal.
yypgoto == Array(<<
  -80, -80, -80, -80, -80, -80, -80, -80, -80, 52, 24, -80, -80, -79, 12,
  -14, -80, -9, -80, -80, -80, -80, 36, -80, -80, -80, -80, -80, -80, -3, -49>>)

\* Default goto of each nonterminal.
yydefgoto == Array(<<
  0, 17, 18, 19, 20, 21, 22, 23, 72, 75, 73, 93, 101, 102, 79, 62, 80, 81,
  40, 110, 125, 64, 65, 41, 69, 116, 130, 134, 36, 42, 43>>)

\* What to do: shift to a state, or reduce by minus a rule.
yytable == Array(<<
  39, 30, 37, 66, 33, 112, 24, 71, 74, 76, 76, 61, 61, 132, 29, 38, 31, 25,
  44, 133, 85, 27, 46, 47, 48, 49, 34, 35, 50, 51, 45, 123, 1, 66, 2, 26, 3,
  4, 5, 28, 74, 6, 128, 86, 82, 68, 119, 7, 8, 9, 83, 32, 70, 52, 53, 87, 10,
  11, 12, 13, 14, 15, 104, 105, 106, 88, 89, 55, 16, 90, 91, 92, 107, 97, 98,
  99, 100, 108, 109, 94, 95, 60, 113, 114, 37, 97, 98, 99, 100, 96, 95, 120,
  121, 57, 61, -73, 54, 58, 59, 56, 63, 124, 67, 37, 78, 84, 103, 115, 118,
  126, 127, 77, 131, 117, 0, 122, 0, 129, 111>>)

\* The token or state a slot of yytable belongs to.
yycheck == Array(<<
  9, 4, 40, 52, 7, 84, 4, 56, 57, 58, 59, 17, 17, 8, 40, 53, 10, 6, 0, 14,
  26, 6, 25, 26, 27, 28, 34, 35, 31, 32, 45, 110, 3, 82, 5, 24, 7, 8, 9, 24,
  89, 12, 121, 49, 49, 54, 95, 18, 19, 20, 64, 13, 55, 19, 46, 69, 27, 28,
  29, 30, 31, 32, 36, 37, 38, 48, 49, 13, 39, 21, 22, 23, 46, 41, 42, 43, 44,
  51, 52, 48, 49, 11, 85, 86, 40, 41, 42, 43, 44, 48, 49, 48, 49, 47, 17, 50,
  49, 47, 47, 50, 40, 110, 44, 40, 47, 46, 25, 15, 47, 16, 42, 59, 48, 89,
  -1, 103, -1, 126, 82>>)

\* Left-hand side of each rule.
yyr1 == Array(<<
  0, 54, 55, 55, 55, 55, 56, 56, 56, 56, 56, 57, 57, 57, 57, 58, 59, 60, 60,
  60, 60, 60, 61, 61, 61, 61, 62, 62, 63, 63, 64, 65, 65, 65, 66, 66, 67, 67,
  67, 67, 68, 69, 69, 70, 70, 71, 71, 72, 72, 73, 73, 73, 73, 73, 73, 74, 74,
  75, 75, 76, 77, 77, 78, 78, 78, 79, 79, 80, 81, 81, 81, 82, 82, 83, 84>>)

\* Length of the right-hand side of each rule.
yyr2 == Array(<<
  0, 2, 2, 1, 1, 1, 1, 1, 1, 1, 1, 1, 1, 1, 1, 2, 4, 6, 3, 2, 6, 6, 7, 4, 5,
  6, 1, 3, 1, 3, 2, 1, 4, 1, 1, 3, 1, 1, 1, 1, 3, 0, 2, 1, 3, 3, 1, 1, 3, 1,
  1, 1, 1, 1, 1, 1, 1, 1, 3, 3, 1, 1, 1, 3, 3, 3, 0, 2, 1, 1, 0, 1, 1, 1, 1>>)

==============================================================================
