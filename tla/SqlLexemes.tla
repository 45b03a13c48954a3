------------------------------ MODULE SqlLexemes ------------------------------
(***************************************************************************)
(* The tokens of a text by the rules of src/src/parser/lex.l, defined      *)
(* without an automaton: the longest match wins, and of two rules that     *)
(* match as much the first.  Characters are their codes.                   *)
(***************************************************************************)
EXTENDS Integers, Sequences, FiniteSets

CONSTANTS KeywordRules,   \* the keywords of the rules 8 to 37, as codes
          KeywordTokens   \* the tokens they stand for

Blank == {9, 32}
Letter == 65 .. 90 \cup 97 .. 122
Digit == 48 .. 57
SingleOp == {59, 40, 41, 44, 42, 61, 62, 60, 46}

Upper(c) == IF c \in 97 .. 122 THEN c - 32 ELSE c
UpperText(s) == [i \in DOMAIN s |-> Upper(s[i])]
AllIn(s, S) == \A i \in DOMAIN s : s[i] \in S

\* sign?digit+
IsInt(s) == LET d == IF s[1] \in {43, 45} THEN Tail(s) ELSE s
            IN d # <<>> /\ AllIn(d, Digit)

\* The text s matches rule r of the start condition.
Matches(s, r, start) ==
  LET n == Len(s)
  IN IF start = 3
     THEN CASE r = 2 -> s = <<42, 47>>
            [] r = 3 -> n = 1 /\ s[1] # 42
            [] r = 4 -> s = <<42>>
            [] OTHER -> FALSE
     ELSE CASE r = 1 -> s = <<47, 42>>
            [] r = 5 -> n >= 2 /\ s[1] = 45 /\ s[2] = 45 /\ \A i \in 1 .. n : s[i] # 10
            [] r = 6 -> AllIn(s, Blank)
            [] r = 7 -> s \in {<<13>>, <<10>>, <<13, 10>>}
            [] r \in 8 .. 37 -> UpperText(s) = KeywordRules[r - 7]
            [] r = 38 -> s = <<62, 61>>
            [] r = 39 -> s = <<60, 61>>
            [] r = 40 -> s = <<60, 62>>
            [] r = 41 -> n = 1 /\ s[1] \in SingleOp
            [] r = 42 -> s[1] \in Letter /\ AllIn(s, Letter \cup Digit \cup {95})
            [] r = 43 -> IsInt(s)
            [] r = 44 -> \E i \in 2 .. n : /\ s[i] = 46
                                           /\ IsInt(SubSeq(s, 1, i - 1))
                                           /\ AllIn(SubSeq(s, i + 1, n), Digit)
            [] r = 45 -> /\ n >= 2 /\ s[1] = 39 /\ s[n] = 39
                         /\ \A i \in 2 .. n - 1 : s[i] # 39
            [] r = 46 -> n = 1 /\ s[1] # 10
            [] OTHER -> FALSE

\* The length of the longest match at position p (characters before it), and
\* the first rule that matches that much.
Longest(t, p, start) ==
  LET L == {n \in 1 .. Len(t) - p :
              \E r \in 1 .. 46 : Matches(SubSeq(t, p + 1, p + n), r, start)}
  IN CHOOSE n \in L : \A m \in L : m <= n

RuleOf(s, start) ==
  CHOOSE r \in 1 .. 46 : /\ Matches(s, r, start)
                         /\ \A q \in 1 .. r - 1 : ~Matches(s, q, start)

\* The line and the column of position p of t.
LineOf(t, p) == 1 + Cardinality({i \in 1 .. p : t[i] = 10})
ColumnOf(t, p) ==
  1 + Cardinality({i \in 1 .. p : \A j \in i .. p : t[j] # 10})

\* The token of a lexeme and its value.
TokenFor(r, s) ==
  LET Fixed(kind) == [kind |-> kind, val |-> <<>>]
  IN CASE r = 0 -> Fixed("T_EOF")
       [] r \in 8 .. 37 -> Fixed(KeywordTokens[r - 7])
       [] r = 38 -> Fixed("GEQ")
       [] r = 39 -> Fixed("LEQ")
       [] r = 40 -> Fixed("NEQ")
       [] r = 41 -> [kind |-> "char", val |-> s]
       [] r = 42 -> [kind |-> "IDENTIFIER", val |-> s]
       [] r = 43 -> [kind |-> "VALUE_INT", val |-> s]
       [] r = 44 -> [kind |-> "VALUE_FLOAT", val |-> s]
       [] r = 45 -> [kind |-> "VALUE_STRING", val |-> Tail(SubSeq(s, 1, Len(s) - 1))]

\* The lexemes of t from a position on, with their places; rule 0 stands for
\* the end of the text.
Lexemes(t, from, first) ==
  LET lexemes[p \in 0 .. Len(t), start \in {1, 3}] ==
        IF p = Len(t) THEN <<[token |-> TokenFor(0, <<>>), line |-> 0, column |-> 0]>>
        ELSE LET n == Longest(t, p, start)
                 s == SubSeq(t, p + 1, p + n)
                 r == RuleOf(s, start)
                 later == lexemes[p + n, CASE r = 1 -> 3 [] r = 2 -> 1 [] OTHER -> start]
             IN IF r \in 1 .. 7 \cup {46} THEN later
                ELSE <<[token |-> TokenFor(r, s), line |-> LineOf(t, p),
                        column |-> ColumnOf(t, p)]>> \o later
  IN lexemes[from, first]
=============================================================================
