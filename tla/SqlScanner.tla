------------------------------ MODULE SqlScanner ------------------------------
(***************************************************************************)
(* The scanner flex generated (src/src/parser/lex.yy.cpp): yylex with its  *)
(* tables, the buffer each statement is scanned from, and the start        *)
(* condition, which outlives the statement.  The parser calls yylex until  *)
(* it accepts or fails, at the latest on T_EOF; then the caller deletes    *)
(* the buffer.                                                             *)
(*                                                                         *)
(* Characters are their codes.  A position is an offset from yy_ch_buf;    *)
(* the buffer ends with the two end-of-buffer characters 0, and holds no   *)
(* other 0, since yy_scan_string stops at the first.  The 0 that yytext is *)
(* terminated with is put back before the next match and is left out.      *)
(***************************************************************************)
EXTENDS SqlScanTables, FiniteSets

CONSTANTS Texts,          \* what the first statement may read
          LaterTexts,     \* what the statements after it may read
          MaxStatements   \* bound: statements scanned one after another

VARIABLES
  text,        \* the characters of the current buffer
  buffers,     \* the buffers allocated
  current,     \* YY_CURRENT_BUFFER
  at,          \* where control is
  yy_start,    \* 0 before the first call, then 1 + 2 * start condition
  yy_c_buf_p,  \* where the next match starts
  yytext_ptr,  \* where the text matched last starts
  yy_bp,       \* where the match under way starts
  yy_cp,       \* the next character to match
  yy_current_state,
  last,        \* yy_last_accepting_state and yy_last_accepting_cpos
  yy_act,      \* the action found
  yylloc,      \* location of the text matched last
  tokens,      \* history: the tokens returned for this statement
  opened,      \* history: yy_start when the statement was started
  statements   \* history: statements started

scannerVars == <<text, buffers, current, at, yy_start, yy_c_buf_p, yytext_ptr, yy_bp,
          yy_cp, yy_current_state, last, yy_act, yylloc, tokens, opened,
          statements>>

bufferVars == <<text, buffers, current, opened, statements>>
matchVars == <<yy_bp, yy_cp, yy_current_state, last>>

NoBuffer == 0
INITIAL == 1
STATE_COMMENT == 3

CharAt(i) == IF i < Len(text) THEN text[i + 1] ELSE 0
Slice(from, to) == SubSeq(text, from + 1, to)
-----------------------------------------------------------------------------
\* yylloc of the first call of yylex, from yyparse.
NoLocation == [first_line |-> 1, first_column |-> 1, last_line |-> 1,
               last_column |-> 1]

\* YY_USER_ACTION: the location moves over the text of every rule.
NewLine == 10
UserAction(loc, s) ==
  LET breaks == {i \in DOMAIN s : s[i] = NewLine}
      after == IF breaks = {} THEN 0
               ELSE CHOOSE i \in breaks : \A j \in breaks : j <= i
  IN [first_line |-> loc.last_line, first_column |-> loc.last_column,
      last_line |-> loc.last_line + Cardinality(breaks),
      last_column |-> (IF breaks = {} THEN loc.last_column ELSE 1)
                        + Len(s) - after]

\* One transition: follow yy_def until the row lists the class c.
NextState[s \in Nat, c \in Nat] ==
  IF yy_chk[yy_base[s] + c] = s THEN yy_nxt[yy_base[s] + c]
  ELSE NextState[yy_def[s], IF yy_def[s] >= 154 THEN yy_meta[c] ELSE c]

\* The last accepting state, updated before a transition is made.
Remember(l, s, cp) == IF yy_accept[s] # 0 THEN [state |-> s, cpos |-> cp] ELSE l

\* yy_get_previous_state: run again over the text from yytext_ptr up to p.
RunTo(s, l, from, p) ==
  LET run[i \in from .. p] ==
        IF i = from THEN [state |-> s, last |-> l]
        ELSE LET before == run[i - 1]
             IN [state |-> NextState[before.state, yy_ec[CharAt(i - 1)]],
                 last |-> Remember(before.last, before.state, i - 1)]
  IN run[p]
-----------------------------------------------------------------------------
ScannerInit ==
  /\ text = <<>>
  /\ buffers = {}
  /\ current = NoBuffer
  /\ at = "idle"
  /\ yy_start = 0
  /\ yy_c_buf_p = 0
  /\ yytext_ptr = 0
  /\ yy_bp = 0
  /\ yy_cp = 0
  /\ yy_current_state = 0
  /\ last = [state |-> 0, cpos |-> 0]
  /\ yy_act = 0
  /\ yylloc = NoLocation
  /\ tokens = <<>>
  /\ opened = INITIAL
  /\ statements = 0

\* yy_switch_to_buffer, yy_load_buffer_state: matching starts at its beginning.
SwitchToBuffer(b) ==
  /\ current' = b
  /\ yy_c_buf_p' = 0
  /\ yytext_ptr' = 0

\* yy_scan_string, yy_scan_bytes, yy_scan_buffer: copy the string to a new
\* buffer and switch to it.
ScanString(s) ==
  /\ at = "idle"
  /\ statements < MaxStatements
  /\ text' = s
  /\ statements' = statements + 1
  /\ buffers' = buffers \cup {statements + 1}
  /\ SwitchToBuffer(statements + 1)
  /\ yylloc' = NoLocation
  /\ tokens' = <<>>
  /\ opened' = IF yy_start = 0 THEN INITIAL ELSE yy_start
  /\ at' = "yylex"
  /\ UNCHANGED <<yy_start, yy_act, matchVars>>

\* The top of yylex and of its loop: the next match starts at yy_c_buf_p.
StartMatch ==
  /\ at = "yylex"
  /\ yy_start' = IF yy_start = 0 THEN INITIAL ELSE yy_start
  /\ yy_cp' = yy_c_buf_p
  /\ yy_bp' = yy_c_buf_p
  /\ yy_current_state' = yy_start'
  /\ at' = "match"
  /\ UNCHANGED <<bufferVars, yy_c_buf_p, yytext_ptr, last, yy_act, yylloc, tokens>>

\* yy_match: one character.
MatchChar ==
  /\ at = "match"
  /\ last' = Remember(last, yy_current_state, yy_cp)
  /\ yy_current_state' = NextState[yy_current_state, yy_ec[CharAt(yy_cp)]]
  /\ yy_cp' = yy_cp + 1
  /\ at' = IF yy_base[yy_current_state'] = YY_JAM_BASE THEN "find" ELSE "match"
  /\ UNCHANGED <<bufferVars, yy_start, yy_c_buf_p, yytext_ptr, yy_bp, yy_act,
                 yylloc, tokens>>

\* yy_find_action: back up to the last accepting state if this one accepts
\* nothing, then YY_DO_BEFORE_ACTION.
FindAction ==
  /\ at = "find"
  /\ LET accepts == yy_accept[yy_current_state] # 0
         cp == IF accepts THEN yy_cp ELSE last.cpos
         state == IF accepts THEN yy_current_state ELSE last.state
     IN /\ yy_cp' = cp
        /\ yy_current_state' = state
        /\ yy_act' = yy_accept[state]
        /\ yy_c_buf_p' = cp
  /\ yytext_ptr' = yy_bp
  /\ at' = "action"
  /\ UNCHANGED <<bufferVars, yy_start, yy_bp, last, yylloc, tokens>>
-----------------------------------------------------------------------------
yytext == Slice(yytext_ptr, yy_c_buf_p)

\* Mutant: the end of a comment leaves the start condition as it is.
SkipTextStays ==
  /\ at = "action"
  /\ yy_act \in 1 .. 7 \cup {46}
  /\ yylloc' = UserAction(yylloc, yytext)
  /\ yy_start' = IF yy_act = 1 THEN STATE_COMMENT ELSE yy_start
  /\ at' = "yylex"
  /\ UNCHANGED <<bufferVars, yy_c_buf_p, yytext_ptr, matchVars, yy_act, tokens>>

\* The comment rules 1 to 4, and the rules 5 to 7 and 46 that return nothing.
SkipText ==
  /\ at = "action"
  /\ yy_act \in 1 .. 7 \cup {46}
  /\ yylloc' = UserAction(yylloc, yytext)
  /\ yy_start' = CASE yy_act = 1 -> STATE_COMMENT
                   [] yy_act = 2 -> INITIAL
                   [] OTHER -> yy_start
  /\ at' = "yylex"
  /\ UNCHANGED <<bufferVars, yy_c_buf_p, yytext_ptr, matchVars, yy_act, tokens>>

\* What the rules 8 to 37 return, in order.
Keywords == <<"SHOW", "TXN_BEGIN", "TXN_COMMIT", "TXN_ABORT", "TXN_ROLLBACK",
  "TABLES", "CREATE", "TABLE", "DROP", "DESC", "INSERT", "INTO", "VALUES",
  "DELETE", "FROM", "WHERE", "UPDATE", "SET", "SELECT", "INT", "CHAR", "FLOAT",
  "INDEX", "AND", "JOIN", "EXIT", "HELP", "ORDER", "BY", "ASC">>

\* The token a rule returns, and the value it stores in yylval.
TokenOf(act, s) ==
  CASE act \in 8 .. 37 -> [kind |-> Keywords[act - 7], val |-> <<>>]
    [] act = 38 -> [kind |-> "GEQ", val |-> <<>>]
    [] act = 39 -> [kind |-> "LEQ", val |-> <<>>]
    [] act = 40 -> [kind |-> "NEQ", val |-> <<>>]
    [] act = 41 -> [kind |-> "char", val |-> <<s[1]>>]
    [] act = 42 -> [kind |-> "IDENTIFIER", val |-> s]
    [] act = 43 -> [kind |-> "VALUE_INT", val |-> s]
    [] act = 44 -> [kind |-> "VALUE_FLOAT", val |-> s]
    [] act = 45 -> [kind |-> "VALUE_STRING", val |-> SubSeq(s, 2, Len(s) - 1)]

\* The rules 8 to 45 return a token.
ReturnToken ==
  /\ at = "action"
  /\ yy_act \in 8 .. 45
  /\ yylloc' = UserAction(yylloc, yytext)
  /\ tokens' = Append(tokens, [token |-> TokenOf(yy_act, yytext),
                               line |-> yylloc'.first_line,
                               column |-> yylloc'.first_column])
  /\ at' = "returned"
  /\ UNCHANGED <<bufferVars, yy_start, yy_c_buf_p, yytext_ptr, matchVars, yy_act>>

\* yy_get_next_buffer, which never fills the buffer of a string.
GetNextBuffer ==
  IF yy_c_buf_p - yytext_ptr = 1 THEN "EOB_ACT_END_OF_FILE" ELSE "EOB_ACT_LAST_MATCH"

\* YY_END_OF_BUFFER after some text: the text before it is matched, from the
\* state the scanner was in there.
LastMatch ==
  /\ at = "action"
  /\ yy_act = YY_END_OF_BUFFER
  /\ GetNextBuffer = "EOB_ACT_LAST_MATCH"
  /\ LET run == RunTo(yy_start, last, yytext_ptr, Len(text))
     IN /\ yy_current_state' = run.state
        /\ last' = run.last
  /\ yy_c_buf_p' = Len(text)
  /\ yy_cp' = Len(text)
  /\ yy_bp' = yytext_ptr
  /\ at' = "find"
  /\ UNCHANGED <<bufferVars, yy_start, yytext_ptr, yy_act, yylloc, tokens>>

\* Mutant: the end is wrapped to more input that never comes.
EndOfFileWraps ==
  /\ at = "action"
  /\ yy_act = YY_END_OF_BUFFER
  /\ GetNextBuffer = "EOB_ACT_END_OF_FILE"
  /\ yy_c_buf_p' = yytext_ptr
  /\ at' = "yylex"
  /\ UNCHANGED <<bufferVars, yy_start, yytext_ptr, matchVars, yy_act, yylloc, tokens>>

\* YY_END_OF_BUFFER at the start of a match: the rule <<EOF>> of either start
\* condition, which yyterminate does not replace: T_EOF is returned.
EndOfFile ==
  /\ at = "action"
  /\ yy_act = YY_END_OF_BUFFER
  /\ GetNextBuffer = "EOB_ACT_END_OF_FILE"
  /\ yy_c_buf_p' = yytext_ptr
  /\ yy_act' = YY_END_OF_BUFFER + ((yy_start - 1) \div 2) + 1
  /\ tokens' = Append(tokens, [token |-> [kind |-> "T_EOF", val |-> <<>>],
                               line |-> 0, column |-> 0])
  /\ at' = "returned"
  /\ UNCHANGED <<bufferVars, yy_start, yytext_ptr, matchVars, yylloc>>
-----------------------------------------------------------------------------
\* The parser asks for another token.
CallAgain ==
  /\ at = "returned"
  /\ tokens[Len(tokens)].token.kind # "T_EOF"
  /\ at' = "yylex"
  /\ UNCHANGED <<bufferVars, yy_start, yy_c_buf_p, yytext_ptr, matchVars, yy_act,
                 yylloc, tokens>>

\* Mutant: the buffer is forgotten and not freed.
DeleteBufferForgets ==
  /\ at = "returned"
  /\ current' = NoBuffer
  /\ at' = "idle"
  /\ UNCHANGED <<text, buffers, opened, statements, yy_start, yy_c_buf_p, yytext_ptr,
                 matchVars, yy_act, yylloc, tokens>>

\* The parser accepts or fails, and its caller calls yy_delete_buffer.
DeleteBuffer ==
  /\ at = "returned"
  /\ buffers' = buffers \ {current}
  /\ current' = NoBuffer
  /\ at' = "idle"
  /\ UNCHANGED <<text, opened, statements, yy_start, yy_c_buf_p, yytext_ptr,
                 matchVars, yy_act, yylloc, tokens>>

ScanFirst == statements = 0 /\ \E s \in Texts : ScanString(s)
ScanLater == statements > 0 /\ \E s \in LaterTexts : ScanString(s)

ScannerNext == \/ ScanFirst \/ ScanLater \/ StartMatch \/ MatchChar \/ FindAction
        \/ SkipText \/ ReturnToken \/ LastMatch \/ EndOfFile
        \/ CallAgain \/ DeleteBuffer

ScannerSpec == ScannerInit /\ [][ScannerNext]_scannerVars /\ WF_scannerVars(ScannerNext)
-----------------------------------------------------------------------------
\* Between two statements no buffer is left allocated, and the current buffer
\* does not dangle.
NoBufferLeft ==
  /\ at = "idle" => buffers = {} /\ current = NoBuffer
  /\ at # "idle" => buffers = {current}
-----------------------------------------------------------------------------
\* The codes of a string of capital letters.
Capitals == "ABCDEFGHIJKLMNOPQRSTUVWXYZ_"
CodeOf == [c \in {SubSeq(Capitals, i, i) : i \in 1 .. 27} |->
             IF c = "_" THEN 95
             ELSE 64 + (CHOOSE i \in 1 .. 26 : SubSeq(Capitals, i, i) = c)]
Codes(str) == [i \in 1 .. Len(str) |-> CodeOf[SubSeq(str, i, i)]]

\* The keywords of lex.l, in rule order: the first 30 are the rules 8 to 37.
LexKeywords == <<"SHOW", "BEGIN", "COMMIT", "ABORT", "ROLLBACK", "TABLES", "CREATE",
  "TABLE", "DROP", "DESC", "INSERT", "INTO", "VALUES", "DELETE", "FROM", "WHERE",
  "UPDATE", "SET", "SELECT", "INT", "CHAR", "FLOAT", "INDEX", "AND", "JOIN",
  "EXIT", "HELP", "ORDER", "BY", "ASC",
  "ENABLE_NESTLOOP", "ENABLE_SORTMERGE", "TRUE", "FALSE">>

\* The token lex.l returns for one.
LexToken(k) ==
  CASE k \in {"BEGIN", "COMMIT", "ABORT", "ROLLBACK"} -> "TXN_" \o k
    [] k \in {"TRUE", "FALSE"} -> "VALUE_BOOL"
    [] OTHER -> k

KeywordCodes == [n \in 1 .. 30 |-> Codes(LexKeywords[n])]
KeywordKinds == [n \in 1 .. 30 |-> LexToken(LexKeywords[n])]

Lex == INSTANCE SqlLexemes
         WITH KeywordRules <- KeywordCodes, KeywordTokens <- KeywordKinds

\* What the parser is given are the tokens of the text by the rules of lex.l
\* that lex.yy.cpp was generated from (all but those of the last four keywords),
\* longest match first, each at its line and column, from the start condition
\* the previous statement ended in.
TokensOfLexL ==
  at = "returned" =>
    LET lexemes == Lex!Lexemes(text, 0, opened)
    IN Len(tokens) <= Len(lexemes) /\ tokens = SubSeq(lexemes, 1, Len(tokens))
=============================================================================
