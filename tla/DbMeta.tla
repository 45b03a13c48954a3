------------------------------- MODULE DbMeta -------------------------------
(***************************************************************************)
(* The text form of the catalogue (src/src/system/sm_meta.h): operator <<  *)
(* writes DbMeta, TabMeta, IndexMeta and ColMeta as words separated by     *)
(* blanks, operator >> reads words back.  A written value is a sequence of *)
(* words; an empty string writes no word at all.  A read takes the next    *)
(* word; a number read from a word that is none fails, and so does every   *)
(* read after it.                                                          *)
(***************************************************************************)
EXTENDS Integers, Sequences, SequencesExt, TLC

CONSTANT Catalogues     \* the values of db_ that are written

VARIABLES
  db,      \* what is written
  file,    \* the words of the file
  back,    \* what is read back
  at       \* "write", "read", "done"

vars == <<db, file, back, at>>

Word(str) == IF str = "" THEN <<>> ELSE <<[text |-> str]>>
Number(n) == <<[number |-> n]>>

\* operator <<.  An enum is written as its number, a bool as 0 or 1.
WriteCol(col) ==
  Word(col.tab_name) \o Word(col.name) \o Number(col.type) \o Number(col.len)
    \o Number(col.offset) \o Number(col.index)
WriteCols(cols) == FoldLeft(LAMBDA acc, col : acc \o WriteCol(col), <<>>, cols)

WriteIndex(index) ==
  Word(index.tab_name) \o Number(index.col_tot_len) \o Number(index.col_num)
    \o WriteCols(index.cols)

\* Mutant: the number of indexes is only written when there are some.
WriteTabBare(tab) ==
  Word(tab.name) \o Number(Len(tab.cols)) \o WriteCols(tab.cols)
    \o (IF tab.indexes = <<>> THEN <<>> ELSE Number(Len(tab.indexes)))
    \o FoldLeft(LAMBDA acc, index : acc \o WriteIndex(index), <<>>, tab.indexes)

WriteTab(tab) ==
  Word(tab.name) \o Number(Len(tab.cols)) \o WriteCols(tab.cols)
    \o Number(Len(tab.indexes))
    \o FoldLeft(LAMBDA acc, index : acc \o WriteIndex(index), <<>>, tab.indexes)

\* The tables are a std::map: written in the order of their names.
WriteDb(meta) ==
  Word(meta.name) \o Number(Len(meta.tabs))
    \o FoldLeft(LAMBDA acc, tab : acc \o WriteTab(tab), <<>>, meta.tabs)
-----------------------------------------------------------------------------
\* A stream that is read: the words left, and whether a read has failed.
Stream(words) == [words |-> words, ok |-> TRUE]

\* One read: the value it gives and the stream after it.
Failed(in, v) == [value |-> v, in |-> [in EXCEPT !.ok = FALSE]]
Take(in) == [in EXCEPT !.words = Tail(@)]
TextOf(word) == IF "text" \in DOMAIN word THEN word.text ELSE ToString(word.number)
ReadWord(in) ==
  IF ~in.ok \/ in.words = <<>> THEN Failed(in, "")
  ELSE [value |-> TextOf(Head(in.words)), in |-> Take(in)]
ReadNumber(in) ==
  IF ~in.ok \/ in.words = <<>> THEN Failed(in, 0)
  ELSE IF "number" \notin DOMAIN Head(in.words) THEN Failed(in, 0)
  ELSE [value |-> Head(in.words).number, in |-> Take(in)]

\* n values, each read by what the last one left.
ReadMany(Read(_), n, in) ==
  FoldLeft(LAMBDA acc, i : LET r == Read(acc.in)
                           IN [value |-> Append(acc.value, r.value), in |-> r.in],
           [value |-> <<>>, in |-> in], [i \in 1 .. n |-> i])

\* operator >>.
ReadCol(in) ==
  LET tab_name == ReadWord(in)          name == ReadWord(tab_name.in)
      type == ReadNumber(name.in)       len == ReadNumber(type.in)
      offset == ReadNumber(len.in)      index == ReadNumber(offset.in)
  IN [in |-> index.in,
      value |-> [tab_name |-> tab_name.value, name |-> name.value, type |-> type.value,
                 len |-> len.value, offset |-> offset.value, index |-> index.value]]

ReadIndex(in) ==
  LET tab_name == ReadWord(in)
      tot == ReadNumber(tab_name.in)    num == ReadNumber(tot.in)
      cols == ReadMany(ReadCol, num.value, num.in)
  IN [in |-> cols.in,
      value |-> [tab_name |-> tab_name.value, col_tot_len |-> tot.value,
                 col_num |-> num.value, cols |-> cols.value]]

ReadTab(in) ==
  LET name == ReadWord(in)              n == ReadNumber(name.in)
      cols == ReadMany(ReadCol, n.value, n.in)
      m == ReadNumber(cols.in)
      indexes == ReadMany(ReadIndex, m.value, m.in)
  IN [in |-> indexes.in,
      value |-> [name |-> name.value, cols |-> cols.value, indexes |-> indexes.value]]

ReadDb(in) ==
  LET name == ReadWord(in)              n == ReadNumber(name.in)
      tabs == ReadMany(ReadTab, n.value, n.in)
  IN [in |-> tabs.in, value |-> [name |-> name.value, tabs |-> tabs.value]]
-----------------------------------------------------------------------------
Init == db \in Catalogues /\ file = <<>> /\ back = Stream(<<>>) /\ at = "write"

FlushMeta ==
  /\ at = "write"
  /\ file' = WriteDb(db)
  /\ at' = "read"
  /\ UNCHANGED <<db, back>>

Load ==
  /\ at = "read"
  /\ back' = ReadDb(Stream(file))
  /\ at' = "done"
  /\ UNCHANGED <<db, file>>

Next == FlushMeta \/ Load
Spec == Init /\ [][Next]_vars

\* What operator >> reads from the file operator << wrote is the catalogue: the
\* counts, the nested lists of columns and indexes and the order of the fields
\* agree in the four pairs of operators, and no read fails or stops early.
ReadsBack == at = "done" => back = [value |-> db, in |-> Stream(<<>>)]
=============================================================================
