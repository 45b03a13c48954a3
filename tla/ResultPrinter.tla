--------------------------- MODULE ResultPrinter ---------------------------
(***************************************************************************)
(* RecordPrinter (src/src/record_printer.h), as QlManager::select_from,    *)
(* SmManager::show_tables and SmManager::desc_table drive it: a table is   *)
(* printed into the answer of a statement, data_send_, whose size is       *)
(* fixed.  Only lengths matter: a cell is cut or padded to COL_WIDTH       *)
(* characters, a piece that does not fit is left out and ellipsis_ is set, *)
(* and room is kept for the line with the number of records.               *)
(***************************************************************************)
EXTENDS Integers

CONSTANTS
  BUFFER_LENGTH,
  RECORD_COUNT_LENGTH,
  COL_WIDTH,
  MaxPrinted,          \* bound: columns of a result
  MaxRows              \* bound: records of a result

ASSUME PrinterAssumption ==
  /\ BUFFER_LENGTH \in Nat /\ RECORD_COUNT_LENGTH \in Nat /\ COL_WIDTH \in Nat
  /\ RECORD_COUNT_LENGTH < BUFFER_LENGTH
  /\ MaxPrinted \in Nat /\ MaxRows \in Nat

VARIABLES
  num_cols,
  counted,     \* whether the number of records is printed: select_from does
  line,        \* the line being printed
  col,         \* the piece of that line: a column, or num_cols for its end
  offset,      \* *offset_
  ellipsis,    \* ellipsis_
  num_rec,
  digits,      \* of num_rec
  dropped      \* history: whether a piece has been left out

printerVars == <<num_cols, counted, line, col, offset, ellipsis, num_rec, digits, dropped>>

Separators == {"top", "under", "foot"}
Lines == Separators \cup {"head", "record", "next", "count", "done"}

PrinterInit ==
  /\ num_cols \in 1 .. MaxPrinted
  /\ counted \in BOOLEAN
  /\ line = "top"
  /\ col = 0
  /\ offset = 0
  /\ ellipsis = FALSE
  /\ num_rec = 0
  /\ digits = 1
  /\ dropped = FALSE

\* "+------------------" and "| cell " are as long as each other.
CellLength == COL_WIDTH + 3
EndLength == 2

\* Mutant: no room is kept for the count.
FitsExactly(len) == ~ellipsis /\ offset + len < BUFFER_LENGTH

Fits(len) == ~ellipsis /\ offset + RECORD_COUNT_LENGTH + len < BUFFER_LENGTH

\* Mutant: a cell that does not fit is left out silently.
PrintCellSilent ==
  /\ line \in Separators \cup {"head", "record"}
  /\ col < num_cols
  /\ col' = col + 1
  /\ IF Fits(CellLength)
     THEN offset' = offset + CellLength /\ UNCHANGED <<ellipsis, dropped>>
     ELSE dropped' = TRUE /\ UNCHANGED <<offset, ellipsis>>
  /\ UNCHANGED <<num_cols, counted, line, num_rec, digits>>

\* A column's piece of a separator or of a record.
PrintCell ==
  /\ line \in Separators \cup {"head", "record"}
  /\ col < num_cols
  /\ col' = col + 1
  /\ IF Fits(CellLength)
     THEN offset' = offset + CellLength /\ UNCHANGED <<ellipsis, dropped>>
     ELSE ellipsis' = TRUE /\ dropped' = TRUE /\ UNCHANGED offset
  /\ UNCHANGED <<num_cols, counted, line, num_rec, digits>>

\* The line that comes after this one.
After == CASE line = "top" -> "head"
           [] line = "head" -> "under"
           [] line = "under" -> "next"
           [] line = "record" -> "next"
           [] line = "foot" -> IF counted THEN "count" ELSE "done"

\* The end of a separator, and of a record: there ellipsis_ is not set.
PrintEnd ==
  /\ line \in Separators \cup {"head", "record"}
  /\ col = num_cols
  /\ col' = 0
  /\ line' = After
  /\ IF Fits(EndLength)
     THEN offset' = offset + EndLength /\ UNCHANGED <<ellipsis, dropped>>
     ELSE /\ ellipsis' = (ellipsis \/ line \in Separators)
          /\ dropped' = TRUE
          /\ UNCHANGED offset
  /\ UNCHANGED <<num_cols, counted, num_rec, digits>>

\* The loop over the records: one more, or the end of the table.
NextRecord ==
  /\ line = "next"
  /\ num_rec < MaxRows
  /\ line' = "record"
  /\ num_rec' = num_rec + 1
  /\ digits' = IF num_rec + 1 = 10 ^ digits THEN digits + 1 ELSE digits
  /\ UNCHANGED <<num_cols, counted, col, offset, ellipsis, dropped>>
LastRecord ==
  /\ line = "next"
  /\ line' = "foot"
  /\ UNCHANGED <<num_cols, counted, col, offset, ellipsis, num_rec, digits, dropped>>

\* "... ...\n" if something is missing, "Total record(s): " and the number.
CountLength == (IF ellipsis THEN 8 ELSE 0) + 17 + digits + 1
PrintRecordCount ==
  /\ line = "count"
  /\ offset' = offset + CountLength
  /\ line' = "done"
  /\ UNCHANGED <<num_cols, counted, col, ellipsis, num_rec, digits, dropped>>

PrinterNext == PrintCell \/ PrintEnd \/ NextRecord \/ LastRecord \/ PrintRecordCount
PrinterSpec == PrinterInit /\ [][PrinterNext]_printerVars
-----------------------------------------------------------------------------
\* Types of the printer's state.
PrinterTypeOK ==
  /\ num_cols \in 1 .. MaxPrinted
  /\ counted \in BOOLEAN
  /\ line \in Lines
  /\ col \in 0 .. num_cols
  /\ offset \in Nat
  /\ ellipsis \in BOOLEAN
  /\ num_rec \in 0 .. MaxRows
  /\ digits \in Nat
  /\ dropped \in BOOLEAN

\* The answer, with the zero byte the server sends after it, fits data_send_,
\* however many columns and records there are, as long as the count line is
\* no longer than the room kept for it (numbers of up to 14 digits).
FitsBuffer == 26 + digits <= RECORD_COUNT_LENGTH => offset + 1 <= BUFFER_LENGTH

\* What is sent is the beginning of the table: once a piece has been left out
\* no later piece is printed, although the end of a record does not set
\* ellipsis_ (record_printer.h:71-75) and is shorter than a cell.
NothingAfterGap ==
  [][dropped /\ line # "count" => offset' = offset]_printerVars

\* A count line says "... ..." exactly if a piece of the table is missing.
EllipsisTold == line = "count" => (ellipsis <=> dropped)
=============================================================================
