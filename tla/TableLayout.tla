---------------------------- MODULE TableLayout ----------------------------
(***************************************************************************)
(* SmManager::create_table (src/src/system/sm_manager.cpp) lays the        *)
(* columns of a table out in a record, one after the other, and            *)
(* RmManager::create_file accepts or refuses the record size and divides   *)
(* pages of that file into slots.  curr_offset is an int: adding a length  *)
(* to it wraps round.                                                      *)
(***************************************************************************)
EXTENDS PageLayout, Sequences

CONSTANTS
  INT_MAX,    \* the largest int
  Lens,       \* the lengths a column may have: positive ints
  MaxCols     \* bound: columns of a table

ASSUME TableAssumption ==
  /\ INT_MAX \in Nat /\ RM_MAX_RECORD_SIZE <= INT_MAX
  /\ Lens \subseteq 1 .. INT_MAX
  /\ MaxCols \in Nat

VARIABLES
  cols,          \* tab.cols: offset and length of each column
  curr_offset,
  total,         \* history: the sum of the lengths, without wrapping
  record_size,   \* of the file, 0 until create_file has accepted it
  layout         \* "columns", "file", "created", "refused"

layoutVars == <<cols, curr_offset, total, record_size, layout>>

LayoutInit == cols = <<>> /\ curr_offset = 0 /\ total = 0 /\ record_size = 0 /\ layout = "columns"

\* An int addition of two numbers that are not both negative.
Wrap(n) == IF n > INT_MAX THEN n - 2 * INT_MAX - 2 ELSE n

\* Mutant: the offset of the column before it.
AddColumnShort(len) ==
  /\ layout = "columns"
  /\ Len(cols) < MaxCols
  /\ cols' = Append(cols, [offset |-> curr_offset, len |-> len])
  /\ curr_offset' = IF cols = <<>> THEN Wrap(len) ELSE Wrap(cols[Len(cols)].offset + len)
  /\ total' = total + len
  /\ UNCHANGED <<record_size, layout>>

AddColumn(len) ==
  /\ layout = "columns"
  /\ Len(cols) < MaxCols
  /\ cols' = Append(cols, [offset |-> curr_offset, len |-> len])
  /\ curr_offset' = Wrap(curr_offset + len)
  /\ total' = total + len
  /\ UNCHANGED <<record_size, layout>>

EndColumns ==
  /\ layout = "columns"
  /\ layout' = "file"
  /\ UNCHANGED <<cols, curr_offset, total, record_size>>

\* create_file: InvalidRecordSizeError, or the header of the file.
CreateFile ==
  /\ layout = "file"
  /\ IF curr_offset < 1 \/ curr_offset > RM_MAX_RECORD_SIZE
     THEN layout' = "refused" /\ UNCHANGED record_size
     ELSE layout' = "created" /\ record_size' = curr_offset
  /\ UNCHANGED <<cols, curr_offset, total>>

LayoutNext == (\E len \in Lens : AddColumn(len)) \/ EndColumns \/ CreateFile
LayoutSpec == LayoutInit /\ [][LayoutNext]_layoutVars
-----------------------------------------------------------------------------
\* Types of the state of create_table.
LayoutTypeOK ==
  /\ cols \in Seq([offset : Int, len : Lens])
  /\ curr_offset \in Int
  /\ total \in Nat
  /\ record_size \in 0 .. RM_MAX_RECORD_SIZE
  /\ layout \in {"columns", "file", "created", "refused"}

\* As long as the lengths of a table's columns add up to an int, no column of
\* a record shares a byte with another one, and every column is inside the
\* record: what an insert copies into one field and into its record never
\* touches another field or what follows the record.
ColumnsApart ==
  total <= INT_MAX =>
    /\ \A i \in 1 .. Len(cols), j \in 1 .. Len(cols) :
         i < j => cols[i].offset + cols[i].len <= cols[j].offset
    /\ layout = "created" =>
         \A i \in 1 .. Len(cols) : /\ 0 <= cols[i].offset
                                   /\ cols[i].offset + cols[i].len <= record_size

\* A page of a file that create_file accepted holds the header, the bitmap and
\* all its slots, and a slot ends where the next one starts (rm_manager.h:46
\* "We have: sizeof(hdr) + (n + 7) / 8 + n * record_size <= PAGE_SIZE").
SlotsApart ==
  layout = "created" =>
    \A s \in 0 .. RecordsPerPage(record_size) - 1 :
      /\ Bucket(s) < BitmapSize(record_size)
      /\ SlotStart(record_size, s) >= SlotsStart(record_size)
      /\ SlotStart(record_size, s) + record_size <= PAGE_SIZE
      /\ SlotStart(record_size, s) + record_size <= SlotStart(record_size, s + 1)

\* "record_size就是col meta所占的大小" (sm_manager.cpp:176): the record size is
\* what the columns take.
RecordSizeIsColumns == layout = "created" => record_size = total
=============================================================================
