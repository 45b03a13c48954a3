----------------------------- MODULE RecordPage -----------------------------
(***************************************************************************)
(* One page of a table's file, byte by byte: the header RmPageHdr, the     *)
(* bitmap (src/src/record/bitmap.h) and the slots, as insert_record,       *)
(* delete_record and update_record of RmFileHandle write them.  A byte of  *)
(* the bitmap is the set of its bits, a byte of a record is the record's   *)
(* value and its place in the record, and the count of records is one cell *)
(* of the header.                                                          *)
(***************************************************************************)
EXTENDS PageLayout, FiniteSets

CONSTANTS Values     \* what a record may hold

VARIABLES
  slot_size,  \* file_hdr_.record_size
  page_data,  \* the bytes of the page
  records     \* history: the records the page should hold, by slot

recordPageVars == <<slot_size, page_data, records>>

ZeroByte == {}
FreeSlot == "free"

ASSUME PageAssumption == FreeSlot \notin Values /\ PageHdrSize > 0

Records == RecordsPerPage(slot_size)
CountCell == OFFSET_PAGE_HDR + PageHdrSize - 1    \* the cell of num_records

\* Bitmap::is_set, set and reset.
IsSet(pos) == Bit(pos) \in page_data[BitmapStart + Bucket(pos)]
BitSet(bytes, pos) == [bytes EXCEPT ![BitmapStart + Bucket(pos)] = @ \cup {Bit(pos)}]
\* Mutant: the whole byte is cleared.
BitResetByte(bytes, pos) == [bytes EXCEPT ![BitmapStart + Bucket(pos)] = {}]
BitReset(bytes, pos) == [bytes EXCEPT ![BitmapStart + Bucket(pos)] = @ \ {Bit(pos)}]

\* Bitmap::next_bit over [curr + 1, Records), and first_bit.
NextBit(bit, curr) ==
  IF \E i \in curr + 1 .. Records - 1 : IsSet(i) = bit
  THEN CHOOSE i \in curr + 1 .. Records - 1 :
         IsSet(i) = bit /\ \A j \in curr + 1 .. i - 1 : IsSet(j) # bit
  ELSE Records
FirstBit(bit) == NextBit(bit, -1)

\* memcpy of a record into get_slot(slot_no).
Copy(bytes, slot_no, v) ==
  [b \in DOMAIN bytes |->
     IF b \in SlotStart(slot_size, slot_no)
                .. SlotStart(slot_size, slot_no) + slot_size - 1
     THEN <<v, b - SlotStart(slot_size, slot_no)>> ELSE bytes[b]]

\* create_new_page_handle: the page is zeros, the header says no records.
RecordPageInit ==
  /\ slot_size \in 1 .. RM_MAX_RECORD_SIZE
  /\ page_data = [b \in 0 .. PAGE_SIZE - 1 |-> IF b = CountCell THEN 0 ELSE ZeroByte]
  /\ records = [s \in 0 .. Records - 1 |-> FreeSlot]

\* Mutant: a full page is not noticed.
InsertUnchecked(v) ==
  LET slot_no == FirstBit(FALSE)
  IN /\ page_data' = [BitSet(Copy(page_data, slot_no, v), slot_no) EXCEPT ![CountCell] = @ + 1]
     /\ records' = [records EXCEPT ![slot_no] = v]
     /\ UNCHANGED slot_size

Insert(v) ==
  LET slot_no == FirstBit(FALSE)
  IN /\ slot_no # Records
     /\ page_data' = [BitSet(Copy(page_data, slot_no, v), slot_no) EXCEPT ![CountCell] = @ + 1]
     /\ records' = [records EXCEPT ![slot_no] = v]
     /\ UNCHANGED slot_size

Delete(slot_no) ==
  /\ IsSet(slot_no)
  /\ page_data' = [BitReset(page_data, slot_no) EXCEPT ![CountCell] = @ - 1]
  /\ records' = [records EXCEPT ![slot_no] = FreeSlot]
  /\ UNCHANGED slot_size

Update(slot_no, v) ==
  /\ IsSet(slot_no)
  /\ page_data' = Copy(page_data, slot_no, v)
  /\ records' = [records EXCEPT ![slot_no] = v]
  /\ UNCHANGED slot_size

RecordPageNext ==
  \/ \E v \in Values : Insert(v)
  \/ \E s \in 0 .. Records - 1 : Delete(s) \/ \E v \in Values : Update(s, v)

RecordPageSpec == RecordPageInit /\ [][RecordPageNext]_recordPageVars
-----------------------------------------------------------------------------
\* The bytes of the page hold exactly the records put there: no write to a
\* slot, to the bitmap or to the header changes another record, the bitmap or
\* the count, for every record size and any sequence of operations.  The bits
\* of the bitmap past the last slot stay clear, so next_bit and the scan never
\* see a slot that is not there.
PageHoldsRecords ==
  /\ \A s \in 0 .. Records - 1 :
       /\ IsSet(s) <=> records[s] # FreeSlot
       /\ records[s] # FreeSlot =>
            \A i \in 0 .. slot_size - 1 :
              page_data[SlotStart(slot_size, s) + i] = <<records[s], i>>
  /\ page_data[CountCell] = Cardinality({s \in 0 .. Records - 1 : records[s] # FreeSlot})
  /\ \A b \in 0 .. BitmapSize(slot_size) - 1 :
       \A bit \in page_data[BitmapStart + b] :
         b * BITMAP_WIDTH + (BITMAP_WIDTH - 1 - bit) < Records
=============================================================================
