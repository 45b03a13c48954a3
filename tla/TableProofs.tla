---------------------------- MODULE TableProofs -----------------------------
(***************************************************************************)
(* For every page size, record size, list of columns and buffer length:    *)
(* the columns of a record and the slots of a page do not overlap          *)
(* (TableLayout), the bytes of a page hold the records put there           *)
(* (RecordPage), and a result is cut where the answer's buffer ends        *)
(* (ResultPrinter).  For every catalogue and statement: the conditions that *)
(* leave the analysis are typed (Analyzer).                                *)
(***************************************************************************)
EXTENDS TableLayout, RecordPage, ResultPrinter, Analyzer, FiniteSetTheorems,
        WellFoundedInduction, TLAPS

\* A page holds the header, the bitmap and the slots of the records that
\* create_file divides it into.
LEMMA RecordsFit ==
  ASSUME NEW r \in Nat, r >= 1
  PROVE  /\ RecordsPerPage(r) \in Nat
         /\ BitmapSize(r) \in Nat
         /\ RecordsPerPage(r) <= BITMAP_WIDTH * BitmapSize(r)
         /\ SlotsStart(r) + RecordsPerPage(r) * r <= PAGE_SIZE
<1> USE LayoutAssumption DEF BITMAP_WIDTH
<1> DEFINE n == RecordsPerPage(r)
           b == BitmapSize(r)
           room == 8 * (PAGE_SIZE - 1 - FileHdrSize) + 1
<1>1. room \in Nat /\ 1 + r * 8 \in Nat /\ 1 + r * 8 > 0
  OBVIOUS
<1>2. n \in Nat /\ n * (1 + r * 8) <= room
  <2> HIDE DEF room
  <2>1. \A x, y \in Nat : y > 0 => x \div y \in Nat /\ (x \div y) * y <= x
    OBVIOUS
  <2>2. n = room \div (1 + r * 8)
    BY DEF RecordsPerPage, room
  <2> QED
    BY <1>1, <2>1, <2>2
<1>3. b \in Nat /\ 8 * b <= n + 7 /\ n <= 8 * b
  <2>1. b = (n + 7) \div 8
    BY <1>2 DEF BitmapSize
  <2> HIDE DEF n, b
  <2> QED
    BY <1>2, <2>1
<1>4. n * r \in Nat /\ n * (1 + r * 8) = n + 8 * (n * r)
  BY <1>2
<1>5. SlotsStart(r) <= FileHdrSize + b
  BY <1>3 DEF SlotsStart, BitmapStart
<1>6. SlotsStart(r) \in Nat
  BY <1>3 DEF SlotsStart, BitmapStart
<1> HIDE DEF n, b
<1>7. SlotsStart(r) + n * r <= PAGE_SIZE
  BY <1>2, <1>3, <1>4, <1>5, <1>6
<1> QED
  BY <1>2, <1>3, <1>7 DEF n, b

\* A slot lies between its neighbours and in the page.
LEMMA SlotsLieApart ==
  ASSUME NEW r \in Nat, r >= 1, NEW s \in 0 .. RecordsPerPage(r) - 1
  PROVE  /\ Bucket(s) < BitmapSize(r)
         /\ SlotStart(r, s) >= SlotsStart(r)
         /\ SlotStart(r, s) + r <= PAGE_SIZE
         /\ SlotStart(r, s) + r <= SlotStart(r, s + 1)
<1>1. /\ RecordsPerPage(r) \in Nat
      /\ BitmapSize(r) \in Nat
      /\ RecordsPerPage(r) <= 8 * BitmapSize(r)
      /\ SlotsStart(r) + RecordsPerPage(r) * r <= PAGE_SIZE
  BY RecordsFit DEF BITMAP_WIDTH
<1>2. SlotsStart(r) \in Nat /\ PAGE_SIZE \in Nat
  BY <1>1, LayoutAssumption DEF SlotsStart, BitmapStart
<1> DEFINE n == RecordsPerPage(r)
<1>3. s \in Nat /\ s + 1 <= n
  BY <1>1
<1>4. Bucket(s) < BitmapSize(r)
  BY <1>1, <1>3 DEF Bucket, BITMAP_WIDTH
<1> HIDE DEF n
<1>5. n \in Nat
  BY <1>1 DEF n
<1>6. /\ s * r \in Nat /\ n * r \in Nat
      /\ (s + 1) * r = s * r + r
  BY <1>3, <1>5
<1>7. (s + 1) * r <= n * r
  <2>1. \A a, d, c \in Nat : a <= d => a * c <= d * c
    OBVIOUS
  <2> QED
    BY <1>3, <1>5, <2>1
<1> QED
  BY <1>1, <1>2, <1>4, <1>6, <1>7 DEF SlotStart, n
-----------------------------------------------------------------------------
\* The columns fill the record from its start: as long as nothing wraps,
\* curr_offset is where the last one ends.
LayoutInv ==
  /\ LayoutTypeOK
  /\ total <= INT_MAX =>
       /\ curr_offset = total
       /\ \A i \in 1 .. Len(cols) :
            0 <= cols[i].offset /\ cols[i].offset + cols[i].len <= total
       /\ \A i \in 1 .. Len(cols), j \in 1 .. Len(cols) :
            i < j => cols[i].offset + cols[i].len <= cols[j].offset
  /\ layout = "created" => record_size = curr_offset /\ record_size >= 1

\* What is known of one of the columns.
LEMMA ColumnFacts ==
  ASSUME cols \in Seq([offset : Int, len : Lens]), NEW i \in 1 .. Len(cols)
  PROVE  cols[i].offset \in Int /\ cols[i].len \in Lens
<1> DEFINE Columns == [offset : Int, len : Lens]
<1>1. \A c \in Columns : c.offset \in Int /\ c.len \in Lens
  OBVIOUS
<1>2. cols \in Seq(Columns)
  OBVIOUS
<1> HIDE DEF Columns
<1>3. cols[i] \in Columns
  BY <1>2
<1> QED
  BY <1>1, <1>3

\* create_table keeps this, column by column.
LEMMA NextLayoutInv == LayoutInv /\ [LayoutNext]_layoutVars => LayoutInv'
<1> SUFFICES ASSUME LayoutInv, [LayoutNext]_layoutVars PROVE LayoutInv'
  OBVIOUS
<1> USE TableAssumption, LayoutAssumption DEF LayoutInv, LayoutTypeOK
<1>1. ASSUME NEW len \in Lens, AddColumn(len) PROVE LayoutInv'
  <2> DEFINE new == [offset |-> curr_offset, len |-> len]
  <2>a. cols \in Seq([offset : Int, len : Lens])
    OBVIOUS
  <2>1. /\ len \in Nat /\ len >= 1
        /\ new \in [offset : Int, len : Lens]
    OBVIOUS
  <2>2. /\ cols' \in Seq([offset : Int, len : Lens])
        /\ Len(cols') = Len(cols) + 1
        /\ cols'[Len(cols) + 1] = new
        /\ \A i \in 1 .. Len(cols) : cols'[i] = cols[i]
    BY <1>1, <2>1 DEF AddColumn
  <2>3. /\ curr_offset' = Wrap(curr_offset + len) /\ total' = total + len
        /\ record_size' = record_size /\ layout' = layout /\ layout = "columns"
    BY <1>1 DEF AddColumn
  <2>4. curr_offset' \in Int /\ total' \in Nat
    BY <2>1, <2>3 DEF Wrap
  <2>5. CASE total' <= INT_MAX
    <3>1. total <= INT_MAX /\ curr_offset = total /\ curr_offset' = total'
      BY <2>1, <2>3, <2>5 DEF Wrap
    <3>2. ASSUME NEW i \in 1 .. Len(cols')
          PROVE  0 <= cols'[i].offset /\ cols'[i].offset + cols'[i].len <= total'
      <4>1. CASE i \in 1 .. Len(cols)
        <5>1. cols[i].offset \in Int /\ cols[i].len \in Lens
          BY ONLY <2>a, <4>1, ColumnFacts
        <5>2. cols[i].len \in Int
          BY ONLY <5>1, TableAssumption
        <5>3. 0 <= cols[i].offset /\ cols[i].offset + cols[i].len <= total
          BY <3>1, <4>1
        <5>4. /\ cols'[i].offset = cols[i].offset /\ cols'[i].len = cols[i].len
              /\ total' = total + len /\ total \in Nat
          BY <2>2, <2>3, <4>1
        <5>5. cols[i].offset + cols[i].len <= total + len
          BY ONLY <2>1, <5>1, <5>2, <5>3, <5>4
        <5> QED
          BY <5>3, <5>4, <5>5
      <4>2. CASE i = Len(cols) + 1
        BY <2>1, <2>2, <2>3, <3>1, <4>2
      <4> QED
        BY <2>2, <3>2, <4>1, <4>2
    <3>3. ASSUME NEW i \in 1 .. Len(cols'), NEW j \in 1 .. Len(cols'), i < j
          PROVE  cols'[i].offset + cols'[i].len <= cols'[j].offset
      <4>1. i \in 1 .. Len(cols)
        BY <2>2, <3>3
      <4>2. CASE j \in 1 .. Len(cols)
        BY <2>2, <3>1, <3>3, <4>1, <4>2, Zenon
      <4>3. CASE j = Len(cols) + 1
        <5>1. cols[i].offset + cols[i].len <= total
          BY <3>1, <4>1
        <5>2. cols'[i] = cols[i] /\ cols'[j] = new
          BY ONLY <2>2, <4>1, <4>3
        <5>3. new.offset = total
          BY ONLY <3>1
        <5> QED
          BY ONLY <5>1, <5>2, <5>3
      <4> QED
        BY <2>2, <3>3, <4>2, <4>3
    <3> QED
      BY <2>2, <2>3, <2>4, <3>1, <3>2, <3>3
  <2>6. CASE ~(total' <= INT_MAX)
    BY <2>2, <2>3, <2>4, <2>6
  <2> QED
    BY <2>5, <2>6
<1>2. CASE EndColumns
  BY <1>2 DEF EndColumns
<1>3. CASE CreateFile
  BY <1>3 DEF CreateFile
<1>4. CASE UNCHANGED layoutVars
  BY <1>4 DEF layoutVars
<1> QED
  BY <1>1, <1>2, <1>3, <1>4, Zenon DEF LayoutNext

\* create_table keeps the columns in order and in the record.
THEOREM LayoutInvariant == LayoutSpec => []LayoutInv
<1>1. LayoutInit => LayoutInv
  BY TableAssumption, LayoutAssumption DEF LayoutInit, LayoutInv, LayoutTypeOK
<1> QED BY <1>1, NextLayoutInv, PTL DEF LayoutSpec

\* create_table never lays two columns over each other or past the end of the
\* record, whatever lengths they have, as long as these add up to an int.
THEOREM ColumnsNeverOverlap == LayoutSpec => []ColumnsApart
<1>1. LayoutInv => ColumnsApart
  BY DEF LayoutInv, ColumnsApart
<1> QED BY <1>1, LayoutInvariant, PTL

\* Every slot of a page of a table that create_file accepted has its own bytes,
\* inside the page and after the bitmap, and its own bit.
THEOREM SlotsNeverOverlap == LayoutSpec => []SlotsApart
<1>1. LayoutInv => SlotsApart
  BY SlotsLieApart DEF LayoutInv, LayoutTypeOK, SlotsApart
<1> QED BY <1>1, LayoutInvariant, PTL
-----------------------------------------------------------------------------
\* Until the count is printed there is room for it; and a piece that was left
\* out has set ellipsis_, or has left too little room for any later piece.
PrinterInv ==
  /\ PrinterTypeOK
  /\ line # "done" => offset + RECORD_COUNT_LENGTH < BUFFER_LENGTH
  /\ FitsBuffer
  /\ ellipsis => dropped
  /\ dropped => ellipsis \/ offset + RECORD_COUNT_LENGTH + EndLength >= BUFFER_LENGTH
  /\ EllipsisTold

\* Every piece that RecordPrinter prints or leaves out keeps this.
LEMMA NextPrinterInv == PrinterInv /\ [PrinterNext]_printerVars => PrinterInv'
<1> SUFFICES ASSUME PrinterInv, [PrinterNext]_printerVars PROVE PrinterInv'
  OBVIOUS
<1> USE PrinterAssumption DEF PrinterInv, PrinterTypeOK, Lines, Separators, FitsBuffer,
          EllipsisTold, EndLength
<1>1. CASE PrintCell
  <2>1. col' \in 0 .. num_cols /\ UNCHANGED <<num_cols, counted, line, num_rec, digits>>
    BY <1>1 DEF PrintCell
  <2>2. line \notin {"count", "done"}
    BY <1>1 DEF PrintCell
  <2>3. CASE Fits(CellLength)
    <3>1. offset' = offset + CellLength /\ ellipsis' = ellipsis /\ dropped' = dropped
      BY <1>1, <2>3 DEF PrintCell
    <3>2. /\ ~dropped
          /\ offset' \in Nat /\ offset' + RECORD_COUNT_LENGTH < BUFFER_LENGTH
      BY <2>3, <3>1 DEF Fits, CellLength
    <3> QED
      BY <2>1, <2>2, <3>1, <3>2
  <2>4. CASE ~Fits(CellLength)
    BY <1>1, <2>1, <2>2, <2>4 DEF PrintCell
  <2> QED
    BY <2>3, <2>4
<1>2. CASE PrintEnd
  <2>1. After \in {"head", "under", "next", "count", "done"}
    BY <1>2 DEF PrintEnd, After
  <2>2. After \in {"count", "done"} => line = "foot"
    BY <1>2 DEF PrintEnd, After
  <2>3. /\ line' = After /\ col' \in 0 .. num_cols /\ line \notin {"count", "done"}
        /\ UNCHANGED <<num_cols, counted, num_rec, digits>>
    BY <1>2 DEF PrintEnd
  <2>4. CASE Fits(EndLength)
    <3>1. offset' = offset + EndLength /\ ellipsis' = ellipsis /\ dropped' = dropped
      BY <1>2, <2>4 DEF PrintEnd
    <3>2. /\ ~dropped
          /\ offset' \in Nat /\ offset' + RECORD_COUNT_LENGTH < BUFFER_LENGTH
      BY <2>4, <3>1 DEF Fits
    <3> QED
      BY <2>1, <2>3, <3>1, <3>2
  <2>5. CASE ~Fits(EndLength)
    <3>1. /\ offset' = offset /\ dropped' = TRUE
          /\ ellipsis' = (ellipsis \/ line \in Separators)
      BY <1>2, <2>5 DEF PrintEnd
    <3>2. ellipsis' \/ offset + RECORD_COUNT_LENGTH + EndLength >= BUFFER_LENGTH
      BY <2>5, <3>1 DEF Fits
    <3>3. ellipsis' \in BOOLEAN /\ (After \in {"count", "done"} => ellipsis')
      BY <2>2, <3>1, Zenon
    <3> QED
      BY <2>1, <2>3, <3>1, <3>2, <3>3
  <2> QED
    BY <2>4, <2>5
<1>3. CASE NextRecord
  BY <1>3 DEF NextRecord
<1>4. CASE LastRecord
  BY <1>4 DEF LastRecord
<1>5. CASE PrintRecordCount
  BY <1>5 DEF PrintRecordCount, CountLength
<1>6. CASE UNCHANGED printerVars
  BY <1>6 DEF printerVars
<1> QED
  BY <1>1, <1>2, <1>3, <1>4, <1>5, <1>6 DEF PrinterNext

\* A result of any size is printed within these bounds.
THEOREM PrinterInvariant == PrinterSpec => []PrinterInv
<1>1. PrinterInit => PrinterInv
  <2> SUFFICES ASSUME PrinterInit PROVE PrinterInv
    OBVIOUS
  <2> USE PrinterAssumption DEF PrinterInit
  <2>1. PrinterTypeOK
    <3>1. ellipsis \in BOOLEAN /\ dropped \in BOOLEAN
      BY Zenon
    <3>2. col \in 0 .. num_cols /\ num_rec \in 0 .. MaxRows
      OBVIOUS
    <3> QED
      BY <3>1, <3>2 DEF PrinterTypeOK, Lines, Separators
  <2>2. FitsBuffer /\ EllipsisTold
    BY DEF FitsBuffer, EllipsisTold
  <2> QED
    BY <2>1, <2>2 DEF PrinterInv
<1> QED BY <1>1, NextPrinterInv, PTL DEF PrinterSpec

\* RecordPrinter never writes past the end of data_send_, for any number of
\* columns and records.
THEOREM AnswersFit == PrinterSpec => []FitsBuffer
<1>1. PrinterInv => FitsBuffer
  BY DEF PrinterInv
<1> QED BY <1>1, PrinterInvariant, PTL

\* The count line of RecordPrinter says "... ..." exactly if something is
\* missing.
THEOREM EllipsisIsTold == PrinterSpec => []EllipsisTold
<1>1. PrinterInv => EllipsisTold
  BY DEF PrinterInv
<1> QED BY <1>1, PrinterInvariant, PTL

\* RecordPrinter prints a prefix of the table: nothing after the first piece it
\* left out.
THEOREM PrefixPrinted == PrinterSpec => NothingAfterGap
<1>1. PrinterInv /\ [PrinterNext]_printerVars
        => [dropped /\ line # "count" => offset' = offset]_printerVars
  <2> SUFFICES ASSUME PrinterInv, PrinterNext, dropped, line # "count"
               PROVE  offset' = offset
    BY DEF printerVars
  <2> USE PrinterAssumption DEF PrinterInv, PrinterTypeOK
  <2>a. ~Fits(CellLength) /\ ~Fits(EndLength)
    BY DEF Fits, CellLength, EndLength
  <2>1. CASE PrintCell
    BY <2>1, <2>a DEF PrintCell
  <2>2. CASE PrintEnd
    BY <2>2, <2>a DEF PrintEnd
  <2>3. CASE NextRecord \/ LastRecord \/ PrintRecordCount
    BY <2>3, Zenon DEF NextRecord, LastRecord, PrintRecordCount
  <2> QED
    BY <2>1, <2>2, <2>3 DEF PrinterNext
<1> QED BY <1>1, PrinterInvariant, PTL DEF PrinterSpec, NothingAfterGap
-----------------------------------------------------------------------------
\* A page of records, byte by byte.
SlotNo == 0 .. Records - 1
PageTypes ==
  /\ slot_size \in 1 .. RM_MAX_RECORD_SIZE
  /\ page_data = [b \in 0 .. PAGE_SIZE - 1 |-> page_data[b]]
  /\ records \in [SlotNo -> Values \cup {FreeSlot}]

PageInv == PageTypes /\ PageHoldsRecords

\* A set of numbers has a least one.
LEMMA LeastNatural ==
  ASSUME NEW T \in SUBSET Nat, T # {}
  PROVE  \E i \in T : \A j \in T : i <= j
<1> DEFINE less == {ss \in Nat \X Nat : ss[1] < ss[2]}
<1>1. less = OpToRel(<, Nat)
  BY Zenon DEF OpToRel
<1>2. IsWellFoundedOn(less, Nat)
  BY <1>1, NatLessThanWellFounded, Zenon
<1>3. PICK i \in T : \A j \in T : ~(<<j, i>> \in less)
  <2> HIDE DEF less
  <2> QED BY <1>2, WFMin, Zenon
<1>4. \A j \in T : ~(j < i)
  BY <1>3, Zenon
<1> QED BY <1>4

\* A position is its byte and its bit.
LEMMA PositionFacts ==
  ASSUME NEW s \in Nat
  PROVE  /\ Bucket(s) \in Nat /\ Bit(s) \in 0 .. 7
         /\ s = Bucket(s) * BITMAP_WIDTH + (BITMAP_WIDTH - 1 - Bit(s))
BY DEF Bucket, Bit, BITMAP_WIDTH

\* The count, the bytes of the bitmap and the slots lie apart.
LEMMA PageRegions ==
  ASSUME PageTypes
  PROVE  /\ slot_size \in Nat /\ slot_size >= 1 /\ Records \in Nat /\ BitmapSize(slot_size) \in Nat
         /\ BitmapStart \in Nat /\ CountCell \in 0 .. PAGE_SIZE - 1 /\ CountCell < BitmapStart
         /\ SlotsStart(slot_size) = BitmapStart + BitmapSize(slot_size)
         /\ SlotsStart(slot_size) \in Nat /\ SlotsStart(slot_size) <= PAGE_SIZE
         /\ \A s \in SlotNo :
              /\ s \in Nat /\ Bucket(s) \in 0 .. BitmapSize(slot_size) - 1
              /\ SlotStart(slot_size, s) \in Nat
              /\ SlotStart(slot_size, s) >= SlotsStart(slot_size)
              /\ SlotStart(slot_size, s) + slot_size <= PAGE_SIZE
<1>1. slot_size \in Nat /\ slot_size >= 1
  BY LayoutAssumption DEF PageTypes
<1>2. PICK r \in Nat : r = slot_size /\ r >= 1
  BY <1>1
<1>3. /\ Records \in Nat /\ Records = RecordsPerPage(r) /\ BitmapSize(r) \in Nat
      /\ SlotsStart(r) + Records * r <= PAGE_SIZE
  BY <1>2, RecordsFit DEF Records
<1>4. BitmapStart \in Nat /\ CountCell \in Nat /\ CountCell + 1 = BitmapStart
  BY LayoutAssumption, PageAssumption DEF BitmapStart, CountCell
<1>5. SlotsStart(r) = BitmapStart + BitmapSize(r) /\ SlotsStart(r) \in Nat
  BY <1>3, <1>4 DEF SlotsStart
<1>6. SlotsStart(r) <= PAGE_SIZE
  <2>1. Records * r \in Nat
    BY <1>2, <1>3
  <2> QED BY <1>3, <1>5, <2>1, LayoutAssumption
<1>7. ASSUME NEW s \in SlotNo
      PROVE  /\ s \in Nat /\ Bucket(s) \in 0 .. BitmapSize(r) - 1
             /\ SlotStart(r, s) \in Nat
             /\ SlotStart(r, s) >= SlotsStart(r)
             /\ SlotStart(r, s) + r <= PAGE_SIZE
  <2>1. s \in Nat /\ s \in 0 .. RecordsPerPage(r) - 1
    BY <1>3 DEF SlotNo
  <2>2. /\ Bucket(s) < BitmapSize(r) /\ SlotStart(r, s) >= SlotsStart(r)
        /\ SlotStart(r, s) + r <= PAGE_SIZE
    BY <1>2, <2>1, SlotsLieApart
  <2>3. Bucket(s) \in Nat
    BY <2>1, PositionFacts
  <2>4. SlotStart(r, s) \in Nat
    BY <1>2, <1>5, <2>1 DEF SlotStart
  <2> QED BY <1>3, <2>1, <2>2, <2>3, <2>4
<1>8. CountCell \in 0 .. PAGE_SIZE - 1 /\ CountCell < BitmapStart
  BY <1>3, <1>4, <1>5, <1>6, LayoutAssumption
<1> QED BY <1>2, <1>3, <1>4, <1>5, <1>6, <1>7, <1>8

\* Two slots do not share a byte.
LEMMA TwoSlots ==
  ASSUME PageTypes, NEW s \in SlotNo, NEW t \in SlotNo, s # t,
         NEW i \in 0 .. slot_size - 1, NEW j \in 0 .. slot_size - 1
  PROVE  SlotStart(slot_size, s) + i # SlotStart(slot_size, t) + j
<1>1. PICK r \in Nat : r = slot_size /\ r >= 1
  BY PageRegions
<1>2. PICK a \in Nat : a = SlotsStart(r)
  BY <1>1, PageRegions
<1>3. s \in Nat /\ t \in Nat /\ i \in 0 .. r - 1 /\ j \in 0 .. r - 1
  BY <1>1, PageRegions
<1>4. SlotStart(slot_size, s) = a + s * r /\ SlotStart(slot_size, t) = a + t * r
  BY <1>1, <1>2 DEF SlotStart
<1>5. \A x, y \in Nat : x < y => x * r + r <= y * r
  <2>1. \A x, y, z \in Nat : x <= y => x * z <= y * z
    OBVIOUS
  <2>2. \A x \in Nat : (x + 1) * r = x * r + r
    BY <1>1
  <2> SUFFICES ASSUME NEW x \in Nat, NEW y \in Nat, x < y PROVE x * r + r <= y * r
    OBVIOUS
  <2>3. (x + 1) * r <= y * r
    BY <1>1, <2>1
  <2> QED BY <2>2, <2>3
<1>6. s * r \in Nat /\ t * r \in Nat
  BY <1>1, <1>3
<1>7. CASE s < t
  <2>1. s * r + r <= t * r
    BY <1>3, <1>5, <1>7
  <2> QED BY <1>1, <1>2, <1>3, <1>4, <1>6, <2>1
<1>8. CASE t < s
  <2>1. t * r + r <= s * r
    BY <1>3, <1>5, <1>8
  <2> QED BY <1>1, <1>2, <1>3, <1>4, <1>6, <2>1
<1> QED BY <1>3, <1>7, <1>8
\* first_bit(false) is a slot whose bit is clear, if there is one.
LEMMA FirstBitFacts ==
  ASSUME PageTypes, FirstBit(FALSE) # Records
  PROVE  FirstBit(FALSE) \in SlotNo /\ ~IsSet(FirstBit(FALSE))
<1> DEFINE found == {i \in SlotNo : ~IsSet(i)}
<1>1. -1 + 1 = 0
  OBVIOUS
<1>2. /\ found # {}
      /\ FirstBit(FALSE) = CHOOSE i \in SlotNo :
                             IsSet(i) = FALSE /\ \A j \in 0 .. i - 1 : IsSet(j) # FALSE
  BY <1>1, Zenon DEF FirstBit, NextBit, SlotNo
<1>3. PICK i \in found : \A j \in found : i <= j
  <2>1. found \in SUBSET Nat
    BY DEF SlotNo
  <2> QED BY <1>2, <2>1, LeastNatural, Zenon
<1>4. \A j \in 0 .. i - 1 : j \in SlotNo /\ j \notin found
  <2>1. i \in 0 .. Records - 1 /\ Records \in Nat
    BY <1>3, PageRegions DEF SlotNo
  <2>2. \A j \in 0 .. i - 1 : j \in SlotNo /\ ~(i <= j)
    BY <2>1 DEF SlotNo
  <2> QED BY <1>3, <2>2, Zenon
<1>5. IsSet(i) = FALSE /\ \A j \in 0 .. i - 1 : IsSet(j) # FALSE
  <2>1. \A j : IsSet(j) \in BOOLEAN
    BY DEF IsSet
  <2>2. ~IsSet(i) /\ \A j \in 0 .. i - 1 : IsSet(j)
    BY <1>3, <1>4, Zenon
  <2> QED BY <2>1, <2>2, Zenon
<1> QED BY <1>2, <1>3, <1>5, Zenon

CopyEffect(c, s, v) ==
  /\ c = [b \in 0 .. PAGE_SIZE - 1 |-> c[b]]
  /\ c[CountCell] = page_data[CountCell]
  /\ \A b \in 0 .. BitmapSize(slot_size) - 1 :
       c[BitmapStart + b] = page_data[BitmapStart + b]
  /\ \A i \in 0 .. slot_size - 1 : c[SlotStart(slot_size, s) + i] = <<v, i>>
  /\ \A t \in SlotNo : t # s => \A i \in 0 .. slot_size - 1 :
       c[SlotStart(slot_size, t) + i] = page_data[SlotStart(slot_size, t) + i]

BitEffect(d, c, k, X, y) ==
  /\ d = [b \in 0 .. PAGE_SIZE - 1 |-> d[b]]
  /\ d[CountCell] = y
  /\ d[BitmapStart + k] = X
  /\ \A b \in 0 .. BitmapSize(slot_size) - 1 :
       b # k => d[BitmapStart + b] = c[BitmapStart + b]
  /\ \A t \in SlotNo : \A i \in 0 .. slot_size - 1 :
       d[SlotStart(slot_size, t) + i] = c[SlotStart(slot_size, t) + i]

\* memcpy into a slot changes that slot only.
LEMMA CopyFacts ==
  ASSUME PageTypes, NEW s \in SlotNo, NEW v, NEW c, c = Copy(page_data, s, v)
  PROVE  CopyEffect(c, s, v)
<1>1. PICK r \in Nat : r = slot_size /\ r >= 1
  BY PageRegions
<1>2. PICK a \in Nat : a = SlotStart(slot_size, s)
  BY PageRegions
<1>3. DOMAIN page_data = 0 .. PAGE_SIZE - 1
  BY Zenon DEF PageTypes
<1>4. c = [b \in 0 .. PAGE_SIZE - 1 |->
             IF b \in a .. a + r - 1 THEN <<v, b - a>> ELSE page_data[b]]
  BY <1>1, <1>2, <1>3 DEF Copy
<1>5. c = [b \in 0 .. PAGE_SIZE - 1 |-> c[b]]
  BY <1>4, Zenon
<1>6. PAGE_SIZE \in Nat
  BY LayoutAssumption
<1>7. /\ SlotsStart(slot_size) \in Nat /\ a >= SlotsStart(slot_size) /\ a + r <= PAGE_SIZE
      /\ SlotsStart(slot_size) = BitmapStart + BitmapSize(slot_size)
      /\ BitmapStart \in Nat /\ BitmapSize(slot_size) \in Nat
      /\ CountCell \in 0 .. PAGE_SIZE - 1 /\ CountCell < BitmapStart
  BY <1>1, <1>2, PageRegions
<1>8. \A b \in 0 .. PAGE_SIZE - 1 : b < SlotsStart(slot_size) => c[b] = page_data[b]
  BY <1>4, <1>6, <1>7
<1>9. c[CountCell] = page_data[CountCell]
  BY <1>6, <1>7, <1>8
<1>10. \A b \in 0 .. BitmapSize(slot_size) - 1 :
         c[BitmapStart + b] = page_data[BitmapStart + b]
  BY <1>1, <1>6, <1>7, <1>8
<1>11. ASSUME NEW i \in 0 .. slot_size - 1 PROVE c[SlotStart(slot_size, s) + i] = <<v, i>>
  <2>1. a + i \in a .. a + r - 1 /\ a + i \in 0 .. PAGE_SIZE - 1 /\ (a + i) - a = i
    BY <1>1, <1>6, <1>7
  <2> QED BY <1>2, <1>4, <2>1
<1>12. ASSUME NEW t \in SlotNo, t # s, NEW i \in 0 .. slot_size - 1
       PROVE  c[SlotStart(slot_size, t) + i] = page_data[SlotStart(slot_size, t) + i]
  <2>1. PICK x \in Nat : x = SlotStart(slot_size, t) /\ x + r <= PAGE_SIZE
    BY <1>1, PageRegions
  <2>2. x + i \in 0 .. PAGE_SIZE - 1
    BY <1>1, <1>6, <2>1
  <2>3. x + i \notin a .. a + r - 1
    <3>1. ASSUME x + i \in a .. a + r - 1 PROVE FALSE
      <4>1. (x + i) - a \in 0 .. slot_size - 1 /\ a + ((x + i) - a) = x + i
        BY <1>1, <3>1
      <4>2. a + ((x + i) - a) # x + i
        BY <1>2, <1>12, <2>1, <4>1, TwoSlots
      <4> QED BY <4>1, <4>2
    <3> QED BY <3>1
  <2> QED BY <1>4, <2>1, <2>2, <2>3
<1> QED BY <1>5, <1>9, <1>10, <1>11, <1>12, Zenon DEF CopyEffect

\* The byte of a bit is neither the count, nor another byte of the bitmap,
\* nor in a slot.
LEMMA BitmapByte ==
  ASSUME PageTypes, NEW k \in 0 .. BitmapSize(slot_size) - 1
  PROVE  /\ BitmapStart + k \in 0 .. PAGE_SIZE - 1 /\ BitmapStart + k # CountCell
         /\ \A b \in 0 .. BitmapSize(slot_size) - 1 : b # k => BitmapStart + b # BitmapStart + k
         /\ \A t \in SlotNo : \A i \in 0 .. slot_size - 1 :
              /\ SlotStart(slot_size, t) + i \in 0 .. PAGE_SIZE - 1
              /\ SlotStart(slot_size, t) + i # CountCell
              /\ SlotStart(slot_size, t) + i # BitmapStart + k
<1>1. /\ SlotsStart(slot_size) \in Nat /\ SlotsStart(slot_size) <= PAGE_SIZE
      /\ SlotsStart(slot_size) = BitmapStart + BitmapSize(slot_size)
      /\ BitmapStart \in Nat /\ BitmapSize(slot_size) \in Nat
      /\ CountCell \in Nat /\ CountCell < BitmapStart /\ PAGE_SIZE \in Nat
  BY PageRegions, LayoutAssumption
<1>2. /\ BitmapStart + k \in 0 .. PAGE_SIZE - 1 /\ BitmapStart + k # CountCell
      /\ BitmapStart + k < SlotsStart(slot_size) /\ BitmapStart + k \in Nat
  BY <1>1
<1>3. \A b \in 0 .. BitmapSize(slot_size) - 1 : b # k => BitmapStart + b # BitmapStart + k
  BY <1>1
<1>4. ASSUME NEW t \in SlotNo, NEW i \in 0 .. slot_size - 1
      PROVE  /\ SlotStart(slot_size, t) + i \in 0 .. PAGE_SIZE - 1
             /\ SlotStart(slot_size, t) + i # CountCell
             /\ SlotStart(slot_size, t) + i # BitmapStart + k
  <2>1. PICK x \in Nat : /\ x = SlotStart(slot_size, t) /\ x >= SlotsStart(slot_size)
                         /\ x + slot_size <= PAGE_SIZE /\ slot_size \in Nat
    BY PageRegions
  <2>2. x + i \in 0 .. PAGE_SIZE - 1 /\ x + i >= SlotsStart(slot_size)
    BY <1>1, <2>1
  <2>3. x + i # CountCell /\ x + i # BitmapStart + k
    BY <1>1, <1>2, <2>1, <2>2
  <2> QED BY <2>1, <2>2, <2>3
<1> QED BY <1>2, <1>3, <1>4

\* A write to a byte of the bitmap and to the count changes nothing else.
LEMMA BitFacts ==
  ASSUME PageTypes, NEW c, c = [b \in 0 .. PAGE_SIZE - 1 |-> c[b]],
         NEW k \in 0 .. BitmapSize(slot_size) - 1, NEW X, NEW y, NEW d,
         d = [[c EXCEPT ![BitmapStart + k] = X] EXCEPT ![CountCell] = y]
  PROVE  BitEffect(d, c, k, X, y)
<1> DEFINE Cells == 0 .. PAGE_SIZE - 1
<1>1. CountCell \in Cells
  BY PageRegions, Zenon
<1>2. BitmapStart + k \in Cells /\ BitmapStart + k # CountCell
  BY BitmapByte, Zenon
<1>3. \A b \in 0 .. BitmapSize(slot_size) - 1 : b # k =>
        /\ BitmapStart + b \in Cells /\ BitmapStart + b # CountCell
        /\ BitmapStart + b # BitmapStart + k
  BY BitmapByte, Zenon
<1>4. \A t \in SlotNo : \A i \in 0 .. slot_size - 1 :
        /\ SlotStart(slot_size, t) + i \in Cells
        /\ SlotStart(slot_size, t) + i # CountCell
        /\ SlotStart(slot_size, t) + i # BitmapStart + k
  BY BitmapByte, Zenon
<1>5. DOMAIN c = Cells
  BY Zenon
<1> HIDE DEF Cells
<1>6. /\ d = [b \in Cells |-> d[b]] /\ d[CountCell] = y /\ d[BitmapStart + k] = X
      /\ \A b \in Cells : b # CountCell /\ b # BitmapStart + k => d[b] = c[b]
  BY <1>1, <1>2, <1>5, Zenon
<1>7. \A b \in 0 .. BitmapSize(slot_size) - 1 :
        b # k => d[BitmapStart + b] = c[BitmapStart + b]
  BY <1>3, <1>6, Zenon
<1>8. \A t \in SlotNo : \A i \in 0 .. slot_size - 1 :
        d[SlotStart(slot_size, t) + i] = c[SlotStart(slot_size, t) + i]
  BY <1>4, <1>6, Zenon
<1> QED BY <1>6, <1>7, <1>8, Zenon DEF Cells, BitEffect

\* The slots that hold a record.
Occupied == {s \in SlotNo : records[s] # FreeSlot}

\* Setting or clearing the bit of a slot leaves the bits of the others.
LEMMA OtherBits ==
  ASSUME PageInv, slot_size' = slot_size, NEW s \in SlotNo, NEW X,
         NEW old, old = page_data[BitmapStart + Bucket(s)],
         X = old \cup {Bit(s)} \/ X = old \ {Bit(s)},
         page_data'[BitmapStart + Bucket(s)] = X,
         \A b \in 0 .. BitmapSize(slot_size) - 1 :
           b # Bucket(s) => page_data'[BitmapStart + b] = page_data[BitmapStart + b]
  PROVE  /\ \A t \in SlotNo : t # s => (IsSet(t)' <=> IsSet(t))
         /\ \A b \in 0 .. BitmapSize(slot_size) - 1 :
              \A bit \in page_data'[BitmapStart + b] :
                b * BITMAP_WIDTH + (BITMAP_WIDTH - 1 - bit) < Records
<1>1. s \in Nat /\ Bucket(s) \in 0 .. BitmapSize(slot_size) - 1 /\ s < Records
  BY PageRegions DEF PageInv, SlotNo
<1>2. s = Bucket(s) * BITMAP_WIDTH + (BITMAP_WIDTH - 1 - Bit(s))
  BY <1>1, PositionFacts
<1>3. ASSUME NEW t \in SlotNo, t # s PROVE IsSet(t)' <=> IsSet(t)
  <2>1. t \in Nat /\ Bucket(t) \in 0 .. BitmapSize(slot_size) - 1
    BY PageRegions DEF PageInv
  <2>2. t = Bucket(t) * BITMAP_WIDTH + (BITMAP_WIDTH - 1 - Bit(t))
    BY <2>1, PositionFacts
  <2>3. Bucket(t) = Bucket(s) => Bit(t) # Bit(s)
    BY <1>2, <1>3, <2>2, Zenon
  <2>4. IsSet(t)' <=> Bit(t) \in page_data'[BitmapStart + Bucket(t)]
    BY Zenon DEF IsSet
  <2>5. CASE Bucket(t) = Bucket(s)
    <3>1. page_data'[BitmapStart + Bucket(t)] = X /\ page_data[BitmapStart + Bucket(t)] = old
      BY <2>5, Zenon
    <3> QED BY <2>3, <2>4, <2>5, <3>1, Zenon DEF IsSet
  <2>6. CASE Bucket(t) # Bucket(s)
    BY <2>1, <2>4, <2>6, Zenon DEF IsSet
  <2> QED BY <2>5, <2>6
<1>4. ASSUME NEW b \in 0 .. BitmapSize(slot_size) - 1, NEW bit \in page_data'[BitmapStart + b]
      PROVE  b * BITMAP_WIDTH + (BITMAP_WIDTH - 1 - bit) < Records
  <2>1. CASE bit \in page_data[BitmapStart + b]
    BY <2>1, Zenon DEF PageInv, PageHoldsRecords
  <2>2. CASE bit \notin page_data[BitmapStart + b]
    <3>1. b = Bucket(s)
      BY <2>2, Zenon
    <3>2. bit \in X /\ bit \notin old
      BY <2>2, <3>1, Zenon
    <3>3. bit = Bit(s)
      BY <3>2, Zenon
    <3> QED BY <1>1, <1>2, <3>1, <3>3, Zenon
  <2> QED BY <2>1, <2>2
<1> QED BY <1>3, <1>4

\* The slots in use are finitely many.
LEMMA OccupiedFinite ==
  ASSUME PageTypes
  PROVE  IsFiniteSet(Occupied) /\ Cardinality(Occupied) \in Nat
<1>1. Records \in Nat
  BY PageRegions
<1>2. IsFiniteSet(SlotNo)
  BY <1>1, FS_Interval DEF SlotNo
<1>3. Occupied \subseteq SlotNo
  BY Zenon DEF Occupied
<1>4. IsFiniteSet(Occupied)
  BY <1>2, <1>3, FS_Subset, Zenon
<1> QED BY <1>4, FS_CardinalityType, Zenon

\* The property, read off the bits, the slots and the count.
LEMMA HoldsFrom ==
  ASSUME slot_size' = slot_size,
         \A t \in SlotNo : IsSet(t)' <=> records'[t] # FreeSlot,
         \A t \in SlotNo : records'[t] # FreeSlot =>
           \A i \in 0 .. slot_size - 1 : page_data'[SlotStart(slot_size, t) + i] = <<records'[t], i>>,
         page_data'[CountCell] = Cardinality(Occupied'),
         \A b \in 0 .. BitmapSize(slot_size) - 1 :
           \A bit \in page_data'[BitmapStart + b] :
             b * BITMAP_WIDTH + (BITMAP_WIDTH - 1 - bit) < Records
  PROVE  PageHoldsRecords'
<1>1. Records' = Records /\ SlotNo' = SlotNo
  BY Zenon DEF Records, SlotNo
<1> QED BY <1>1, Zenon DEF PageHoldsRecords, Occupied, SlotNo

\* insert_record(buf) takes the first free slot, sets its bit and copies the record
\* in: the other records keep their bytes.
LEMMA InsertKeepsPage ==
  ASSUME PageInv, NEW v \in Values, Insert(v)
  PROVE  PageInv'
<1>1. PageTypes /\ slot_size' = slot_size
  BY Zenon DEF PageInv, Insert
<1>2. PICK s \in SlotNo : /\ s = FirstBit(FALSE) /\ ~IsSet(s)
  BY <1>1, FirstBitFacts, Zenon DEF Insert
<1>3. PICK c : c = Copy(page_data, s, v)
  OBVIOUS
<1>4. PICK d : d = page_data'
  OBVIOUS
<1>5. /\ records' = [records EXCEPT ![s] = v]
      /\ d = [BitSet(c, s) EXCEPT ![CountCell] = @ + 1]
  BY <1>2, <1>3, <1>4, Zenon DEF Insert
<1>6. /\ c = [b \in 0 .. PAGE_SIZE - 1 |-> c[b]]
      /\ c[CountCell] = page_data[CountCell]
      /\ \A b \in 0 .. BitmapSize(slot_size) - 1 :
           c[BitmapStart + b] = page_data[BitmapStart + b]
      /\ \A i \in 0 .. slot_size - 1 : c[SlotStart(slot_size, s) + i] = <<v, i>>
      /\ \A t \in SlotNo : t # s => \A i \in 0 .. slot_size - 1 :
           c[SlotStart(slot_size, t) + i] = page_data[SlotStart(slot_size, t) + i]
  <2>1. CopyEffect(c, s, v)
    BY <1>1, <1>3, CopyFacts, Zenon
  <2> QED BY <2>1, Zenon DEF CopyEffect
<1>7. PICK k \in 0 .. BitmapSize(slot_size) - 1 : k = Bucket(s)
  BY <1>1, PageRegions
<1>8. PICK old : old = page_data[BitmapStart + k]
  OBVIOUS
<1>9. c[BitmapStart + k] = old /\ BitmapStart + k # CountCell
  BY <1>1, <1>6, <1>8, BitmapByte, Zenon
<1>10. d = [[c EXCEPT ![BitmapStart + k] = old \cup {Bit(s)}]
              EXCEPT ![CountCell] = page_data[CountCell] + 1]
  BY <1>5, <1>6, <1>7, <1>9, Zenon DEF BitSet
<1>11. /\ d = [b \in 0 .. PAGE_SIZE - 1 |-> d[b]]
       /\ d[CountCell] = page_data[CountCell] + 1
       /\ d[BitmapStart + k] = old \cup {Bit(s)}
       /\ \A b \in 0 .. BitmapSize(slot_size) - 1 :
            b # k => d[BitmapStart + b] = c[BitmapStart + b]
       /\ \A t \in SlotNo : \A i \in 0 .. slot_size - 1 :
            d[SlotStart(slot_size, t) + i] = c[SlotStart(slot_size, t) + i]
  <2>1. BitEffect(d, c, k, old \cup {Bit(s)}, page_data[CountCell] + 1)
    BY <1>1, <1>6, <1>10, BitFacts, Zenon
  <2> QED BY <2>1, Zenon DEF BitEffect
<1>12. /\ page_data'[BitmapStart + Bucket(s)] = old \cup {Bit(s)}
       /\ \A b \in 0 .. BitmapSize(slot_size) - 1 :
            b # Bucket(s) => page_data'[BitmapStart + b] = page_data[BitmapStart + b]
  BY <1>4, <1>6, <1>7, <1>11, Zenon
<1>13. /\ \A t \in SlotNo : t # s => (IsSet(t)' <=> IsSet(t))
       /\ \A b \in 0 .. BitmapSize(slot_size) - 1 :
            \A bit \in page_data'[BitmapStart + b] :
              b * BITMAP_WIDTH + (BITMAP_WIDTH - 1 - bit) < Records
  BY <1>1, <1>7, <1>8, <1>12, OtherBits, Zenon
<1>14. IsSet(s)' /\ v # FreeSlot
  BY <1>12, PageAssumption, Zenon DEF IsSet
<1>15. /\ records' \in [SlotNo -> Values \cup {FreeSlot}]
       /\ records'[s] = v /\ \A t \in SlotNo : t # s => records'[t] = records[t]
  BY <1>1, <1>5, Zenon DEF PageTypes
<1>16. PageTypes'
  <2>1. SlotNo' = SlotNo
    BY <1>1, Zenon DEF SlotNo, Records
  <2> QED BY <1>1, <1>4, <1>11, <1>15, <2>1, Zenon DEF PageTypes
<1>17. \A t \in SlotNo : (IsSet(t) <=> records[t] # FreeSlot)
  BY Zenon DEF PageInv, PageHoldsRecords, SlotNo
<1>18. \A t \in SlotNo : (IsSet(t)' <=> records'[t] # FreeSlot)
  BY <1>13, <1>14, <1>15, <1>17, Zenon
<1>19. ASSUME NEW t \in SlotNo, records'[t] # FreeSlot, NEW i \in 0 .. slot_size - 1
       PROVE  page_data'[SlotStart(slot_size, t) + i] = <<records'[t], i>>
  <2>1. CASE t = s
    BY <1>4, <1>6, <1>11, <1>15, <2>1, Zenon
  <2>2. CASE t # s
    <3>1. page_data[SlotStart(slot_size, t) + i] = <<records[t], i>>
      BY <1>15, <1>19, <2>2, Zenon DEF PageInv, PageHoldsRecords, SlotNo
    <3>2. /\ c[SlotStart(slot_size, t) + i] = page_data[SlotStart(slot_size, t) + i]
          /\ d[SlotStart(slot_size, t) + i] = c[SlotStart(slot_size, t) + i]
      BY <1>6, <1>11, <2>2, Zenon
    <3> QED BY <1>4, <1>15, <2>2, <3>1, <3>2, Zenon
  <2> QED BY <2>1, <2>2
<1>20. page_data'[CountCell] = Cardinality(Occupied')
  <2>1. Occupied' = Occupied \cup {s} /\ s \notin Occupied
    <3>1. SlotNo' = SlotNo
      BY <1>1, Zenon DEF SlotNo, Records
    <3> QED BY <1>2, <1>14, <1>15, <1>17, <3>1, Zenon DEF Occupied
  <2>2. Cardinality(Occupied \cup {s}) = Cardinality(Occupied) + 1
    BY <1>1, <2>1, OccupiedFinite, FS_AddElement
  <2>3. page_data[CountCell] = Cardinality(Occupied)
    BY Zenon DEF PageInv, PageHoldsRecords, Occupied, SlotNo
  <2> QED BY <1>4, <1>11, <2>1, <2>2, <2>3, Zenon
<1>21. PageHoldsRecords'
  BY <1>1, <1>13, <1>18, <1>19, <1>20, HoldsFrom, Zenon
<1> QED BY <1>16, <1>21, Zenon DEF PageInv

\* delete_record() clears one bit, and the other records stay.
LEMMA DeleteKeepsPage ==
  ASSUME PageInv, NEW s \in SlotNo, Delete(s)
  PROVE  PageInv'
<1>1. PageTypes /\ slot_size' = slot_size /\ IsSet(s)
  BY Zenon DEF PageInv, Delete
<1>2. PICK d : d = page_data'
  OBVIOUS
<1>3. PICK c : c = page_data /\ c = [b \in 0 .. PAGE_SIZE - 1 |-> c[b]]
  BY <1>1, Zenon DEF PageTypes
<1>4. /\ records' = [records EXCEPT ![s] = FreeSlot]
      /\ d = [BitReset(c, s) EXCEPT ![CountCell] = @ - 1]
  BY <1>2, <1>3, Zenon DEF Delete
<1>5. PICK k \in 0 .. BitmapSize(slot_size) - 1 : k = Bucket(s)
  BY <1>1, PageRegions
<1>6. PICK old : old = page_data[BitmapStart + k]
  OBVIOUS
<1>7. c[BitmapStart + k] = old /\ BitmapStart + k # CountCell
  BY <1>1, <1>3, <1>6, BitmapByte, Zenon
<1>8. d = [[c EXCEPT ![BitmapStart + k] = old \ {Bit(s)}]
             EXCEPT ![CountCell] = page_data[CountCell] - 1]
  BY <1>3, <1>4, <1>5, <1>7, Zenon DEF BitReset
<1>9. /\ d = [b \in 0 .. PAGE_SIZE - 1 |-> d[b]]
      /\ d[CountCell] = page_data[CountCell] - 1
      /\ d[BitmapStart + k] = old \ {Bit(s)}
      /\ \A b \in 0 .. BitmapSize(slot_size) - 1 :
           b # k => d[BitmapStart + b] = c[BitmapStart + b]
      /\ \A t \in SlotNo : \A i \in 0 .. slot_size - 1 :
           d[SlotStart(slot_size, t) + i] = c[SlotStart(slot_size, t) + i]
  <2>1. BitEffect(d, c, k, old \ {Bit(s)}, page_data[CountCell] - 1)
    BY <1>1, <1>3, <1>8, BitFacts, Zenon
  <2> QED BY <2>1, Zenon DEF BitEffect
<1>10. /\ page_data'[BitmapStart + Bucket(s)] = old \ {Bit(s)}
       /\ \A b \in 0 .. BitmapSize(slot_size) - 1 :
            b # Bucket(s) => page_data'[BitmapStart + b] = page_data[BitmapStart + b]
  BY <1>2, <1>3, <1>5, <1>9, Zenon
<1>11. /\ \A t \in SlotNo : t # s => (IsSet(t)' <=> IsSet(t))
       /\ \A b \in 0 .. BitmapSize(slot_size) - 1 :
            \A bit \in page_data'[BitmapStart + b] :
              b * BITMAP_WIDTH + (BITMAP_WIDTH - 1 - bit) < Records
  BY <1>1, <1>5, <1>6, <1>10, OtherBits, Zenon
<1>12. ~IsSet(s)'
  BY <1>10, Zenon DEF IsSet
<1>13. /\ records' \in [SlotNo -> Values \cup {FreeSlot}]
       /\ records'[s] = FreeSlot /\ \A t \in SlotNo : t # s => records'[t] = records[t]
  BY <1>1, <1>4, Zenon DEF PageTypes
<1>14. SlotNo' = SlotNo
  BY <1>1, Zenon DEF SlotNo, Records
<1>15. PageTypes'
  BY <1>1, <1>2, <1>9, <1>13, <1>14, Zenon DEF PageTypes
<1>16. \A t \in SlotNo : (IsSet(t) <=> records[t] # FreeSlot)
  BY Zenon DEF PageInv, PageHoldsRecords, SlotNo
<1>17. \A t \in SlotNo : (IsSet(t)' <=> records'[t] # FreeSlot)
  BY <1>11, <1>12, <1>13, <1>16, Zenon
<1>18. ASSUME NEW t \in SlotNo, records'[t] # FreeSlot, NEW i \in 0 .. slot_size - 1
       PROVE  page_data'[SlotStart(slot_size, t) + i] = <<records'[t], i>>
  <2>1. t # s /\ records'[t] = records[t]
    BY <1>13, <1>18, Zenon
  <2>2. page_data[SlotStart(slot_size, t) + i] = <<records[t], i>>
    BY <1>18, <2>1, Zenon DEF PageInv, PageHoldsRecords, SlotNo
  <2> QED BY <1>2, <1>3, <1>9, <2>1, <2>2, Zenon
<1>19. page_data'[CountCell] = Cardinality(Occupied')
  <2>1. Occupied' = Occupied \ {s} /\ s \in Occupied
    BY <1>1, <1>13, <1>14, <1>16, Zenon DEF Occupied
  <2>2. Cardinality(Occupied \ {s}) = Cardinality(Occupied) - 1
    BY <1>1, <2>1, OccupiedFinite, FS_RemoveElement
  <2>3. page_data[CountCell] = Cardinality(Occupied)
    BY Zenon DEF PageInv, PageHoldsRecords, Occupied, SlotNo
  <2> QED BY <1>2, <1>9, <2>1, <2>2, <2>3, Zenon
<1>20. PageHoldsRecords'
  BY <1>1, <1>11, <1>17, <1>18, <1>19, HoldsFrom
<1> QED BY <1>15, <1>20, Zenon DEF PageInv

\* update_record() copies over the slot of one record, and no other.
LEMMA UpdateKeepsPage ==
  ASSUME PageInv, NEW s \in SlotNo, NEW v \in Values, Update(s, v)
  PROVE  PageInv'
<1>1. PageTypes /\ slot_size' = slot_size /\ IsSet(s)
  BY Zenon DEF PageInv, Update
<1>2. PICK c : c = Copy(page_data, s, v) /\ c = page_data'
  BY Zenon DEF Update
<1>3. /\ c = [b \in 0 .. PAGE_SIZE - 1 |-> c[b]]
      /\ c[CountCell] = page_data[CountCell]
      /\ \A b \in 0 .. BitmapSize(slot_size) - 1 :
           c[BitmapStart + b] = page_data[BitmapStart + b]
      /\ \A i \in 0 .. slot_size - 1 : c[SlotStart(slot_size, s) + i] = <<v, i>>
      /\ \A t \in SlotNo : t # s => \A i \in 0 .. slot_size - 1 :
           c[SlotStart(slot_size, t) + i] = page_data[SlotStart(slot_size, t) + i]
  <2>1. CopyEffect(c, s, v)
    BY <1>1, <1>2, CopyFacts, Zenon
  <2> QED BY <2>1, Zenon DEF CopyEffect
<1>4. records' = [records EXCEPT ![s] = v] /\ v # FreeSlot
  BY PageAssumption, Zenon DEF Update
<1>5. /\ records' \in [SlotNo -> Values \cup {FreeSlot}]
      /\ records'[s] = v /\ \A t \in SlotNo : t # s => records'[t] = records[t]
  BY <1>1, <1>4, Zenon DEF PageTypes
<1>6. SlotNo' = SlotNo
  BY <1>1, Zenon DEF SlotNo, Records
<1>7. PageTypes'
  BY <1>1, <1>2, <1>3, <1>5, <1>6, Zenon DEF PageTypes
<1>8. \A t \in SlotNo : (IsSet(t) <=> records[t] # FreeSlot)
  BY Zenon DEF PageInv, PageHoldsRecords, SlotNo
<1>9. \A t \in SlotNo : (IsSet(t)' <=> IsSet(t))
  <2>1. \A t \in SlotNo : Bucket(t) \in 0 .. BitmapSize(slot_size) - 1
    BY <1>1, PageRegions
  <2> QED BY <1>2, <1>3, <2>1, Zenon DEF IsSet
<1>10. \A t \in SlotNo : (IsSet(t)' <=> records'[t] # FreeSlot)
  BY <1>1, <1>4, <1>5, <1>8, <1>9, Zenon
<1>11. ASSUME NEW t \in SlotNo, records'[t] # FreeSlot, NEW i \in 0 .. slot_size - 1
       PROVE  page_data'[SlotStart(slot_size, t) + i] = <<records'[t], i>>
  <2>1. CASE t = s
    BY <1>2, <1>3, <1>5, <2>1, Zenon
  <2>2. CASE t # s
    <3>1. page_data[SlotStart(slot_size, t) + i] = <<records[t], i>>
      BY <1>5, <1>11, <2>2, Zenon DEF PageInv, PageHoldsRecords, SlotNo
    <3> QED BY <1>2, <1>3, <1>5, <2>2, <3>1, Zenon
  <2> QED BY <2>1, <2>2
<1>12. page_data'[CountCell] = Cardinality(Occupied')
  <2>1. Occupied' = Occupied
    BY <1>1, <1>4, <1>5, <1>6, <1>8, Zenon DEF Occupied
  <2>2. page_data[CountCell] = Cardinality(Occupied)
    BY Zenon DEF PageInv, PageHoldsRecords, Occupied, SlotNo
  <2> QED BY <1>2, <1>3, <2>1, <2>2, Zenon
<1>13. \A b \in 0 .. BitmapSize(slot_size) - 1 :
         \A bit \in page_data'[BitmapStart + b] :
           b * BITMAP_WIDTH + (BITMAP_WIDTH - 1 - bit) < Records
  BY <1>2, <1>3, Zenon DEF PageInv, PageHoldsRecords
<1>14. PageHoldsRecords'
  BY <1>1, <1>10, <1>11, <1>12, <1>13, HoldsFrom, Zenon
<1> QED BY <1>7, <1>14, Zenon DEF PageInv

\* PageHoldsRecords (RecordPage): for every page size and record size, the
\* bytes of a page hold exactly the records put there (rm_file_handle.cpp,
\* bitmap.h).
THEOREM PagesHoldRecords == RecordPageSpec => []PageHoldsRecords
<1>1. RecordPageInit => PageInv
  <2> SUFFICES ASSUME RecordPageInit PROVE PageInv
    OBVIOUS
  <2>1. /\ slot_size \in 1 .. RM_MAX_RECORD_SIZE
        /\ page_data = [b \in 0 .. PAGE_SIZE - 1 |-> IF b = CountCell THEN 0 ELSE ZeroByte]
        /\ records = [t \in SlotNo |-> FreeSlot]
    BY Zenon DEF RecordPageInit, SlotNo
  <2>2. PageTypes
    BY <2>1, Zenon DEF PageTypes
  <2>3. CountCell \in 0 .. PAGE_SIZE - 1 /\ page_data[CountCell] = 0
    BY <2>1, <2>2, PageRegions
  <2>4. \A b \in 0 .. BitmapSize(slot_size) - 1 : page_data[BitmapStart + b] = {}
    BY <2>1, <2>2, BitmapByte, Zenon DEF ZeroByte
  <2>5. \A t \in SlotNo : records[t] = FreeSlot /\ ~IsSet(t)
    <3>1. \A t \in SlotNo : Bucket(t) \in 0 .. BitmapSize(slot_size) - 1
      BY <2>2, PageRegions
    <3> QED BY <2>1, <2>4, <3>1, Zenon DEF IsSet
  <2>6. {t \in 0 .. Records - 1 : records[t] # FreeSlot} = {}
    BY <2>5, Zenon DEF SlotNo
  <2>7. Cardinality({t \in 0 .. Records - 1 : records[t] # FreeSlot}) = 0
    BY <2>6, FS_EmptySet, Zenon
  <2> QED BY <2>2, <2>3, <2>4, <2>5, <2>7, Zenon DEF PageInv, PageHoldsRecords, SlotNo
<1>2. PageInv /\ [RecordPageNext]_recordPageVars => PageInv'
  <2> SUFFICES ASSUME PageInv, [RecordPageNext]_recordPageVars PROVE PageInv'
    OBVIOUS
  <2>1. CASE UNCHANGED recordPageVars
    BY <2>1, Zenon DEF recordPageVars, PageInv, PageTypes, PageHoldsRecords, SlotNo, Records, IsSet
  <2> QED BY <2>1, InsertKeepsPage, DeleteKeepsPage, UpdateKeepsPage, Zenon DEF RecordPageNext, SlotNo
<1>3. PageInv => PageHoldsRecords
  BY DEF PageInv
<1> QED BY <1>1, <1>2, <1>3, PTL DEF RecordPageSpec

-----------------------------------------------------------------------------
\* A condition, with the fields of Condition (common.h) and of its Value.
IsCondition(c) ==
  /\ c = [lhs_col |-> c.lhs_col, op |-> c.op, is_rhs_val |-> c.is_rhs_val,
          rhs_col |-> c.rhs_col, rhs_val |-> c.rhs_val]
  /\ c.rhs_val = [type |-> c.rhs_val.type, val |-> c.rhs_val.val, raw |-> c.rhs_val.raw]

\* What check_clause() makes sure of for one condition.
ConditionTyped(c) ==
  LET left == GetCol(c.lhs_col.tab_name, c.lhs_col.col_name)
  IN /\ ColumnError(c.lhs_col) = ""
     /\ IF c.is_rhs_val THEN c.rhs_val.type = left.type /\ c.rhs_val.raw = left.len
        ELSE /\ ColumnError(c.rhs_col) = ""
             /\ GetCol(c.rhs_col.tab_name, c.rhs_col.col_name).type = left.type

\* A query, whose conditions are a list.
IsQuery(q) ==
  /\ q = [tables |-> q.tables, cols |-> q.cols, conds |-> q.conds, values |-> q.values]
  /\ \E n \in Nat : q.conds = [k \in 1 .. n |-> q.conds[k]]
  /\ \A k \in DOMAIN q.conds : IsCondition(q.conds[k])

HasClause(p) ==
  p.node \in {"SelectStmt", "DeleteStmt"} =>
    /\ {"node", "conds"} \subseteq DOMAIN p
    /\ \E n \in Nat : DOMAIN p.conds = 1 .. n

\* Until get_clause() there is no condition, and check_clause() has typed those before
\* the one it is at.
AnalyzerInv ==
  /\ IsQuery(query) /\ idx \in Nat \ {0} /\ HasClause(parse)
  /\ pc \in {"analyze", "columns", "clause"} => query.conds = <<>> /\ idx = 1
  /\ pc \in {"columns", "clause", "check"} => parse.node \in {"SelectStmt", "DeleteStmt"}
  /\ pc = "check" =>
       \A k \in DOMAIN query.conds : k < idx => ConditionTyped(query.conds[k])
  /\ pc = "analyzed" => \A k \in DOMAIN query.conds : ConditionTyped(query.conds[k])

\* The places of a list of two.
LEMMA PairPlaces ==
  /\ \A a, b : DOMAIN <<a, b>> = {1, 2} /\ <<a, b>>[1] = a /\ <<a, b>>[2] = b
  /\ 1 <= 1 /\ 1 <= 2 /\ 2 <= 2
<1>1. 1 .. 2 = {1, 2} /\ 1 <= 1 /\ 1 <= 2 /\ 2 <= 2
  OBVIOUS
<1>2. \A a, b : DOMAIN <<a, b>> = 1 .. 2 /\ <<a, b>>[1] = a /\ <<a, b>>[2] = b
  OBVIOUS
<1> QED BY <1>1, <1>2, Zenon

\* No error is the first one only if there is none.
LEMMA NoError == ASSUME NEW a, NEW b, FirstError(<<a, b>>) = "" PROVE a = "" /\ b = ""
<1> DEFINE bad == {k \in DOMAIN <<a, b>> : <<a, b>>[k] # ""}
<1>1. DOMAIN <<a, b>> = {1, 2} /\ <<a, b>>[1] = a /\ <<a, b>>[2] = b
  BY PairPlaces, Zenon
<1>2. bad \subseteq {1, 2}
  BY <1>1, Zenon
<1>3. CASE bad = {}
  BY <1>1, <1>3, Zenon
<1>4. CASE bad # {}
  <2>1. \E x \in bad : \A y \in bad : x <= y
    <3> HIDE DEF bad
    <3>1. CASE 1 \in bad
      BY <1>2, <3>1, PairPlaces, Zenon
    <3>2. CASE 1 \notin bad
      BY <1>2, <1>4, <3>2, PairPlaces, Zenon
    <3> QED BY <3>1, <3>2, Zenon
  <2>2. Least(bad) \in bad
    BY <2>1, Zenon DEF Least
  <2>3. <<a, b>>[Least(bad)] # ""
    BY <2>2, Zenon
  <2> HIDE DEF bad
  <2>4. FirstError(<<a, b>>) = <<a, b>>[Least(bad)]
    BY <1>4, Zenon DEF FirstError, bad
  <2> QED BY <2>3, <2>4, Zenon
<1> QED BY <1>3, <1>4, Zenon

\* A condition check_clause() finds no error in is typed once its columns are filled in.
LEMMA CheckedIsTyped ==
  ASSUME NEW c, IsCondition(c), NEW lhs, NEW rhs, NEW raw, CheckCondition(c, lhs, rhs) = "",
         raw = IF c.is_rhs_val THEN GetCol(lhs.tab_name, lhs.col_name).len ELSE 0,
         NEW new, new = [c EXCEPT !.lhs_col = lhs, !.rhs_col = rhs, !.rhs_val.raw = raw]
  PROVE  IsCondition(new) /\ ConditionTyped(new)
<1>1. /\ new.lhs_col = lhs /\ new.rhs_col = rhs /\ new.is_rhs_val = c.is_rhs_val /\ new.op = c.op
      /\ new.rhs_val = [c.rhs_val EXCEPT !.raw = raw]
      /\ new = [lhs_col |-> new.lhs_col, op |-> new.op, is_rhs_val |-> new.is_rhs_val,
                rhs_col |-> new.rhs_col, rhs_val |-> new.rhs_val]
  BY Zenon DEF IsCondition
<1>2. /\ new.rhs_val = [type |-> c.rhs_val.type, val |-> c.rhs_val.val, raw |-> raw]
      /\ new.rhs_val.type = c.rhs_val.type /\ new.rhs_val.raw = raw
  BY <1>1, Zenon DEF IsCondition
<1>3. IsCondition(new)
  BY <1>1, <1>2, Zenon DEF IsCondition
<1>4. ColumnError(lhs) = ""
  BY Zenon DEF CheckCondition
<1>5. CASE c.is_rhs_val
  <2> DEFINE left == GetCol(lhs.tab_name, lhs.col_name)
             compared == IF left.type # c.rhs_val.type THEN "IncompatibleTypeError" ELSE ""
             made == InitRaw(c.rhs_val, left.len)
  <2>1. FirstError(<<made, compared>>) = ""
    BY <1>4, <1>5, Zenon DEF CheckCondition
  <2> HIDE DEF made
  <2>2. compared = ""
    BY <2>1, NoError, Zenon
  <2>3. left.type = c.rhs_val.type
    BY <2>2, Zenon
  <2> QED BY <1>1, <1>2, <1>3, <1>4, <1>5, <2>3, Zenon DEF ConditionTyped
<1>6. CASE ~c.is_rhs_val
  <2>1. ColumnError(rhs) = ""
    BY <1>4, <1>6, Zenon DEF CheckCondition
  <2>2. (IF GetCol(lhs.tab_name, lhs.col_name).type # GetCol(rhs.tab_name, rhs.col_name).type
         THEN "IncompatibleTypeError" ELSE "") = ""
    BY <1>4, <1>6, <2>1, Zenon DEF CheckCondition
  <2>3. GetCol(lhs.tab_name, lhs.col_name).type = GetCol(rhs.tab_name, rhs.col_name).type
    BY <2>2, Zenon
  <2> QED BY <1>1, <1>3, <1>4, <1>6, <2>1, <2>3, Zenon DEF ConditionTyped
<1> QED BY <1>5, <1>6, Zenon

\* The query r is q with the condition new in place i.
ConditionReplaced(r, q, i, new) ==
  /\ IsQuery(r) /\ DOMAIN r.conds = DOMAIN q.conds /\ r.conds[i] = new
  /\ \A k \in DOMAIN q.conds : k # i => r.conds[k] = q.conds[k]

\* A query keeps its form, and its other conditions, when a condition is replaced.
LEMMA ClauseSteps ==
  ASSUME NEW q, IsQuery(q), NEW i \in DOMAIN q.conds, NEW new, IsCondition(new),
         NEW r, r = [q EXCEPT !.conds[i] = new]
  PROVE  ConditionReplaced(r, q, i, new)
<1>1. PICK n \in Nat : q.conds = [k \in 1 .. n |-> q.conds[k]]
  BY DEF IsQuery
<1>2. /\ r = [tables |-> q.tables, cols |-> q.cols, conds |-> r.conds, values |-> q.values]
      /\ r.conds = [q.conds EXCEPT ![i] = new]
  BY Zenon DEF IsQuery
<1>3. /\ DOMAIN q.conds = 1 .. n /\ DOMAIN r.conds = 1 .. n /\ r.conds[i] = new
      /\ \A k \in 1 .. n : k # i => r.conds[k] = q.conds[k]
      /\ r.conds = [k \in 1 .. n |-> r.conds[k]]
  BY <1>1, <1>2, Zenon
<1>4. \A k \in DOMAIN r.conds : IsCondition(r.conds[k])
  BY <1>3, Zenon DEF IsQuery
<1>5. r = [tables |-> r.tables, cols |-> r.cols, conds |-> r.conds, values |-> r.values]
  BY <1>2
<1> QED BY <1>3, <1>4, <1>5, Zenon DEF IsQuery, ConditionReplaced

\* check_clause() takes one condition: an error ends the statement.
LEMMA CheckClauseInv == AnalyzerInv /\ CheckClause => AnalyzerInv'
<1> SUFFICES ASSUME AnalyzerInv, CheckClause PROVE AnalyzerInv'
  OBVIOUS
<1> DEFINE cond == query.conds[idx]
           lhs == CheckColumn(ClauseTables, cond.lhs_col)
           rhs == IF cond.is_rhs_val THEN [col |-> NoCol, error |-> ""]
                  ELSE CheckColumn(ClauseTables, cond.rhs_col)
           found == FirstError(<<lhs.error, rhs.error>>)
           e == IF found # "" THEN found ELSE CheckCondition(cond, lhs.col, rhs.col)
           raw == IF cond.is_rhs_val THEN GetCol(lhs.col.tab_name, lhs.col.col_name).len ELSE 0
           new == [cond EXCEPT !.lhs_col = lhs.col, !.rhs_col = rhs.col, !.rhs_val.raw = raw]
<1>1. /\ pc = "check" /\ idx \in DOMAIN query.conds /\ parse' = parse
      /\ IsQuery(query) /\ idx \in Nat \ {0} /\ HasClause(parse)
      /\ parse.node \in {"SelectStmt", "DeleteStmt"}
      /\ \A k \in DOMAIN query.conds : k < idx => ConditionTyped(query.conds[k])
  BY Zenon DEF AnalyzerInv, CheckClause
<1>2. CASE e = ""
  <2>1. query' = [query EXCEPT !.conds[idx] = new] /\ idx' = idx + 1 /\ pc' = pc
    BY <1>2, Zenon DEF CheckClause
  <2>2. CheckCondition(cond, lhs.col, rhs.col) = ""
    BY <1>2, Zenon
  <2>3. IsCondition(cond)
    BY <1>1, Zenon DEF IsQuery
  <2>4. PICK c, l, r, w, n : c = cond /\ l = lhs.col /\ r = rhs.col /\ w = raw /\ n = new
    BY Zenon
  <2> HIDE DEF lhs, rhs, found, e
  <2>5. n = [c EXCEPT !.lhs_col = l, !.rhs_col = r, !.rhs_val.raw = w]
    BY <2>4, Zenon
  <2>6. IsCondition(n) /\ ConditionTyped(n)
    <3>1. w = IF c.is_rhs_val THEN GetCol(l.tab_name, l.col_name).len ELSE 0
      BY <2>4, Zenon
    <3>2. IsCondition(c) /\ CheckCondition(c, l, r) = ""
      BY <2>2, <2>3, <2>4, Zenon
    <3> QED BY <2>5, <3>1, <3>2, CheckedIsTyped, Zenon
  <2> HIDE DEF new
  <2>7. /\ IsQuery(query') /\ DOMAIN query'.conds = DOMAIN query.conds /\ query'.conds[idx] = n
        /\ \A k \in DOMAIN query.conds : k # idx => query'.conds[k] = query.conds[k]
    <3>1. PICK q, r1 : q = query /\ r1 = query'
      OBVIOUS
    <3>2. r1 = [q EXCEPT !.conds[idx] = n]
      BY <2>1, <2>4, <3>1, Zenon
    <3>3. IsQuery(q) /\ idx \in DOMAIN q.conds
      BY <1>1, <3>1, Zenon
    <3>4. ConditionReplaced(r1, q, idx, n)
      BY <2>6, <3>2, <3>3, ClauseSteps, Zenon
    <3> QED BY <3>1, <3>4, Zenon DEF ConditionReplaced
  <2>8. ASSUME NEW k \in DOMAIN query'.conds, k < idx' PROVE ConditionTyped(query'.conds[k])
    <3>1. k \in Nat
      <4>1. PICK m \in Nat : query.conds = [j \in 1 .. m |-> query.conds[j]]
        BY <1>1, Zenon DEF IsQuery
      <4> QED BY <2>7, <2>8, <4>1
    <3>2. CASE k = idx
      BY <2>6, <2>7, <3>2, Zenon
    <3>3. CASE k # idx
      <4>1. k < idx
        BY <1>1, <2>1, <2>8, <3>1, <3>3
      <4> QED BY <1>1, <2>7, <2>8, <3>3, <4>1, Zenon
    <3> QED BY <3>2, <3>3
  <2>9. idx' \in Nat \ {0} /\ pc' = "check"
    BY <1>1, <2>1
  <2> QED BY <1>1, <2>7, <2>8, <2>9, Zenon DEF AnalyzerInv
<1>3. CASE e # ""
  <2>1. pc' \in {"failed", "aborted"} /\ query' = query /\ idx' = idx
    BY <1>3, Zenon DEF CheckClause, Throw, Abort
  <2> QED BY <1>1, <2>1, Zenon DEF AnalyzerInv
<1> QED BY <1>2, <1>3, Zenon

\* What get_clause() makes of an expression is a condition.
LEMMA ConditionForm == \A e : IsCondition(ConditionOf(e))
<1> SUFFICES ASSUME NEW e PROVE IsCondition(ConditionOf(e))
  OBVIOUS
<1>1. PICK l, o, v, rc, rv :
        /\ ConditionOf(e) = [lhs_col |-> l, op |-> o, is_rhs_val |-> v, rhs_col |-> rc, rhs_val |-> rv]
        /\ rv = IF e.rhs.node = "Col" THEN NoVal ELSE ConvertSvValue(e.rhs)
  BY Zenon DEF ConditionOf
<1>2. \E t, x : rv = [type |-> t, val |-> x, raw |-> 0]
  BY <1>1, Zenon DEF NoVal, ConvertSvValue
<1>3. rv = [type |-> rv.type, val |-> rv.val, raw |-> rv.raw]
  BY <1>2
<1>4. PICK c : c = ConditionOf(e)
  OBVIOUS
<1>5. c = [lhs_col |-> l, op |-> o, is_rhs_val |-> v, rhs_col |-> rc, rhs_val |-> rv]
  BY <1>1, <1>4
<1>6. IsCondition(c)
  BY <1>3, <1>5 DEF IsCondition
<1> QED BY <1>4, <1>6

\* get_clause(): the conditions of the WHERE clause, none of them checked yet.
LEMMA GetClauseInv == AnalyzerInv /\ GetClause => AnalyzerInv'
<1> SUFFICES ASSUME AnalyzerInv, GetClause PROVE AnalyzerInv'
  OBVIOUS
<1>1. /\ pc = "clause" /\ parse' = parse /\ idx' = idx /\ idx = 1
      /\ IsQuery(query) /\ HasClause(parse) /\ parse.node \in {"SelectStmt", "DeleteStmt"}
  BY DEF AnalyzerInv, GetClause
<1>2. CASE query' = query /\ pc' = "failed"
  BY <1>1, <1>2 DEF AnalyzerInv
<1>3. CASE /\ query' = [query EXCEPT !.conds =
                          [k \in DOMAIN parse.conds |-> ConditionOf(parse.conds[k])]]
           /\ pc' \in {"check", "failed"}
  <2>1. PICK n \in Nat : DOMAIN parse.conds = 1 .. n
    BY <1>1, Zenon DEF HasClause
  <2>2. PICK cs : cs = [k \in 1 .. n |-> ConditionOf(parse.conds[k])]
    BY Zenon
  <2>3. query' = [query EXCEPT !.conds = cs]
    BY <1>3, <2>1, <2>2, Zenon
  <2>4. ASSUME NEW k \in 1 .. n PROVE IsCondition(cs[k])
    <3>1. cs[k] = ConditionOf(parse.conds[k])
      BY <2>2, Zenon
    <3> QED BY <3>1, ConditionForm, Zenon
  <2>5. /\ query' = [tables |-> query.tables, cols |-> query.cols, conds |-> cs,
                     values |-> query.values]
        /\ query'.conds = cs
    BY <1>1, <2>3 DEF IsQuery
  <2>6. DOMAIN cs = 1 .. n /\ cs = [k \in 1 .. n |-> cs[k]]
    BY <2>2
  <2>7. IsQuery(query')
    <3>1. query' = [tables |-> query'.tables, cols |-> query'.cols, conds |-> query'.conds,
                    values |-> query'.values]
      BY <2>5
    <3> QED BY <2>4, <2>5, <2>6, <3>1, Zenon DEF IsQuery
  <2>8. \A k \in DOMAIN query'.conds : ~(k < idx')
    BY <1>1, <2>5, <2>6
  <2> QED BY <1>1, <1>3, <2>7, <2>8 DEF AnalyzerInv
<1> QED BY <1>2, <1>3 DEF GetClause, Throw

\* ConditionsTyped (Analyzer): what do_analyze() hands to the planner compares
\* columns that exist with columns or values of their type, for any catalogue
\* and any statement (analyze.cpp:118-145).
THEOREM AnalysisTypes == AnalyzerSpec => []ConditionsTyped
<1>1. AnalyzerInit => AnalyzerInv
  <2> SUFFICES ASSUME AnalyzerInit PROVE AnalyzerInv
    OBVIOUS
  <2>1. IsQuery(query)
    <3>1. /\ query = [tables |-> query.tables, cols |-> query.cols, conds |-> query.conds,
                      values |-> query.values]
          /\ query.conds = <<>>
      BY Zenon DEF AnalyzerInit, EmptyQuery
    <3>2. DOMAIN query.conds = {} /\ query.conds = [k \in 1 .. 0 |-> query.conds[k]]
      BY <3>1
    <3> QED BY <3>1, <3>2, Zenon DEF IsQuery
  <2>2. HasClause(parse)
    BY StatementsAssumption, Zenon DEF AnalyzerInit, HasClause
  <2>3. query.conds = <<>> /\ idx = 1 /\ pc = "analyze"
    BY Zenon DEF AnalyzerInit, EmptyQuery
  <2> QED BY <2>1, <2>2, <2>3 DEF AnalyzerInv
<1>2. AnalyzerInv /\ [DoAnalyze]_analyzerVars => AnalyzerInv'
  <2> SUFFICES ASSUME AnalyzerInv, [DoAnalyze]_analyzerVars PROVE AnalyzerInv'
    OBVIOUS
  <2>1. CASE AnalyzeSelect
    <3>1. /\ pc = "analyze" /\ parse.node = "SelectStmt" /\ idx' = idx /\ idx = 1
          /\ IsQuery(query) /\ HasClause(parse) /\ query.conds = <<>>
          /\ parse' = [parse EXCEPT !.tabs = <<>>] /\ pc' \in {"columns", "failed"}
      BY <2>1 DEF AnalyzeSelect, AnalyzerInv, Throw
    <3>2. /\ parse'.node = parse.node /\ parse'.conds = parse.conds
          /\ DOMAIN parse' = DOMAIN parse
      BY <3>1 DEF HasClause
    <3>3. HasClause(parse')
      BY <3>1, <3>2, Zenon DEF HasClause
    <3>4. \E t, c : query' = [query EXCEPT !.tables = t, !.cols = c]
      BY <2>1, Zenon DEF AnalyzeSelect
    <3>5. /\ query' = [tables |-> query'.tables, cols |-> query'.cols, conds |-> query.conds,
                       values |-> query.values]
          /\ query'.conds = query.conds /\ query'.values = query.values
      BY <3>1, <3>4, Zenon DEF IsQuery
    <3>6. IsQuery(query')
      BY <3>1, <3>5 DEF IsQuery
    <3> QED BY <3>1, <3>2, <3>3, <3>5, <3>6 DEF AnalyzerInv
  <2>2. CASE AnalyzeColumns
    <3>1. /\ pc = "columns" /\ parse' = parse /\ idx' = idx /\ idx = 1
          /\ IsQuery(query) /\ HasClause(parse) /\ query.conds = <<>>
          /\ parse.node \in {"SelectStmt", "DeleteStmt"} /\ pc' \in {"clause", "failed"}
      BY <2>2, Zenon DEF AnalyzeColumns, AnalyzerInv, Throw
    <3>2. (\E c : query' = [query EXCEPT !.cols = c]) \/ query' = query
      BY <2>2, Zenon DEF AnalyzeColumns
    <3>3. /\ query' = [tables |-> query.tables, cols |-> query'.cols, conds |-> query.conds,
                       values |-> query.values]
          /\ query'.conds = query.conds /\ query'.values = query.values
          /\ query'.tables = query.tables
      BY <3>1, <3>2 DEF IsQuery
    <3>4. IsQuery(query')
      BY <3>1, <3>3 DEF IsQuery
    <3>5. idx' \in Nat \ {0} /\ HasClause(parse')
      BY <3>1, Zenon DEF AnalyzerInv
    <3>6. pc' # "analyzed" /\ pc' # "check"
      BY <3>1
    <3> QED BY <3>1, <3>3, <3>4, <3>5, <3>6, Zenon DEF AnalyzerInv
  <2>3. CASE AnalyzeDelete
    BY <2>3, Zenon DEF AnalyzeDelete, AnalyzerInv, IsQuery, HasClause
  <2>4. CASE EndClause
    <3>1. /\ pc = "check" /\ pc' = "analyzed" /\ idx' = 1 /\ parse' = parse /\ query' = query
          /\ idx \notin DOMAIN query.conds
      BY <2>4 DEF EndClause
    <3>2. PICK n \in Nat : query.conds = [k \in 1 .. n |-> query.conds[k]]
      BY DEF AnalyzerInv, IsQuery
    <3>3. DOMAIN query.conds = 1 .. n /\ idx \in Nat \ {0}
      BY <3>2 DEF AnalyzerInv
    <3>4. \A k \in DOMAIN query.conds : k < idx
      BY <3>1, <3>3
    <3>5. \A k \in DOMAIN query.conds : ConditionTyped(query.conds[k])
      BY <3>1, <3>4, Zenon DEF AnalyzerInv
    <3>6. IsQuery(query') /\ idx' \in Nat \ {0} /\ HasClause(parse')
      <4>1. 1 \in Nat \ {0}
        OBVIOUS
      <4> QED BY <3>1, <4>1, Zenon DEF AnalyzerInv
    <3>7. pc' \notin {"analyze", "columns", "clause", "check"}
      BY <3>1
    <3>8. \A k \in DOMAIN query'.conds : ConditionTyped(query'.conds[k])
      BY <3>1, <3>5
    <3> QED BY <3>6, <3>7, <3>8, Zenon DEF AnalyzerInv
  <2>5. CASE AnalyzeInsert
    <3>1. /\ pc = "analyze" /\ parse' = parse /\ idx' = idx /\ idx = 1
          /\ IsQuery(query) /\ HasClause(parse) /\ query.conds = <<>>
          /\ pc' \in {"analyzed", "failed"}
      BY <2>5 DEF AnalyzeInsert, AnalyzerInv, Throw
    <3>2. (\E v : query' = [query EXCEPT !.values = v]) \/ query' = query
      BY <2>5, Zenon DEF AnalyzeInsert
    <3>3. /\ query' = [tables |-> query.tables, cols |-> query.cols, conds |-> query.conds,
                       values |-> query'.values]
          /\ query'.conds = query.conds /\ query'.cols = query.cols
          /\ query'.tables = query.tables
      BY <3>1, <3>2 DEF IsQuery
    <3>4. IsQuery(query')
      BY <3>1, <3>3 DEF IsQuery
    <3>5. pc' \notin {"analyze", "columns", "clause", "check"}
      BY <3>1
    <3>6. DOMAIN query'.conds = {}
      BY <3>1, <3>3
    <3>7. idx' \in Nat \ {0} /\ HasClause(parse')
      BY <3>1, Zenon DEF AnalyzerInv
    <3> QED BY <3>4, <3>5, <3>6, <3>7, Zenon DEF AnalyzerInv
  <2>6. CASE AnalyzeOther
    <3>1. /\ pc = "analyze" /\ pc' = "analyzed" /\ query.conds = <<>>
          /\ UNCHANGED <<parse, query, idx>>
      BY <2>6 DEF AnalyzeOther, AnalyzerInv
    <3>2. DOMAIN query.conds = {}
      BY <3>1
    <3> QED BY <3>1, <3>2, Zenon DEF AnalyzerInv
  <2>7. CASE UNCHANGED analyzerVars
    BY <2>7, Zenon DEF analyzerVars, AnalyzerInv
  <2> QED BY <2>1, <2>2, <2>3, <2>4, <2>5, <2>6, <2>7, GetClauseInv, CheckClauseInv DEF DoAnalyze
<1>3. AnalyzerInv => ConditionsTyped
  BY Zenon DEF AnalyzerInv, ConditionsTyped, ConditionTyped
<1> QED BY <1>1, <1>2, <1>3, PTL DEF AnalyzerSpec
=============================================================================
