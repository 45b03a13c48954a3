-------------------------- MODULE RecordFileProofs --------------------------
(***************************************************************************)
(* Proofs about RecordFile for every page capacity, file size and set of   *)
(* records: RecordInv is an invariant, and the file implements RecordTable *)
(* (each step is a step of the map, or leaves it and `ret' alone).  Of     *)
(* RecordScan: a scan of a table that is changed meanwhile misses no       *)
(* record that stays in it.  Of PoolFiles: a file that is closed and opened *)
(* again has its pages, although the pool keeps pages of closed files.     *)
(***************************************************************************)
EXTENDS RecordScan, PoolFiles, FiniteSetTheorems, WellFoundedInduction, TLAPS

(* The pages a file can have: the component of RecordTypeOK for `pages'.   *)
PageSet == [next_free_page_no : PageNoOrNone \union {0},
            num_records : 0..NumRecords,
            bitmap : SUBSET Slot,
            slots : [Slot -> Record \union {NoRecord}]]

(* A page that is consistent in itself. *)
GoodPage(page) ==
  /\ page \in PageSet
  /\ page.num_records = Cardinality(page.bitmap)
  /\ \A s \in page.bitmap : page.slots[s] \in Record

(* A set of slots is finite and has at most NumRecords members. *)
LEMMA BitmapSize ==
  ASSUME NEW B \in SUBSET Slot
  PROVE  IsFiniteSet(B) /\ Cardinality(B) \in 0..NumRecords
<1>1. IsFiniteSet(Slot) /\ Cardinality(Slot) = NumRecords
  BY FS_Interval, RecordAssumption DEF Slot
<1>2. IsFiniteSet(B) /\ Cardinality(B) <= Cardinality(Slot)
  BY <1>1, FS_Subset, Zenon
<1>3. Cardinality(B) \in Nat
  BY <1>2, FS_CardinalityType, Zenon
<1> QED BY <1>1, <1>2, <1>3, RecordAssumption

(* Filling a free slot keeps the page consistent, and changes only that    *)
(* slot.                                                                   *)
LEMMA FillFacts ==
  ASSUME NEW page, GoodPage(page), NEW s \in Slot, s \notin page.bitmap, NEW d \in Record
  PROVE  /\ GoodPage(Fill(page, s, d))
         /\ Fill(page, s, d).bitmap = page.bitmap \union {s}
         /\ Fill(page, s, d).slots = [page.slots EXCEPT ![s] = d]
         /\ Fill(page, s, d).next_free_page_no = page.next_free_page_no
<1> DEFINE new == Fill(page, s, d)
<1>1. /\ new.bitmap = page.bitmap \union {s}
      /\ new.slots = [page.slots EXCEPT ![s] = d]
      /\ new.next_free_page_no = page.next_free_page_no
      /\ new.num_records = page.num_records + 1
  BY Zenon DEF Fill, GoodPage, PageSet
<1>2. new.bitmap \in SUBSET Slot /\ new.slots \in [Slot -> Record \union {NoRecord}]
  BY <1>1, Zenon DEF GoodPage, PageSet
<1>3. Cardinality(page.bitmap \union {s}) = Cardinality(page.bitmap) + 1
  <2>1. IsFiniteSet(page.bitmap)
    BY BitmapSize, Zenon DEF GoodPage, PageSet
  <2> QED BY <2>1, FS_AddElement, Zenon
<1>4. new.num_records = Cardinality(new.bitmap) /\ new.num_records \in 0..NumRecords
  BY <1>1, <1>2, <1>3, BitmapSize DEF GoodPage
<1>5. \A t \in new.bitmap : new.slots[t] \in Record
  BY <1>1, ZenonT(30) DEF GoodPage, PageSet
<1>6. new.next_free_page_no \in PageNoOrNone \union {0}
  BY <1>1, ZenonT(30) DEF GoodPage, PageSet
<1>7. new \in PageSet
  BY <1>1, <1>2, <1>4, <1>6, Zenon DEF PageSet, Fill
<1> HIDE DEF new
<1>8. GoodPage(new)
  BY <1>4, <1>5, <1>7, Zenon DEF GoodPage
<1> QED BY <1>1, <1>8, Zenon DEF new

(* Overwriting a slot in use keeps the page consistent. *)
LEMMA OverwriteFacts ==
  ASSUME NEW page, GoodPage(page), NEW s \in page.bitmap, NEW d \in Record
  PROVE  /\ GoodPage(Overwrite(page, s, d))
         /\ Overwrite(page, s, d).bitmap = page.bitmap
         /\ Overwrite(page, s, d).slots = [page.slots EXCEPT ![s] = d]
         /\ Overwrite(page, s, d).next_free_page_no = page.next_free_page_no
  BY Zenon DEF Overwrite, GoodPage, PageSet

(* Giving up a slot keeps the page consistent. *)
LEMMA ClearFacts ==
  ASSUME NEW page, GoodPage(page), NEW s \in page.bitmap,
         NEW next \in PageNoOrNone \union {0}
  PROVE  /\ GoodPage(Clear(page, s, next))
         /\ Clear(page, s, next).bitmap = page.bitmap \ {s}
         /\ Clear(page, s, next).slots = page.slots
         /\ Clear(page, s, next).next_free_page_no = next
<1> DEFINE new == Clear(page, s, next)
<1>1. /\ new.bitmap = page.bitmap \ {s} /\ new.slots = page.slots
      /\ new.next_free_page_no = next /\ new.num_records = page.num_records - 1
  BY Zenon DEF Clear
<1>2. IsFiniteSet(page.bitmap)
  BY BitmapSize, Zenon DEF GoodPage, PageSet
<1>3. Cardinality(page.bitmap \ {s}) = Cardinality(page.bitmap) - 1
  BY <1>2, FS_RemoveElement, Zenon
<1>4. page.bitmap \ {s} \in SUBSET Slot
  BY Zenon DEF GoodPage, PageSet
<1>5. new.num_records = Cardinality(new.bitmap) /\ new.num_records \in 0..NumRecords
  BY <1>1, <1>3, <1>4, BitmapSize, Zenon DEF GoodPage
<1>6. new \in PageSet
  BY <1>1, <1>4, <1>5, Zenon DEF PageSet, Clear, GoodPage
<1>7. \A t \in new.bitmap : new.slots[t] \in Record
  BY <1>1, Zenon DEF GoodPage
<1> HIDE DEF new
<1>8. GoodPage(new)
  BY <1>5, <1>6, <1>7, Zenon DEF GoodPage
<1> QED BY <1>1, <1>8, Zenon DEF new

(* What RecordInv says of one page. *)
LEMMA InvPages == RecordInv <=> /\ RecordTypeOK /\ FreeListInFile /\ NewPagesAreFresh
                                /\ \A n \in DataPage : GoodPage(pages[n])
  BY Zenon DEF RecordInv, RecordTypeOK, CountsMatchBitmaps, GoodPage, PageSet

(* The slots found have a first: what CHOOSE stands for in NextBit. *)
LEMMA LeastNatural ==
  ASSUME NEW T \in SUBSET Nat, T # {}
  PROVE  \E i \in T : \A j \in T : i <= j
<1> DEFINE less == {ss \in Nat \X Nat : ss[1] < ss[2]}
<1>1. less = OpToRel(<, Nat)
  BY Zenon DEF OpToRel
<1>2. IsWellFoundedOn(less, Nat)
  BY <1>1, NatLessThanWellFounded, Zenon
<1>3. PICK i \in T : \A j \in T : ~(<<j, i>> \in less)
  <2> HIDE DEF less
  <2> QED BY <1>2, WFMin, Zenon
<1>4. \A j \in T : ~(j < i)
  BY <1>3, Zenon
<1> QED BY <1>4

(* first_bit(false, ...) is a free slot, if there is one. *)
LEMMA FirstBitFacts ==
  ASSUME NEW B, FirstBit(FALSE, B) # NumRecords
  PROVE  FirstBit(FALSE, B) \in Slot /\ FirstBit(FALSE, B) \notin B
<1> DEFINE found == {i \in Slot : i > -1 /\ (i \in B <=> FALSE)}
<1>1. found # {} /\ FirstBit(FALSE, B) = CHOOSE i \in found : \A j \in found : i <= j
  BY Zenon DEF FirstBit, NextBit
<1>2. found \in SUBSET Nat
  BY DEF Slot
<1>3. \E i \in found : \A j \in found : i <= j
  BY <1>1, <1>2, LeastNatural, Zenon
<1> QED BY <1>1, <1>3, Zenon

-----------------------------------------------------------------------------
(* A call that changes one page leaves it consistent, and the others as    *)
(* they were.                                                              *)
LEMMA OnePage ==
  ASSUME RecordInv, NEW n \in DataPage, NEW page, GoodPage(page),
         pages' = [pages EXCEPT ![n] = page]
  PROVE  /\ pages'[n] = page
         /\ \A m \in DataPage : m # n => pages'[m] = pages[m]
         /\ \A m \in DataPage : GoodPage(pages'[m])
         /\ pages' \in [DataPage -> PageSet]
<1>1. pages \in [DataPage -> PageSet] /\ \A m \in DataPage : GoodPage(pages[m])
  BY InvPages, Zenon DEF RecordTypeOK, PageSet
<1>2. page \in PageSet
  BY Zenon DEF GoodPage
<1> QED BY <1>1, <1>2, Zenon

(* insert_record() into the page at the head of the list. *)
LEMMA InsertFreeFacts ==
  ASSUME RecordInv, NEW d \in Record, InsertFree(d)
  PROVE  \E n \in DataPage, s \in Slot :
           /\ opened /\ n = first_free_page_no /\ n < num_pages /\ s \notin pages[n].bitmap
           /\ GoodPage(pages[n])
           /\ pages' = [pages EXCEPT ![n] = Fill(pages[n], s, d)]
           /\ UNCHANGED <<num_pages, opened, next_pageno>>
           /\ first_free_page_no' \in {first_free_page_no, pages[n].next_free_page_no}
           /\ hdr' \in {hdr, [num_pages |-> num_pages,
                              first_free_page_no |-> first_free_page_no']}
           /\ ret' = [op |-> "insert", rid |-> [page_no |-> n, slot_no |-> s], res |-> Done]
<1>1. PICK n \in DataPage : n = first_free_page_no /\ n < num_pages
  BY Zenon DEF RecordInv, FreeListInFile, FirstFree, NumPages, InsertFree
<1>2. GoodPage(pages[n])
  BY InvPages, Zenon
<1>3. PICK s \in Slot : s = FirstBit(FALSE, pages[n].bitmap) /\ s \notin pages[n].bitmap
  BY <1>1, FirstBitFacts, Zenon DEF InsertFree, InsertInto, FreePage
<1>4. Fill(pages[n], s, d).next_free_page_no = pages[n].next_free_page_no
  BY Zenon DEF Fill
<1>5. /\ opened /\ UNCHANGED <<num_pages, opened, next_pageno>>
      /\ pages' = [pages EXCEPT ![n] = Fill(pages[n], s, d)]
      /\ ret' = [op |-> "insert", rid |-> [page_no |-> n, slot_no |-> s], res |-> Done]
  BY <1>1, <1>3, Zenon DEF InsertFree, InsertInto, FreePage, Returns
<1>6. /\ first_free_page_no' \in {first_free_page_no, pages[n].next_free_page_no}
      /\ hdr' \in {hdr, [num_pages |-> num_pages,
                         first_free_page_no |-> first_free_page_no']}
  BY <1>1, <1>3, <1>4, Zenon DEF InsertFree, InsertInto, FreePage
<1> QED BY <1>1, <1>2, <1>3, <1>5, <1>6, Zenon

(* insert_record() that fails to write the header. *)
LEMMA InsertHdrThrowsFacts ==
  ASSUME RecordInv, NEW d \in Record, InsertHdrThrows(d)
  PROVE  \E n \in DataPage, s \in Slot :
           /\ opened /\ n = first_free_page_no /\ n < num_pages /\ s \notin pages[n].bitmap
           /\ GoodPage(pages[n])
           /\ pages' = [pages EXCEPT ![n] = Fill(pages[n], s, d)]
           /\ first_free_page_no' = pages[n].next_free_page_no
           /\ UNCHANGED <<num_pages, hdr, opened, next_pageno>>
           /\ ret' = [op |-> "insert", rid |-> << >>, res |-> Refused]
<1>1. PICK n \in DataPage : n = first_free_page_no /\ n < num_pages
  BY Zenon DEF RecordInv, FreeListInFile, FirstFree, NumPages, InsertHdrThrows
<1>2. GoodPage(pages[n])
  BY InvPages, Zenon
<1>3. PICK s \in Slot : s = FirstBit(FALSE, pages[n].bitmap) /\ s \notin pages[n].bitmap
  BY <1>1, FirstBitFacts, Zenon DEF InsertHdrThrows, FreePage
<1>4. Fill(pages[n], s, d).next_free_page_no = pages[n].next_free_page_no
  BY Zenon DEF Fill
<1>5. /\ opened /\ UNCHANGED <<num_pages, hdr, opened, next_pageno>>
      /\ pages' = [pages EXCEPT ![n] = Fill(pages[n], s, d)]
      /\ ret' = [op |-> "insert", rid |-> << >>, res |-> Refused]
      /\ first_free_page_no' = pages[n].next_free_page_no
  BY <1>1, <1>3, <1>4, Zenon DEF InsertHdrThrows, FreePage, Returns
<1> QED BY <1>1, <1>2, <1>3, <1>5, Zenon

(* insert_record() into a page that new_page() gives. *)
LEMMA InsertNewFacts ==
  ASSUME RecordInv, NEW d \in Record, InsertNew(d)
  PROVE  \E n \in DataPage, s \in Slot :
           /\ opened /\ n = next_pageno /\ num_pages <= n
           /\ GoodPage(NewPage) /\ s \notin NewPage.bitmap
           /\ pages' = [pages EXCEPT ![n] = Fill(NewPage, s, d)]
           /\ num_pages' = n + 1 /\ next_pageno' = n + 1
           /\ UNCHANGED <<opened, first_free_page_no, hdr>>
           /\ ret' = [op |-> "insert", rid |-> [page_no |-> n, slot_no |-> s], res |-> Done]
<1>1. PICK n \in DataPage : n = next_pageno /\ num_pages <= n
  BY RecordAssumption
     DEF RecordInv, NewPagesAreFresh, RecordTypeOK, DataPage, InsertNew
<1>2. GoodPage(NewPage)
  <2>1. NewPage = [next_free_page_no |-> RM_NO_PAGE, num_records |-> 0, bitmap |-> {},
                   slots |-> [s \in Slot |-> NoRecord]]
    BY DEF NewPage, ZeroPage
  <2>2. Cardinality({}) = 0
    BY FS_EmptySet, Zenon
  <2> QED BY <2>1, <2>2, RecordAssumption DEF GoodPage, PageSet, PageNoOrNone
<1>3. FreshPage = [page_no |-> n, page |-> NewPage, num_pages |-> n + 1]
  BY <1>1, Zenon DEF FreshPage
<1>4. PICK s \in Slot : s = FirstBit(FALSE, NewPage.bitmap) /\ s \notin NewPage.bitmap
  BY <1>3, FirstBitFacts, Zenon DEF InsertNew, InsertInto
<1>5. /\ opened /\ UNCHANGED opened /\ num_pages' = n + 1 /\ next_pageno' = n + 1
      /\ pages' = [pages EXCEPT ![n] = Fill(NewPage, s, d)]
      /\ ret' = [op |-> "insert", rid |-> [page_no |-> n, slot_no |-> s], res |-> Done]
  BY <1>1, <1>3, <1>4, Zenon DEF InsertNew, InsertInto, Returns
<1>6. first_free_page_no # n
  BY DEF InsertNew, RM_NO_PAGE, DataPage
<1>7. UNCHANGED <<first_free_page_no, hdr>>
  BY <1>3, <1>6, Zenon DEF InsertNew, InsertInto
<1> QED BY <1>1, <1>2, <1>4, <1>5, <1>7, Zenon

(* The calls preserve RecordInv, one lemma for each way they change a      *)
(* page.  First: a page already in the file is filled or overwritten.      *)
LEMMA SameLinksInv ==
  ASSUME RecordInv, NEW n \in DataPage, n < num_pages, NEW page, GoodPage(page),
         page.next_free_page_no = pages[n].next_free_page_no,
         pages' = [pages EXCEPT ![n] = page],
         opened, UNCHANGED <<num_pages, opened, next_pageno>>,
         \/ first_free_page_no' = first_free_page_no
         \/ /\ n = first_free_page_no
            /\ first_free_page_no' = pages[n].next_free_page_no,
         hdr' \in {hdr, [num_pages |-> num_pages,
                         first_free_page_no |-> first_free_page_no']}
  PROVE  RecordInv'
<1>1. /\ pages'[n] = page /\ \A m \in DataPage : m # n => pages'[m] = pages[m]
      /\ \A m \in DataPage : GoodPage(pages'[m])
      /\ pages' \in [DataPage -> PageSet]
  BY OnePage, Zenon
<1> DEFINE linked == {m \in DataPage : pages[m].next_free_page_no # 0}
<1>2. /\ first_free_page_no \in linked \union {RM_NO_PAGE}
      /\ \A m \in linked : /\ m < num_pages
                           /\ pages[m].next_free_page_no \in linked \union {RM_NO_PAGE}
  BY Zenon DEF RecordInv, FreeListInFile, FirstFree, NumPages
<1>3. \A m \in DataPage : pages'[m].next_free_page_no = pages[m].next_free_page_no
  BY <1>1, Zenon
<1>4. first_free_page_no' \in linked \union {RM_NO_PAGE}
  <2>1. CASE first_free_page_no' = first_free_page_no
    BY <1>2, <2>1, Zenon
  <2>2. CASE n = first_free_page_no /\ first_free_page_no' = pages[n].next_free_page_no
    BY <1>2, <2>2 DEF DataPage, RM_NO_PAGE
  <2> QED BY <2>1, <2>2, Zenon
<1>5. FreeListInFile'
  BY <1>2, <1>3, <1>4, Zenon DEF FreeListInFile, FirstFree, NumPages
<1>6. NewPagesAreFresh'
  BY <1>1 DEF RecordInv, NewPagesAreFresh, NumPages, RecordTypeOK, DataPage
<1>7. RecordTypeOK'
  BY <1>1, <1>4 DEF RecordInv, RecordTypeOK, PageNoOrNone, PageSet
<1> QED BY <1>1, <1>5, <1>6, <1>7, InvPages, Zenon
           DEF GoodPage, RecordInv, CountsMatchBitmaps

(* A new page is added to the file. *)
LEMMA InsertNewInv ==
  ASSUME RecordInv, NEW d \in Record, InsertNew(d)
  PROVE  RecordInv'
<1>1. PICK n \in DataPage, s \in Slot :
           /\ opened /\ n = next_pageno /\ num_pages <= n
           /\ GoodPage(NewPage) /\ s \notin NewPage.bitmap
           /\ pages' = [pages EXCEPT ![n] = Fill(NewPage, s, d)]
           /\ num_pages' = n + 1 /\ next_pageno' = n + 1
           /\ UNCHANGED <<opened, first_free_page_no, hdr>>
  BY InsertNewFacts, Zenon
<1>2. /\ GoodPage(Fill(NewPage, s, d))
      /\ Fill(NewPage, s, d).next_free_page_no = NewPage.next_free_page_no
  <2>1. PICK page : page = NewPage
    BY Zenon
  <2>2. GoodPage(page) /\ s \notin page.bitmap
    BY <1>1, <2>1, Zenon
  <2>3. GoodPage(Fill(page, s, d))
    BY <2>2, FillFacts, Zenon
  <2> QED BY <2>1, <2>3, Zenon DEF Fill
<1>3. /\ pages'[n] = Fill(NewPage, s, d)
      /\ \A m \in DataPage : m # n => pages'[m] = pages[m]
      /\ \A m \in DataPage : GoodPage(pages'[m])
      /\ pages' \in [DataPage -> PageSet]
  BY <1>1, <1>2, OnePage, Zenon
<1> DEFINE linked == {m \in DataPage : pages[m].next_free_page_no # 0}
<1>4. /\ first_free_page_no \in linked \union {RM_NO_PAGE}
      /\ \A m \in linked : /\ m < num_pages
                           /\ pages[m].next_free_page_no \in linked \union {RM_NO_PAGE}
  BY <1>1, Zenon DEF RecordInv, FreeListInFile, FirstFree, NumPages
<1>5. pages'[n].next_free_page_no = RM_NO_PAGE
  BY <1>2, <1>3, Zenon DEF NewPage, ZeroPage
<1>6. {m \in DataPage : pages'[m].next_free_page_no # 0} = linked \union {n}
  BY <1>3, <1>5 DEF RM_NO_PAGE
<1>7. num_pages \in Int /\ n \in Int /\ \A m \in linked \union {n} : m \in Int /\ m < n + 1
  BY <1>1, <1>4 DEF RecordInv, RecordTypeOK, DataPage
<1>8. \A m \in linked \union {n} :
        pages'[m].next_free_page_no \in (linked \union {n}) \union {RM_NO_PAGE}
  BY <1>3, <1>4, <1>5, Zenon
<1>9. FreeListInFile'
  BY <1>1, <1>4, <1>6, <1>7, <1>8, Zenon DEF FreeListInFile, FirstFree, NumPages
<1>10. NewPagesAreFresh'
  <2>1. \A m \in DataPage : m >= n + 1 => m >= num_pages /\ m # n
    BY <1>1, <1>7 DEF DataPage
  <2> QED BY <1>1, <1>3, <1>7, <2>1 DEF RecordInv, NewPagesAreFresh, NumPages
<1>11. RecordTypeOK'
  <2>1. n + 1 \in 1..MaxPages
    BY RecordAssumption DEF DataPage
  <2> QED BY <1>1, <1>3, <2>1, Zenon DEF RecordInv, RecordTypeOK, PageSet
<1> QED BY <1>3, <1>9, <1>10, <1>11, Zenon
           DEF GoodPage, RecordInv, CountsMatchBitmaps

(* A slot is given up; a page that was full becomes the head of the list. *)
LEMMA DeleteRecordInv ==
  ASSUME RecordInv, NEW rid \in Arg, DeleteRecord(rid)
  PROVE  RecordInv'
<1>1. PICK n \in DataPage : n = rid.page_no /\ n < num_pages
  BY RecordAssumption
     DEF DeleteRecord, IsSet, HasSlot, PageExists, RecordInv, RecordTypeOK, DataPage
<1>2. rid.slot_no \in pages[n].bitmap /\ GoodPage(pages[n]) /\ opened
  BY <1>1, InvPages, Zenon DEF DeleteRecord, IsSet
<1> DEFINE linked == {m \in DataPage : pages[m].next_free_page_no # 0}
<1>3. /\ first_free_page_no \in linked \union {RM_NO_PAGE}
      /\ \A m \in linked : /\ m < num_pages
                           /\ pages[m].next_free_page_no \in linked \union {RM_NO_PAGE}
  BY <1>2, Zenon DEF RecordInv, FreeListInFile, FirstFree, NumPages
<1>4. PICK next \in PageNoOrNone \union {0} :
        /\ pages' = [pages EXCEPT ![n] = Clear(pages[n], rid.slot_no, next)]
        /\ \/ /\ next = pages[n].next_free_page_no
              /\ first_free_page_no' = first_free_page_no
           \/ /\ next = first_free_page_no
              /\ first_free_page_no' = n
  BY <1>1, <1>2, Zenon
     DEF DeleteRecord, RecordInv, RecordTypeOK, GoodPage, PageSet
<1>5. UNCHANGED <<num_pages, hdr, opened, next_pageno>>
  BY Zenon DEF DeleteRecord
<1>6. /\ GoodPage(Clear(pages[n], rid.slot_no, next))
      /\ Clear(pages[n], rid.slot_no, next).bitmap = pages[n].bitmap \ {rid.slot_no}
      /\ Clear(pages[n], rid.slot_no, next).next_free_page_no = next
  BY <1>2, ClearFacts
<1>7. /\ pages'[n] = Clear(pages[n], rid.slot_no, next)
      /\ \A m \in DataPage : m # n => pages'[m] = pages[m]
      /\ \A m \in DataPage : GoodPage(pages'[m])
      /\ pages' \in [DataPage -> PageSet]
  BY <1>4, <1>6, OnePage, Zenon
<1>8. FreeListInFile'
  <2>1. CASE next = pages[n].next_free_page_no /\ first_free_page_no' = first_free_page_no
    <3>1. \A m \in DataPage : pages'[m].next_free_page_no = pages[m].next_free_page_no
      BY <1>6, <1>7, <2>1, Zenon
    <3> QED BY <1>2, <1>3, <1>5, <2>1, <3>1, Zenon
               DEF FreeListInFile, FirstFree, NumPages
  <2>2. CASE next = first_free_page_no /\ first_free_page_no' = n
    <3>1. next # 0 /\ pages'[n].next_free_page_no = next
      BY <1>3, <1>6, <1>7, <2>2 DEF DataPage, RM_NO_PAGE
    <3>2. {m \in DataPage : pages'[m].next_free_page_no # 0} = linked \union {n}
      BY <1>7, <3>1, Zenon
    <3>3. \A m \in linked \union {n} :
            /\ m < num_pages
            /\ pages'[m].next_free_page_no \in (linked \union {n}) \union {RM_NO_PAGE}
      BY <1>1, <1>3, <1>7, <2>2, <3>1, Zenon
    <3> QED BY <1>2, <1>5, <2>2, <3>2, <3>3, Zenon
               DEF FreeListInFile, FirstFree, NumPages
  <2> QED BY <1>4, <2>1, <2>2, Zenon
<1>9. NewPagesAreFresh'
  BY <1>1, <1>2, <1>5, <1>7, Zenon
     DEF RecordInv, NewPagesAreFresh, NumPages, RecordTypeOK, DataPage
<1>10. RecordTypeOK'
  BY <1>4, <1>5, <1>7, Zenon DEF RecordInv, RecordTypeOK, PageSet, PageNoOrNone
<1> QED BY <1>7, <1>8, <1>9, <1>10, Zenon
           DEF GoodPage, RecordInv, CountsMatchBitmaps

(* The remaining calls change no page. *)
LEMMA InitRecordInv == RecordInit => RecordInv
<1> SUFFICES ASSUME RecordInit PROVE RecordInv
  BY Zenon
<1>1. Cardinality({}) = 0
  BY FS_EmptySet, Zenon
<1>2. ZeroPage \in PageSet
  BY RecordAssumption DEF ZeroPage, PageSet
<1>3. RecordTypeOK
  BY <1>2, RecordAssumption DEF RecordInit, RecordTypeOK, PageNoOrNone, PageSet
<1>4. CountsMatchBitmaps /\ NewPagesAreFresh
  <2>1. \A n \in DataPage : pages[n].num_records = 0 /\ pages[n].bitmap = {}
    BY Zenon DEF RecordInit, ZeroPage
  <2>2. num_pages <= next_pageno
    BY DEF RecordInit
  <2> QED BY <1>1, <2>1, <2>2, Zenon DEF CountsMatchBitmaps, NewPagesAreFresh
<1>5. FreeListInFile
  BY Zenon DEF RecordInit, FreeListInFile, FirstFree, ZeroPage
<1> QED BY <1>3, <1>4, <1>5, Zenon DEF RecordInv, RecordInit, ZeroPage

(* Every call keeps RecordInv. *)
LEMMA NextRecordInv == RecordInv /\ [RecordNext]_recordVars => RecordInv'
<1> SUFFICES ASSUME RecordInv, [RecordNext]_recordVars PROVE RecordInv'
  BY Zenon
<1>1. ASSUME NEW d \in Record, InsertFree(d) \/ InsertHdrThrows(d) PROVE RecordInv'
  <2>1. PICK n \in DataPage, s \in Slot :
           /\ opened /\ n = first_free_page_no /\ n < num_pages /\ s \notin pages[n].bitmap
           /\ GoodPage(pages[n])
           /\ pages' = [pages EXCEPT ![n] = Fill(pages[n], s, d)]
           /\ UNCHANGED <<num_pages, opened, next_pageno>>
           /\ first_free_page_no' \in {first_free_page_no, pages[n].next_free_page_no}
           /\ hdr' \in {hdr, [num_pages |-> num_pages,
                              first_free_page_no |-> first_free_page_no']}
    BY <1>1, InsertFreeFacts, InsertHdrThrowsFacts, Zenon
  <2>2. /\ GoodPage(Fill(pages[n], s, d))
        /\ Fill(pages[n], s, d).next_free_page_no = pages[n].next_free_page_no
    <3>1. PICK page : page = pages[n] /\ GoodPage(page) /\ s \notin page.bitmap
      BY <2>1, Zenon
    <3>2. GoodPage(Fill(page, s, d))
      BY <3>1, FillFacts, Zenon
    <3> QED BY <3>1, <3>2, Zenon DEF Fill
  <2>3. \/ first_free_page_no' = first_free_page_no
        \/ /\ n = first_free_page_no
           /\ first_free_page_no' = pages[n].next_free_page_no
    BY <2>1, Zenon
  <2> QED BY <2>1, <2>2, <2>3, SameLinksInv, Zenon
<1>2. ASSUME NEW rid \in Arg, NEW d \in Record, InsertAt(rid, d) \/ UpdateRecord(rid, d)
      PROVE  RecordInv'
  <2>1. PICK n \in DataPage : n = rid.page_no /\ n < num_pages
    BY <1>2, RecordAssumption
       DEF InsertAt, UpdateRecord, IsSet, HasSlot, PageExists, RecordInv, RecordTypeOK,
           DataPage
  <2>2. /\ GoodPage(pages[n]) /\ opened /\ rid.slot_no \in Slot
        /\ UNCHANGED <<num_pages, first_free_page_no, hdr, opened, next_pageno>>
    BY <1>2, InvPages, Zenon DEF InsertAt, UpdateRecord, IsSet, HasSlot, fileHdr
  <2>3. CASE rid.slot_no \in pages[n].bitmap
    <3>1. IsSet(rid)
      BY <1>2, <2>1, <2>3, Zenon DEF InsertAt, UpdateRecord, IsSet
    <3>2. pages' = [pages EXCEPT ![n] = Overwrite(pages[n], rid.slot_no, d)]
      BY <1>2, <2>1, <3>1, Zenon DEF InsertAt, UpdateRecord
    <3>3. /\ GoodPage(Overwrite(pages[n], rid.slot_no, d))
          /\ Overwrite(pages[n], rid.slot_no, d).next_free_page_no
               = pages[n].next_free_page_no
      BY <2>2, <2>3, OverwriteFacts, ZenonT(30)
    <3> QED BY <2>1, <2>2, <3>2, <3>3, SameLinksInv, Zenon
  <2>4. CASE rid.slot_no \notin pages[n].bitmap
    <3>1. ~IsSet(rid)
      BY <2>1, <2>4, Zenon DEF IsSet
    <3>2. pages' = [pages EXCEPT ![n] = Fill(pages[n], rid.slot_no, d)]
      BY <1>2, <2>1, <3>1, Zenon DEF InsertAt, UpdateRecord
    <3>3. /\ GoodPage(Fill(pages[n], rid.slot_no, d))
          /\ Fill(pages[n], rid.slot_no, d).next_free_page_no = pages[n].next_free_page_no
      <4>1. PICK page : page = pages[n]
        BY Zenon
      <4>2. PICK s \in Slot : s = rid.slot_no /\ GoodPage(page) /\ s \notin page.bitmap
        BY <2>2, <2>4, <4>1, Zenon
      <4>3. GoodPage(Fill(page, s, d))
        BY <4>2, FillFacts, Zenon
      <4> QED BY <4>1, <4>2, <4>3, Zenon DEF Fill
    <3> QED BY <2>1, <2>2, <3>2, <3>3, SameLinksInv, Zenon
  <2> QED BY <2>3, <2>4, Zenon
<1>3. ASSUME InsertNewThrows PROVE RecordInv'
  <2>1. /\ next_pageno' = next_pageno + 1 /\ next_pageno < MaxPages
        /\ UNCHANGED <<num_pages, first_free_page_no, hdr, opened, pages>>
    BY <1>3, Zenon DEF InsertNewThrows, fileHdr
  <2>2. RecordTypeOK'
    BY <2>1, RecordAssumption DEF RecordInv, RecordTypeOK
  <2>3. NewPagesAreFresh'
    BY <2>1 DEF RecordInv, RecordTypeOK, NewPagesAreFresh, NumPages
  <2>4. FreeListInFile'
    BY <2>1, Zenon DEF RecordInv, FreeListInFile, FirstFree, NumPages
  <2> QED BY <2>1, <2>2, <2>3, <2>4, Zenon DEF RecordInv, CountsMatchBitmaps
<1>4. ASSUME \/ InsertFull \/ FetchFails \/ UNCHANGED recordVars
             \/ \E rid \in Arg : GetRecord(rid) \/ Misses(rid)
      PROVE  RecordInv'
  <2>1. UNCHANGED <<num_pages, first_free_page_no, hdr, opened, next_pageno, pages>>
    BY <1>4, Zenon
       DEF InsertFull, FetchFails, GetRecord, Misses, fileHdr, recordVars
  <2>2. RecordTypeOK' /\ CountsMatchBitmaps' /\ NewPagesAreFresh'
    BY <2>1, Zenon
       DEF RecordInv, RecordTypeOK, CountsMatchBitmaps, NewPagesAreFresh, NumPages
  <2>3. FreeListInFile'
    BY <2>1, Zenon DEF RecordInv, FreeListInFile, FirstFree, NumPages
  <2> QED BY <2>1, <2>2, <2>3, Zenon DEF RecordInv
<1>5. ASSUME CloseHandle \/ OpenHandle PROVE RecordInv'
  <2>1. NumPages' = NumPages /\ FirstFree' = FirstFree /\ UNCHANGED pages
    BY <1>5 DEF CloseHandle, OpenHandle, NumPages, FirstFree, fileHdr
  <2>2. RecordTypeOK'
    <3>1. CASE CloseHandle
      BY <3>1, Zenon DEF CloseHandle, fileHdr, RecordInv, RecordTypeOK
    <3>2. CASE OpenHandle
      BY <3>2, Zenon DEF OpenHandle, RecordInv, RecordTypeOK
    <3> QED BY <1>5, <3>1, <3>2, Zenon
  <2>3. NewPagesAreFresh'
    BY <1>5, <2>1 DEF CloseHandle, OpenHandle, fileHdr, RecordInv, RecordTypeOK,
                      NewPagesAreFresh
  <2>4. FreeListInFile'
    BY <2>1, Zenon DEF RecordInv, FreeListInFile
  <2> QED BY <2>1, <2>2, <2>3, <2>4, Zenon DEF RecordInv, CountsMatchBitmaps
<1> QED BY <1>1, <1>2, <1>3, <1>4, <1>5, InsertNewInv, DeleteRecordInv, Zenon
        DEF RecordNext, Insert

(* In every reachable state the counts in the page headers match the       *)
(* bitmaps, the list of pages with free space stays in the file, and new   *)
(* pages are beyond those with records.                                    *)
THEOREM RecordInvariant == RecordSpec => []RecordInv
  BY InitRecordInv, NextRecordInv, PTL DEF RecordSpec

(* The headers and bitmaps keep their types: no page or slot number and no *)
(* count goes out of range.                                                *)
THEOREM RecordTypes == RecordSpec => []RecordTypeOK
<1>1. RecordInv => RecordTypeOK
  BY Zenon DEF RecordInv
<1> QED BY <1>1, RecordInvariant, PTL

(* insert_record() and delete_record() may judge a page full by            *)
(* num_records and search it by the bitmap: the two agree.                 *)
THEOREM CountsAgree == RecordSpec => []CountsMatchBitmaps
<1>1. RecordInv => CountsMatchBitmaps
  BY Zenon DEF RecordInv
<1> QED BY <1>1, RecordInvariant, PTL

(* create_page_handle() always finds the page first_free_page_no names.    *)
THEOREM ListStaysInFile == RecordSpec => []FreeListInFile
<1>1. RecordInv => FreeListInFile
  BY Zenon DEF RecordInv
<1> QED BY <1>1, RecordInvariant, PTL

(* create_new_page_handle() always gets a page without records, also after *)
(* the file has been closed and opened again.                              *)
THEOREM NewPagesEmpty == RecordSpec => []NewPagesAreFresh
<1>1. RecordInv => NewPagesAreFresh
  BY Zenon DEF RecordInv
<1> QED BY <1>1, RecordInvariant, PTL

-----------------------------------------------------------------------------
(* The file implements the map.  A call that gives a place a record does   *)
(* so in the map.                                                          *)
LEMMA PutsRecord ==
  ASSUME RecordInv, NEW n \in DataPage, NEW s \in Slot, NEW d,
         pages[n].bitmap \in SUBSET Slot,
         pages'[n].bitmap = pages[n].bitmap \union {s},
         pages'[n].slots[s] = d,
         \A t \in pages[n].bitmap : t # s => pages'[n].slots[t] = pages[n].slots[t],
         \A m \in DataPage : m # n => pages'[m] = pages[m],
         NumPages \in Int, NumPages' \in Int, NumPages <= NumPages', n < NumPages',
         n < NumPages \/ pages[n].bitmap = {},
         \A m \in DataPage : m >= NumPages => pages[m].bitmap = {}
  PROVE  Records' = Table!With([page_no |-> n, slot_no |-> s], d)
<1> DEFINE rid == [page_no |-> n, slot_no |-> s]
<1>1. rid \in Rid
  BY Zenon DEF Rid
<1>2. ASSUME NEW r \in Rid PROVE r \in Used' <=> r \in Used \/ r = rid
  <2>1. r.page_no \in DataPage /\ r.slot_no \in Slot /\ r.page_no \in Int
    BY DEF Rid, DataPage
  <2>2. r = rid <=> r.page_no = n /\ r.slot_no = s
    BY DEF Rid
  <2>3. CASE r.page_no = n
    BY <2>1, <2>2, <2>3 DEF Used
  <2>4. CASE r.page_no # n
    <3>1. pages'[r.page_no] = pages[r.page_no] /\ r # rid
      BY <2>1, <2>2, <2>4, Zenon
    <3>2. r.page_no >= NumPages => pages[r.page_no].bitmap = {}
      BY <2>1, Zenon
    <3> QED BY <2>1, <3>1, <3>2 DEF Used
  <2> QED BY <2>3, <2>4, Zenon
<1>3. Used' = Used \union {rid}
  BY <1>1, <1>2 DEF Used
<1>4. ASSUME NEW r \in Used'
      PROVE  pages'[r.page_no].slots[r.slot_no]
               = IF r = rid THEN d ELSE pages[r.page_no].slots[r.slot_no]
  <2>1. r \in Rid /\ r.page_no \in DataPage /\ r.slot_no \in Slot
    BY Zenon DEF Used, Rid
  <2>2. r = rid <=> r.page_no = n /\ r.slot_no = s
    BY <2>1 DEF Rid
  <2>3. CASE r = rid
    BY <2>2, <2>3, Zenon
  <2>4. CASE r # rid /\ r.page_no = n
    <3>1. r.slot_no \in pages[n].bitmap /\ r.slot_no # s
      BY <1>3, <2>2, <2>4, Zenon DEF Used
    <3> QED BY <2>4, <3>1, Zenon
  <2>5. CASE r # rid /\ r.page_no # n
    BY <2>1, <2>5, Zenon
  <2> QED BY <2>3, <2>4, <2>5, Zenon
<1>5. \A r \in Used : Records[r] = pages[r.page_no].slots[r.slot_no]
  BY Zenon DEF Records
<1>6. DOMAIN Records = Used
  BY Zenon DEF Records
<1>7. Records' = [r \in Used' |-> pages'[r.page_no].slots[r.slot_no]]
  BY Zenon DEF Records
<1>8. Records' = [r \in Used \union {rid} |-> IF r = rid THEN d ELSE Records[r]]
  BY <1>3, <1>4, <1>5, <1>7
<1> QED BY <1>6, <1>8, Zenon DEF Table!With

(* What RecordInv says about the pages of the file that PutsRecord needs.  *)
LEMMA PagesInFile ==
  ASSUME RecordInv
  PROVE  /\ \A n \in DataPage : GoodPage(pages[n]) /\ pages[n].bitmap \in SUBSET Slot
         /\ NumPages \in 1..MaxPages
         /\ \A m \in DataPage : m >= NumPages => pages[m].bitmap = {}
<1>1. \A n \in DataPage : GoodPage(pages[n])
  BY InvPages, Zenon
<1>2. NumPages \in 1..MaxPages
  BY Zenon DEF RecordInv, RecordTypeOK, NumPages
<1> QED BY <1>1, <1>2, Zenon DEF RecordInv, NewPagesAreFresh, GoodPage, PageSet

(* A free slot of a page of the file that is filled is a new record. *)
LEMMA FillsPlace ==
  ASSUME RecordInv, NEW n \in DataPage, NEW s \in Slot, NEW d,
         opened, n < num_pages, s \notin pages[n].bitmap, GoodPage(pages[n]),
         pages' = [pages EXCEPT ![n] = Fill(pages[n], s, d)],
         UNCHANGED <<num_pages, opened>>
  PROVE  /\ [page_no |-> n, slot_no |-> s] \in Rid \ Used
         /\ Records' = Table!With([page_no |-> n, slot_no |-> s], d)
<1>1. /\ pages'[n] = Fill(pages[n], s, d)
      /\ \A m \in DataPage : m # n => pages'[m] = pages[m]
  BY Zenon DEF RecordInv, RecordTypeOK
<1>2. /\ pages'[n].bitmap = pages[n].bitmap \union {s}
      /\ pages'[n].slots = [pages[n].slots EXCEPT ![s] = d]
  BY <1>1 DEF Fill
<1>3. pages'[n].slots[s] = d /\ \A t \in Slot : t # s => pages'[n].slots[t] = pages[n].slots[t]
  BY <1>2 DEF GoodPage, PageSet
<1>4. /\ NumPages = num_pages /\ NumPages' = NumPages /\ NumPages \in Int
      /\ pages[n].bitmap \in SUBSET Slot
      /\ \A m \in DataPage : m >= NumPages => pages[m].bitmap = {}
  BY PagesInFile DEF NumPages
<1>5. Records' = Table!With([page_no |-> n, slot_no |-> s], d)
  BY <1>1, <1>2, <1>3, <1>4, PutsRecord
<1>6. [page_no |-> n, slot_no |-> s] \in Rid \ Used
  BY Zenon DEF Rid, Used
<1> QED BY <1>5, <1>6, Zenon

(* insert_record(buf) that throws for the header has put its record in a   *)
(* place that had none.                                                    *)
LEMMA InsertUntoldImplements ==
  ASSUME RecordInv, NEW d \in Record, InsertHdrThrows(d)
  PROVE  Table!InsertUntold(d)
<1>1. PICK n \in DataPage, s \in Slot :
         /\ opened /\ n < num_pages /\ s \notin pages[n].bitmap
         /\ GoodPage(pages[n])
         /\ pages' = [pages EXCEPT ![n] = Fill(pages[n], s, d)]
         /\ UNCHANGED <<num_pages, opened>>
         /\ ret' = [op |-> "insert", rid |-> << >>, res |-> Refused]
  BY InsertHdrThrowsFacts, Zenon
<1>2. /\ [page_no |-> n, slot_no |-> s] \in Rid \ Used
      /\ Records' = Table!With([page_no |-> n, slot_no |-> s], d)
  BY <1>1, FillsPlace, Zenon
<1>3. DOMAIN Records = Used
  BY Zenon DEF Records
<1> QED BY <1>1, <1>2, <1>3, Zenon
           DEF Table!InsertUntold, Table!Returns, Table!Refused, Refused

(* insert_record(buf) puts its record in a place that had none. *)
LEMMA InsertImplements ==
  ASSUME RecordInv, NEW d \in Record, InsertFree(d) \/ InsertNew(d)
  PROVE  Table!Insert(d)
<1>1. SUFFICES \E rid \in Rid : /\ ret' = [op |-> "insert", rid |-> rid, res |-> Done]
                                /\ rid \notin Used /\ Records' = Table!With(rid, d)
  BY Zenon DEF Table!Insert, Table!Returns, Table!Done, Done, Records
<1>2. CASE InsertFree(d)
  <2>1. PICK n \in DataPage, s \in Slot :
           /\ opened /\ n < num_pages /\ s \notin pages[n].bitmap
           /\ GoodPage(pages[n])
           /\ pages' = [pages EXCEPT ![n] = Fill(pages[n], s, d)]
           /\ UNCHANGED <<num_pages, opened>>
           /\ ret' = [op |-> "insert", rid |-> [page_no |-> n, slot_no |-> s], res |-> Done]
    BY <1>2, InsertFreeFacts, ZenonT(30)
  <2> QED BY <2>1, FillsPlace, Zenon
<1>3. CASE InsertNew(d)
  <2>1. PICK n \in DataPage, s \in Slot :
           /\ opened /\ num_pages <= n
           /\ GoodPage(NewPage) /\ s \notin NewPage.bitmap
           /\ pages' = [pages EXCEPT ![n] = Fill(NewPage, s, d)]
           /\ num_pages' = n + 1 /\ UNCHANGED opened
           /\ ret' = [op |-> "insert", rid |-> [page_no |-> n, slot_no |-> s], res |-> Done]
    BY <1>3, InsertNewFacts, Zenon
  <2>2. /\ pages'[n] = Fill(NewPage, s, d)
        /\ \A m \in DataPage : m # n => pages'[m] = pages[m]
    BY <2>1, Zenon DEF RecordInv, RecordTypeOK
  <2>3. /\ NumPages = num_pages /\ NumPages' = n + 1 /\ NumPages \in Int /\ n \in Int
        /\ \A m \in DataPage : m >= NumPages => pages[m].bitmap = {}
    BY <2>1, PagesInFile DEF NumPages, DataPage
  <2>4. pages[n].bitmap = {}
    BY <2>1, <2>3, Zenon
  <2>5. pages'[n].bitmap = {s} /\ pages'[n].slots[s] = d
    BY <2>1, <2>2 DEF Fill, NewPage, ZeroPage
  <2>6. Records' = Table!With([page_no |-> n, slot_no |-> s], d)
    BY <2>1, <2>2, <2>3, <2>4, <2>5, PutsRecord
  <2>7. [page_no |-> n, slot_no |-> s] \in Rid \ Used
    BY <2>4, Zenon DEF Rid, Used
  <2> QED BY <2>1, <2>6, <2>7, Zenon
<1> QED BY <1>2, <1>3, Zenon

(* A record number that a call finds set is in use, and conversely. *)
LEMMA SetMeansUsed ==
  ASSUME RecordInv, opened, NEW rid \in Arg
  PROVE  /\ IsSet(rid) <=> rid \in Used
         /\ HasSlot(rid) => /\ rid \in Rid /\ rid.page_no \in DataPage /\ rid.slot_no \in Slot
                            /\ rid.page_no < NumPages
                            /\ rid = [page_no |-> rid.page_no, slot_no |-> rid.slot_no]
<1>1. rid \in [page_no : Int, slot_no : Int]
  BY RecordAssumption, Zenon
<1>2. NumPages = num_pages /\ num_pages \in 1..MaxPages /\ MaxPages \in Int
  BY RecordAssumption DEF NumPages, RecordInv, RecordTypeOK
<1>3. HasSlot(rid) => /\ rid.page_no \in DataPage /\ rid.slot_no \in Slot
                      /\ rid.page_no < NumPages
  BY <1>1, <1>2 DEF HasSlot, PageExists, DataPage
<1>4. rid = [page_no |-> rid.page_no, slot_no |-> rid.slot_no]
  BY <1>1, Zenon
<1>5. HasSlot(rid) => rid \in Rid
  BY <1>3, <1>4, Zenon DEF Rid
<1>6. ASSUME rid \in Used PROVE IsSet(rid)
  BY <1>2, <1>6 DEF Used, Rid, IsSet, HasSlot, PageExists, DataPage
<1>7. ASSUME IsSet(rid) PROVE rid \in Used
  BY <1>3, <1>5, <1>7, Zenon DEF IsSet, Used
<1> QED BY <1>3, <1>4, <1>5, <1>6, <1>7, Zenon

(* insert_record(rid, buf) and update_record() put their record where the  *)
(* caller says.                                                            *)
LEMMA PutAtImplements ==
  ASSUME RecordInv, NEW rid \in Arg, NEW d \in Record,
         InsertAt(rid, d) \/ UpdateRecord(rid, d)
  PROVE  Table!InsertAt(rid, d) \/ Table!Update(rid, d)
<1>1. opened /\ HasSlot(rid)
  BY Zenon DEF InsertAt, UpdateRecord, IsSet
<1>2. PICK n \in DataPage : n = rid.page_no
  BY <1>1, SetMeansUsed, Zenon
<1>3. PICK s \in Slot : s = rid.slot_no
  BY <1>1, SetMeansUsed, Zenon
<1>4. rid \in Rid /\ n < NumPages /\ rid = [page_no |-> n, slot_no |-> s]
  BY <1>1, <1>2, <1>3, SetMeansUsed, Zenon
<1>5. PICK page : page = pages[n]
  BY Zenon
<1>6. GoodPage(page)
  BY <1>5, InvPages, Zenon
<1>7. PICK new : /\ pages' = [pages EXCEPT ![n] = new]
                 /\ \/ new = Fill(page, s, d)
                    \/ new = Overwrite(page, s, d) /\ s \in page.bitmap
  BY <1>2, <1>3, <1>5, Zenon DEF InsertAt, UpdateRecord, IsSet
<1>8. new.bitmap = page.bitmap \union {s} /\ new.slots = [page.slots EXCEPT ![s] = d]
  BY <1>7 DEF Fill, Overwrite
<1>9. new.slots[s] = d /\ \A t \in Slot : t # s => new.slots[t] = page.slots[t]
  BY <1>6, <1>8, Zenon DEF GoodPage, PageSet
<1>10. pages'[n] = new /\ \A m \in DataPage : m # n => pages'[m] = pages[m]
  BY <1>7, Zenon DEF RecordInv, RecordTypeOK
<1>11. NumPages' = NumPages
  BY DEF InsertAt, UpdateRecord, NumPages, fileHdr
<1>12. /\ NumPages \in Int /\ pages[n].bitmap \in SUBSET Slot
       /\ \A m \in DataPage : m >= NumPages => pages[m].bitmap = {}
  BY PagesInFile
<1>13. Records' = Table!With([page_no |-> n, slot_no |-> s], d)
  <2>1. /\ pages'[n].bitmap = pages[n].bitmap \union {s} /\ pages'[n].slots[s] = d
        /\ \A t \in pages[n].bitmap : t # s => pages'[n].slots[t] = pages[n].slots[t]
    BY <1>5, <1>8, <1>9, <1>10, <1>12, Zenon
  <2>2. NumPages' \in Int /\ NumPages <= NumPages' /\ n < NumPages'
    BY <1>4, <1>11, <1>12
  <2> QED BY <1>4, <1>10, <1>12, <2>1, <2>2, PutsRecord, ZenonT(30)
<1>14. CASE InsertAt(rid, d)
  BY <1>4, <1>13, <1>14, Zenon
     DEF InsertAt, Returns, Table!InsertAt, Table!Returns, Done, Table!Done
<1>15. CASE UpdateRecord(rid, d)
  <2>1. rid \in Used
    BY <1>1, <1>15, SetMeansUsed, Zenon DEF UpdateRecord
  <2>2. DOMAIN Records = Used
    BY Zenon DEF Records
  <2> QED BY <1>4, <1>13, <1>15, <2>1, <2>2, Zenon
            
             DEF UpdateRecord, Returns, Table!Update, Table!Returns, Done, Table!Done
<1> QED BY <1>14, <1>15, Zenon

(* delete_record() takes away the record it is given, and no other. *)
LEMMA DeleteImplements ==
  ASSUME RecordInv, NEW rid \in Arg, DeleteRecord(rid)
  PROVE  Table!Delete(rid)
<1>1. opened /\ IsSet(rid) /\ HasSlot(rid)
  BY Zenon DEF DeleteRecord, IsSet
<1>2. PICK n \in DataPage : n = rid.page_no
  BY <1>1, SetMeansUsed, Zenon
<1>3. PICK s \in Slot : s = rid.slot_no
  BY <1>1, SetMeansUsed, Zenon
<1>4. rid \in Rid /\ rid \in Used /\ rid = [page_no |-> n, slot_no |-> s]
  BY <1>1, <1>2, <1>3, SetMeansUsed, Zenon
<1>5. PICK next : pages' = [pages EXCEPT ![n] = Clear(pages[n], s, next)]
  BY <1>2, <1>3, Zenon DEF DeleteRecord
<1>6. pages'[n] = Clear(pages[n], s, next) /\ \A m \in DataPage : m # n => pages'[m] = pages[m]
  BY <1>5, Zenon DEF RecordInv, RecordTypeOK
<1>7. /\ pages'[n].bitmap = pages[n].bitmap \ {s}
      /\ \A m \in DataPage : pages'[m].slots = pages[m].slots
  BY <1>6 DEF Clear
<1>8. NumPages' = NumPages
  BY Zenon DEF DeleteRecord, NumPages
<1>9. ASSUME NEW r \in Rid PROVE r \in Used' <=> r \in Used /\ r # rid
  <2>1. r.page_no \in DataPage /\ r.slot_no \in Slot
    BY Zenon DEF Rid
  <2>2. r = rid <=> r.page_no = n /\ r.slot_no = s
    BY <1>4 DEF Rid
  <2> QED BY <1>6, <1>7, <1>8, <2>1, <2>2, Zenon DEF Used
<1>10. Used' = Used \ {rid}
  BY <1>9, Zenon DEF Used
<1>11. Records' = [r \in Used' |-> pages'[r.page_no].slots[r.slot_no]]
  BY Zenon DEF Records
<1>12. \A r \in Used : r.page_no \in DataPage /\ Records[r] = pages[r.page_no].slots[r.slot_no]
  BY Zenon DEF Records, Used, Rid
<1>13. Records' = [r \in Used \ {rid} |-> Records[r]]
  BY <1>7, <1>10, <1>11, <1>12, Zenon
<1>14. DOMAIN Records = Used
  BY Zenon DEF Records
<1> QED BY <1>4, <1>13, <1>14, Zenon
          
           DEF DeleteRecord, Returns, Table!Delete, Table!Without, Table!Returns, Done, Table!Done

(* The calls that keep every record: get_record(), the refusals, closing   *)
(* and opening the file.                                                   *)
LEMMA KeepsImplements ==
  ASSUME RecordInv, UNCHANGED pages, NumPages' = NumPages
  PROVE  Records' = Records
<1>1. Used' = Used
  BY Zenon DEF Used
<1> QED BY <1>1, Zenon DEF Records

(* Every step of the file is a step of the map or leaves it unchanged. *)
LEMMA NextImplements ==
  ASSUME RecordInv, [RecordNext]_recordVars
  PROVE  [Table!Next]_(Table!tableVars)
<1> USE DEF Table!Next
<1>1. CASE Insert
  <2>1. CASE \E d \in Record : InsertFree(d) \/ InsertNew(d)
    BY <2>1, InsertImplements, Zenon
  <2>2. CASE \E d \in Record : InsertHdrThrows(d)
    BY <2>2, InsertUntoldImplements, Zenon
  <2>3. CASE InsertFull \/ InsertNewThrows
    <3>1. UNCHANGED <<pages, num_pages, hdr, opened>>
      BY <2>3, Zenon DEF InsertFull, InsertNewThrows, fileHdr
    <3>2. NumPages' = NumPages
      BY <3>1, Zenon DEF NumPages
    <3> QED BY <2>3, <3>1, <3>2, KeepsImplements, Zenon
             
               DEF InsertFull, InsertNewThrows, Returns, Table!Refuse, Table!Returns,
                  Refused, Table!Refused
  <2> QED BY <1>1, <2>1, <2>2, <2>3, Zenon DEF Insert
<1>2. CASE \E rid \in Arg, d \in Record : InsertAt(rid, d) \/ UpdateRecord(rid, d)
  BY <1>2, PutAtImplements, Zenon
<1>3. ASSUME NEW rid \in Arg, DeleteRecord(rid) PROVE Table!Next
  BY <1>3, DeleteImplements, Zenon
<1>4. ASSUME NEW rid \in Arg, GetRecord(rid) PROVE Table!Next
  <2>1. Records' = Records
    BY <1>4, KeepsImplements, Zenon DEF GetRecord, NumPages, fileHdr
  <2>2. rid \in Used /\ rid.page_no \in DataPage
    BY <1>4, SetMeansUsed, Zenon DEF GetRecord, IsSet
  <2>3. rid \in DOMAIN Records /\ Records[rid] = pages[rid.page_no].slots[rid.slot_no]
    BY <2>2, Zenon DEF Records
  <2>4. Records[rid] \in Record
    <3>1. rid.slot_no \in pages[rid.page_no].bitmap
      BY <2>2, Zenon DEF Used
    <3> QED BY <2>2, <2>3, <3>1, InvPages, Zenon DEF GoodPage
  <2>5. Table!Get(rid)
    BY <1>4, <2>1, <2>3, <2>4, Zenon
       DEF GetRecord, Returns, Table!Get, Table!Returns
  <2> QED BY <2>5, Zenon
<1>5. ASSUME NEW rid \in Arg, Misses(rid) PROVE Table!Next
  <2>1. Records' = Records
    BY <1>5, KeepsImplements, Zenon DEF Misses, NumPages, fileHdr
  <2>2. rid \notin DOMAIN Records
    BY <1>5, SetMeansUsed, Zenon DEF Misses, Records
  <2>3. Table!Miss(rid)
    BY <1>5, <2>1, <2>2, Zenon
       DEF Misses, Returns, Table!Miss, Table!Returns, NotFound, Table!NotFound
  <2> QED BY <2>3, Zenon
<1>6. CASE FetchFails
  <2>1. Records' = Records
    BY <1>6, KeepsImplements, Zenon DEF FetchFails, NumPages, fileHdr
  <2> QED BY <1>6, <2>1, Zenon
             DEF FetchFails, Returns, Table!Refuse, Table!Returns, Refused, Table!Refused
<1>7. CASE CloseHandle
  <2>1. Records' = Records
    BY <1>7, KeepsImplements, Zenon DEF CloseHandle, NumPages, fileHdr
  <2> QED BY <1>7, <2>1, Zenon DEF CloseHandle, Table!tableVars
<1>8. CASE OpenHandle
  <2>1. Records' = Records
    BY <1>8, KeepsImplements, Zenon DEF OpenHandle, NumPages
  <2> QED BY <1>8, <2>1, Zenon
             DEF OpenHandle, Returns, Table!Reopen, Table!Returns, Done, Table!Done
<1>9. CASE UNCHANGED recordVars
  <2>1. Records' = Records
    BY <1>9, KeepsImplements, Zenon DEF recordVars, NumPages
  <2> QED BY <1>9, <2>1, Zenon DEF recordVars, Table!tableVars
<1> QED BY <1>1, <1>2, <1>3, <1>4, <1>5, <1>6, <1>7, <1>8, <1>9, Zenon
           DEF RecordNext

(* A file that was just created has no records. *)
LEMMA InitImplements == RecordInit => Table!Init
<1> SUFFICES ASSUME RecordInit PROVE Table!Init
  BY Zenon
<1>1. ASSUME NEW r \in Rid PROVE r \notin Used
  <2>1. r.page_no \in DataPage
    BY Zenon DEF Rid
  <2> QED BY <2>1, Zenon DEF RecordInit, Used, ZeroPage
<1>2. Used = {}
  BY <1>1, Zenon DEF Used
<1> QED BY <1>2, Zenon DEF RecordInit, Records, Table!Init, Done, Table!Done

(* The file implements the map of RecordTable, for any number of pages and *)
(* of slots: a record is found where its insertion said, with the contents *)
(* last given to it; an insertion overwrites no other record, a deletion   *)
(* takes away no other, and closing and opening the file loses none.       *)
THEOREM FileImplementsTable == RecordSpec => ImplementsTable
<1>1. RecordSpec => []RecordInv
  BY RecordInvariant, Zenon
<1>2. RecordInit => Table!Init
  BY InitImplements, Zenon
<1>3. RecordInv /\ [RecordNext]_recordVars => [Table!Next]_(Table!tableVars)
  BY NextImplements, Zenon
<1> QED BY <1>1, <1>2, <1>3, PTL DEF RecordSpec, ImplementsTable, Table!Spec

-----------------------------------------------------------------------------
(* Where rid_ can be: at the end, at a slot, or at the start of a page.    *)
Place == [page_no : DataPage, slot_no : Slot \union {-1}]

(* The order in which a scan goes through the file. *)
Later(pos, rid) ==
  \/ pos.page_no < rid.page_no
  \/ pos.page_no = rid.page_no /\ pos.slot_no < rid.slot_no

(* The inductive invariant: what has stayed is in the table, and the scan  *)
(* has stopped at all of it that it has gone past.                         *)
ScanInv ==
  /\ RecordInv
  /\ opened
  /\ rid_ \in Place \union {End}
  /\ stayed \subseteq Used
  /\ ScanMissesNothing

(* next_bit(true, ...) is the first slot in use after curr. *)
LEMMA NextBitFacts ==
  ASSUME NEW B, NEW curr \in Int
  PROVE  /\ NextBit(TRUE, B, curr) \in Slot \union {NumRecords}
         /\ \A s \in Slot : s > curr /\ s \in B => NextBit(TRUE, B, curr) <= s
<1> DEFINE found == {i \in Slot : i > curr /\ (i \in B <=> TRUE)}
           least == CHOOSE i \in found : \A j \in found : i <= j
<1>1. CASE found = {}
  <2>1. NextBit(TRUE, B, curr) = NumRecords
    BY <1>1, Zenon DEF NextBit
  <2>2. \A s \in Slot : ~(s > curr /\ s \in B)
    BY <1>1
  <2> QED BY <2>1, <2>2, Zenon
<1>2. CASE found # {}
  <2>1. NextBit(TRUE, B, curr) = least
    BY <1>2, Zenon DEF NextBit
  <2>2. found \in SUBSET Nat
    BY DEF Slot
  <2>3. \E i \in found : \A j \in found : i <= j
    BY <1>2, <2>2, LeastNatural, Zenon
  <2>4. least \in found /\ \A j \in found : least <= j
    BY <2>3, Zenon
  <2> QED BY <2>1, <2>4, Zenon
<1> QED BY <1>1, <1>2, Zenon

(* One round of the loop of next(): it finds no slot past a record that is *)
(* still to come on the page.                                              *)
LEMMA FoundFacts ==
  ASSUME NEW pos, pos.page_no \in Int, pos.slot_no \in Int, NEW n \in DataPage
  PROVE  /\ Found(pos, n) \in Slot \union {NumRecords}
         /\ \A s \in Slot :
              /\ s \in pages[n].bitmap
              /\ n = pos.page_no => pos.slot_no < s
              => Found(pos, n) <= s
<1> DEFINE curr == IF n = pos.page_no THEN pos.slot_no ELSE -1
<1>1. curr \in Int
  OBVIOUS
<1>2. Found(pos, n) = NextBit(TRUE, pages[n].bitmap, curr)
  BY Zenon DEF Found
<1>3. \A s \in Slot : (n = pos.page_no => pos.slot_no < s) => s > curr
  BY DEF Slot
<1> HIDE DEF curr
<1> QED BY <1>1, <1>2, <1>3, NextBitFacts, Zenon

(* next() goes to no place past a record that is still to come, and not to *)
(* the end while there is one.                                             *)
LEMMA AfterFacts ==
  ASSUME RecordInv, opened,
         NEW pos, pos.page_no \in Nat \ {0}, pos.slot_no \in Int
  PROVE  /\ After(pos) \in Rid \union {End}
         /\ \A rid \in Used : Later(pos, rid) =>
              After(pos) # End /\ ~Later(rid, After(pos))
<1> DEFINE hits == {n \in Visited(pos) : Found(pos, n) < NumRecords}
           h == CHOOSE n \in hits : TRUE
<1>1. NumPages = num_pages /\ num_pages \in Nat /\ NumRecords \in Nat
  BY RecordAssumption DEF NumPages, RecordInv, RecordTypeOK
<1>2. \A n \in DataPage : Found(pos, n) \in Slot \union {NumRecords}
  <2>1. pos.page_no \in Int
    OBVIOUS
  <2> QED BY <2>1, FoundFacts, Zenon
<1>3. hits # {} =>
        /\ h \in DataPage /\ pos.page_no <= h
        /\ Found(pos, h) \in Slot
        /\ \A m \in DataPage : pos.page_no <= m /\ m < h => Found(pos, m) = NumRecords
        /\ After(pos) = [page_no |-> h, slot_no |-> Found(pos, h)]
  <2> SUFFICES ASSUME hits # {} PROVE
        /\ h \in DataPage /\ pos.page_no <= h
        /\ Found(pos, h) \in Slot
        /\ \A m \in DataPage : pos.page_no <= m /\ m < h => Found(pos, m) = NumRecords
        /\ After(pos) = [page_no |-> h, slot_no |-> Found(pos, h)]
    OBVIOUS
  <2>1. h \in hits
    BY Zenon
  <2>2. After(pos) = [page_no |-> h, slot_no |-> Found(pos, h)]
    BY Zenon DEF After
  <2> HIDE DEF h
  <2>3. /\ h \in DataPage /\ pos.page_no <= h
        /\ \A m \in DataPage : pos.page_no <= m /\ m < h => Found(pos, m) = NumRecords
        /\ Found(pos, h) < NumRecords
    BY <2>1, Zenon DEF Visited
  <2>4. Found(pos, h) \in Slot
    BY <1>1, <1>2, <2>3
  <2> QED BY <2>2, <2>3, <2>4, Zenon
<1>4. hits = {} => After(pos) = End
  BY Zenon DEF After
<1>5. ASSUME NEW rid \in Used, Later(pos, rid)
      PROVE  /\ rid.page_no \in DataPage /\ rid.slot_no \in Slot
             /\ pos.page_no <= rid.page_no /\ rid.page_no < num_pages
             /\ Found(pos, rid.page_no) <= rid.slot_no
  <2>1. /\ rid.page_no \in DataPage /\ rid.slot_no \in Slot
        /\ rid.page_no < num_pages /\ rid.slot_no \in pages[rid.page_no].bitmap
    BY <1>1, <1>5, Zenon DEF Used, Rid
  <2>2. pos.page_no <= rid.page_no
    BY <1>5, <2>1 DEF Later, DataPage
  <2>3. rid.page_no = pos.page_no => pos.slot_no < rid.slot_no
    BY <1>5, <2>1 DEF Later, DataPage
  <2> QED BY <2>1, <2>2, <2>3, FoundFacts
<1>6. ASSUME NEW rid \in Used, Later(pos, rid)
      PROVE  hits # {}
  <2> DEFINE T == {n \in DataPage : /\ pos.page_no <= n /\ n < num_pages
                                    /\ Found(pos, n) < NumRecords}
  <2>1. rid.page_no \in T
    BY <1>1, <1>2, <1>5, <1>6 DEF Slot
  <2>2. T \in SUBSET Nat
    BY DEF DataPage
  <2>3. PICK m \in T : \A j \in T : m <= j
    BY <2>1, <2>2, LeastNatural, Zenon
  <2>4. ASSUME NEW k \in DataPage, pos.page_no <= k, k < m
        PROVE  Found(pos, k) = NumRecords
    <3>1. k \notin T
      BY <2>2, <2>3, <2>4 DEF DataPage
    <3>2. k < num_pages
      BY <1>1, <2>3, <2>4 DEF DataPage
    <3> QED BY <1>1, <1>2, <2>4, <3>1, <3>2 DEF Slot
  <2>5. m \in Visited(pos)
    BY <2>3, <2>4, Zenon DEF Visited
  <2> QED BY <2>3, <2>5, Zenon
<1>7. After(pos) \in Rid \union {End}
  <2> HIDE DEF hits, h
  <2>1. hits # {} => After(pos) \in Rid
    BY <1>3 DEF Rid
  <2> QED BY <1>4, <2>1, Zenon
<1>8. ASSUME NEW rid \in Used, Later(pos, rid)
      PROVE  After(pos) # End /\ ~Later(rid, After(pos))
  <2> HIDE DEF hits
  <2>1. hits # {}
    BY <1>6, <1>8, Zenon
  <2>2. h <= rid.page_no
    <3> HIDE DEF h
    <3>1. ~(rid.page_no < h)
      BY <1>1, <1>3, <1>5, <1>8, <2>1 DEF Slot
    <3> QED BY <1>3, <1>5, <1>8, <2>1, <3>1 DEF DataPage
  <2> HIDE DEF h
  <2>3. h = rid.page_no => Found(pos, h) <= rid.slot_no
    BY <1>5, <1>8, Zenon
  <2>4. After(pos).page_no = h /\ After(pos).slot_no = Found(pos, h)
    BY <1>3, <2>1
  <2>5. After(pos) # End
    BY <1>3, <2>1, <2>4 DEF End, DataPage, RM_NO_PAGE
  <2>6. ~Later(rid, After(pos))
    BY <1>3, <1>5, <1>8, <2>1, <2>2, <2>3, <2>4 DEF Later, DataPage, Slot
  <2> QED BY <2>5, <2>6, Zenon
<1> QED BY <1>7, <1>8, Zenon
-----------------------------------------------------------------------------
(* A step of the scan keeps what it has gone past complete, when it goes   *)
(* past no record but the one it stops at.                                 *)
LEMMA ScanStepInv ==
  ASSUME ScanInv, rid_ # End,
         rid_' \in Place \union {End},
         \A rid \in Used : Later(rid_, rid) =>
           /\ rid_' # End /\ ~Later(rid, rid_')
           /\ rid = rid_' => rid \in seen',
         seen \subseteq seen',
         UNCHANGED <<stayed, recordVars>>
  PROVE  ScanInv'
<1>1. RecordInv' /\ opened' /\ Used' = Used /\ stayed' = stayed
  BY Zenon DEF ScanInv, recordVars, RecordInv, RecordTypeOK, CountsMatchBitmaps,
     FreeListInFile, NewPagesAreFresh, Used, NumPages, FirstFree
<1>2. ASSUME NEW rid \in stayed, Behind(rid)'
      PROVE  rid \in seen'
  <2>1. rid \in Used /\ rid.page_no \in DataPage /\ rid.slot_no \in Slot /\ rid \in Rid
    BY Zenon DEF ScanInv, Used, Rid
  <2>2. rid_.page_no \in Int /\ rid_.slot_no \in Int
    BY DEF ScanInv, Place, DataPage, Slot
  <2>3. CASE ~Later(rid_, rid)
    <3>1. Behind(rid)
      BY <2>1, <2>2, <2>3 DEF Behind, Later, DataPage, Slot
    <3> QED BY <3>1, Zenon DEF ScanInv, ScanMissesNothing
  <2>4. CASE Later(rid_, rid)
    <3>1. rid_' \in Place /\ ~Later(rid, rid_') /\ (rid = rid_' => rid \in seen')
      BY <2>1, <2>4, Zenon
    <3>2. rid_'.page_no = rid.page_no /\ rid_'.slot_no = rid.slot_no
      BY <1>2, <2>1, <2>4, <3>1 DEF Behind, Later, Place, DataPage, Slot
    <3>3. rid_' = rid
      BY <2>1, <3>1, <3>2 DEF Place, Rid
    <3> QED BY <3>1, <3>3, Zenon
  <2> QED BY <2>3, <2>4, Zenon
<1>3. ScanMissesNothing'
  BY <1>1, <1>2, Zenon DEF ScanMissesNothing
<1> QED BY <1>1, <1>3, Zenon DEF ScanInv

(* The constructor of RmScan: the first record of the table is the only    *)
(* one that the scan has gone past.                                        *)
LEMMA StartScanInv == ScanInv /\ StartScan => ScanInv'
<1> SUFFICES ASSUME ScanInv, StartScan PROVE ScanInv'
  OBVIOUS
<1>1. RecordInv' /\ opened' /\ Used' = Used
  BY Zenon DEF ScanInv, StartScan, recordVars, RecordInv, RecordTypeOK, CountsMatchBitmaps,
     FreeListInFile, NewPagesAreFresh, Used, NumPages, FirstFree
<1>2. /\ After(Start) \in Rid \union {End}
      /\ \A rid \in Used : Later(Start, rid) =>
           After(Start) # End /\ ~Later(rid, After(Start))
  <2>1. Start.page_no \in Nat \ {0} /\ Start.slot_no \in Int
    BY DEF Start
  <2> QED BY <2>1, AfterFacts, Zenon DEF ScanInv
<1>3. rid_' = After(Start) /\ stayed' = Used /\ seen' = Stop(rid_')
  BY Zenon DEF StartScan, Records
<1>4. rid_' \in Place \union {End}
  BY <1>2, <1>3 DEF Rid, Place
<1>5. ASSUME NEW rid \in Used, Behind(rid)'
      PROVE  rid \in seen'
  <2>1. rid.page_no \in DataPage /\ rid.slot_no \in Slot /\ rid \in Rid
    BY Zenon DEF Used, Rid
  <2>2. Later(Start, rid)
    BY <2>1 DEF Later, Start, DataPage, Slot
  <2>3. rid_' # End /\ rid_' \in Rid /\ ~Later(rid, rid_')
    BY <1>2, <1>3, <2>2, Zenon
  <2>4. rid_'.page_no = rid.page_no /\ rid_'.slot_no = rid.slot_no
    BY <1>5, <2>1, <2>3 DEF Behind, Later, Rid, DataPage, Slot
  <2>5. rid_' = rid
    BY <2>1, <2>3, <2>4 DEF Rid
  <2> QED BY <1>3, <2>3, <2>5, Zenon DEF Stop
<1>6. ScanMissesNothing'
  BY <1>3, <1>5, Zenon DEF ScanMissesNothing
<1> QED BY <1>1, <1>3, <1>4, <1>6, Zenon DEF ScanInv

(* next() stops at the first record after rid_, or at the end. *)
LEMMA NextStepInv == ScanInv /\ NextStep => ScanInv'
<1> SUFFICES ASSUME ScanInv, NextStep PROVE ScanInv'
  OBVIOUS
<1>1. /\ rid_ # End /\ rid_' = After(rid_) /\ seen' = seen \union Stop(rid_')
      /\ UNCHANGED <<stayed, recordVars>>
  BY Zenon DEF NextStep
<1>2. rid_.page_no \in Nat \ {0} /\ rid_.slot_no \in Int
  BY <1>1 DEF ScanInv, Place, DataPage, Slot
<1>3. /\ rid_' \in Rid \union {End}
      /\ \A rid \in Used : Later(rid_, rid) => rid_' # End /\ ~Later(rid, rid_')
  BY <1>1, <1>2, AfterFacts, Zenon DEF ScanInv
<1>4. rid_' \in Place \union {End}
  BY <1>3 DEF Rid, Place
<1>5. \A rid \in Used : rid_' # End /\ rid = rid_' => rid \in seen'
  BY <1>1, Zenon DEF Stop
<1> QED BY <1>1, <1>3, <1>4, <1>5, ScanStepInv, Zenon

(* next() throws at the start of a page: the pages before it have no       *)
(* record that was still to come.                                          *)
LEMMA NextThrowsInv == ScanInv /\ NextThrows => ScanInv'
<1> SUFFICES ASSUME ScanInv, NextThrows PROVE ScanInv'
  OBVIOUS
<1>1. PICK n \in Visited(rid_) \ {rid_.page_no} : rid_' = [page_no |-> n, slot_no |-> -1]
  BY Zenon DEF NextThrows
<1>2. rid_ # End /\ seen' = seen /\ UNCHANGED <<stayed, recordVars>>
  BY Zenon DEF NextThrows
<1>3. rid_.page_no \in Int /\ rid_.slot_no \in Int
  BY <1>2 DEF ScanInv, Place, DataPage, Slot
<1>4. /\ n \in DataPage /\ rid_.page_no <= n
      /\ \A m \in DataPage : rid_.page_no <= m /\ m < n => Found(rid_, m) = NumRecords
  BY <1>1, Zenon DEF Visited
<1>5. rid_' \in Place /\ rid_'.page_no = n /\ rid_'.slot_no = -1
  BY <1>1, <1>4 DEF Place
<1>6. ASSUME NEW rid \in Used, Later(rid_, rid)
      PROVE  rid_' # End /\ ~Later(rid, rid_') /\ rid # rid_'
  <2>1. /\ rid.page_no \in DataPage /\ rid.slot_no \in Slot
        /\ rid.slot_no \in pages[rid.page_no].bitmap
    BY Zenon DEF Used, Rid
  <2>2. rid.page_no = rid_.page_no => rid_.slot_no < rid.slot_no
    BY <1>3, <1>6, <2>1 DEF Later, DataPage
  <2>3. Found(rid_, rid.page_no) <= rid.slot_no
    BY <1>3, <2>1, <2>2, FoundFacts, Zenon
  <2>4. rid_.page_no <= rid.page_no
    BY <1>3, <1>6, <2>1 DEF Later, DataPage
  <2>5. ~(rid.page_no < n)
    BY <1>4, <2>1, <2>3, <2>4, RecordAssumption DEF Slot
  <2>6. rid_' # End
    BY <1>4, <1>5 DEF End, DataPage, RM_NO_PAGE
  <2> QED BY <1>4, <1>5, <2>1, <2>5, <2>6 DEF Later, DataPage, Slot
<1> QED BY <1>2, <1>5, <1>6, ScanStepInv, Zenon

(* The table changes under the scan, which stays where it is. *)
LEMMA ChangeInv == ScanInv /\ Change => ScanInv'
<1> SUFFICES ASSUME ScanInv, Change PROVE ScanInv'
  OBVIOUS
<1>1. RecordNext
  BY Zenon DEF Change, RecordNext
<1>2. RecordInv'
  BY <1>1, NextRecordInv, Zenon DEF ScanInv
<1>3. opened'
  BY ZenonT(30) DEF Change, ScanInv, Insert, InsertFree, InsertNew, InsertInto, InsertHdrThrows,
     InsertFull, InsertNewThrows, InsertAt, DeleteRecord
<1>4. /\ stayed' \subseteq stayed /\ stayed' \subseteq Used'
      /\ rid_' = rid_ /\ seen' = seen
  BY Zenon DEF Change, Records
<1>5. ScanMissesNothing'
  BY <1>4, Zenon DEF ScanMissesNothing, Behind, ScanInv
<1> QED BY <1>2, <1>3, <1>4, <1>5, Zenon DEF ScanInv

(* A step of the scan or of the table it reads keeps ScanInv. *)
LEMMA NextScanInv == ScanInv /\ [ScanNext]_<<scanVars, recordVars>> => ScanInv'
<1> SUFFICES ASSUME ScanInv, UNCHANGED <<scanVars, recordVars>> PROVE ScanInv'
  BY StartScanInv, NextStepInv, NextThrowsInv, ChangeInv, Zenon DEF ScanNext
<1> QED BY Zenon DEF ScanInv, scanVars, recordVars, RecordInv, RecordTypeOK,
     CountsMatchBitmaps, FreeListInFile, NewPagesAreFresh, Used, NumPages, FirstFree,
     ScanMissesNothing, Behind

(* A scan misses no record that is in the table from its start to its end, *)
(* whatever is inserted and deleted meanwhile and whichever calls of       *)
(* next() throw (rm_scan.cpp).                                             *)
THEOREM ScanComplete == ScanSpec => []ScanMissesNothing
<1>1. ScanInit => ScanInv
  BY InitRecordInv, Zenon DEF ScanInit, ScanInv, ScanMissesNothing, RecordInit
<1>2. ScanInv => ScanMissesNothing
  BY Zenon DEF ScanInv
<1> QED BY <1>1, <1>2, NextScanInv, PTL DEF ScanSpec

-----------------------------------------------------------------------------
(* PoolFiles.  As long as no descriptor is given to a second file, a file  *)
(* always gets the descriptor it had (the smallest that is free), so the   *)
(* pages that close_file() leaves in the pool are found again as they were *)
(* left.                                                                   *)
ContentSet == [file : Files, page : PageOfFile, version : Nat]

PoolFilesTypes ==
  /\ open \in [Descriptor -> Files \union {Closed}]
  /\ version \in [Files -> [PageOfFile -> Nat]]
  /\ stored \in [Files -> [PageOfFile -> ContentSet]]
  /\ cache \in [DOMAIN cache -> [data : ContentSet, is_dirty : BOOLEAN]]
  /\ DOMAIN cache \subseteq Descriptor \X PageOfFile
  /\ users \in [Descriptor -> SUBSET Files]

(* A file has one descriptor. *)
DescriptorsApart ==
  \A g, h \in Descriptor : \A f \in Files : f \in users[g] /\ f \in users[h] => g = h

(* What the pool holds under a page id, for the file of the descriptor. *)
EntryGood(id) ==
  /\ users[id[1]] # {}
  /\ cache[id].is_dirty => open[id[1]] # Closed
  /\ \A f \in users[id[1]] :
       /\ cache[id].data = Content(f, id[2])
       /\ ~cache[id].is_dirty => stored[f][id[2]] = Content(f, id[2])

(* A page that is not in the pool is on disk. *)
UncachedGood(f, p) ==
  (\A id \in DOMAIN cache : f \in users[id[1]] => id[2] # p) =>
    stored[f][p] = Content(f, p)

PoolFilesInv ==
  /\ PoolFilesTypes
  /\ \A fd \in Descriptor : open[fd] # Closed => open[fd] \in users[fd]
  /\ \A g, h \in Descriptor : g < h /\ users[h] # {} => users[g] # {}
  /\ OneFileEach =>
       /\ DescriptorsApart
       /\ \A id \in DOMAIN cache : EntryGood(id)
       /\ \A f \in Files, p \in PageOfFile : UncachedGood(f, p)

(* PoolFilesInv is enough for a file that is closed and opened again. *)
LEMMA PoolFilesInvIntact == PoolFilesInv => ReopenedIntact
<1> SUFFICES ASSUME PoolFilesInv, OneFileEach
             PROVE  /\ \A f \in Files : (\A fd \in Descriptor : open[fd] # f) =>
                         \A p \in PageOfFile : stored[f][p] = Content(f, p)
                    /\ \A id \in DOMAIN cache : open[id[1]] # Closed =>
                         cache[id].data = Content(open[id[1]], id[2])
  BY DEF ReopenedIntact
<1>1. ASSUME NEW id \in DOMAIN cache
      PROVE  /\ id[1] \in Descriptor /\ id[2] \in PageOfFile
             /\ open[id[1]] # Closed => open[id[1]] \in users[id[1]]
             /\ EntryGood(id)
  BY DEF PoolFilesInv, PoolFilesTypes
<1>2. ASSUME NEW f \in Files, \A fd \in Descriptor : open[fd] # f, NEW p \in PageOfFile
      PROVE  stored[f][p] = Content(f, p)
  <2>1. CASE \E id \in DOMAIN cache : f \in users[id[1]] /\ id[2] = p
    <3>1. PICK id \in DOMAIN cache : f \in users[id[1]] /\ id[2] = p
      BY <2>1
    <3>2. ~cache[id].is_dirty
      BY <1>1, <1>2, <3>1 DEF EntryGood, OneFileEach
    <3> QED BY <1>1, <3>1, <3>2 DEF EntryGood
  <2>2. CASE \A id \in DOMAIN cache : f \in users[id[1]] => id[2] # p
    BY <2>2 DEF PoolFilesInv, UncachedGood
  <2> QED BY <2>1, <2>2
<1>3. ASSUME NEW id \in DOMAIN cache, open[id[1]] # Closed
      PROVE  cache[id].data = Content(open[id[1]], id[2])
  BY <1>1, <1>3 DEF EntryGood
<1> QED BY <1>2, <1>3

(* open_file(): the descriptor is new, or the file had it before. *)
LEMMA RmOpenFileInv ==
  ASSUME PoolFilesInv, NEW f \in Files, RmOpenFile(f)
  PROVE  PoolFilesInv'
<1>1. PICK fd \in Descriptor :
        /\ open[fd] = Closed
        /\ \A g \in 1..(fd - 1) : open[g] # Closed
        /\ open' = [open EXCEPT ![fd] = f]
        /\ users' = [users EXCEPT ![fd] = @ \union {f}]
  BY Zenon DEF RmOpenFile
<1>2. /\ UNCHANGED <<stored, cache, version>>
      /\ \A g \in Descriptor : open[g] # f
  BY DEF RmOpenFile
<1>3. f # Closed
  BY PoolFilesAssumption
<1>4. /\ open[fd] = Closed /\ open'[fd] = f /\ users'[fd] = users[fd] \union {f}
      /\ \A g \in Descriptor : g # fd => open'[g] = open[g] /\ users'[g] = users[g]
  BY <1>1 DEF PoolFilesInv, PoolFilesTypes
<1>5. PoolFilesTypes'
  BY <1>1, <1>2 DEF PoolFilesInv, PoolFilesTypes
<1>6. \A g \in Descriptor : g < fd => open[g] # Closed /\ users[g] # {}
  <2> SUFFICES ASSUME NEW g \in Descriptor, g < fd PROVE open[g] # Closed /\ users[g] # {}
    OBVIOUS
  <2>1. g \in 1..(fd - 1)
    BY DEF Descriptor
  <2> QED BY <1>1, <2>1 DEF PoolFilesInv
<1>7. \A g \in Descriptor : open'[g] # Closed => open'[g] \in users'[g]
  BY <1>4 DEF PoolFilesInv
<1>8. \A g, h \in Descriptor : g < h /\ users'[h] # {} => users'[g] # {}
  BY <1>4, <1>6 DEF PoolFilesInv
<1>9. ASSUME OneFileEach'
      PROVE  /\ DescriptorsApart'
             /\ \A id \in DOMAIN cache' : EntryGood(id)'
             /\ \A g \in Files, p \in PageOfFile : UncachedGood(g, p)'
  <2>1. \A g \in Descriptor : \A a, b \in users'[g] : a = b
    BY <1>9 DEF OneFileEach
  <2>2. \A g \in Descriptor : users[g] \subseteq users'[g]
    BY <1>4
  <2>3. OneFileEach
    BY <2>1, <2>2 DEF OneFileEach
  <2>4. /\ DescriptorsApart
        /\ \A id \in DOMAIN cache : EntryGood(id)
        /\ \A g \in Files, p \in PageOfFile : UncachedGood(g, p)
    BY <2>3 DEF PoolFilesInv
  <2>5. users[fd] # {} => users'[fd] = users[fd]
    BY <1>4, <2>1
  <2>6. ASSUME NEW g \in Descriptor, f \in users[g]
        PROVE  g = fd
    <3>1. open[g] = Closed
      BY <1>2, <2>3, <2>6 DEF PoolFilesInv, OneFileEach
    <3>2. ~(g < fd)
      BY <1>6, <3>1
    <3>3. CASE fd < g
      <4>1. users[fd] # {}
        BY <2>6, <3>3 DEF PoolFilesInv
      <4>2. f \in users[fd]
        BY <1>4, <2>5, <4>1
      <4> QED BY <2>4, <2>6, <4>2 DEF DescriptorsApart
    <3> QED BY <3>2, <3>3 DEF Descriptor
  <2>7. DescriptorsApart'
    <3> SUFFICES ASSUME NEW g \in Descriptor, NEW h \in Descriptor, NEW a \in Files,
                        a \in users'[g], a \in users'[h]
                 PROVE  g = h
      BY DEF DescriptorsApart
    <3>1. CASE a # f
      BY <1>4, <2>4, <3>1 DEF DescriptorsApart
    <3>2. CASE a = f
      BY <1>4, <2>6, <3>2
    <3> QED BY <3>1, <3>2
  <2>8. \A id \in DOMAIN cache : id[1] \in Descriptor /\ users'[id[1]] = users[id[1]]
    BY <1>4, <2>4, <2>5, Zenon DEF EntryGood, PoolFilesInv, PoolFilesTypes
  <2>9. ASSUME NEW id \in DOMAIN cache PROVE EntryGood(id)'
    <3>1. open[id[1]] # Closed => open'[id[1]] # Closed
      BY <1>3, <1>4, <2>8
    <3> QED BY <1>2, <2>4, <2>8, <3>1 DEF EntryGood, Content
  <2>10. ASSUME NEW g \in Files, NEW p \in PageOfFile PROVE UncachedGood(g, p)'
    BY <1>2, <2>4, <2>8 DEF UncachedGood, Content
  <2> QED BY <1>2, <2>7, <2>9, <2>10
<1> QED BY <1>5, <1>7, <1>8, <1>9 DEF PoolFilesInv

(* write_page() of pages that are dirty puts the latest content of each on *)
(* the disk, and spoils no page that is up to date.                        *)
LEMMA WriteBackFacts ==
  ASSUME PoolFilesInv, NEW ids, ids \subseteq DOMAIN cache, WriteBack(ids)
  PROVE  /\ stored' \in [Files -> [PageOfFile -> ContentSet]]
         /\ OneFileEach => \A f \in Files, p \in PageOfFile :
              stored[f][p] = Content(f, p) => stored'[f][p] = Content(f, p)
         /\ OneFileEach => \A id \in ids : open[id[1]] # Closed =>
              stored'[open[id[1]]][id[2]] = Content(open[id[1]], id[2])
<1> DEFINE Hit(f, p, id) == open[id[1]] = f /\ id[2] = p
           chosen(f, p) == CHOOSE id \in ids : Hit(f, p, id)
<1>1. \A f \in Files, p \in PageOfFile :
        stored'[f][p] = IF \E id \in ids : Hit(f, p, id) THEN cache[chosen(f, p)].data
                        ELSE stored[f][p]
  BY DEF WriteBack
<1>2. ASSUME NEW f \in Files, NEW p \in PageOfFile, \E id \in ids : Hit(f, p, id)
      PROVE  /\ stored'[f][p] \in ContentSet
             /\ OneFileEach => stored'[f][p] = Content(f, p)
  <2> DEFINE c == chosen(f, p)
  <2>1. c \in ids /\ Hit(f, p, c) /\ stored'[f][p] = cache[c].data
    BY <1>1, <1>2
  <2> HIDE DEF c, chosen
  <2>2. c \in DOMAIN cache /\ c[1] \in Descriptor /\ open[c[1]] = f /\ c[2] = p
    BY <2>1 DEF PoolFilesInv, PoolFilesTypes
  <2>3. cache[c].data \in ContentSet
    BY <2>2 DEF PoolFilesInv, PoolFilesTypes
  <2>4. f \in users[c[1]]
    BY <2>2, PoolFilesAssumption DEF PoolFilesInv
  <2>5. OneFileEach => cache[c].data = Content(f, p)
    BY <2>2, <2>4 DEF PoolFilesInv, EntryGood
  <2> QED BY <2>1, <2>3, <2>5
<1> HIDE DEF chosen
<1>3. ASSUME NEW f \in Files, NEW p \in PageOfFile
      PROVE  stored'[f][p] \in ContentSet
  BY <1>1, <1>2 DEF PoolFilesInv, PoolFilesTypes
<1>4. stored' \in [Files -> [PageOfFile -> ContentSet]]
  <2>1. /\ stored' = [f \in Files |-> stored'[f]]
        /\ \A f \in Files : stored'[f] = [p \in PageOfFile |-> stored'[f][p]]
    BY DEF WriteBack
  <2> QED BY <1>3, <2>1
<1>5. ASSUME OneFileEach, NEW id \in ids, open[id[1]] # Closed
      PROVE  stored'[open[id[1]]][id[2]] = Content(open[id[1]], id[2])
  <2>1. open[id[1]] \in Files /\ id[2] \in PageOfFile
    BY <1>5 DEF PoolFilesInv, PoolFilesTypes
  <2> QED BY <1>2, <1>5, <2>1
<1> QED BY <1>1, <1>2, <1>4, <1>5

(* fetch_page(): the page that is read is on disk, and the victim's page   *)
(* is on disk when it leaves the pool.                                     *)
LEMMA FetchIntoInv ==
  ASSUME PoolFilesInv, NEW fd \in Descriptor, NEW p \in PageOfFile, FetchInto(fd, p)
  PROVE  PoolFilesInv'
<1>1. /\ open[fd] # Closed /\ <<fd, p>> \notin DOMAIN cache
      /\ UNCHANGED <<open, version, users>>
  BY DEF FetchInto
<1>2. PICK victims \in SUBSET DOMAIN cache :
        /\ WriteBack({id \in victims : cache[id].is_dirty})
        /\ cache' = [id \in (DOMAIN cache \ victims) \union {<<fd, p>>} |->
             IF id = <<fd, p>> THEN [data |-> stored'[open[fd]][p], is_dirty |-> FALSE]
                               ELSE cache[id]]
  BY Zenon DEF FetchInto
<1> DEFINE ids == {id \in victims : cache[id].is_dirty}
           new == <<fd, p>>
           f == open[fd]
<1>3. ids \subseteq DOMAIN cache
  OBVIOUS
<1>4. /\ stored' \in [Files -> [PageOfFile -> ContentSet]]
      /\ OneFileEach => \A g \in Files, q \in PageOfFile :
           stored[g][q] = Content(g, q) => stored'[g][q] = Content(g, q)
      /\ OneFileEach => \A id \in ids : open[id[1]] # Closed =>
           stored'[open[id[1]]][id[2]] = Content(open[id[1]], id[2])
  <2> HIDE DEF ids
  <2> QED BY <1>2, <1>3, WriteBackFacts, Zenon DEF ids
<1>5. f \in Files /\ f \in users[fd]
  BY <1>1 DEF PoolFilesInv, PoolFilesTypes
<1>6. /\ DOMAIN cache' = (DOMAIN cache \ victims) \union {new}
      /\ cache'[new] = [data |-> stored'[f][p], is_dirty |-> FALSE]
      /\ \A id \in DOMAIN cache \ victims : id # new /\ cache'[id] = cache[id]
  BY <1>1, <1>2
<1>7. PoolFilesTypes'
  <2>1. stored'[f][p] \in ContentSet
    BY <1>4, <1>5
  <2>2. cache'[new] \in [data : ContentSet, is_dirty : BOOLEAN]
    BY <1>6, <2>1
  <2>3. \A id \in DOMAIN cache \ victims :
          cache'[id] \in [data : ContentSet, is_dirty : BOOLEAN]
    BY <1>6 DEF PoolFilesInv, PoolFilesTypes
  <2>4. cache' = [id \in DOMAIN cache' |-> cache'[id]]
    BY <1>2
  <2>5. cache' \in [DOMAIN cache' -> [data : ContentSet, is_dirty : BOOLEAN]]
    BY <1>6, <2>2, <2>3, <2>4, Zenon
  <2>6. DOMAIN cache' \subseteq Descriptor \X PageOfFile
    BY <1>6 DEF PoolFilesInv, PoolFilesTypes
  <2> QED BY <1>1, <1>4, <2>5, <2>6 DEF PoolFilesInv, PoolFilesTypes
<1>8. ASSUME OneFileEach
      PROVE  /\ \A id \in DOMAIN cache' : EntryGood(id)'
             /\ \A g \in Files, q \in PageOfFile : UncachedGood(g, q)'
  <2>1. /\ DescriptorsApart
        /\ \A id \in DOMAIN cache : EntryGood(id)
        /\ \A g \in Files, q \in PageOfFile : UncachedGood(g, q)
    BY <1>8 DEF PoolFilesInv
  <2>2. \A g \in Files, q \in PageOfFile : Content(g, q)' = Content(g, q)
    BY <1>1 DEF Content
  <2>3. \A g \in Files, q \in PageOfFile :
          stored[g][q] = Content(g, q) => stored'[g][q] = Content(g, q)
    BY <1>4, <1>8
  <2>4. \A id \in DOMAIN cache : id = <<id[1], id[2]>> /\ id[1] \in Descriptor /\ id[2] \in PageOfFile
    BY DEF PoolFilesInv, PoolFilesTypes
  <2>5. stored'[f][p] = Content(f, p)
    <3>1. \A id \in DOMAIN cache : f \in users[id[1]] => id[2] # p
      BY <1>1, <1>5, <2>1, <2>4 DEF DescriptorsApart
    <3>2. stored[f][p] = Content(f, p)
      BY <1>5, <2>1, <3>1 DEF UncachedGood
    <3> QED BY <1>5, <2>3, <3>2
  <2>6. EntryGood(new)'
    <3>1. new[1] = fd /\ new[2] = p
      OBVIOUS
    <3>2. \A g \in users[fd] : g = f
      BY <1>5, <1>8 DEF OneFileEach
    <3>3. cache'[new].data = Content(f, p) /\ cache'[new].is_dirty = FALSE
      BY <1>6, <2>5
    <3> HIDE DEF new, f
    <3> QED BY <1>1, <1>5, <2>2, <2>5, <3>1, <3>2, <3>3 DEF EntryGood
  <2>7. ASSUME NEW id \in DOMAIN cache \ victims
        PROVE  EntryGood(id)'
    <3>1. EntryGood(id) /\ cache'[id] = cache[id] /\ id[1] \in Descriptor /\ id[2] \in PageOfFile
      BY <1>6, <2>1, <2>4
    <3>2. users[id[1]] \subseteq Files
      BY <3>1 DEF PoolFilesInv, PoolFilesTypes
    <3>3. \A g \in users[id[1]] : g \in Files /\ Content(g, id[2])' = Content(g, id[2])
      BY <2>2, <3>1, <3>2, Zenon
    <3>4. users'[id[1]] = users[id[1]] /\ open'[id[1]] = open[id[1]]
      BY <1>1, Zenon
    <3>5. \A g \in users[id[1]] :
            ~cache[id].is_dirty => stored'[g][id[2]] = Content(g, id[2])
      BY <2>3, <3>1, <3>3, Zenon DEF EntryGood
    <3> QED BY <3>1, <3>3, <3>4, <3>5, Zenon DEF EntryGood
  <2>8. ASSUME NEW g \in Files, NEW q \in PageOfFile,
               \A id \in DOMAIN cache' : g \in users[id[1]] => id[2] # q
        PROVE  stored'[g][q] = Content(g, q)
    <3>1. CASE \A id \in DOMAIN cache : g \in users[id[1]] => id[2] # q
      BY <2>1, <2>3, <3>1 DEF UncachedGood
    <3>2. CASE \E id \in DOMAIN cache : g \in users[id[1]] /\ id[2] = q
      <4>1. PICK id \in DOMAIN cache : g \in users[id[1]] /\ id[2] = q
        BY <3>2
      <4>2. id \in victims
        BY <1>6, <2>8, <4>1
      <4>3. EntryGood(id) /\ id[1] \in Descriptor
        BY <2>1, <2>4
      <4>4. CASE cache[id].is_dirty
        <5>1. open[id[1]] # Closed /\ id \in ids
          BY <4>2, <4>3, <4>4 DEF EntryGood
        <5>2. open[id[1]] = g
          BY <1>8, <4>1, <4>3, <5>1 DEF PoolFilesInv, OneFileEach
        <5> HIDE DEF ids
        <5> QED BY <1>4, <1>8, <4>1, <5>1, <5>2, Zenon
      <4>5. CASE ~cache[id].is_dirty
        BY <2>3, <4>1, <4>3, <4>5 DEF EntryGood
      <4> QED BY <4>4, <4>5
    <3> QED BY <3>1, <3>2
  <2> QED BY <1>1, <1>6, <2>2, <2>6, <2>7, <2>8 DEF UncachedGood
<1>9. (OneFileEach' <=> OneFileEach) /\ (DescriptorsApart' <=> DescriptorsApart)
  BY <1>1 DEF OneFileEach, DescriptorsApart
<1> QED BY <1>1, <1>7, <1>8, <1>9 DEF PoolFilesInv

(* A page of the pool is changed: its latest content is in the pool only.  *)
LEMMA UpdateCachedInv ==
  ASSUME PoolFilesInv, NEW fd \in Descriptor, NEW p \in PageOfFile, UpdateCached(fd, p)
  PROVE  PoolFilesInv'
<1> DEFINE new == <<fd, p>>
           f == open[fd]
           data0 == cache[new].data
           data1 == [data0 EXCEPT !.version = version'[f][p]]
<1>1. /\ f # Closed /\ new \in DOMAIN cache
      /\ version' = [version EXCEPT ![f][p] = @ + 1]
      /\ cache' = [cache EXCEPT ![new] = [data |-> data1, is_dirty |-> TRUE]]
      /\ UNCHANGED <<open, stored, users>>
  BY DEF UpdateCached
<1>2. f \in Files /\ f \in users[fd]
  BY <1>1 DEF PoolFilesInv, PoolFilesTypes
<1>3. /\ version' \in [Files -> [PageOfFile -> Nat]]
      /\ \A g \in Files, q \in PageOfFile : g # f \/ q # p => version'[g][q] = version[g][q]
  BY <1>1, <1>2 DEF PoolFilesInv, PoolFilesTypes
<1>4. data0 \in ContentSet
  BY <1>1 DEF PoolFilesInv, PoolFilesTypes
<1>5. /\ data1 \in ContentSet
      /\ data1 = [file |-> data0.file, page |-> data0.page, version |-> version'[f][p]]
  <2>1. version'[f][p] \in Nat
    BY <1>2, <1>3
  <2> HIDE DEF data0, f
  <2> QED BY <1>4, <2>1 DEF ContentSet
<1>6. /\ DOMAIN cache' = DOMAIN cache
      /\ cache'[new] = [data |-> data1, is_dirty |-> TRUE]
      /\ \A id \in DOMAIN cache : id # new => cache'[id] = cache[id]
  BY <1>1
<1>7. PoolFilesTypes'
  <2>1. cache' \in [DOMAIN cache -> [data : ContentSet, is_dirty : BOOLEAN]]
    <3>1. [data |-> data1, is_dirty |-> TRUE] \in [data : ContentSet, is_dirty : BOOLEAN]
      BY <1>5
    <3>2. cache \in [DOMAIN cache -> [data : ContentSet, is_dirty : BOOLEAN]]
      BY DEF PoolFilesInv, PoolFilesTypes
    <3> HIDE DEF data1, new
    <3> QED BY <1>1, <3>1, <3>2, Zenon
  <2> QED BY <1>1, <1>3, <1>6, <2>1 DEF PoolFilesInv, PoolFilesTypes
<1>8. ASSUME OneFileEach
      PROVE  /\ \A id \in DOMAIN cache : EntryGood(id)'
             /\ \A g \in Files, q \in PageOfFile : UncachedGood(g, q)'
  <2>1. /\ DescriptorsApart
        /\ \A id \in DOMAIN cache : EntryGood(id)
        /\ \A g \in Files, q \in PageOfFile : UncachedGood(g, q)
    BY <1>8, Zenon DEF PoolFilesInv
  <2>2. \A g \in Files, q \in PageOfFile : g # f \/ q # p => Content(g, q)' = Content(g, q)
    BY <1>3 DEF Content
  <2>3. \A id \in DOMAIN cache : id = <<id[1], id[2]>> /\ id[1] \in Descriptor /\ id[2] \in PageOfFile
    BY DEF PoolFilesInv, PoolFilesTypes
  <2>4. new[1] = fd /\ new[2] = p
    OBVIOUS
  <2>5. data1 = Content(f, p)'
    <3>1. data0 = Content(f, p)
      BY <1>1, <1>2, <2>1, <2>4, Zenon DEF EntryGood
    <3>2. data0.file = f /\ data0.page = p
      BY <3>1 DEF Content
    <3>3. Content(f, p)' = [file |-> f, page |-> p, version |-> version'[f][p]]
      BY <1>1 DEF Content
    <3> HIDE DEF data1, data0
    <3> QED BY <1>5, <3>2, <3>3
  <2>6. EntryGood(new)'
    <3>1. \A g \in users[fd] : g = f
      BY <1>2, <1>8 DEF OneFileEach
    <3>2. cache'[new].data = Content(f, p)' /\ cache'[new].is_dirty = TRUE
      BY <1>6, <2>5
    <3> HIDE DEF new, data1
    <3> QED BY <1>1, <1>2, <2>4, <3>1, <3>2 DEF EntryGood
  <2>7. ASSUME NEW id \in DOMAIN cache, id # new
        PROVE  EntryGood(id)'
    <3>1. EntryGood(id) /\ cache'[id] = cache[id] /\ id[1] \in Descriptor /\ id[2] \in PageOfFile
      BY <1>6, <2>1, <2>3, <2>7
    <3>2. users[id[1]] \subseteq Files
      BY <3>1 DEF PoolFilesInv, PoolFilesTypes
    <3>3. \A g \in users[id[1]] : g # f \/ id[2] # p
      BY <1>2, <2>1, <2>3, <2>7, <3>1 DEF DescriptorsApart
    <3>4. \A g \in users[id[1]] : Content(g, id[2])' = Content(g, id[2])
      BY <2>2, <3>1, <3>2, <3>3
    <3> QED BY <1>1, <3>1, <3>4 DEF EntryGood
  <2>8. ASSUME NEW g \in Files, NEW q \in PageOfFile
        PROVE  UncachedGood(g, q)'
    <3>1. CASE g = f /\ q = p
      BY <1>1, <1>2, <1>6, <2>4, <3>1 DEF UncachedGood
    <3>2. CASE g # f \/ q # p
      BY <1>1, <1>6, <2>1, <2>2, <3>2 DEF UncachedGood
    <3> QED BY <3>1, <3>2
  <2> QED BY <2>6, <2>7, <2>8
<1>9. (OneFileEach' <=> OneFileEach) /\ (DescriptorsApart' <=> DescriptorsApart)
  BY <1>1 DEF OneFileEach, DescriptorsApart
<1> QED BY <1>1, <1>6, <1>7, <1>8, <1>9 DEF PoolFilesInv

(* close_file(): flush_all_pages() leaves nothing of the file to write. *)
LEMMA RmCloseFileInv ==
  ASSUME PoolFilesInv, NEW fd \in Descriptor, RmCloseFile(fd)
  PROVE  PoolFilesInv'
<1> DEFINE own == {id \in DOMAIN cache : id[1] = fd}
           ids == {id \in own : cache[id].is_dirty}
<1>1. /\ open[fd] # Closed
      /\ WriteBack(ids)
      /\ cache' = [id \in DOMAIN cache |->
           IF id \in own THEN [cache[id] EXCEPT !.is_dirty = FALSE] ELSE cache[id]]
      /\ open' = [open EXCEPT ![fd] = Closed]
      /\ UNCHANGED <<version, users>>
  BY DEF RmCloseFile
<1>2. ids \subseteq DOMAIN cache
  OBVIOUS
<1>3. /\ stored' \in [Files -> [PageOfFile -> ContentSet]]
      /\ OneFileEach => \A g \in Files, q \in PageOfFile :
           stored[g][q] = Content(g, q) => stored'[g][q] = Content(g, q)
      /\ OneFileEach => \A id \in ids : open[id[1]] # Closed =>
           stored'[open[id[1]]][id[2]] = Content(open[id[1]], id[2])
  <2> HIDE DEF ids
  <2> QED BY <1>1, <1>2, WriteBackFacts
<1>4. /\ open' \in [Descriptor -> Files \union {Closed}]
      /\ open'[fd] = Closed /\ \A g \in Descriptor : g # fd => open'[g] = open[g]
  BY <1>1 DEF PoolFilesInv, PoolFilesTypes
<1>5. /\ DOMAIN cache' = DOMAIN cache
      /\ \A id \in DOMAIN cache : id[1] # fd => cache'[id] = cache[id]
      /\ \A id \in DOMAIN cache : id[1] = fd =>
           cache'[id] = [data |-> cache[id].data, is_dirty |-> FALSE]
  <2>1. \A id \in DOMAIN cache : cache[id] \in [data : ContentSet, is_dirty : BOOLEAN]
    BY DEF PoolFilesInv, PoolFilesTypes
  <2> QED BY <1>1, <2>1, Zenon
<1>6. PoolFilesTypes'
  <2>1. ASSUME NEW id \in DOMAIN cache
        PROVE  cache'[id] \in [data : ContentSet, is_dirty : BOOLEAN]
    <3>1. cache[id] \in [data : ContentSet, is_dirty : BOOLEAN]
      BY DEF PoolFilesInv, PoolFilesTypes
    <3>2. CASE id[1] # fd
      BY <1>5, <3>1, <3>2
    <3>3. CASE id[1] = fd
      <4>1. cache[id].data \in ContentSet
        BY <3>1, Zenon
      <4>2. cache'[id] = [data |-> cache[id].data, is_dirty |-> FALSE]
        BY <1>5, <3>3, Zenon
      <4>3. \A d \in ContentSet :
              [data |-> d, is_dirty |-> FALSE] \in [data : ContentSet, is_dirty : BOOLEAN]
        OBVIOUS
      <4> QED BY <4>1, <4>2, <4>3, Zenon
    <3> QED BY <3>2, <3>3
  <2>2. cache' = [id \in DOMAIN cache' |-> cache'[id]]
    BY <1>1
  <2>3. cache' \in [DOMAIN cache' -> [data : ContentSet, is_dirty : BOOLEAN]]
    BY <1>5, <2>1, <2>2
  <2> QED BY <1>1, <1>3, <1>4, <1>5, <2>3 DEF PoolFilesInv, PoolFilesTypes
<1>7. ASSUME OneFileEach
      PROVE  /\ \A id \in DOMAIN cache : EntryGood(id)'
             /\ \A g \in Files, q \in PageOfFile : UncachedGood(g, q)'
  <2>1. /\ \A id \in DOMAIN cache : EntryGood(id)
        /\ \A g \in Files, q \in PageOfFile : UncachedGood(g, q)
    BY <1>7 DEF PoolFilesInv
  <2>2. \A g \in Files, q \in PageOfFile : Content(g, q)' = Content(g, q)
    BY <1>1 DEF Content
  <2>3. \A g \in Files, q \in PageOfFile :
          stored[g][q] = Content(g, q) => stored'[g][q] = Content(g, q)
    BY <1>3, <1>7
  <2>4. ASSUME NEW id \in DOMAIN cache
        PROVE  EntryGood(id)'
    <3>1. EntryGood(id) /\ id[1] \in Descriptor /\ id[2] \in PageOfFile
      BY <2>1 DEF PoolFilesInv, PoolFilesTypes
    <3>2. users[id[1]] \subseteq Files
      BY <3>1 DEF PoolFilesInv, PoolFilesTypes
    <3>3. CASE id[1] # fd
      BY <1>1, <1>4, <1>5, <2>2, <2>3, <3>1, <3>2, <3>3 DEF EntryGood
    <3>4. CASE id[1] = fd
      <4>1. cache'[id].data = cache[id].data /\ cache'[id].is_dirty = FALSE
        BY <1>5, <3>4
      <4>2. \A g \in users[fd] : g = open[fd]
        BY <1>1, <1>7 DEF PoolFilesInv, OneFileEach
      <4>3. cache[id].is_dirty => stored'[open[fd]][id[2]] = Content(open[fd], id[2])
        BY <1>1, <1>3, <1>7, <3>4
      <4>4. \A g \in users[fd] : stored'[g][id[2]] = Content(g, id[2])
        BY <2>3, <3>1, <3>2, <3>4, <4>2, <4>3, Zenon DEF EntryGood
      <4> QED BY <1>1, <2>2, <3>1, <3>2, <3>4, <4>1, <4>4 DEF EntryGood
    <3> QED BY <3>3, <3>4
  <2>5. ASSUME NEW g \in Files, NEW q \in PageOfFile
        PROVE  UncachedGood(g, q)'
    BY <1>1, <1>5, <2>1, <2>2, <2>3 DEF UncachedGood
  <2> QED BY <2>4, <2>5
<1>8. (OneFileEach' <=> OneFileEach) /\ (DescriptorsApart' <=> DescriptorsApart)
  BY <1>1 DEF OneFileEach, DescriptorsApart
<1>9. \A g \in Descriptor : open'[g] # Closed => open'[g] \in users'[g]
  BY <1>1, <1>4 DEF PoolFilesInv
<1> QED BY <1>1, <1>5, <1>6, <1>7, <1>8, <1>9 DEF PoolFilesInv

(* Closing files and opening them again loses no update and brings no old  *)
(* page back, for any number of files, pages and frames and any choice of  *)
(* victims, as long as no file gets the descriptor another one had         *)
(* (rm_manager.h:69-83, buffer_pool_manager.cpp:82-131, 323-338).          *)
THEOREM FilesReopenIntact == PoolFilesSpec => []ReopenedIntact
<1>1. PoolFilesInit => PoolFilesInv
  <2> SUFFICES ASSUME PoolFilesInit PROVE PoolFilesInv
    OBVIOUS
  <2>1. DOMAIN cache = {} /\ cache = [id \in DOMAIN cache |-> cache[id]]
    BY DEF PoolFilesInit
  <2>2. cache \in [DOMAIN cache -> [data : ContentSet, is_dirty : BOOLEAN]]
    BY <2>1
  <2>3. version \in [Files -> [PageOfFile -> Nat]]
    BY DEF PoolFilesInit
  <2>4. \A f \in Files, p \in PageOfFile : Content(f, p) \in ContentSet
    BY <2>3 DEF Content, ContentSet
  <2>5. stored \in [Files -> [PageOfFile -> ContentSet]]
    BY <2>4 DEF PoolFilesInit
  <2>6. PoolFilesTypes
    BY <2>1, <2>2, <2>3, <2>5 DEF PoolFilesTypes, PoolFilesInit
  <2> QED BY <2>1, <2>6 DEF PoolFilesInit, PoolFilesInv, DescriptorsApart, UncachedGood
<1>2. PoolFilesInv /\ [PoolFilesNext]_poolFilesVars => PoolFilesInv'
  <2> SUFFICES ASSUME PoolFilesInv, [PoolFilesNext]_poolFilesVars PROVE PoolFilesInv'
    OBVIOUS
  <2>1. CASE UNCHANGED poolFilesVars
    <3>1. PoolFilesTypes' <=> PoolFilesTypes
      BY <2>1, Zenon DEF poolFilesVars, PoolFilesTypes
    <3>2. (OneFileEach' <=> OneFileEach) /\ (DescriptorsApart' <=> DescriptorsApart)
      BY <2>1, Zenon DEF poolFilesVars, OneFileEach, DescriptorsApart
    <3>3. \A id \in DOMAIN cache : EntryGood(id)' <=> EntryGood(id)
      BY <2>1, Zenon DEF poolFilesVars, EntryGood, Content
    <3>4. \A f \in Files, p \in PageOfFile : UncachedGood(f, p)' <=> UncachedGood(f, p)
      BY <2>1, Zenon DEF poolFilesVars, UncachedGood, Content
    <3> QED BY <2>1, <3>1, <3>2, <3>3, <3>4, Zenon DEF poolFilesVars, PoolFilesInv
  <2> QED BY <2>1, RmOpenFileInv, FetchIntoInv, UpdateCachedInv, RmCloseFileInv
       DEF PoolFilesNext
<1> QED BY <1>1, <1>2, PoolFilesInvIntact, PTL DEF PoolFilesSpec
=============================================================================
