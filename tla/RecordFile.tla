----------------------------- MODULE RecordFile -----------------------------
(***************************************************************************)
(* RmFileHandle and RmManager (src/record): a table's data file, one call  *)
(* at a time.  Page 0 is the file header; the other pages hold a page      *)
(* header, a bitmap of the slots in use, and the slots.  Pages are reached *)
(* through the buffer pool, which keeps their contents (theorem            *)
(* UpdatesSurvive of BufferPoolTheorems), so a page here is its contents.  *)
(* A call pins the page it works on and unpins it when it returns or       *)
(* throws, but for InsertHdrThrows, which leaves it pinned.                *)
(*                                                                         *)
(* file_hdr_ is in memory while the file is open.  It is written to page 0 *)
(* by close_file(), and by insert_record() when it takes a page that has   *)
(* become full off the list of pages with free space.                      *)
(***************************************************************************)
EXTENDS Integers, FiniteSets

CONSTANTS
  NumRecords,   \* file_hdr_.num_records_per_page
  MaxPages,     \* bound on the pages of the file, the header page included
  Record,       \* contents of a record
  NoRecord,     \* what the bytes of a slot never written hold
  Arg           \* record numbers that callers pass, in range or not

ASSUME RecordAssumption ==
  /\ NumRecords \in Nat \ {0, 1}
  /\ MaxPages \in Nat \ {0}
  /\ NoRecord \notin Record
  /\ Arg \subseteq [page_no : Int, slot_no : Int]

RM_NO_PAGE == -1
Slot == 0..(NumRecords - 1)
DataPage == 1..(MaxPages - 1)
Rid == [page_no : DataPage, slot_no : Slot]

VARIABLES
  num_pages, first_free_page_no,   \* file_hdr_, the fields that change
  hdr,          \* the same fields on disk, in page 0
  opened,       \* whether there is a file handle
  next_pageno,  \* the next page number new_page() gives
  pages,        \* the data pages
  ret           \* the last call: operation, record number, result

fileHdr == <<num_pages, first_free_page_no>>
recordVars == <<num_pages, first_free_page_no, hdr, opened, next_pageno, pages, ret>>

Done == "done"
NotFound == "no such record"
Refused == "refused"

Returns(op, rid, res) == ret' = [op |-> op, rid |-> rid, res |-> res]

(* A page of zeros, and a page as create_new_page_handle() makes it. *)
ZeroPage == [next_free_page_no |-> 0, num_records |-> 0, bitmap |-> {},
             slots |-> [s \in Slot |-> NoRecord]]

NewPage == [ZeroPage EXCEPT !.next_free_page_no = RM_NO_PAGE]

-----------------------------------------------------------------------------
(* fetch_page_handle() and the checks on the slot number. *)
PageExists(n) == 0 < n /\ n < num_pages

HasSlot(rid) == PageExists(rid.page_no) /\ rid.slot_no \in Slot

IsSet(rid) == HasSlot(rid) /\ rid.slot_no \in pages[rid.page_no].bitmap

(* Bitmap::next_bit(), with a bitmap given as the set of its 1 bits. *)
NextBit(bit, bitmap, curr) ==
  LET found == {i \in Slot : i > curr /\ (i \in bitmap <=> bit)} IN
    IF found = {} THEN NumRecords
    ELSE CHOOSE i \in found : \A j \in found : i <= j

FirstBit(bit, bitmap) == NextBit(bit, bitmap, -1)

(* The slot gets a record: memcpy, Bitmap::set, num_records++. *)
FillNoCount(page, s, d) ==
  [page EXCEPT !.slots = [@ EXCEPT ![s] = d], !.bitmap = @ \union {s}]

Fill(page, s, d) ==
  [next_free_page_no |-> page.next_free_page_no,
   num_records |-> page.num_records + 1,
   bitmap |-> page.bitmap \union {s},
   slots |-> [page.slots EXCEPT ![s] = d]]

(* The record of a slot in use is overwritten. *)
Overwrite(page, s, d) ==
  [next_free_page_no |-> page.next_free_page_no,
   num_records |-> page.num_records,
   bitmap |-> page.bitmap,
   slots |-> [page.slots EXCEPT ![s] = d]]

(* The slot is given up: Bitmap::reset, num_records--.  The page's link    *)
(* becomes next, its bytes stay.                                           *)
Clear(page, s, next) ==
  [next_free_page_no |-> next,
   num_records |-> page.num_records - 1,
   bitmap |-> page.bitmap \ {s},
   slots |-> page.slots]

-----------------------------------------------------------------------------
(* create_page_handle(): the page the list starts at, or a new page.  The  *)
(* former exists, by FreeListInFile; new_page() numbers the latter, and    *)
(* file_hdr_.num_pages follows.                                            *)
FreePage == [page_no |-> first_free_page_no, page |-> pages[first_free_page_no],
             num_pages |-> num_pages]

FreshPage ==
  [page_no |-> next_pageno, page |-> NewPage,
   num_pages |-> IF next_pageno >= num_pages THEN next_pageno + 1 ELSE num_pages]

(* insert_record(buf): the record goes to the first free slot.  A page     *)
(* that is now full comes off the list, if it is its head, and then        *)
(* file_hdr_ is written.                                                   *)
InsertInto(h, d) ==
  LET slot_no == FirstBit(FALSE, h.page.bitmap)
      page == Fill(h.page, slot_no, d)
      unlink == /\ page.num_records = NumRecords
                /\ first_free_page_no = h.page_no
      first == IF unlink THEN page.next_free_page_no ELSE first_free_page_no
  IN /\ slot_no # NumRecords /\ h.page.num_records < NumRecords
     /\ pages' = [pages EXCEPT ![h.page_no] = page]
     /\ num_pages' = h.num_pages
     /\ first_free_page_no' = first
     /\ hdr' = IF unlink THEN [num_pages |-> h.num_pages, first_free_page_no |-> first]
               ELSE hdr
     /\ Returns("insert", [page_no |-> h.page_no, slot_no |-> slot_no], Done)
     /\ UNCHANGED opened

InsertFree(d) ==
  /\ opened /\ first_free_page_no # RM_NO_PAGE
  /\ InsertInto(FreePage, d)
  /\ UNCHANGED next_pageno

InsertNew(d) ==
  /\ opened /\ first_free_page_no = RM_NO_PAGE
  /\ next_pageno < MaxPages
  /\ next_pageno' = next_pageno + 1
  /\ InsertInto(FreshPage, d)

(* write_page() fails when the header is written: insert_record() throws   *)
(* with the record in its slot and the page off the list.                  *)
InsertHdrThrows(d) ==
  LET slot_no == FirstBit(FALSE, FreePage.page.bitmap)
      page == Fill(FreePage.page, slot_no, d)
  IN /\ opened /\ first_free_page_no # RM_NO_PAGE
     /\ slot_no # NumRecords /\ page.num_records = NumRecords
     /\ pages' = [pages EXCEPT ![FreePage.page_no] = page]
     /\ first_free_page_no' = page.next_free_page_no
     /\ Returns("insert", << >>, Refused)
     /\ UNCHANGED <<num_pages, hdr, opened, next_pageno>>

(* The page on the list has no free slot: nothing is changed. *)
InsertFull ==
  /\ opened /\ first_free_page_no # RM_NO_PAGE
  /\ \/ FirstBit(FALSE, FreePage.page.bitmap) = NumRecords
     \/ FreePage.page.num_records >= NumRecords
  /\ Returns("refuse", << >>, Refused)
  /\ UNCHANGED <<fileHdr, hdr, opened, next_pageno, pages>>

(* new_page() throws when it cannot write the victim back, having taken a  *)
(* page number.                                                            *)
InsertNewThrows ==
  /\ opened /\ first_free_page_no = RM_NO_PAGE
  /\ next_pageno < MaxPages
  /\ next_pageno' = next_pageno + 1
  /\ Returns("refuse", << >>, Refused)
  /\ UNCHANGED <<fileHdr, hdr, opened, pages>>

(* insert_record(rid, buf): an occupied slot is overwritten; num_records   *)
(* counts the slot once.  The list of pages with free space is not looked  *)
(* at.                                                                     *)
InsertAt(rid, d) ==
  /\ opened /\ HasSlot(rid)
  /\ pages' = [pages EXCEPT ![rid.page_no] =
                 IF IsSet(rid) THEN Overwrite(@, rid.slot_no, d)
                 ELSE Fill(@, rid.slot_no, d)]
  /\ Returns("insert_at", rid, Done)
  /\ UNCHANGED <<fileHdr, hdr, opened, next_pageno>>

(* delete_record(): a page that was full becomes the head of the list of   *)
(* pages with free space (release_page_handle).                            *)
DeleteClearsPage(rid) ==
  LET page == pages[rid.page_no] IN
    /\ opened /\ IsSet(rid)
    /\ pages' = [pages EXCEPT ![rid.page_no].bitmap = {},
                              ![rid.page_no].num_records = 0]
    /\ first_free_page_no' = IF page.num_records = NumRecords THEN rid.page_no
                             ELSE first_free_page_no
    /\ Returns("delete", rid, Done)
    /\ UNCHANGED <<num_pages, hdr, opened, next_pageno>>

DeleteRecord(rid) ==
  LET page == pages[rid.page_no]
      was_full == page.num_records = NumRecords
      next == IF was_full THEN first_free_page_no ELSE page.next_free_page_no
  IN /\ opened /\ IsSet(rid)
     /\ pages' = [pages EXCEPT ![rid.page_no] = Clear(page, rid.slot_no, next)]
     /\ first_free_page_no' = IF was_full THEN rid.page_no ELSE first_free_page_no
     /\ Returns("delete", rid, Done)
     /\ UNCHANGED <<num_pages, hdr, opened, next_pageno>>

UpdateRecord(rid, d) ==
  /\ opened /\ IsSet(rid)
  /\ pages' = [pages EXCEPT ![rid.page_no] = Overwrite(@, rid.slot_no, d)]
  /\ Returns("update", rid, Done)
  /\ UNCHANGED <<fileHdr, hdr, opened, next_pageno>>

GetRecord(rid) ==
  /\ opened /\ IsSet(rid)
  /\ Returns("get", rid, pages[rid.page_no].slots[rid.slot_no])
  /\ UNCHANGED <<fileHdr, hdr, opened, next_pageno, pages>>

(* PageNotExistError, an invalid slot number, or RecordNotFoundError: by   *)
(* get_record(), update_record() and delete_record() where no record is,   *)
(* and by insert_record() where there is no slot.                          *)
Misses(rid) ==
  /\ opened /\ ~IsSet(rid)
  /\ Returns("miss", rid, NotFound)
  /\ UNCHANGED <<fileHdr, hdr, opened, next_pageno, pages>>

(* The buffer pool gives no page, or fails to read it. *)
FetchFails ==
  /\ opened
  /\ Returns("refuse", << >>, Refused)
  /\ UNCHANGED <<fileHdr, hdr, opened, next_pageno, pages>>

-----------------------------------------------------------------------------
(* RmManager::close_file() writes file_hdr_ and flushes the pages;         *)
(* open_file() reads file_hdr_ and numbers new pages from num_pages on.    *)
CloseHandle ==
  /\ opened
  /\ hdr' = [num_pages |-> num_pages, first_free_page_no |-> first_free_page_no]
  /\ opened' = FALSE
  /\ UNCHANGED <<fileHdr, next_pageno, pages, ret>>

OpenHandle ==
  /\ ~opened
  /\ num_pages' = hdr.num_pages
  /\ first_free_page_no' = hdr.first_free_page_no
  /\ next_pageno' = hdr.num_pages
  /\ opened' = TRUE
  /\ Returns("open", << >>, Done)
  /\ UNCHANGED <<hdr, pages>>

(* RmManager::create_file(), and a first open_file(). *)
RecordInit ==
  /\ num_pages = 1
  /\ first_free_page_no = RM_NO_PAGE
  /\ hdr = [num_pages |-> 1, first_free_page_no |-> RM_NO_PAGE]
  /\ opened = TRUE
  /\ next_pageno = 1
  /\ pages = [n \in DataPage |-> ZeroPage]
  /\ ret = [op |-> "open", rid |-> << >>, res |-> Done]

Insert ==
  \/ \E d \in Record : InsertFree(d) \/ InsertNew(d) \/ InsertHdrThrows(d)
  \/ InsertFull
  \/ InsertNewThrows

RecordNext ==
  \/ Insert
  \/ \E rid \in Arg, d \in Record : InsertAt(rid, d) \/ UpdateRecord(rid, d)
  \/ \E rid \in Arg : GetRecord(rid) \/ DeleteRecord(rid) \/ Misses(rid)
  \/ FetchFails
  \/ CloseHandle
  \/ OpenHandle

RecordSpec == RecordInit /\ [][RecordNext]_recordVars

-----------------------------------------------------------------------------
(* The header that counts: in memory while the file is open, else on disk. *)
NumPages == IF opened THEN num_pages ELSE hdr.num_pages
FirstFree == IF opened THEN first_free_page_no ELSE hdr.first_free_page_no

PageNoOrNone == DataPage \union {RM_NO_PAGE}

RecordTypeOK ==
  /\ num_pages \in 1..MaxPages /\ next_pageno \in 1..MaxPages
  /\ first_free_page_no \in PageNoOrNone
  /\ hdr \in [num_pages : 1..MaxPages, first_free_page_no : PageNoOrNone]
  /\ opened \in BOOLEAN
  /\ pages \in [DataPage -> [next_free_page_no : PageNoOrNone \union {0},
                             num_records : 0..NumRecords,
                             bitmap : SUBSET Slot,
                             slots : [Slot -> Record \union {NoRecord}]]]

(* The page header's count of records agrees with the bitmap, whichever    *)
(* of the two insert_record() fills the slot and however often a slot is   *)
(* overwritten: insert_record() and delete_record() take a page to be full *)
(* by the count, and look for a free slot by the bitmap                    *)
(* (rm_file_handle.cpp:68-71, 84, 130, 166).                               *)
CountsMatchBitmaps ==
  \A n \in DataPage : pages[n].num_records = Cardinality(pages[n].bitmap)

(* The list of pages with free space never leads out of the file: it       *)
(* starts at a page that was put on a list, and each such page exists and  *)
(* leads to another or to the end, so that insert_record() never finds a   *)
(* page on the list missing, not after reopening the file either.  (A page *)
(* number lost to a new_page() that threw leaves a page of zeros in the    *)
(* file, whose next_free_page_no is 0 and which no list leads to.)         *)
FreeListInFile ==
  LET linked == {n \in DataPage : pages[n].next_free_page_no # 0} IN
    /\ FirstFree \in linked \union {RM_NO_PAGE}
    /\ \A n \in linked : /\ n < NumPages
                         /\ pages[n].next_free_page_no \in linked \union {RM_NO_PAGE}

(* Beyond the pages of the file there are no records, and the numbers that *)
(* new_page() gives out are beyond them: the counter that open_file()      *)
(* restores from the header (rm_file_handle.h:62) is never behind.         *)
NewPagesAreFresh ==
  /\ opened => num_pages <= next_pageno
  /\ \A n \in DataPage : n >= NumPages => pages[n].bitmap = {}

(* The records of the file, by record number. *)
Used == {r \in Rid : r.page_no < NumPages /\ r.slot_no \in pages[r.page_no].bitmap}

Records == [r \in Used |-> pages[r.page_no].slots[r.slot_no]]

Table == INSTANCE RecordTable WITH table <- Records

(* The file implements the map of RecordTable: every record is found where *)
(* its insertion said, with the contents last given to it, an insertion    *)
(* never overwrites another record, and closing and opening the file loses *)
(* none.                                                                   *)
ImplementsTable == Table!Spec

(* The invariant the above rest on: a slot in use holds a record. *)
RecordInv ==
  /\ RecordTypeOK
  /\ CountsMatchBitmaps
  /\ FreeListInFile
  /\ NewPagesAreFresh
  /\ \A n \in DataPage : \A s \in pages[n].bitmap : pages[n].slots[s] \in Record

-----------------------------------------------------------------------------
(* What comments of the code say of first_free_page_no, and does not hold. *)

(* first_free_page_no is the first page of the file that has free space    *)
(* (rm_defs.h:37), hence there is one when any page has space.             *)
FirstFreeIsKnown ==
  opened /\ first_free_page_no = RM_NO_PAGE =>
    \A n \in DataPage : n < num_pages => pages[n].num_records = NumRecords

(* A page on the list has free space (rm_file_handle.cpp:288), hence       *)
(* insert_record() finds a slot in the page create_page_handle() gives it  *)
(* (rm_file_handle.cpp:72).                                                *)
FirstFreeHasSpace ==
  opened /\ first_free_page_no # RM_NO_PAGE =>
    pages[first_free_page_no].num_records < NumRecords
=============================================================================
