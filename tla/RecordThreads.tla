--------------------------- MODULE RecordThreads ----------------------------
(***************************************************************************)
(* insert_record() (record/rm_file_handle.cpp) called by several threads.  *)
(* The server runs statements without a common lock and the record file    *)
(* takes none, so the steps of two insertions interleave at every access   *)
(* to the file header, the page header, the bitmap and the slots.  Only    *)
(* new_page() is indivisible: the buffer pool holds its latch there.       *)
(* An update in place (|=, ++) is a load and a store.                      *)
(***************************************************************************)
EXTENDS Integers, Sequences, FiniteSets

CONSTANTS
  Inserters,
  NumRecords,   \* file_hdr_.num_records_per_page
  MaxPages,     \* bound on the pages of the file
  MaxInserts,   \* bound on the insertions of a thread
  Listed        \* whether page 1 exists, half full, on the list of free pages

RM_NO_PAGE == -1
Slot == 0..(NumRecords - 1)
DataPage == 1..(MaxPages - 1)
Nothing == <<"nothing", 0>>

ASSUME ThreadsAssumption ==
  /\ NumRecords \in Nat \ {0}
  /\ MaxPages \in Nat
  /\ Listed \in BOOLEAN

VARIABLES
  num_pages, first_free_page_no,    \* file_hdr_
  next_page_no,                        \* the next page number new_page() gives
  pages,                            \* the data pages
  pc, ph, slot_no, loaded,          \* per thread: place, page, slot, register
  inserted                          \* per thread: the record numbers returned

fileHandleVars == <<num_pages, first_free_page_no, next_page_no, pages>>
threadVars == <<pc, ph, slot_no, loaded, inserted>>
insertVars == <<fileHandleVars, threadVars>>

NewPage == [next_free_page_no |-> RM_NO_PAGE, num_records |-> 0, bitmap |-> {},
            slots |-> [s \in Slot |-> Nothing]]

(* The record thread t is inserting. *)
NewRecord(t) == <<t, Len(inserted[t]) + 1>>

Jump(t, label) == pc' = [pc EXCEPT ![t] = label]

-----------------------------------------------------------------------------
(* create_page_handle(): the head of the list, when there is one. *)
CreatePageHandle(t) ==
  /\ pc[t] = "start"
  /\ Len(inserted[t]) < MaxInserts
  /\ IF first_free_page_no = RM_NO_PAGE
       THEN Jump(t, "new_page") /\ UNCHANGED ph
     ELSE IF first_free_page_no >= num_pages
       THEN Jump(t, "thrown") /\ UNCHANGED ph
     ELSE Jump(t, "find") /\ ph' = [ph EXCEPT ![t] = first_free_page_no]
  /\ UNCHANGED <<fileHandleVars, slot_no, loaded, inserted>>

(* create_new_page_handle(): new_page() and the page header and bitmap,    *)
(* on a page nobody else has.                                              *)
CreateNewPageSame(t) ==
  /\ pc[t] = "new_page"
  /\ next_page_no < MaxPages
  /\ ph' = [ph EXCEPT ![t] = next_page_no]
  /\ pages' = [pages EXCEPT ![next_page_no] = NewPage]
  /\ next_page_no' = IF next_page_no >= num_pages THEN next_page_no ELSE next_page_no + 1
  /\ Jump(t, "compare")
  /\ UNCHANGED <<num_pages, first_free_page_no, slot_no, loaded, inserted>>

CreateNewPage(t) ==
  /\ pc[t] = "new_page"
  /\ next_page_no < MaxPages
  /\ ph' = [ph EXCEPT ![t] = next_page_no]
  /\ pages' = [pages EXCEPT ![next_page_no] = NewPage]
  /\ next_page_no' = next_page_no + 1
  /\ Jump(t, "compare")
  /\ UNCHANGED <<num_pages, first_free_page_no, slot_no, loaded, inserted>>

(* if (page_no >= num_pages) num_pages = page_no + 1 *)
CompareNumPages(t) ==
  /\ pc[t] = "compare"
  /\ Jump(t, IF ph[t] >= num_pages THEN "grow" ELSE "find")
  /\ UNCHANGED <<fileHandleVars, ph, slot_no, loaded, inserted>>

SetNumPages(t) ==
  /\ pc[t] = "grow"
  /\ num_pages' = ph[t] + 1
  /\ Jump(t, "find")
  /\ UNCHANGED <<first_free_page_no, next_page_no, pages, ph, slot_no, loaded, inserted>>

(* Bitmap::first_bit(), and the check that there is a free slot. *)
FindSlot(t) ==
  /\ pc[t] = "find"
  /\ LET page == pages[ph[t]]
         free == Slot \ page.bitmap IN
     IF free = {} \/ page.num_records >= NumRecords
       THEN Jump(t, "thrown") /\ UNCHANGED slot_no
       ELSE /\ slot_no' = [slot_no EXCEPT ![t] = CHOOSE s \in free : \A r \in free : s <= r]
            /\ Jump(t, "copy")
  /\ UNCHANGED <<fileHandleVars, ph, loaded, inserted>>

CopyRecord(t) ==
  /\ pc[t] = "copy"
  /\ pages' = [pages EXCEPT ![ph[t]].slots[slot_no[t]] = NewRecord(t)]
  /\ Jump(t, "load_bits")
  /\ UNCHANGED <<num_pages, first_free_page_no, next_page_no, ph, slot_no, loaded, inserted>>

(* Bitmap::set() *)
LoadBits(t) ==
  /\ pc[t] = "load_bits"
  /\ loaded' = [loaded EXCEPT ![t] = [@ EXCEPT !.bits = pages[ph[t]].bitmap]]
  /\ Jump(t, "store_bits")
  /\ UNCHANGED <<fileHandleVars, ph, slot_no, inserted>>

StoreBits(t) ==
  /\ pc[t] = "store_bits"
  /\ pages' = [pages EXCEPT ![ph[t]].bitmap = loaded[t].bits \union {slot_no[t]}]
  /\ Jump(t, "load_count")
  /\ UNCHANGED <<num_pages, first_free_page_no, next_page_no, ph, slot_no, loaded, inserted>>

(* num_records++ *)
LoadCount(t) ==
  /\ pc[t] = "load_count"
  /\ loaded' = [loaded EXCEPT ![t] = [@ EXCEPT !.count = pages[ph[t]].num_records]]
  /\ Jump(t, "store_count")
  /\ UNCHANGED <<fileHandleVars, ph, slot_no, inserted>>

StoreCount(t) ==
  /\ pc[t] = "store_count"
  /\ pages' = [pages EXCEPT ![ph[t]].num_records = loaded[t].count + 1]
  /\ Jump(t, "full")
  /\ UNCHANGED <<num_pages, first_free_page_no, next_page_no, ph, slot_no, loaded, inserted>>

(* A page that has become full leaves the list, if it is its head; the     *)
(* record number is returned.                                              *)
ReturnRid(t) ==
  /\ pc[t] = "full"
  /\ first_free_page_no' =
       IF pages[ph[t]].num_records = NumRecords /\ first_free_page_no = ph[t]
         THEN pages[ph[t]].next_free_page_no ELSE first_free_page_no
  /\ inserted' = [inserted EXCEPT
       ![t] = Append(@, [page_no |-> ph[t], slot_no |-> slot_no[t]])]
  /\ Jump(t, "start")
  /\ UNCHANGED <<num_pages, next_page_no, pages, ph, slot_no, loaded>>

-----------------------------------------------------------------------------
ListedPage ==
  [NewPage EXCEPT !.num_records = 1, !.bitmap = {1}, !.slots[1] = <<"old", 1>>]

InsertInit ==
  /\ num_pages = IF Listed THEN 2 ELSE 1
  /\ first_free_page_no = IF Listed THEN 1 ELSE RM_NO_PAGE
  /\ next_page_no = num_pages
  /\ pages = [n \in DataPage |-> IF Listed /\ n = 1 THEN ListedPage ELSE NewPage]
  /\ pc = [t \in Inserters |-> "start"]
  /\ ph = [t \in Inserters |-> 0]
  /\ slot_no = [t \in Inserters |-> 0]
  /\ loaded = [t \in Inserters |-> [bits |-> {}, count |-> 0]]
  /\ inserted = [t \in Inserters |-> << >>]

InsertStep(t) ==
  \/ CreatePageHandle(t) \/ CreateNewPage(t) \/ CompareNumPages(t) \/ SetNumPages(t)
  \/ FindSlot(t) \/ CopyRecord(t) \/ LoadBits(t) \/ StoreBits(t)
  \/ LoadCount(t) \/ StoreCount(t) \/ ReturnRid(t)

InsertNext == \E t \in Inserters : InsertStep(t)

InsertSpec == InsertInit /\ [][InsertNext]_insertVars

-----------------------------------------------------------------------------
(* What is checked. *)

(* get_record() finds a record that was inserted. *)
Reads(rid, record) ==
  /\ rid.page_no < num_pages
  /\ rid.slot_no \in pages[rid.page_no].bitmap
  /\ pages[rid.page_no].slots[rid.slot_no] = record

(* Insertions into a file with no page on the list never share a slot, and *)
(* none of them overwrites another's record: new_page() gives each thread  *)
(* a page of its own and nothing puts it on the list                       *)
(* (rm_file_handle.cpp:241-274, 282-293).                                  *)
SlotsNotShared ==
  \A t \in Inserters : \A i \in 1..Len(inserted[t]) :
    LET rid == inserted[t][i] IN
      /\ rid.slot_no \in pages[rid.page_no].bitmap
      /\ pages[rid.page_no].slots[rid.slot_no] = <<t, i>>

(* What insert_record() returns is the position of the inserted record:    *)
(* get_record() finds it there, whatever other threads do                  *)
(* (rm_file_handle.cpp:55, "@return {Rid}").                               *)
InsertedReadable ==
  \A t \in Inserters : \A i \in 1..Len(inserted[t]) : Reads(inserted[t][i], <<t, i>>)
=============================================================================
