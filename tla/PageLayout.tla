----------------------------- MODULE PageLayout -----------------------------
(***************************************************************************)
(* Where the parts of a page of records lie: the arithmetic of             *)
(* RmManager::create_file (src/src/record/rm_manager.h) and of             *)
(* RmPageHandle (src/src/record/rm_file_handle.h), in bytes.               *)
(***************************************************************************)
EXTENDS Integers

CONSTANTS
  PAGE_SIZE,
  RM_MAX_RECORD_SIZE,
  FileHdrSize,        \* sizeof(RmFileHdr): five ints
  PageHdrSize,        \* sizeof(RmPageHdr): two ints
  OFFSET_PAGE_HDR     \* the page's log sequence number comes first

BITMAP_WIDTH == 8

ASSUME LayoutAssumption ==
  /\ PAGE_SIZE \in Nat /\ RM_MAX_RECORD_SIZE \in Nat
  /\ FileHdrSize \in Nat /\ PageHdrSize \in Nat /\ OFFSET_PAGE_HDR \in Nat
  /\ FileHdrSize < PAGE_SIZE
  /\ OFFSET_PAGE_HDR + PageHdrSize <= FileHdrSize

\* Mutant: the bitmap's share of a record is forgotten.
RecordsPerPageNoBitmap(record_size) ==
  (PAGE_SIZE - OFFSET_PAGE_HDR - PageHdrSize) \div record_size

\* file_hdr.num_records_per_page and file_hdr.bitmap_size.
RecordsPerPage(record_size) ==
  (BITMAP_WIDTH * (PAGE_SIZE - 1 - FileHdrSize) + 1) \div (1 + record_size * BITMAP_WIDTH)

BitmapSize(record_size) ==
  (RecordsPerPage(record_size) + BITMAP_WIDTH - 1) \div BITMAP_WIDTH

\* RmPageHandle: the page's header, its bitmap, and the slot of a record.
BitmapStart == OFFSET_PAGE_HDR + PageHdrSize
SlotsStart(record_size) == BitmapStart + BitmapSize(record_size)
SlotStart(record_size, slot_no) == SlotsStart(record_size) + slot_no * record_size

\* Bitmap::get_bucket and get_bit: the byte of a position and the bit in it.
Bucket(pos) == pos \div BITMAP_WIDTH
Bit(pos) == BITMAP_WIDTH - 1 - (pos % BITMAP_WIDTH)
=============================================================================
