----------------------------- MODULE DiskOffset -----------------------------
(***************************************************************************)
(* read_page() and write_page() (storage/disk_manager.cpp) of several      *)
(* threads on one file descriptor.  Each call moves the descriptor's file  *)
(* offset with lseek() and then transfers at the offset: two system calls, *)
(* and the offset is shared.  The buffer pool makes its calls while it     *)
(* holds its latch.  insert_record() writes the file header with no latch  *)
(* (record/rm_file_handle.cpp:94).                                         *)
(***************************************************************************)
EXTENDS Integers, FiniteSets

CONSTANTS
  PoolThreads,     \* threads inside fetch_page(), new_page(), flush_page()...
  HeaderThreads,   \* threads at the header write of insert_record()
  NumPages         \* pages of the file; page 0 is its header

Callers == PoolThreads \union HeaderThreads
FilePage == 0..(NumPages - 1)
RM_FILE_HDR_PAGE == 0
Free == "free"

ASSUME OffsetAssumption ==
  /\ NumPages \in Nat \ {0}
  /\ Free \notin Callers

VARIABLES
  latch_,    \* BufferPoolManager::latch_
  offset,    \* the file offset: a page, and whether past its first bytes
  disk,      \* page -> the page its content was written for, or Torn
  stage,     \* per thread: the next step of its call
  call,      \* per thread: the call under way
  data       \* per thread: what its last read_page() delivered

offsetVars == <<latch_, offset, disk, stage, call, data>>

Torn == -1
GoTo(t, label) == stage' = [stage EXCEPT ![t] = label]

(* The pool transfers whole pages (num_bytes = PAGE_SIZE), insert_record() *)
(* the first bytes of the header page (num_bytes = sizeof(file_hdr_)).     *)
Calls(t) ==
  IF t \in PoolThreads THEN [write : BOOLEAN, page_no : FilePage, whole : {TRUE}]
  ELSE [write : {TRUE}, page_no : {RM_FILE_HDR_PAGE}, whole : {FALSE}]

-----------------------------------------------------------------------------
(* The pool takes its latch before it calls the disk manager; the header   *)
(* write of insert_record() takes none.                                    *)
EnterUnlatched(t) ==
  /\ stage[t] = "idle"
  /\ \E c \in Calls(t) : call' = [call EXCEPT ![t] = c]
  /\ GoTo(t, "lseek")
  /\ UNCHANGED <<latch_, offset, disk, data>>

Enter(t) ==
  /\ stage[t] = "idle"
  /\ t \in PoolThreads => latch_ = Free
  /\ latch_' = IF t \in PoolThreads THEN t ELSE latch_
  /\ \E c \in Calls(t) : call' = [call EXCEPT ![t] = c]
  /\ GoTo(t, "lseek")
  /\ UNCHANGED <<offset, disk, data>>

Lseek(t) ==
  /\ stage[t] = "lseek"
  /\ offset' = [page |-> call[t].page_no, inside |-> FALSE]
  /\ GoTo(t, "transfer")
  /\ UNCHANGED <<latch_, disk, call, data>>

(* The pages a transfer at the offset touches, and what it leaves in or    *)
(* takes from them: from the start of a page its own content, from inside  *)
(* a page a mixture.                                                       *)
Touched(c) ==
  FilePage \intersect (offset.page..(IF offset.inside /\ c.whole THEN offset.page + 1 ELSE offset.page))

Written(c, n) ==
  IF ~offset.inside /\ (c.whole \/ disk[n] = c.page_no) THEN c.page_no ELSE Torn

(* write() or read() at the offset, which moves past what it transfers.    *)
(* Beyond the last page a read delivers nothing (Throw below).             *)
Transfer(t) ==
  /\ stage[t] = "transfer"
  /\ LET c == call[t] IN
       /\ c.write \/ Touched(c) # {}
       /\ disk' = IF c.write
            THEN [n \in FilePage |-> IF n \in Touched(c) THEN Written(c, n) ELSE disk[n]]
            ELSE disk
       /\ data' = IF c.write THEN data
            ELSE [data EXCEPT ![t] = IF offset.inside THEN Torn ELSE disk[offset.page]]
       /\ offset' = IF offset.page \notin FilePage THEN offset
            ELSE IF c.whole THEN [offset EXCEPT !.page = @ + 1]
            ELSE [offset EXCEPT !.inside = TRUE]
  /\ GoTo(t, "return")
  /\ UNCHANGED <<latch_, call>>

(* A system call fails, or transfers less than it should: UnixError or     *)
(* InternalError leaves the function, and the pool's scoped lock with it.  *)
Throw(t) ==
  /\ stage[t] \in {"lseek", "transfer"}
  /\ GoTo(t, "idle")
  /\ latch_' = IF latch_ = t THEN Free ELSE latch_
  /\ UNCHANGED <<offset, disk, call, data>>

(* The scoped lock of the pool ends with its function. *)
EndCall(t) ==
  /\ stage[t] = "return"
  /\ GoTo(t, "idle")
  /\ latch_' = IF latch_ = t THEN Free ELSE latch_
  /\ UNCHANGED <<offset, disk, call, data>>

-----------------------------------------------------------------------------
OffsetInit ==
  /\ latch_ = Free
  /\ offset = [page |-> 0, inside |-> FALSE]
  /\ disk = [n \in FilePage |-> n]
  /\ stage = [t \in Callers |-> "idle"]
  /\ call = [t \in Callers |-> [write |-> FALSE, page_no |-> 0, whole |-> TRUE]]
  /\ data = [t \in Callers |-> 0]

OffsetNext ==
  \E t \in Callers : Enter(t) \/ Lseek(t) \/ Transfer(t) \/ Throw(t) \/ EndCall(t)

OffsetSpec == OffsetInit /\ [][OffsetNext]_offsetVars

-----------------------------------------------------------------------------
(* What is checked. *)

(* Data goes "to the given disk page of the file" (disk_manager.cpp:26):   *)
(* every page holds what was written for it, and a read delivers the page  *)
(* it was asked for.                                                       *)
PagesWhereAsked ==
  /\ \A n \in FilePage : disk[n] = n
  /\ \A t \in Callers : stage[t] = "return" /\ ~call[t].write => data[t] = call[t].page_no
=============================================================================
