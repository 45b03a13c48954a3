---------------------------- MODULE FilesProofs -----------------------------
(***************************************************************************)
(* What is proved of what lies on files, for any number of files,          *)
(* descriptors, pages, threads and log records: the tables of the disk     *)
(* manager (DiskManager) agree; its two system calls under the pool's latch *)
(* reach the page asked for (DiskOffset); insertions that make their pages *)
(* at once do not share a slot (RecordThreads); log records are read back  *)
(* (LogRecords).                                                           *)
(***************************************************************************)
EXTENDS DiskManager, DiskOffset, RecordThreads, LogRecords, TLAPS

(* The tables of open files, the files and the counters, together. *)
DiskInv ==
  /\ DiskTypeOK
  /\ FdTablesInverse
  /\ OpenFilesExist
  /\ HolesAreZero

(* Each call keeps all of it (disk_manager.cpp).  An open descriptor names *)
(* a path, whose entry names the descriptor: so close_file() clears both   *)
(* entries of the one file, and destroy_file(), which looks at the path's  *)
(* entry only, never removes a file that is open.                          *)
LEMMA NextDiskInv == DiskInv /\ [DiskNext]_diskVars => DiskInv'
<1> SUFFICES ASSUME DiskInv, [DiskNext]_diskVars PROVE DiskInv'
  OBVIOUS
<1>a. /\ NoPath \notin Path /\ NoFd \notin Fd
      /\ MaxFd \in Nat /\ MaxPage \in Nat /\ Zero \in Data
      /\ ZeroPages \in [PageNo -> Data]
  BY DiskAssumption DEF NoFd, Fd, ZeroPages
<1> USE <1>a DEF DiskInv, DiskTypeOK, FdTablesInverse, OpenFilesExist, Open, HolesAreZero
<1>1. ASSUME NEW path \in Path, CreateFile(path) PROVE DiskInv'
  BY <1>1 DEF CreateFile, ZeroPages
<1>2. ASSUME NEW path \in Path, DestroyFile(path) PROVE DiskInv'
  BY <1>2 DEF DestroyFile, ioVars
<1>3. ASSUME NEW path \in Path, OpenFile(path) PROVE DiskInv'
  BY <1>3 DEF OpenFile, ioVars
<1>4. ASSUME NEW fd \in Fd, CloseFile(fd) PROVE DiskInv'
  BY <1>4 DEF CloseFile, ioVars
<1>5. ASSUME NEW fd \in Fd, AllocateStep(fd) PROVE DiskInv'
  BY <1>5 DEF AllocateStep, AllocatePage, fileVars, ioVars
<1>6. ASSUME NEW fd \in Fd, NEW n \in 0..MaxPage, SetFd2pageno(fd, n) PROVE DiskInv'
  BY <1>6 DEF SetFd2pageno, fileVars, ioVars
<1>7. ASSUME NEW fd \in Fd, NEW n \in PageNo, NEW d \in Data, WriteStep(fd, n, d)
      PROVE  DiskInv'
  BY <1>7 DEF WriteStep, WritePage, fileVars, PageNo
<1>8. CASE UNCHANGED diskVars
  BY <1>8 DEF diskVars, fileVars, ioVars
<1> QED
  BY <1>1, <1>2, <1>3, <1>4, <1>5, <1>6, <1>7, <1>8, Zenon DEF DiskNext

(* Whatever order files are created, opened, closed and destroyed in. *)
THEOREM DiskInvariant == DiskSpec => []DiskInv
<1>1. DiskInit => DiskInv
  BY DiskAssumption DEF DiskInit, DiskInv, DiskTypeOK, FdTablesInverse, OpenFilesExist,
     HolesAreZero, Open, ZeroPages, NoFd, Fd, PageNo
<1> QED BY <1>1, NextDiskInv, PTL DEF DiskSpec

(* Descriptors, sizes and page counters stay in their ranges. *)
THEOREM DiskTypes == DiskSpec => []DiskTypeOK
<1>1. DiskInv => DiskTypeOK
  BY DEF DiskInv
<1> QED BY <1>1, DiskInvariant, PTL

(* path2fd_ and fd2path_ stay each other's inverse (open_file(),           *)
(* close_file()).                                                          *)
THEOREM TablesStayInverse == DiskSpec => []FdTablesInverse
<1>1. DiskInv => FdTablesInverse
  BY DEF DiskInv
<1> QED BY <1>1, DiskInvariant, PTL

(* An open descriptor names a file that is there (destroy_file()). *)
THEOREM OpenFilesStay == DiskSpec => []OpenFilesExist
<1>1. DiskInv => OpenFilesExist
  BY DEF DiskInv
<1> QED BY <1>1, DiskInvariant, PTL

-----------------------------------------------------------------------------
(* DiskOffset.  The pool's latch makes lseek() and the transfer after it   *)
(* one step for the other threads: a thread inside a call holds the latch, *)
(* so the offset is where its own lseek() put it.                          *)
OffsetInv ==
  /\ stage \in [Callers -> {"idle", "lseek", "transfer", "return"}]
  /\ call \in [Callers -> [write : BOOLEAN, page_no : FilePage, whole : {TRUE}]]
  /\ disk \in [FilePage -> FilePage]
  /\ data \in [Callers -> FilePage]
  /\ \A t \in Callers : stage[t] # "idle" => latch_ = t
  /\ \A t \in Callers : stage[t] = "transfer" =>
       offset = [page |-> call[t].page_no, inside |-> FALSE]
  /\ PagesWhereAsked

(* A step of thread t, and what it may change of another thread: nothing.  *)
LEMMA NextOffsetInv ==
  ASSUME HeaderThreads = {}, OffsetInv, [OffsetNext]_offsetVars
  PROVE  OffsetInv'
<1> DEFINE Stage == {"idle", "lseek", "transfer", "return"}
           Call == [write : BOOLEAN, page_no : FilePage, whole : {TRUE}]
<1>1. Callers = PoolThreads
  BY DEF Callers
<1>2. ASSUME NEW t \in Callers, Enter(t)
      PROVE  OffsetInv'
  <2>1. PICK c \in Calls(t) : call' = [call EXCEPT ![t] = c]
    BY <1>2, Zenon DEF Enter
  <2>2. c \in Call
    BY <1>1, <2>1, Zenon DEF Calls
  <2>3. /\ latch_ = Free /\ latch_' = t /\ stage' = [stage EXCEPT ![t] = "lseek"]
        /\ UNCHANGED <<offset, disk, data>>
    BY <1>1, <1>2 DEF Enter, GoTo
  <2>4. \A u \in Callers : stage[u] = "idle"
    BY <2>3, OffsetAssumption DEF OffsetInv
  <2>5. stage' \in [Callers -> Stage] /\ call' \in [Callers -> Call]
    BY <2>1, <2>2, <2>3, Zenon DEF OffsetInv
  <2>6. \A u \in Callers : stage'[u] # "idle" => u = t /\ stage'[u] = "lseek"
    BY <2>3, <2>4 DEF OffsetInv
  <2> QED BY <2>3, <2>5, <2>6, Zenon DEF OffsetInv, PagesWhereAsked
<1>3. ASSUME NEW t \in Callers, Lseek(t)
      PROVE  OffsetInv'
  <2>1. /\ stage[t] = "lseek" /\ stage' = [stage EXCEPT ![t] = "transfer"]
        /\ offset' = [page |-> call[t].page_no, inside |-> FALSE]
        /\ UNCHANGED <<latch_, disk, call, data>>
    BY <1>3 DEF Lseek, GoTo
  <2>2. \A u \in Callers : u # t => stage[u] = "idle"
    BY <2>1 DEF OffsetInv
  <2>3. stage' \in [Callers -> Stage]
    BY <2>1 DEF OffsetInv
  <2>4. stage'[t] = "transfer" /\ \A u \in Callers : u # t => stage'[u] = "idle"
    BY <2>1, <2>2 DEF OffsetInv
  <2>5. \A u \in Callers : stage'[u] = "transfer" =>
          offset' = [page |-> call'[u].page_no, inside |-> FALSE]
    BY <2>1, <2>4, Zenon
  <2> QED BY <2>1, <2>3, <2>4, <2>5, Zenon DEF OffsetInv, PagesWhereAsked
<1>4. ASSUME NEW t \in Callers, Transfer(t)
      PROVE  OffsetInv'
  <2> DEFINE c == call[t]
  <2>1. /\ stage[t] = "transfer" /\ stage' = [stage EXCEPT ![t] = "return"]
        /\ UNCHANGED <<latch_, call>>
    BY <1>4 DEF Transfer, GoTo
  <2>2. /\ c.page_no \in FilePage /\ c.page_no \in Int /\ c.whole = TRUE
        /\ offset.page = c.page_no /\ offset.inside = FALSE
    <3>1. c \in Call
      BY Zenon DEF OffsetInv
    <3>2. offset = [page |-> c.page_no, inside |-> FALSE]
      BY <2>1, Zenon DEF OffsetInv
    <3> HIDE DEF c
    <3>3. c.whole = TRUE
      BY <3>1, Zenon
    <3>4. c.page_no \in FilePage /\ c.page_no \in Int
      BY <3>1 DEF FilePage
    <3>5. offset.page = c.page_no /\ offset.inside = FALSE
      BY <3>2, Zenon
    <3> QED BY <3>3, <3>4, <3>5, Zenon
  <2>3. Touched(c) = {c.page_no} /\ Written(c, c.page_no) = c.page_no
    BY <2>2 DEF Touched, Written, FilePage
  <2>4. disk' = disk
    <3>1. CASE ~c.write
      BY <1>4, <3>1 DEF Transfer
    <3>2. CASE c.write
      <4>1. disk' = [n \in FilePage |-> IF n \in Touched(c) THEN Written(c, n) ELSE disk[n]]
        BY <1>4, <3>2 DEF Transfer
      <4>2. \A n \in FilePage : disk'[n] = disk[n]
        BY <2>3, <4>1 DEF OffsetInv, PagesWhereAsked
      <4> QED BY <4>1, <4>2 DEF OffsetInv
    <3> QED BY <3>1, <3>2
  <2>5. data' = IF c.write THEN data ELSE [data EXCEPT ![t] = disk[c.page_no]]
    BY <1>4, <2>2, Zenon DEF Transfer
  <2>6. \A u \in Callers : u # t => stage[u] = "idle"
    BY <2>1 DEF OffsetInv
  <2>7. stage' \in [Callers -> Stage] /\ data' \in [Callers -> FilePage]
    BY <2>1, <2>2, <2>5 DEF OffsetInv
  <2>8. stage'[t] = "return" /\ \A u \in Callers : u # t => stage'[u] = "idle"
    BY <2>1, <2>6 DEF OffsetInv
  <2>9. ~c.write => data'[t] = c.page_no
    BY <2>2, <2>5 DEF OffsetInv, PagesWhereAsked
  <2> QED BY <2>1, <2>4, <2>7, <2>8, <2>9, Zenon DEF OffsetInv, PagesWhereAsked
<1>5. ASSUME NEW t \in Callers, Throw(t) \/ EndCall(t)
      PROVE  OffsetInv'
  <2>1. /\ stage[t] # "idle" /\ stage' = [stage EXCEPT ![t] = "idle"]
        /\ UNCHANGED <<offset, disk, call, data>>
    BY <1>5 DEF Throw, EndCall, GoTo
  <2>2. stage' \in [Callers -> Stage]
    BY <2>1 DEF OffsetInv
  <2>3. \A u \in Callers : stage'[u] = "idle"
    BY <2>1 DEF OffsetInv
  <2> QED BY <2>1, <2>2, <2>3, Zenon DEF OffsetInv, PagesWhereAsked
<1>6. CASE UNCHANGED offsetVars
  BY <1>6, Zenon DEF OffsetInv, PagesWhereAsked, offsetVars
<1> QED BY <1>2, <1>3, <1>4, <1>5, <1>6 DEF OffsetNext

(* However many threads call read_page() and write_page() under the pool's *)
(* latch and whichever system calls fail, a page is written where it was   *)
(* asked for and a read delivers the page it was asked for                 *)
(* (disk_manager.cpp:32-86).  Threads that write a file header without the *)
(* latch are excluded.                                                     *)
THEOREM PagesMovedWhereAsked ==
  ASSUME HeaderThreads = {}
  PROVE  OffsetSpec => []PagesWhereAsked
<1>1. OffsetInit => OffsetInv
  BY OffsetAssumption DEF OffsetInit, OffsetInv, PagesWhereAsked, FilePage, Callers
<1>2. OffsetInv => PagesWhereAsked
  BY DEF OffsetInv
<1>3. OffsetInv /\ [OffsetNext]_offsetVars => OffsetInv'
  BY NextOffsetInv
<1> QED BY <1>1, <1>2, <1>3, PTL DEF OffsetSpec

-----------------------------------------------------------------------------
(* RecordThreads.  With no page on the list every insertion takes a new    *)
(* page, and the page is its own until the record number is returned.      *)
Busy == {"compare", "grow", "find", "copy", "load_bits", "store_bits",
         "load_count", "store_count", "full"}

RidSet == [page_no : DataPage, slot_no : Slot]
ThreadPage == [next_free_page_no : Int, num_records : Int, bitmap : SUBSET Slot,
               slots : [Slot -> (Inserters \X Nat) \union {Nothing}]]

InsertTypes ==
  /\ first_free_page_no = RM_NO_PAGE
  /\ next_page_no \in Nat \ {0}
  /\ pages \in [DataPage -> ThreadPage]
  /\ pc \in [Inserters -> Busy \union {"start", "new_page", "thrown"}]
  /\ ph \in [Inserters -> Int]
  /\ slot_no \in [Inserters -> Int]
  /\ loaded \in [Inserters -> [bits : SUBSET Slot, count : Int]]
  /\ inserted \in [Inserters -> Seq(RidSet)]

(* How far the insertion of t has come in its page, which holds no record  *)
(* that was returned.                                                      *)
Mine(t) ==
  /\ ph[t] \in DataPage /\ ph[t] < next_page_no
  /\ \A u \in Inserters : \A i \in 1..Len(inserted[u]) : inserted[u][i].page_no # ph[t]
  /\ pc[t] \in {"compare", "grow", "find"} => pages[ph[t]].bitmap = {}
  /\ pc[t] \notin {"compare", "grow", "find"} => slot_no[t] \in Slot
  /\ pc[t] \in {"load_bits", "store_bits", "load_count", "store_count", "full"} =>
       pages[ph[t]].slots[slot_no[t]] = NewRecord(t)
  /\ pc[t] \in {"load_count", "store_count", "full"} => slot_no[t] \in pages[ph[t]].bitmap

(* The records returned to t. *)
Kept(t) ==
  \A i \in 1..Len(inserted[t]) :
    LET rid == inserted[t][i] IN
      /\ rid.page_no < next_page_no
      /\ rid.slot_no \in pages[rid.page_no].bitmap
      /\ pages[rid.page_no].slots[rid.slot_no] = <<t, i>>

InsertInv ==
  /\ InsertTypes
  /\ \A t \in Inserters : pc[t] \in Busy => Mine(t)
  /\ \A t, u \in Inserters : t # u /\ pc[t] \in Busy /\ pc[u] \in Busy => ph[t] # ph[u]
  /\ \A t \in Inserters : Kept(t)

(* The page counter is a number, and no less than itself. *)
LEMMA NextPageNo ==
  ASSUME InsertInv
  PROVE  next_page_no \in Nat /\ next_page_no <= next_page_no
<1>1. next_page_no \in Nat
  BY Zenon DEF InsertInv, InsertTypes
<1> QED BY <1>1

(* A step of t that writes to page n only leaves the other threads and the *)
(* records returned alone, when n is no page of theirs.                    *)
LEMMA OthersKept ==
  ASSUME InsertInv, NEW t \in Inserters, NEW n \in Int,
         \A u \in Inserters : u # t =>
           pc'[u] = pc[u] /\ ph'[u] = ph[u] /\ slot_no'[u] = slot_no[u],
         inserted' = inserted,
         \A m \in DataPage : m # n => pages'[m] = pages[m],
         \A u \in Inserters : u # t /\ pc[u] \in Busy => ph[u] # n,
         \A u \in Inserters : \A i \in 1..Len(inserted[u]) : inserted[u][i].page_no # n,
         next_page_no' \in Nat, next_page_no <= next_page_no'
  PROVE  /\ \A u \in Inserters : u # t /\ pc'[u] \in Busy => Mine(u)'
         /\ \A u \in Inserters : Kept(u)'
<1>1. ASSUME NEW u \in Inserters, u # t, pc'[u] \in Busy
      PROVE  Mine(u)'
  <2>1. /\ pc'[u] = pc[u] /\ ph'[u] = ph[u] /\ slot_no'[u] = slot_no[u]
        /\ pc[u] \in Busy /\ Mine(u)
    BY <1>1, Zenon DEF InsertInv
  <2>2. pages'[ph[u]] = pages[ph[u]]
    BY <1>1, <2>1, Zenon DEF Mine
  <2>3. NewRecord(u)' = NewRecord(u)
    BY DEF NewRecord
  <2>4. ph[u] < next_page_no'
    <3>1. ph[u] < next_page_no /\ ph[u] \in Int
      BY <2>1, Zenon DEF InsertInv, InsertTypes, Mine
    <3> QED BY <3>1, NextPageNo
  <2>5. \A v \in Inserters : \A i \in 1..Len(inserted'[v]) : inserted'[v][i].page_no # ph'[u]
    <3>1. \A v \in Inserters : \A i \in 1..Len(inserted[v]) : inserted[v][i].page_no # ph[u]
      BY <2>1, Zenon DEF Mine
    <3> QED BY <2>1, <3>1, Zenon
  <2>6. /\ pc'[u] \in {"compare", "grow", "find"} => pages'[ph'[u]].bitmap = {}
        /\ pc'[u] \notin {"compare", "grow", "find"} => slot_no'[u] \in Slot
    BY <2>1, <2>2, Zenon DEF Mine
  <2>7. pc'[u] \in {"load_bits", "store_bits", "load_count", "store_count", "full"} =>
          pages'[ph'[u]].slots[slot_no'[u]] = NewRecord(u)'
    BY <2>1, <2>2, <2>3, Zenon DEF Mine
  <2>8. pc'[u] \in {"load_count", "store_count", "full"} =>
          slot_no'[u] \in pages'[ph'[u]].bitmap
    BY <2>1, <2>2, Zenon DEF Mine
  <2>9. ph'[u] \in DataPage /\ ph'[u] < next_page_no'
    BY <2>1, <2>4, Zenon DEF Mine
  <2> QED BY <2>5, <2>6, <2>7, <2>8, <2>9, Zenon DEF Mine
<1>2. ASSUME NEW u \in Inserters
      PROVE  Kept(u)'
  <2> SUFFICES ASSUME NEW i \in 1..Len(inserted[u])
               PROVE  /\ inserted[u][i].page_no < next_page_no'
                      /\ inserted[u][i].slot_no \in pages'[inserted[u][i].page_no].bitmap
                      /\ pages'[inserted[u][i].page_no].slots[inserted[u][i].slot_no] = <<u, i>>
    BY Zenon DEF Kept
  <2> DEFINE rid == inserted[u][i]
  <2>1. rid \in RidSet
    BY DEF InsertInv, InsertTypes
  <2>2. /\ rid.page_no < next_page_no
        /\ rid.slot_no \in pages[rid.page_no].bitmap
        /\ pages[rid.page_no].slots[rid.slot_no] = <<u, i>>
    BY Zenon DEF InsertInv, Kept
  <2>3. rid.page_no # n /\ rid.page_no \in DataPage
    BY <2>1 DEF RidSet
  <2> HIDE DEF rid
  <2>4. pages'[rid.page_no] = pages[rid.page_no]
    BY <2>3, Zenon
  <2>5. rid.page_no < next_page_no'
    <3>1. rid.page_no \in Int
      BY <2>3 DEF DataPage
    <3> QED BY <2>2, <3>1, NextPageNo
  <2> QED BY <2>2, <2>4, <2>5, Zenon DEF rid
<1> QED BY <1>1, <1>2

(* A step inside an insertion: t stays in its page, and writes nowhere     *)
(* else.                                                                   *)
LEMMA InsideStep ==
  ASSUME InsertInv, NEW t \in Inserters, pc[t] \in Busy,
         NEW label \in Busy, Jump(t, label),
         UNCHANGED <<first_free_page_no, next_page_no, ph, inserted>>,
         pages' \in [DataPage -> ThreadPage],
         \A m \in DataPage : m # ph[t] => pages'[m] = pages[m],
         slot_no' \in [Inserters -> Int],
         \A u \in Inserters : u # t => slot_no'[u] = slot_no[u],
         loaded' \in [Inserters -> [bits : SUBSET Slot, count : Int]],
         label \in {"compare", "grow", "find"} => pages'[ph[t]].bitmap = {},
         label \notin {"compare", "grow", "find"} => slot_no'[t] \in Slot,
         label \in {"load_bits", "store_bits", "load_count", "store_count", "full"} =>
           pages'[ph[t]].slots[slot_no'[t]] = NewRecord(t),
         label \in {"load_count", "store_count", "full"} =>
           slot_no'[t] \in pages'[ph[t]].bitmap
  PROVE  InsertInv'
<1>1. Mine(t) /\ ph[t] \in Int
  BY DEF InsertInv, InsertTypes
<1>2. /\ pc' \in [Inserters -> Busy \union {"start", "new_page", "thrown"}]
      /\ pc'[t] = label /\ \A u \in Inserters : u # t => pc'[u] = pc[u]
  BY Zenon DEF InsertInv, InsertTypes, Jump
<1>3. InsertTypes'
  BY <1>2, Zenon DEF InsertInv, InsertTypes
<1>4. \A u \in Inserters : u # t /\ pc[u] \in Busy => ph[u] # ph[t]
  BY Zenon DEF InsertInv
<1>5. \A u \in Inserters : \A i \in 1..Len(inserted[u]) : inserted[u][i].page_no # ph[t]
  BY <1>1, Zenon DEF Mine
<1>6. /\ \A u \in Inserters : u # t /\ pc'[u] \in Busy => Mine(u)'
      /\ \A u \in Inserters : Kept(u)'
  <2>1. next_page_no' \in Nat /\ next_page_no <= next_page_no'
    BY NextPageNo, Zenon
  <2>2. /\ inserted' = inserted
        /\ \A u \in Inserters : u # t =>
             pc'[u] = pc[u] /\ ph'[u] = ph[u] /\ slot_no'[u] = slot_no[u]
    BY <1>2, Zenon
  <2>3. PICK n \in Int : n = ph[t]
    BY <1>1
  <2>4. /\ \A m \in DataPage : m # n => pages'[m] = pages[m]
        /\ \A u \in Inserters : u # t /\ pc[u] \in Busy => ph[u] # n
        /\ \A u \in Inserters : \A i \in 1..Len(inserted[u]) : inserted[u][i].page_no # n
    BY <1>4, <1>5, <2>3, Zenon
  <2> QED BY <2>1, <2>2, <2>4, OthersKept, Zenon
<1>7. Mine(t)'
  <2>1. NewRecord(t)' = NewRecord(t)
    BY Zenon DEF NewRecord
  <2> QED BY <1>1, <1>2, <2>1, Zenon DEF Mine
<1>8. \A u, v \in Inserters : u # v /\ pc'[u] \in Busy /\ pc'[v] \in Busy => ph'[u] # ph'[v]
  BY <1>2, Zenon DEF InsertInv
<1> QED BY <1>3, <1>6, <1>7, <1>8, Zenon DEF InsertInv

(* A step that is outside an insertion before or after it. *)
LEMMA OutsideStep ==
  ASSUME InsertInv, NEW t \in Inserters,
         NEW label \in {"new_page", "thrown", "start"}, Jump(t, label),
         UNCHANGED <<first_free_page_no, next_page_no, pages, slot_no, loaded, inserted>>,
         UNCHANGED ph
  PROVE  InsertInv'
<1>1. /\ pc' \in [Inserters -> Busy \union {"start", "new_page", "thrown"}]
      /\ pc'[t] \notin Busy /\ \A u \in Inserters : u # t => pc'[u] = pc[u]
  BY DEF InsertInv, InsertTypes, Jump, Busy
<1>2. InsertTypes'
  BY <1>1 DEF InsertInv, InsertTypes
<1>3. \A u \in Inserters : u # t /\ pc[u] \in Busy => ph[u] # 0
  BY DEF InsertInv, Mine, DataPage
<1>4. \A u \in Inserters : \A i \in 1..Len(inserted[u]) : inserted[u][i].page_no # 0
  <2> SUFFICES ASSUME NEW u \in Inserters, NEW i \in 1..Len(inserted[u])
               PROVE  inserted[u][i].page_no # 0
    OBVIOUS
  <2>1. inserted[u][i] \in RidSet
    BY DEF InsertInv, InsertTypes
  <2> QED BY <2>1 DEF RidSet, DataPage
<1>5. /\ \A u \in Inserters : u # t /\ pc'[u] \in Busy => Mine(u)'
      /\ \A u \in Inserters : Kept(u)'
  <2>1. next_page_no' \in Nat /\ next_page_no <= next_page_no'
    BY NextPageNo, Zenon
  <2>2. /\ inserted' = inserted
        /\ \A m \in DataPage : m # 0 => pages'[m] = pages[m]
        /\ \A u \in Inserters : u # t =>
             pc'[u] = pc[u] /\ ph'[u] = ph[u] /\ slot_no'[u] = slot_no[u]
    BY <1>1
  <2>3. 0 \in Int
    OBVIOUS
  <2> QED BY <1>3, <1>4, <2>1, <2>2, <2>3, OthersKept, Zenon
<1>6. \A u, v \in Inserters : u # v /\ pc'[u] \in Busy /\ pc'[v] \in Busy => ph'[u] # ph'[v]
  BY <1>1 DEF InsertInv
<1> QED BY <1>1, <1>2, <1>5, <1>6, Zenon DEF InsertInv

(* create_new_page_handle(): the page new_page() gives is nobody's. *)
LEMMA NewPageStep ==
  ASSUME InsertInv, NEW t \in Inserters, CreateNewPage(t)
  PROVE  InsertInv'
<1> DEFINE n == next_page_no
<1>1. /\ pc[t] = "new_page" /\ n < MaxPages
      /\ ph' = [ph EXCEPT ![t] = n]
      /\ pages' = [pages EXCEPT ![n] = NewPage]
      /\ next_page_no' = n + 1
      /\ pc' = [pc EXCEPT ![t] = "compare"]
      /\ UNCHANGED <<first_free_page_no, slot_no, loaded, inserted>>
  BY DEF CreateNewPage, Jump
<1>2. n \in DataPage
  BY <1>1, ThreadsAssumption DEF InsertInv, InsertTypes, DataPage
<1>3. NewPage \in ThreadPage
  BY DEF NewPage, ThreadPage, Nothing, RM_NO_PAGE
<1>4. NewPage.bitmap = {}
  BY DEF NewPage
<1>5. pages' \in [DataPage -> ThreadPage] /\ pages'[n].bitmap = {}
  BY <1>1, <1>2, <1>3, <1>4, Zenon DEF InsertInv, InsertTypes
<1>6. /\ pc' \in [Inserters -> Busy \union {"start", "new_page", "thrown"}]
      /\ pc'[t] = "compare" /\ \A u \in Inserters : u # t => pc'[u] = pc[u]
  BY <1>1 DEF InsertInv, InsertTypes, Busy
<1>7. /\ ph' \in [Inserters -> Int]
      /\ ph'[t] = n /\ \A u \in Inserters : u # t => ph'[u] = ph[u]
  BY <1>1 DEF InsertInv, InsertTypes
<1>8. next_page_no' \in Nat \ {0} /\ n <= next_page_no' /\ n < next_page_no' /\ n \in Int
  BY <1>1 DEF InsertInv, InsertTypes
<1>9. InsertTypes'
  BY <1>1, <1>5, <1>6, <1>7, <1>8 DEF InsertInv, InsertTypes
<1>10. \A u \in Inserters : pc[u] \in Busy => ph[u] # n
  BY <1>8 DEF InsertInv, Mine, DataPage
<1>11. \A u \in Inserters : \A i \in 1..Len(inserted[u]) : inserted[u][i].page_no # n
  <2> SUFFICES ASSUME NEW u \in Inserters, NEW i \in 1..Len(inserted[u])
               PROVE  inserted[u][i].page_no # n
    OBVIOUS
  <2>1. inserted[u][i].page_no < n
    BY Zenon DEF InsertInv, Kept
  <2> QED BY <1>8, <2>1
<1> HIDE DEF n
<1>12. /\ \A u \in Inserters : u # t /\ pc'[u] \in Busy => Mine(u)'
       /\ \A u \in Inserters : Kept(u)'
  <2>1. next_page_no' \in Nat /\ next_page_no <= next_page_no'
    BY <1>8 DEF n
  <2>2. /\ inserted' = inserted
        /\ \A m \in DataPage : m # n => pages'[m] = pages[m]
        /\ \A u \in Inserters : u # t =>
             pc'[u] = pc[u] /\ ph'[u] = ph[u] /\ slot_no'[u] = slot_no[u]
    BY <1>1, <1>6, <1>7 DEF InsertInv, InsertTypes
  <2> QED BY <1>8, <1>10, <1>11, <2>1, <2>2, OthersKept, Zenon
<1>13. Mine(t)'
  BY <1>1, <1>2, <1>5, <1>6, <1>7, <1>8, <1>11 DEF Mine
<1>14. \A u, v \in Inserters : u # v /\ pc'[u] \in Busy /\ pc'[v] \in Busy => ph'[u] # ph'[v]
  <2> SUFFICES ASSUME NEW u \in Inserters, NEW v \in Inserters,
                      u # v, pc'[u] \in Busy, pc'[v] \in Busy
               PROVE  ph'[u] # ph'[v]
    OBVIOUS
  <2> QED BY <1>6, <1>7, <1>10 DEF InsertInv
<1> QED BY <1>9, <1>12, <1>13, <1>14 DEF InsertInv

(* The end of insert_record(): the page goes from the thread to the record *)
(* it returns.                                                             *)
LEMMA ReturnStep ==
  ASSUME InsertInv, NEW t \in Inserters, ReturnRid(t)
  PROVE  InsertInv'
<1> DEFINE rid == [page_no |-> ph[t], slot_no |-> slot_no[t]]
<1>1. pc[t] = "full" /\ pc[t] \in Busy /\ Mine(t)
  BY Zenon DEF ReturnRid, InsertInv, Busy
<1>2. /\ inserted' = [inserted EXCEPT ![t] = Append(@, rid)]
      /\ pc' = [pc EXCEPT ![t] = "start"]
      /\ UNCHANGED <<next_page_no, pages, ph, slot_no, loaded>>
  BY DEF ReturnRid, Jump
<1>3. first_free_page_no' = RM_NO_PAGE
  <2>1. ph[t] # RM_NO_PAGE
    <3>1. ph[t] \in DataPage
      BY <1>1, Zenon DEF Mine
    <3> QED BY <3>1 DEF DataPage, RM_NO_PAGE
  <2> QED BY <2>1 DEF ReturnRid, InsertInv, InsertTypes
<1>4. rid \in RidSet
  BY <1>1, Zenon DEF Mine, RidSet
<1>5. /\ rid.page_no = ph[t] /\ rid.slot_no = slot_no[t]
      /\ rid.page_no < next_page_no
      /\ rid.slot_no \in pages[rid.page_no].bitmap
      /\ pages[rid.page_no].slots[rid.slot_no] = <<t, Len(inserted[t]) + 1>>
  BY <1>1, Zenon DEF Mine, NewRecord
<1> HIDE DEF rid
<1>6. inserted[t] \in Seq(RidSet)
  BY DEF InsertInv, InsertTypes
<1>7. /\ inserted' \in [Inserters -> Seq(RidSet)]
      /\ inserted'[t] = Append(inserted[t], rid)
      /\ \A u \in Inserters : u # t => inserted'[u] = inserted[u]
  <2>1. Append(inserted[t], rid) \in Seq(RidSet)
    BY <1>4, <1>6
  <2> QED BY <1>2, <2>1, Zenon DEF InsertInv, InsertTypes
<1>8. /\ Len(inserted'[t]) = Len(inserted[t]) + 1 /\ Len(inserted[t]) \in Nat
      /\ inserted'[t][Len(inserted[t]) + 1] = rid
      /\ \A i \in 1..Len(inserted[t]) : inserted'[t][i] = inserted[t][i]
  BY <1>4, <1>6, <1>7
<1>9. /\ pc' \in [Inserters -> Busy \union {"start", "new_page", "thrown"}]
      /\ pc'[t] \notin Busy /\ \A u \in Inserters : u # t => pc'[u] = pc[u]
  BY <1>2 DEF InsertInv, InsertTypes, Busy
<1>10. InsertTypes'
  BY <1>2, <1>3, <1>7, <1>9, Zenon DEF InsertInv, InsertTypes
<1>11. ASSUME NEW u \in Inserters, pc'[u] \in Busy
       PROVE  Mine(u)'
  <2>1. u # t /\ pc[u] \in Busy /\ pc'[u] = pc[u] /\ Mine(u)
    BY <1>9, <1>11 DEF InsertInv
  <2>2. ph[u] # ph[t]
    BY <1>1, <2>1 DEF InsertInv
  <2>3. ASSUME NEW v \in Inserters, NEW i \in 1..Len(inserted'[v])
        PROVE  inserted'[v][i].page_no # ph[u]
    <3>1. CASE v = t /\ i = Len(inserted[t]) + 1
      BY <1>5, <1>8, <2>2, <3>1
    <3>2. CASE v = t /\ i # Len(inserted[t]) + 1
      <4>1. i \in 1..Len(inserted[t])
        BY <1>8, <2>3, <3>2
      <4> QED BY <1>8, <2>1, <3>2, <4>1 DEF Mine
    <3>3. CASE v # t
      BY <1>7, <2>1, <3>3 DEF Mine
    <3> QED BY <3>1, <3>2, <3>3
  <2>4. NewRecord(u)' = NewRecord(u)
    BY <1>7, <2>1 DEF NewRecord
  <2> QED BY <1>2, <2>1, <2>3, <2>4, Zenon DEF Mine
<1>12. ASSUME NEW u \in Inserters
       PROVE  Kept(u)'
  <2>1. CASE u # t
    <3>1. Kept(u) /\ inserted'[u] = inserted[u]
      BY <1>7, <2>1, Zenon DEF InsertInv
    <3> QED BY <1>2, <3>1, Zenon DEF Kept
  <2>2. CASE u = t
    <3> SUFFICES ASSUME NEW i \in 1..Len(inserted'[t])
                 PROVE  /\ inserted'[t][i].page_no < next_page_no
                        /\ inserted'[t][i].slot_no \in pages[inserted'[t][i].page_no].bitmap
                        /\ pages[inserted'[t][i].page_no].slots[inserted'[t][i].slot_no] = <<t, i>>
      BY <1>2, <2>2, Zenon DEF Kept
    <3>1. CASE i = Len(inserted[t]) + 1
      BY <1>5, <1>8, <3>1, Zenon
    <3>2. CASE i # Len(inserted[t]) + 1
      <4>1. i \in 1..Len(inserted[t])
        BY <1>8, <3>2
      <4> QED BY <1>8, <4>1, Zenon DEF InsertInv, Kept
    <3> QED BY <3>1, <3>2, Zenon
  <2> QED BY <2>1, <2>2
<1>13. \A u, v \in Inserters : u # v /\ pc'[u] \in Busy /\ pc'[v] \in Busy => ph'[u] # ph'[v]
  BY <1>2, <1>9 DEF InsertInv
<1> QED BY <1>10, <1>11, <1>12, <1>13 DEF InsertInv

(* The steps of an insertion that change one field of its page. *)
LEMMA PageWriteFacts ==
  ASSUME InsertInv, NEW t \in Inserters, pc[t] \in Busy, NEW page \in ThreadPage,
         pages' = [pages EXCEPT ![ph[t]] = page]
  PROVE  /\ pages' \in [DataPage -> ThreadPage] /\ pages'[ph[t]] = page
         /\ \A m \in DataPage : m # ph[t] => pages'[m] = pages[m]
<1>1. ph[t] \in DataPage
  BY DEF InsertInv, Mine
<1> QED BY <1>1, Zenon DEF InsertInv, InsertTypes

(* Each step of each inserting thread keeps InsertInv (insert_record() and *)
(* the functions it calls, rm_file_handle.cpp).                            *)
LEMMA NextInsertInv ==
  ASSUME InsertInv, [InsertNext]_insertVars
  PROVE  InsertInv'
<1> DEFINE Loaded == [bits : SUBSET Slot, count : Int]
<1>1. ASSUME NEW t \in Inserters, CreatePageHandle(t)
      PROVE  InsertInv'
  <2>1. /\ Jump(t, "new_page")
        /\ UNCHANGED <<first_free_page_no, next_page_no, pages, slot_no, loaded, inserted>>
        /\ UNCHANGED ph
    BY <1>1 DEF CreatePageHandle, InsertInv, InsertTypes, fileHandleVars
  <2>2. "new_page" \in {"new_page", "thrown", "start"}
    OBVIOUS
  <2> QED BY <2>1, <2>2, OutsideStep, Zenon
<1>2. ASSUME NEW t \in Inserters, CompareNumPages(t) \/ SetNumPages(t)
      PROVE  InsertInv'
  <2>1. pc[t] \in {"compare", "grow"} /\ pc[t] \in Busy
    BY <1>2 DEF CompareNumPages, SetNumPages, Busy
  <2>2. PICK label \in {"grow", "find"} : Jump(t, label)
    BY <1>2 DEF CompareNumPages, SetNumPages
  <2>3. UNCHANGED <<first_free_page_no, next_page_no, ph, inserted, pages, slot_no, loaded>>
    BY <1>2 DEF CompareNumPages, SetNumPages, fileHandleVars
  <2>4. pages[ph[t]].bitmap = {}
    BY <2>1, Zenon DEF InsertInv, Mine
  <2>5. /\ pages' \in [DataPage -> ThreadPage] /\ slot_no' \in [Inserters -> Int]
        /\ loaded' \in [Inserters -> Loaded]
    BY <2>3 DEF InsertInv, InsertTypes
  <2>6. label \in {"compare", "grow", "find"} /\ label \in Busy
    BY <2>2 DEF Busy
  <2> QED BY <2>1, <2>2, <2>3, <2>4, <2>5, <2>6, InsideStep, Zenon
<1>3. ASSUME NEW t \in Inserters, FindSlot(t)
      PROVE  InsertInv'
  <2>1. /\ pc[t] = "find" /\ pc[t] \in Busy
        /\ UNCHANGED <<first_free_page_no, next_page_no, ph, inserted, pages, loaded>>
    BY <1>3, Zenon DEF FindSlot, Busy, fileHandleVars
  <2>2. CASE Jump(t, "thrown") /\ UNCHANGED slot_no
    <3>1. "thrown" \in {"new_page", "thrown", "start"}
      OBVIOUS
    <3> QED BY <2>1, <2>2, <3>1, OutsideStep
  <2>3. CASE ~(Jump(t, "thrown") /\ UNCHANGED slot_no)
    <3> DEFINE free == Slot \ pages[ph[t]].bitmap
               least == CHOOSE s \in free : \A r \in free : s <= r
    <3>1. Jump(t, "copy") /\ slot_no' = [slot_no EXCEPT ![t] = least]
      BY <1>3, <2>3, Zenon DEF FindSlot
    <3>2. free = Slot
      BY <2>1, Zenon DEF InsertInv, Mine
    <3>3. \E s \in free : \A r \in free : s <= r
      <4>1. 0 \in Slot /\ \A r \in Slot : 0 <= r
        BY ThreadsAssumption DEF Slot
      <4> QED BY <3>2, <4>1
    <3>4. least \in Slot
      BY <3>2, <3>3, Zenon
    <3> HIDE DEF least
    <3>5. /\ slot_no' \in [Inserters -> Int] /\ slot_no'[t] \in Slot
          /\ \A u \in Inserters : u # t => slot_no'[u] = slot_no[u]
      BY <3>1, <3>4 DEF InsertInv, InsertTypes, Slot
    <3>6. "copy" \in Busy
      BY DEF Busy
    <3>7. pages' \in [DataPage -> ThreadPage] /\ loaded' \in [Inserters -> Loaded]
      BY <2>1 DEF InsertInv, InsertTypes
    <3> QED BY <2>1, <3>1, <3>5, <3>6, <3>7, InsideStep, Zenon
  <2> QED BY <2>2, <2>3
<1>4. ASSUME NEW t \in Inserters, CopyRecord(t)
      PROVE  InsertInv'
  <2> DEFINE page == [pages[ph[t]] EXCEPT !.slots[slot_no[t]] = NewRecord(t)]
  <2>1. /\ pc[t] = "copy" /\ pc[t] \in Busy /\ Jump(t, "load_bits")
        /\ pages' = [pages EXCEPT ![ph[t]] = page]
        /\ UNCHANGED <<first_free_page_no, next_page_no, ph, slot_no, loaded, inserted>>
    BY <1>4 DEF CopyRecord, Busy
  <2>2. slot_no[t] \in Slot /\ pages[ph[t]] \in ThreadPage
    BY <2>1, Zenon DEF InsertInv, InsertTypes, Mine
  <2>3. NewRecord(t) \in Inserters \X Nat
    BY DEF NewRecord, InsertInv, InsertTypes
  <2>4. page \in ThreadPage /\ page.slots[slot_no[t]] = NewRecord(t)
    BY <2>2, <2>3 DEF ThreadPage
  <2> HIDE DEF page
  <2>5. /\ pages' \in [DataPage -> ThreadPage] /\ pages'[ph[t]] = page
        /\ \A m \in DataPage : m # ph[t] => pages'[m] = pages[m]
    BY <2>1, <2>4, PageWriteFacts, Zenon
  <2>6. slot_no' \in [Inserters -> Int] /\ loaded' \in [Inserters -> Loaded]
    BY <2>1 DEF InsertInv, InsertTypes
  <2>7. /\ "load_bits" \in Busy /\ "load_bits" \notin {"compare", "grow", "find"}
        /\ "load_bits" \notin {"load_count", "store_count", "full"}
    BY DEF Busy
  <2>8. slot_no'[t] \in Slot /\ pages'[ph[t]].slots[slot_no'[t]] = NewRecord(t)
    BY <2>1, <2>2, <2>4, <2>5, Zenon
  <2> QED BY <2>1, <2>5, <2>6, <2>7, <2>8, InsideStep, Zenon
<1>5. ASSUME NEW t \in Inserters, LoadBits(t) \/ LoadCount(t)
      PROVE  InsertInv'
  <2>1. pc[t] \in {"load_bits", "load_count"} /\ pc[t] \in Busy
    BY <1>5 DEF LoadBits, LoadCount, Busy
  <2>2. PICK label \in {"store_bits", "store_count"} :
          /\ Jump(t, label)
          /\ label = "store_count" => pc[t] = "load_count"
    BY <1>5 DEF LoadBits, LoadCount
  <2>3. UNCHANGED <<first_free_page_no, next_page_no, ph, inserted, pages, slot_no>>
    BY <1>5 DEF LoadBits, LoadCount, fileHandleVars
  <2>4. pages[ph[t]] \in ThreadPage /\ loaded[t] \in Loaded
    BY <2>1, Zenon DEF InsertInv, InsertTypes, Mine
  <2>5. loaded' \in [Inserters -> Loaded]
    <3>1. [loaded[t] EXCEPT !.bits = pages[ph[t]].bitmap] \in Loaded
      BY <2>4 DEF ThreadPage
    <3>2. [loaded[t] EXCEPT !.count = pages[ph[t]].num_records] \in Loaded
      BY <2>4 DEF ThreadPage
    <3>3. loaded \in [Inserters -> Loaded]
      BY DEF InsertInv, InsertTypes
    <3> QED BY <1>5, <3>1, <3>2, <3>3, Zenon DEF LoadBits, LoadCount
  <2>6. /\ label \in Busy /\ label \notin {"compare", "grow", "find"}
        /\ label \in {"load_count", "store_count", "full"} => pc[t] = "load_count"
    BY <2>2 DEF Busy
  <2>7. /\ slot_no[t] \in Slot /\ pages[ph[t]].slots[slot_no[t]] = NewRecord(t)
        /\ pc[t] = "load_count" => slot_no[t] \in pages[ph[t]].bitmap
    BY <2>1, Zenon DEF InsertInv, Mine
  <2>8. pages' \in [DataPage -> ThreadPage] /\ slot_no' \in [Inserters -> Int]
    BY <2>3 DEF InsertInv, InsertTypes
  <2> QED BY <2>1, <2>2, <2>3, <2>5, <2>6, <2>7, <2>8, InsideStep, Zenon
<1>6. ASSUME NEW t \in Inserters, StoreBits(t)
      PROVE  InsertInv'
  <2> DEFINE page == [pages[ph[t]] EXCEPT !.bitmap = loaded[t].bits \union {slot_no[t]}]
  <2>1. /\ pc[t] = "store_bits" /\ pc[t] \in Busy /\ Jump(t, "load_count")
        /\ pages' = [pages EXCEPT ![ph[t]] = page]
        /\ UNCHANGED <<first_free_page_no, next_page_no, ph, slot_no, loaded, inserted>>
    BY <1>6 DEF StoreBits, Busy
  <2>2. /\ slot_no[t] \in Slot /\ pages[ph[t]] \in ThreadPage /\ loaded[t] \in Loaded
        /\ pages[ph[t]].slots[slot_no[t]] = NewRecord(t)
    BY <2>1, Zenon DEF InsertInv, InsertTypes, Mine
  <2>3. /\ page \in ThreadPage /\ page.slots = pages[ph[t]].slots
        /\ slot_no[t] \in page.bitmap
    BY <2>2 DEF ThreadPage
  <2> HIDE DEF page
  <2>4. /\ pages' \in [DataPage -> ThreadPage] /\ pages'[ph[t]] = page
        /\ \A m \in DataPage : m # ph[t] => pages'[m] = pages[m]
    BY <2>1, <2>3, PageWriteFacts, Zenon
  <2>5. slot_no' \in [Inserters -> Int] /\ loaded' \in [Inserters -> Loaded]
    BY <2>1 DEF InsertInv, InsertTypes
  <2>6. "load_count" \in Busy /\ "load_count" \notin {"compare", "grow", "find"}
    BY DEF Busy
  <2>7. /\ slot_no'[t] \in Slot /\ pages'[ph[t]].slots[slot_no'[t]] = NewRecord(t)
        /\ slot_no'[t] \in pages'[ph[t]].bitmap
    BY <2>1, <2>2, <2>3, <2>4, Zenon
  <2> QED BY <2>1, <2>4, <2>5, <2>6, <2>7, InsideStep, Zenon
<1>7. ASSUME NEW t \in Inserters, StoreCount(t)
      PROVE  InsertInv'
  <2> DEFINE page == [pages[ph[t]] EXCEPT !.num_records = loaded[t].count + 1]
  <2>1. /\ pc[t] = "store_count" /\ pc[t] \in Busy /\ Jump(t, "full")
        /\ pages' = [pages EXCEPT ![ph[t]] = page]
        /\ UNCHANGED <<first_free_page_no, next_page_no, ph, slot_no, loaded, inserted>>
    BY <1>7 DEF StoreCount, Busy
  <2>2. /\ slot_no[t] \in Slot /\ pages[ph[t]] \in ThreadPage /\ loaded[t] \in Loaded
        /\ pages[ph[t]].slots[slot_no[t]] = NewRecord(t)
        /\ slot_no[t] \in pages[ph[t]].bitmap
    BY <2>1, Zenon DEF InsertInv, InsertTypes, Mine
  <2>3. /\ page \in ThreadPage /\ page.slots = pages[ph[t]].slots
        /\ page.bitmap = pages[ph[t]].bitmap
    BY <2>2 DEF ThreadPage
  <2> HIDE DEF page
  <2>4. /\ pages' \in [DataPage -> ThreadPage] /\ pages'[ph[t]] = page
        /\ \A m \in DataPage : m # ph[t] => pages'[m] = pages[m]
    BY <2>1, <2>3, PageWriteFacts, Zenon
  <2>5. slot_no' \in [Inserters -> Int] /\ loaded' \in [Inserters -> Loaded]
    BY <2>1 DEF InsertInv, InsertTypes
  <2>6. "full" \in Busy /\ "full" \notin {"compare", "grow", "find"}
    BY DEF Busy
  <2>7. /\ slot_no'[t] \in Slot /\ pages'[ph[t]].slots[slot_no'[t]] = NewRecord(t)
        /\ slot_no'[t] \in pages'[ph[t]].bitmap
    BY <2>1, <2>2, <2>3, <2>4, Zenon
  <2> QED BY <2>1, <2>4, <2>5, <2>6, <2>7, InsideStep, Zenon
<1>8. CASE UNCHANGED insertVars
  <2>1. /\ UNCHANGED <<first_free_page_no, next_page_no, pages, pc, ph, slot_no, loaded>>
        /\ inserted' = inserted
    BY <1>8 DEF insertVars, fileHandleVars, threadVars
  <2>2. InsertTypes'
    BY <2>1 DEF InsertInv, InsertTypes
  <2>3. \A t \in Inserters : (Mine(t) => Mine(t)') /\ (Kept(t) => Kept(t)')
    BY <2>1, Zenon DEF Mine, Kept, NewRecord
  <2> QED BY <2>1, <2>2, <2>3, Zenon DEF InsertInv
<1> QED BY <1>1, <1>2, <1>3, <1>4, <1>5, <1>6, <1>7, <1>8, NewPageStep, ReturnStep
     DEF InsertNext, InsertStep

(* However many threads insert into a file with no page on its list, and   *)
(* wherever they interrupt each other, no two get the same slot and no     *)
(* record is overwritten (rm_file_handle.cpp:55-104, 241-274).             *)
THEOREM InsertionsApart ==
  ASSUME ~Listed
  PROVE  InsertSpec => []SlotsNotShared
<1>1. InsertInit => InsertInv
  <2> SUFFICES ASSUME InsertInit PROVE InsertInv
    OBVIOUS
  <2>1. pages = [n \in DataPage |-> NewPage]
    BY DEF InsertInit
  <2>2. NewPage \in ThreadPage
    <3>1. [s \in Slot |-> Nothing] \in [Slot -> (Inserters \X Nat) \union {Nothing}]
      BY Zenon
    <3>2. RM_NO_PAGE \in Int /\ 0 \in Int /\ {} \in SUBSET Slot
      BY DEF RM_NO_PAGE
    <3> QED BY <3>1, <3>2, Zenon DEF NewPage, ThreadPage
  <2>3. InsertTypes
    <3>1. << >> \in Seq(RidSet)
      OBVIOUS
    <3>2. inserted \in [Inserters -> Seq(RidSet)] /\ pages \in [DataPage -> ThreadPage]
      BY <2>1, <2>2, <3>1, Zenon DEF InsertInit
    <3>3. first_free_page_no = RM_NO_PAGE /\ next_page_no \in Nat \ {0}
      <4>1. first_free_page_no = RM_NO_PAGE /\ next_page_no = 1
        BY Zenon DEF InsertInit
      <4> QED BY <4>1
    <3>5. /\ ph \in [Inserters -> Int] /\ slot_no \in [Inserters -> Int]
          /\ loaded \in [Inserters -> [bits : SUBSET Slot, count : Int]]
      <4>1. 0 \in Int /\ {} \in SUBSET Slot
        OBVIOUS
      <4>2. [bits |-> {}, count |-> 0] \in [bits : SUBSET Slot, count : Int]
        BY <4>1, Zenon
      <4> QED BY <4>1, <4>2, Zenon DEF InsertInit
    <3>4. pc \in [Inserters -> Busy \union {"start", "new_page", "thrown"}]
      BY Zenon DEF InsertInit
    <3> QED BY <3>2, <3>3, <3>4, <3>5, Zenon DEF InsertTypes
  <2>4. \A t \in Inserters : pc[t] \notin Busy /\ inserted[t] = << >>
    BY DEF InsertInit, Busy
  <2>5. \A t \in Inserters : Len(inserted[t]) = 0
    BY <2>4
  <2>6. 1..0 = {}
    OBVIOUS
  <2>7. \A t \in Inserters : Kept(t)
    BY <2>5, <2>6, Zenon DEF Kept
  <2> QED BY <2>3, <2>4, <2>7, Zenon DEF InsertInv
<1>2. InsertInv => SlotsNotShared
  BY Zenon DEF InsertInv, Kept, SlotsNotShared
<1>3. InsertInv /\ [InsertNext]_insertVars => InsertInv'
  BY NextInsertInv
<1> QED BY <1>1, <1>2, <1>3, PTL DEF InsertSpec

-----------------------------------------------------------------------------
\* The bytes of memory: a value and a place in it.
LogKinds == {"BEGIN", "INSERT", "lsn", "txn", "length", "size", "rid", "data", "name",
             "empty", "zero"}
LogValue == LogKinds \X Int
Cell == LogValue \X Int

\* Byte k of a record as serialize() lays it out.
HeaderByte(r, k) ==
  IF k < 4 THEN <<r.log_type, k>>
  ELSE IF k < 8 THEN <<r.lsn, k - 4>>
  ELSE IF k < 12 THEN <<r.log_tot_len, k - 8>>
  ELSE IF k < 16 THEN <<r.log_tid, k - 12>>
  ELSE <<r.prev_lsn, k - 16>>

InsertByte(r, k, n) ==
  IF k < 24 THEN <<r.size, k - 20>>
  ELSE IF k < 24 + n THEN <<r.data, k - 24>>
  ELSE IF k < 32 + n THEN <<r.rid, k - (24 + n)>>
  ELSE IF k < 40 + n THEN <<r.table_name_size, k - (32 + n)>>
  ELSE <<r.table_name, k - (40 + n)>>

ByteOf(r, k) == IF k < 20 THEN HeaderByte(r, k) ELSE InsertByte(r, k, Number(r.size))

\* The bytes of r stand in mem from at on.
Holds(mem, at, r) ==
  \A k \in 0 .. TotLen(r) - 1 : at + k \in DOMAIN mem /\ mem[at + k] = ByteOf(r, k)

IsBegin(r) == \E l \in Int, p \in Int : r = BeginLogRecord(0, l, p)
IsInsert(r) ==
  \E l \in Int, p \in Int, n \in Sizes, m \in NameSizes : r = InsertLogRecord(0, l, p, n, m)

\* Memory with the addresses of D.
IsMemory(mem, D) == mem = [a \in D |-> mem[a]]

\* Copying n bytes of a value changes n places of the memory.
PutEffect(out, mem, D, at, o, v, n) ==
  /\ IsMemory(out, D)
  /\ \A a \in D : out[a] = IF a - at >= o /\ a - at < o + n THEN <<v, (a - at) - o>> ELSE mem[a]

\* The memory after one memcpy() of serialize(): n places changed, the rest as before.
LEMMA PutFacts ==
  ASSUME NEW D \in SUBSET Int, NEW mem, IsMemory(mem, D), NEW at \in Int, NEW o \in Int,
         NEW v, NEW n \in Int, NEW out, out = Put(mem, at + o, v, n)
  PROVE  PutEffect(out, mem, D, at, o, v, n)
<1>1. DOMAIN mem = D
  BY Zenon DEF IsMemory
<1>2. out = [a \in D |-> IF a >= at + o /\ a < at + o + n THEN <<v, a - (at + o)>> ELSE mem[a]]
  BY <1>1, Zenon DEF Put
<1>3. \A a \in D : /\ a >= at + o <=> a - at >= o
                   /\ a < at + o + n <=> a - at < o + n
                   /\ a - (at + o) = (a - at) - o
  OBVIOUS
<1>4. IsMemory(out, D)
  BY <1>2, Zenon DEF IsMemory
<1>5. \A a \in D : out[a] = IF a >= at + o /\ a < at + o + n THEN <<v, a - (at + o)>> ELSE mem[a]
  BY <1>2, Zenon
<1>6. ASSUME NEW a \in D
      PROVE  out[a] = IF a - at >= o /\ a - at < o + n THEN <<v, (a - at) - o>> ELSE mem[a]
  BY <1>3, <1>5
<1> QED BY <1>4, <1>6, Zenon DEF PutEffect

\* What was copied whole is read back.
FieldAt(mem, at, n, v) ==
  \A i \in 0 .. n - 1 : at + i \in DOMAIN mem /\ mem[at + i] = <<v, i>>

\* A field that stands whole where deserialize() looks for it is read back.
LEMMA GetFacts ==
  ASSUME NEW mem, NEW at \in Int, NEW n \in Nat, n > 0, NEW v, FieldAt(mem, at, n, v)
  PROVE  Get(mem, at, n) = v
<1>1. 0 \in 0 .. n - 1 /\ at + 0 = at /\ n # 0
  OBVIOUS
<1>2. mem[at] = <<v, 0>>
  BY <1>1 DEF FieldAt
<1>3. mem[at][1] = v
  BY <1>2
<1> QED BY <1>1, <1>3, Zenon DEF Get, FieldAt

\* LogRecord::serialize() writes the header and nothing else.
HeaderEffect(out, mem, D, at, r) ==
  /\ IsMemory(out, D)
  /\ \A a \in D : out[a] = IF a >= at /\ a < at + 20 THEN HeaderByte(r, a - at) ELSE mem[a]

\* LogRecord::serialize() fills the header's 20 bytes and no other.
LEMMA SerializeHeaderFacts ==
  ASSUME NEW D \in SUBSET Int, NEW mem, IsMemory(mem, D), NEW at \in Int, NEW r,
         NEW out, out = SerializeHeader(mem, at, r)
  PROVE  HeaderEffect(out, mem, D, at, r)
<1>1. PICK m1 : m1 = Put(mem, at + 0, r.log_type, 4)
  OBVIOUS
<1>2. PICK m2 : m2 = Put(m1, at + 4, r.lsn, 4)
  OBVIOUS
<1>3. PICK m3 : m3 = Put(m2, at + 8, r.log_tot_len, 4)
  OBVIOUS
<1>4. PICK m4 : m4 = Put(m3, at + 12, r.log_tid, 4)
  OBVIOUS
<1>5. /\ OFFSET_LOG_TYPE = 0 /\ OFFSET_LSN = 4 /\ OFFSET_LOG_TOT_LEN = 8
      /\ OFFSET_LOG_TID = 12 /\ OFFSET_PREV_LSN = 16 /\ SizeofInt = 4
  BY DEF OFFSET_LOG_TYPE, OFFSET_LSN, OFFSET_LOG_TOT_LEN, OFFSET_LOG_TID, OFFSET_PREV_LSN, SizeofInt
<1>6. out = Put(m4, at + 16, r.prev_lsn, 4)
  BY <1>1, <1>2, <1>3, <1>4, <1>5, Zenon DEF SerializeHeader
<1>i. 0 \in Int /\ 4 \in Int /\ 8 \in Int /\ 12 \in Int /\ 16 \in Int
  OBVIOUS
<1>7. PutEffect(m1, mem, D, at, 0, r.log_type, 4)
  BY <1>1, <1>i, PutFacts, Zenon
<1>8. PutEffect(m2, m1, D, at, 4, r.lsn, 4)
  <2>1. IsMemory(m1, D)
    BY <1>7, Zenon DEF PutEffect
  <2> QED BY <1>2, <1>i, <2>1, PutFacts, Zenon
<1>9. PutEffect(m3, m2, D, at, 8, r.log_tot_len, 4)
  <2>1. IsMemory(m2, D)
    BY <1>8, Zenon DEF PutEffect
  <2> QED BY <1>3, <1>i, <2>1, PutFacts, Zenon
<1>10. PutEffect(m4, m3, D, at, 12, r.log_tid, 4)
  <2>1. IsMemory(m3, D)
    BY <1>9, Zenon DEF PutEffect
  <2> QED BY <1>4, <1>i, <2>1, PutFacts, Zenon
<1>11. PutEffect(out, m4, D, at, 16, r.prev_lsn, 4)
  <2>1. IsMemory(m4, D)
    BY <1>10, Zenon DEF PutEffect
  <2> QED BY <1>6, <1>i, <2>1, PutFacts, Zenon
<1>12. ASSUME NEW a \in D
       PROVE  out[a] = IF a >= at /\ a < at + 20 THEN HeaderByte(r, a - at) ELSE mem[a]
  <2>1. PICK k \in Int : k = a - at
    OBVIOUS
  <2>2. /\ m1[a] = IF k >= 0 /\ k < 0 + 4 THEN <<r.log_type, k - 0>> ELSE mem[a]
        /\ m2[a] = IF k >= 4 /\ k < 4 + 4 THEN <<r.lsn, k - 4>> ELSE m1[a]
        /\ m3[a] = IF k >= 8 /\ k < 8 + 4 THEN <<r.log_tot_len, k - 8>> ELSE m2[a]
        /\ m4[a] = IF k >= 12 /\ k < 12 + 4 THEN <<r.log_tid, k - 12>> ELSE m3[a]
        /\ out[a] = IF k >= 16 /\ k < 16 + 4 THEN <<r.prev_lsn, k - 16>> ELSE m4[a]
    BY <1>7, <1>8, <1>9, <1>10, <1>11, <2>1, Zenon DEF PutEffect
  <2>7. out[a] = IF k >= 0 /\ k < 20 THEN HeaderByte(r, k) ELSE mem[a]
    BY <2>2 DEF HeaderByte
  <2>8. (k >= 0 /\ k < 20) <=> (a >= at /\ a < at + 20)
    BY <2>1
  <2> QED BY <2>1, <2>7, <2>8, Zenon
<1> QED BY <1>11, <1>12, Zenon DEF PutEffect, HeaderEffect

\* InsertLogRecord::serialize() writes the record's own fields after the header.
InsertEffect(out, mem, D, at, r, n, m) ==
  /\ IsMemory(out, D)
  /\ \A a \in D : out[a] = IF a >= at + 20 /\ a < at + 40 + n + m
                             THEN InsertByte(r, a - at, n) ELSE mem[a]

\* InsertLogRecord::serialize() fills the bytes from the header to the end of the
\* name, and no other.
LEMMA SerializeInsertFacts ==
  ASSUME NEW D \in SUBSET Int, NEW mem, IsMemory(mem, D), NEW at \in Int, NEW r,
         NEW n \in Nat, NEW m \in Nat, Number(r.size) = n, Number(r.table_name_size) = m,
         NEW out, out = SerializeInsert(mem, at, r)
  PROVE  InsertEffect(out, mem, D, at, r, n, m)
<1>1. PICK m1 : m1 = Put(mem, at + 20, r.size, 4)
  OBVIOUS
<1>2. PICK m2 : m2 = Put(m1, at + 24, r.data, n)
  OBVIOUS
<1>3. PICK m3 : m3 = Put(m2, at + (24 + n), r.rid, 8)
  OBVIOUS
<1>4. PICK m4 : m4 = Put(m3, at + (32 + n), r.table_name_size, 8)
  OBVIOUS
<1>5. /\ at + OFFSET_LOG_DATA = at + 20 /\ SizeofInt = 4 /\ SizeofRid = 8 /\ SizeofSizeT = 8
      /\ at + 20 + 4 = at + 24 /\ at + 24 + n = at + (24 + n)
      /\ at + (24 + n) + 8 = at + (32 + n) /\ at + (32 + n) + 8 = at + (40 + n)
  BY DEF OFFSET_LOG_DATA, OFFSET_PREV_LSN, OFFSET_LOG_TID, OFFSET_LOG_TOT_LEN, OFFSET_LSN,
         SizeofInt, SizeofRid, SizeofSizeT
<1>6. out = Put(m4, at + (40 + n), r.table_name, m)
  BY <1>1, <1>2, <1>3, <1>4, <1>5, Zenon DEF SerializeInsert
<1>i. /\ 20 \in Int /\ 24 \in Int /\ 24 + n \in Int /\ 32 + n \in Int /\ 40 + n \in Int
      /\ 4 \in Int /\ 8 \in Int /\ n \in Int /\ m \in Int
  OBVIOUS
<1>7. PutEffect(m1, mem, D, at, 20, r.size, 4)
  BY <1>1, <1>i, PutFacts, Zenon
<1>8. PutEffect(m2, m1, D, at, 24, r.data, n)
  <2>1. IsMemory(m1, D)
    BY <1>7, Zenon DEF PutEffect
  <2> QED BY <1>2, <1>i, <2>1, PutFacts, Zenon
<1>9. PutEffect(m3, m2, D, at, 24 + n, r.rid, 8)
  <2>1. IsMemory(m2, D)
    BY <1>8, Zenon DEF PutEffect
  <2> QED BY <1>3, <1>i, <2>1, PutFacts, Zenon
<1>10. PutEffect(m4, m3, D, at, 32 + n, r.table_name_size, 8)
  <2>1. IsMemory(m3, D)
    BY <1>9, Zenon DEF PutEffect
  <2> QED BY <1>4, <1>i, <2>1, PutFacts, Zenon
<1>11. PutEffect(out, m4, D, at, 40 + n, r.table_name, m)
  <2>1. IsMemory(m4, D)
    BY <1>10, Zenon DEF PutEffect
  <2> QED BY <1>6, <1>i, <2>1, PutFacts, Zenon
<1>12. ASSUME NEW a \in D
       PROVE  out[a] = IF a >= at + 20 /\ a < at + 40 + n + m
                         THEN InsertByte(r, a - at, n) ELSE mem[a]
  <2>1. PICK k \in Int : k = a - at
    OBVIOUS
  <2>2. /\ m1[a] = IF k >= 20 /\ k < 20 + 4 THEN <<r.size, k - 20>> ELSE mem[a]
        /\ m2[a] = IF k >= 24 /\ k < 24 + n THEN <<r.data, k - 24>> ELSE m1[a]
        /\ m3[a] = IF k >= 24 + n /\ k < 24 + n + 8 THEN <<r.rid, k - (24 + n)>> ELSE m2[a]
        /\ m4[a] = IF k >= 32 + n /\ k < 32 + n + 8 THEN <<r.table_name_size, k - (32 + n)>>
                     ELSE m3[a]
        /\ out[a] = IF k >= 40 + n /\ k < 40 + n + m THEN <<r.table_name, k - (40 + n)>>
                      ELSE m4[a]
    BY <1>7, <1>8, <1>9, <1>10, <1>11, <2>1, Zenon DEF PutEffect
  <2>7. out[a] = IF k >= 20 /\ k < 40 + n + m THEN InsertByte(r, k, n) ELSE mem[a]
    <3>1. \/ k < 20 \/ k >= 40 + n + m
          \/ k >= 20 /\ k < 24
          \/ k >= 24 /\ k < 24 + n
          \/ k >= 24 + n /\ k < 32 + n
          \/ k >= 32 + n /\ k < 40 + n
          \/ k >= 40 + n /\ k < 40 + n + m
      OBVIOUS
    <3>2. CASE k < 20 \/ k >= 40 + n + m
      <4>1. /\ ~(k >= 20 /\ k < 20 + 4) /\ ~(k >= 24 /\ k < 24 + n)
            /\ ~(k >= 24 + n /\ k < 24 + n + 8) /\ ~(k >= 32 + n /\ k < 32 + n + 8)
            /\ ~(k >= 40 + n /\ k < 40 + n + m) /\ ~(k >= 20 /\ k < 40 + n + m)
        BY <3>2
      <4> QED BY <2>2, <4>1, Zenon
    <3>3. CASE k >= 20 /\ k < 24
      <4>1. /\ k >= 20 /\ k < 20 + 4 /\ ~(k >= 24 /\ k < 24 + n)
            /\ ~(k >= 24 + n /\ k < 24 + n + 8) /\ ~(k >= 32 + n /\ k < 32 + n + 8)
            /\ ~(k >= 40 + n /\ k < 40 + n + m) /\ k < 40 + n + m
        BY <3>3
      <4> QED BY <2>2, <3>3, <4>1, Zenon DEF InsertByte
    <3>4. CASE k >= 24 /\ k < 24 + n
      <4>1. /\ k >= 20 /\ ~(k < 24)
            /\ ~(k >= 24 + n /\ k < 24 + n + 8) /\ ~(k >= 32 + n /\ k < 32 + n + 8)
            /\ ~(k >= 40 + n /\ k < 40 + n + m) /\ k < 40 + n + m
        BY <3>4
      <4> QED BY <2>2, <3>4, <4>1, Zenon DEF InsertByte
    <3>5. CASE k >= 24 + n /\ k < 32 + n
      <4>1. /\ k >= 20 /\ ~(k < 24) /\ ~(k < 24 + n)
            /\ k >= 24 + n /\ k < 24 + n + 8 /\ ~(k >= 32 + n /\ k < 32 + n + 8)
            /\ ~(k >= 40 + n /\ k < 40 + n + m) /\ k < 40 + n + m
        BY <3>5
      <4> QED BY <2>2, <3>5, <4>1, Zenon DEF InsertByte
    <3>6. CASE k >= 32 + n /\ k < 40 + n
      <4>1. /\ k >= 20 /\ ~(k < 24) /\ ~(k < 24 + n) /\ ~(k < 32 + n)
            /\ k >= 32 + n /\ k < 32 + n + 8
            /\ ~(k >= 40 + n /\ k < 40 + n + m) /\ k < 40 + n + m
        BY <3>6
      <4> QED BY <2>2, <3>6, <4>1, Zenon DEF InsertByte
    <3>7. CASE k >= 40 + n /\ k < 40 + n + m
      <4>1. k >= 20 /\ ~(k < 24) /\ ~(k < 24 + n) /\ ~(k < 32 + n) /\ ~(k < 40 + n)
        BY <3>7
      <4> QED BY <2>2, <3>7, <4>1, Zenon DEF InsertByte
    <3> QED BY <3>1, <3>2, <3>3, <3>4, <3>5, <3>6, <3>7, Zenon
  <2>8. (k >= 20 /\ k < 40 + n + m) <=> (a >= at + 20 /\ a < at + 40 + n + m)
    <3>1. PICK x \in Int : x = a
      OBVIOUS
    <3>2. k = x - at
      BY <2>1, <3>1, Zenon
    <3>3. (k >= 20 /\ k < 40 + n + m) <=> (x >= at + 20 /\ x < at + 40 + n + m)
      BY <3>2
    <3> QED BY <3>1, <3>3, Zenon
  <2> QED BY <2>1, <2>7, <2>8, Zenon
<1> QED BY <1>11, <1>12, Zenon DEF PutEffect, InsertEffect

\* What values are.
LEMMA ValueTypes ==
  ASSUME NEW x \in Int
  PROVE  /\ Value("BEGIN", x) \in LogValue /\ Value("INSERT", x) \in LogValue
         /\ Value("lsn", x) \in LogValue /\ Value("txn", x) \in LogValue
         /\ Value("length", x) \in LogValue /\ Value("size", x) \in LogValue
         /\ Value("rid", x) \in LogValue
         /\ Bytes("data", x) \in LogValue /\ Bytes("name", x) \in LogValue
<1>1. \A y \in LogKinds, z \in Int : Value(y, z) \in LogValue
  BY DEF Value, LogValue
<1>2. \A y \in LogKinds, z \in Int : Bytes(y, z) \in LogValue
  <2> TAKE y \in LogKinds, z \in Int
  <2>1. Empty \in LogValue
    BY DEF Value, Empty, LogValue, LogKinds
  <2> QED BY <1>1, <2>1, Zenon DEF Bytes
<1>3. /\ "BEGIN" \in LogKinds /\ "INSERT" \in LogKinds /\ "lsn" \in LogKinds /\ "txn" \in LogKinds
      /\ "length" \in LogKinds /\ "size" \in LogKinds /\ "rid" \in LogKinds /\ "data" \in LogKinds
      /\ "name" \in LogKinds
  BY DEF LogKinds
<1> QED BY <1>1, <1>2, <1>3, Zenon

\* The lengths and fields of the two kinds of record.
LEMMA BeginFacts ==
  ASSUME NEW r, IsBegin(r)
  PROVE  /\ TotLen(r) = 20 /\ r.log_type = Value("BEGIN", 0) /\ r.log_type # Value("INSERT", 0)
         /\ r = [log_type |-> r.log_type, lsn |-> r.lsn, log_tid |-> r.log_tid,
                 prev_lsn |-> r.prev_lsn, log_tot_len |-> r.log_tot_len]
         /\ r.log_type \in LogValue /\ r.lsn \in LogValue /\ r.log_tid \in LogValue
         /\ r.prev_lsn \in LogValue /\ r.log_tot_len \in LogValue
<1>1. PICK l \in Int, p \in Int : r = BeginLogRecord(0, l, p)
  BY DEF IsBegin
<1>2. LOG_HEADER_SIZE = 20
  BY DEF LOG_HEADER_SIZE, OFFSET_LOG_DATA, OFFSET_PREV_LSN, OFFSET_LOG_TID, OFFSET_LOG_TOT_LEN,
         OFFSET_LSN, SizeofInt
<1>3. /\ r.log_type = Value("BEGIN", 0) /\ r.lsn = Value("lsn", l) /\ r.log_tid = Value("txn", 0)
      /\ r.prev_lsn = Value("lsn", p) /\ r.log_tot_len = Value("length", 20)
      /\ r = [log_type |-> r.log_type, lsn |-> r.lsn, log_tid |-> r.log_tid,
              prev_lsn |-> r.prev_lsn, log_tot_len |-> r.log_tot_len]
  BY <1>1, <1>2, Zenon DEF BeginLogRecord
<1>4. TotLen(r) = 20 /\ r.log_type # Value("INSERT", 0)
  BY <1>3 DEF Number, Value, TotLen
<1>5. /\ r.log_type \in LogValue /\ r.lsn \in LogValue /\ r.log_tid \in LogValue
      /\ r.prev_lsn \in LogValue /\ r.log_tot_len \in LogValue
  <2>1. 0 \in Int /\ 20 \in Int
    OBVIOUS
  <2> QED BY <1>3, <2>1, ValueTypes, Zenon
<1> QED BY <1>3, <1>4, <1>5, Zenon

\* The fields of an InsertLogRecord, and that log_tot_len_ counts all its bytes.
LEMMA InsertFacts ==
  ASSUME NEW r, IsInsert(r)
  PROVE  \E n \in Nat, m \in Nat :
         /\ Number(r.size) = n /\ Number(r.table_name_size) = m
         /\ TotLen(r) = 40 + n + m /\ r.log_type = Value("INSERT", 0)
         /\ r = [log_type |-> r.log_type, lsn |-> r.lsn, log_tid |-> r.log_tid,
                 prev_lsn |-> r.prev_lsn, log_tot_len |-> r.log_tot_len,
                 size |-> r.size, data |-> r.data, rid |-> r.rid,
                 table_name_size |-> r.table_name_size, table_name |-> r.table_name]
         /\ n = 0 => r.data = Empty
         /\ m = 0 => r.table_name = Empty
         /\ r.log_type \in LogValue /\ r.lsn \in LogValue /\ r.log_tid \in LogValue
         /\ r.prev_lsn \in LogValue /\ r.log_tot_len \in LogValue
         /\ r.size \in LogValue /\ r.data \in LogValue /\ r.rid \in LogValue
         /\ r.table_name_size \in LogValue /\ r.table_name \in LogValue
<1>1. PICK l \in Int, p \in Int, n \in Sizes, m \in NameSizes : r = InsertLogRecord(0, l, p, n, m)
  BY DEF IsInsert
<1>2. n \in Nat /\ m \in Nat
  BY LogAssumption
<1>3. LOG_HEADER_SIZE + SizeofInt + n + SizeofRid + SizeofSizeT + m = 40 + n + m
  BY <1>2 DEF LOG_HEADER_SIZE, OFFSET_LOG_DATA, OFFSET_PREV_LSN, OFFSET_LOG_TID, OFFSET_LOG_TOT_LEN,
         OFFSET_LSN, SizeofInt, SizeofRid, SizeofSizeT
<1>4. /\ r.log_type = Value("INSERT", 0) /\ r.lsn = Value("lsn", l) /\ r.log_tid = Value("txn", 0)
      /\ r.prev_lsn = Value("lsn", p) /\ r.log_tot_len = Value("length", 40 + n + m)
      /\ r.size = Value("size", n) /\ r.data = Bytes("data", n) /\ r.rid = Value("rid", l)
      /\ r.table_name_size = Value("size", m) /\ r.table_name = Bytes("name", m)
      /\ r = [log_type |-> r.log_type, lsn |-> r.lsn, log_tid |-> r.log_tid,
              prev_lsn |-> r.prev_lsn, log_tot_len |-> r.log_tot_len,
              size |-> r.size, data |-> r.data, rid |-> r.rid,
              table_name_size |-> r.table_name_size, table_name |-> r.table_name]
  BY <1>1, <1>3, Zenon DEF InsertLogRecord
<1>5. /\ Number(r.size) = n /\ Number(r.table_name_size) = m /\ TotLen(r) = 40 + n + m
  BY <1>4 DEF Number, Value, TotLen
<1>6. (n = 0 => r.data = Empty) /\ (m = 0 => r.table_name = Empty)
  BY <1>4, Zenon DEF Bytes
<1>8. /\ r.log_type \in LogValue /\ r.lsn \in LogValue /\ r.log_tid \in LogValue
      /\ r.prev_lsn \in LogValue /\ r.log_tot_len \in LogValue
      /\ r.size \in LogValue /\ r.data \in LogValue /\ r.rid \in LogValue
      /\ r.table_name_size \in LogValue /\ r.table_name \in LogValue
  <2>1. 0 \in Int /\ n \in Int /\ m \in Int /\ 40 + n + m \in Int
    BY <1>2
  <2>2. /\ Value("INSERT", 0) \in LogValue /\ Value("txn", 0) \in LogValue
        /\ Value("lsn", l) \in LogValue /\ Value("lsn", p) \in LogValue
        /\ Value("rid", l) \in LogValue /\ Value("length", 40 + n + m) \in LogValue
    BY <2>1, ValueTypes, Zenon
  <2>3. /\ Value("size", n) \in LogValue /\ Value("size", m) \in LogValue
        /\ Bytes("data", n) \in LogValue /\ Bytes("name", m) \in LogValue
    BY <2>1, ValueTypes, Zenon
  <2> QED BY <1>4, <2>2, <2>3, Zenon
<1> QED BY <1>2, <1>4, <1>5, <1>6, <1>8, Zenon

IsRecord(r) == IsBegin(r) \/ IsInsert(r)

\* serialize() writes log_tot_len_ bytes, and none besides.
SerializeEffect(out, mem, D, at, r) ==
  /\ IsMemory(out, D)
  /\ \A a \in D : out[a] = IF a >= at /\ a < at + TotLen(r) THEN ByteOf(r, a - at) ELSE mem[a]

\* serialize() fills the log_tot_len_ bytes of a record and no other.
LEMMA SerializeFacts ==
  ASSUME NEW D \in SUBSET Int, NEW mem, IsMemory(mem, D), NEW at \in Int, NEW r, IsRecord(r),
         NEW out, out = Serialize(mem, at, r)
  PROVE  SerializeEffect(out, mem, D, at, r)
<1>1. PICK h : h = SerializeHeader(mem, at, r)
  OBVIOUS
<1>2. /\ IsMemory(h, D)
      /\ \A a \in D : h[a] = IF a >= at /\ a < at + 20 THEN HeaderByte(r, a - at) ELSE mem[a]
  <2>1. HeaderEffect(h, mem, D, at, r)
    BY <1>1, SerializeHeaderFacts, Zenon
  <2> QED BY <2>1, Zenon DEF HeaderEffect
<1>3. CASE IsBegin(r)
  <2>1. TotLen(r) = 20 /\ out = h
    BY <1>1, <1>3, BeginFacts, Zenon DEF Serialize
  <2>2. \A a \in D : a >= at /\ a < at + 20 => a - at < 20
    OBVIOUS
  <2> QED BY <1>2, <2>1, <2>2, Zenon DEF ByteOf, SerializeEffect
<1>4. CASE IsInsert(r)
  <2>1. PICK n \in Nat, m \in Nat :
          /\ Number(r.size) = n /\ Number(r.table_name_size) = m
          /\ TotLen(r) = 40 + n + m /\ r.log_type = Value("INSERT", 0)
    BY <1>4, InsertFacts, Zenon
  <2>2. out = SerializeInsert(h, at, r)
    BY <1>1, <2>1, Zenon DEF Serialize
  <2>3. /\ IsMemory(out, D)
        /\ \A a \in D : out[a] = IF a >= at + 20 /\ a < at + 40 + n + m
                                   THEN InsertByte(r, a - at, n) ELSE h[a]
    <3>1. InsertEffect(out, h, D, at, r, n, m)
      BY <1>2, <2>1, <2>2, SerializeInsertFacts, Zenon
    <3> QED BY <3>1, Zenon DEF InsertEffect
  <2>4. ASSUME NEW a \in D
        PROVE  out[a] = IF a >= at /\ a < at + TotLen(r) THEN ByteOf(r, a - at) ELSE mem[a]
    <3>1. PICK k \in Int : k = a - at
      OBVIOUS
    <3>2. /\ a >= at + 20 <=> k >= 20
          /\ a < at + 40 + n + m <=> k < 40 + n + m
          /\ a >= at <=> k >= 0
          /\ a < at + 20 <=> k < 20
          /\ a < at + (40 + n + m) <=> k < 40 + n + m
      BY <3>1
    <3>3. out[a] = IF k >= 20 /\ k < 40 + n + m THEN InsertByte(r, k, n) ELSE h[a]
      BY <2>3, <3>1, <3>2, Zenon
    <3>4. h[a] = IF k >= 0 /\ k < 20 THEN HeaderByte(r, k) ELSE mem[a]
      BY <1>2, <3>1, <3>2, Zenon
    <3>5. out[a] = IF k >= 0 /\ k < 40 + n + m
                     THEN (IF k < 20 THEN HeaderByte(r, k) ELSE InsertByte(r, k, n)) ELSE mem[a]
      <4>1. (k >= 20 <=> ~(k < 20)) /\ (k < 20 => k < 40 + n + m) /\ (k >= 20 => k >= 0)
        OBVIOUS
      <4> QED BY <3>3, <3>4, <4>1, Zenon
    <3> QED BY <2>1, <3>1, <3>2, <3>5, Zenon DEF ByteOf
  <2> QED BY <2>3, <2>4, Zenon DEF SerializeEffect
<1> QED BY <1>3, <1>4, Zenon DEF IsRecord

\* deserialize() reads back what serialize() laid out.
InsertField(r, o, n, l, v) == \A i \in 0 .. l - 1 : InsertByte(r, o + i, n) = <<v, i>>

\* Where the fields of the header stand.
LEMMA HeaderFields ==
  ASSUME NEW r, NEW i \in 0 .. 3
  PROVE  /\ HeaderByte(r, 0 + i) = <<r.log_type, i>>
         /\ HeaderByte(r, 4 + i) = <<r.lsn, i>>
         /\ HeaderByte(r, 8 + i) = <<r.log_tot_len, i>>
         /\ HeaderByte(r, 12 + i) = <<r.log_tid, i>>
         /\ HeaderByte(r, 16 + i) = <<r.prev_lsn, i>>
<1>1. 0 + i < 4 /\ 0 + i = i
  OBVIOUS
<1>2. ~(4 + i < 4) /\ 4 + i < 8 /\ (4 + i) - 4 = i
  OBVIOUS
<1>3. ~(8 + i < 4) /\ ~(8 + i < 8) /\ 8 + i < 12 /\ (8 + i) - 8 = i
  OBVIOUS
<1>4. ~(12 + i < 4) /\ ~(12 + i < 8) /\ ~(12 + i < 12) /\ 12 + i < 16 /\ (12 + i) - 12 = i
  OBVIOUS
<1>5. ~(16 + i < 4) /\ ~(16 + i < 8) /\ ~(16 + i < 12) /\ ~(16 + i < 16) /\ (16 + i) - 16 = i
  OBVIOUS
<1>6. HeaderByte(r, 0 + i) = <<r.log_type, i>> /\ HeaderByte(r, 4 + i) = <<r.lsn, i>>
  BY <1>1, <1>2, Zenon DEF HeaderByte
<1>7. HeaderByte(r, 8 + i) = <<r.log_tot_len, i>> /\ HeaderByte(r, 12 + i) = <<r.log_tid, i>>
  BY <1>3, <1>4, Zenon DEF HeaderByte
<1>8. HeaderByte(r, 16 + i) = <<r.prev_lsn, i>>
  BY <1>5, Zenon DEF HeaderByte
<1> QED BY <1>6, <1>7, <1>8, Zenon

\* Where the fields of an insertion stand behind it, whatever their lengths.
LEMMA InsertFields ==
  ASSUME NEW r, NEW n \in Nat, NEW m \in Nat
  PROVE  /\ InsertField(r, 20, n, 4, r.size) /\ InsertField(r, 24, n, n, r.data)
         /\ InsertField(r, 24 + n, n, 8, r.rid)
         /\ InsertField(r, 32 + n, n, 8, r.table_name_size)
         /\ InsertField(r, 40 + n, n, m, r.table_name)
<1>1. ASSUME NEW i \in 0 .. 4 - 1 PROVE InsertByte(r, 20 + i, n) = <<r.size, i>>
  <2>1. 20 + i < 24 /\ (20 + i) - 20 = i
    OBVIOUS
  <2> QED BY <2>1, Zenon DEF InsertByte
<1>2. ASSUME NEW i \in 0 .. n - 1 PROVE InsertByte(r, 24 + i, n) = <<r.data, i>>
  <2>1. ~(24 + i < 24) /\ 24 + i < 24 + n /\ (24 + i) - 24 = i
    OBVIOUS
  <2> QED BY <2>1, Zenon DEF InsertByte
<1>3. ASSUME NEW i \in 0 .. 8 - 1 PROVE InsertByte(r, (24 + n) + i, n) = <<r.rid, i>>
  <2>1. /\ ~((24 + n) + i < 24) /\ ~((24 + n) + i < 24 + n) /\ (24 + n) + i < 32 + n
        /\ ((24 + n) + i) - (24 + n) = i
    OBVIOUS
  <2> QED BY <2>1, Zenon DEF InsertByte
<1>4. ASSUME NEW i \in 0 .. 8 - 1 PROVE InsertByte(r, (32 + n) + i, n) = <<r.table_name_size, i>>
  <2>1. /\ ~((32 + n) + i < 24) /\ ~((32 + n) + i < 24 + n) /\ ~((32 + n) + i < 32 + n)
        /\ (32 + n) + i < 40 + n /\ ((32 + n) + i) - (32 + n) = i
    OBVIOUS
  <2> QED BY <2>1, Zenon DEF InsertByte
<1>5. ASSUME NEW i \in 0 .. m - 1 PROVE InsertByte(r, (40 + n) + i, n) = <<r.table_name, i>>
  <2>1. /\ ~((40 + n) + i < 24) /\ ~((40 + n) + i < 24 + n) /\ ~((40 + n) + i < 32 + n)
        /\ ~((40 + n) + i < 40 + n) /\ ((40 + n) + i) - (40 + n) = i
    OBVIOUS
  <2> QED BY <2>1, Zenon DEF InsertByte
<1> QED BY <1>1, <1>2, <1>3, <1>4, <1>5, Zenon DEF InsertField

\* deserialize() is serialize()'s inverse: where the bytes of a record stand, it
\* gives the record back.
LEMMA DeserializeFacts ==
  ASSUME NEW mem, NEW at \in Int, NEW r, IsRecord(r), Holds(mem, at, r)
  PROVE  Deserialize(mem, at) = r
<1>1. /\ OFFSET_LOG_TYPE = 0 /\ OFFSET_LSN = 4 /\ OFFSET_LOG_TOT_LEN = 8
      /\ OFFSET_LOG_TID = 12 /\ OFFSET_PREV_LSN = 16 /\ OFFSET_LOG_DATA = 20 /\ SizeofInt = 4
      /\ SizeofRid = 8 /\ SizeofSizeT = 8
  BY DEF OFFSET_LOG_TYPE, OFFSET_LSN, OFFSET_LOG_TOT_LEN, OFFSET_LOG_TID, OFFSET_PREV_LSN,
         OFFSET_LOG_DATA, SizeofInt, SizeofRid, SizeofSizeT
<1>2. TotLen(r) \in Nat /\ TotLen(r) >= 20
  <2>1. CASE IsBegin(r)
    <3>1. TotLen(r) = 20
      BY <2>1, BeginFacts, Zenon
    <3> QED BY <3>1
  <2>2. CASE IsInsert(r)
    <3>1. PICK n \in Nat, m \in Nat : TotLen(r) = 40 + n + m
      BY <2>2, InsertFacts, Zenon
    <3> QED BY <3>1
  <2> QED BY <2>1, <2>2, Zenon DEF IsRecord
<1>3. \A k \in 0 .. 19 : at + k \in DOMAIN mem /\ mem[at + k] = HeaderByte(r, k)
  <2> TAKE k \in 0 .. 19
  <2>1. k \in 0 .. TotLen(r) - 1 /\ k < 20
    BY <1>2
  <2> QED BY <2>1, Zenon DEF Holds, ByteOf
<1>4. \A o \in {0, 4, 8, 12, 16} : \A i \in 0 .. 3 :
        (at + o) + i = at + (o + i) /\ o + i \in 0 .. 19
  OBVIOUS
<1>5. \A i \in 0 .. 3 : /\ HeaderByte(r, 0 + i) = <<r.log_type, i>>
                        /\ HeaderByte(r, 4 + i) = <<r.lsn, i>>
                        /\ HeaderByte(r, 8 + i) = <<r.log_tot_len, i>>
                        /\ HeaderByte(r, 12 + i) = <<r.log_tid, i>>
                        /\ HeaderByte(r, 16 + i) = <<r.prev_lsn, i>>
  BY HeaderFields, Zenon
<1>6. /\ Get(mem, at + 0, 4) = r.log_type /\ Get(mem, at + 4, 4) = r.lsn
      /\ Get(mem, at + 8, 4) = r.log_tot_len /\ Get(mem, at + 12, 4) = r.log_tid
      /\ Get(mem, at + 16, 4) = r.prev_lsn
  <2>1. ASSUME NEW o \in {0, 4, 8, 12, 16}, NEW v, \A i \in 0 .. 3 : HeaderByte(r, o + i) = <<v, i>>
        PROVE  Get(mem, at + o, 4) = v
    <3>1. at + o \in Int /\ 4 \in Nat /\ 4 > 0 /\ 4 - 1 = 3
      OBVIOUS
    <3>2. FieldAt(mem, at + o, 4, v)
      <4>1. \A i \in 0 .. 3 : (at + o) + i \in DOMAIN mem /\ mem[(at + o) + i] = <<v, i>>
        BY <1>3, <1>4, <2>1
      <4> QED BY <3>1, <4>1 DEF FieldAt
    <3> QED BY <3>1, <3>2, GetFacts, Zenon
  <2>2. /\ 0 \in {0, 4, 8, 12, 16} /\ 4 \in {0, 4, 8, 12, 16} /\ 8 \in {0, 4, 8, 12, 16}
        /\ 12 \in {0, 4, 8, 12, 16} /\ 16 \in {0, 4, 8, 12, 16}
    OBVIOUS
  <2> QED BY <1>5, <2>1, <2>2, Zenon
<1>7. DeserializeHeader(mem, at) =
        [log_type |-> r.log_type, lsn |-> r.lsn, log_tid |-> r.log_tid,
         prev_lsn |-> r.prev_lsn, log_tot_len |-> r.log_tot_len]
  BY <1>1, <1>6, Zenon DEF DeserializeHeader
<1>8. CASE IsBegin(r)
  BY <1>1, <1>6, <1>7, <1>8, BeginFacts, Zenon DEF Deserialize
<1>9. CASE IsInsert(r)
  <2>1. PICK n \in Nat, m \in Nat :
          /\ Number(r.size) = n /\ Number(r.table_name_size) = m
          /\ TotLen(r) = 40 + n + m /\ r.log_type = Value("INSERT", 0)
          /\ r = [log_type |-> r.log_type, lsn |-> r.lsn, log_tid |-> r.log_tid,
                  prev_lsn |-> r.prev_lsn, log_tot_len |-> r.log_tot_len,
                  size |-> r.size, data |-> r.data, rid |-> r.rid,
                  table_name_size |-> r.table_name_size, table_name |-> r.table_name]
          /\ n = 0 => r.data = Empty
          /\ m = 0 => r.table_name = Empty
    BY <1>9, InsertFacts, Zenon
  <2>2. \A k \in 20 .. 39 + n + m : at + k \in DOMAIN mem /\ mem[at + k] = InsertByte(r, k, n)
    <3> TAKE k \in 20 .. 39 + n + m
    <3>1. k \in 0 .. TotLen(r) - 1 /\ ~(k < 20)
      BY <2>1
    <3> QED BY <2>1, <3>1, Zenon DEF Holds, ByteOf
  <2>3. ASSUME NEW o \in Int, NEW l \in Nat, l > 0, o >= 20, o + l <= 40 + n + m, NEW v,
               InsertField(r, o, n, l, v)
        PROVE  Get(mem, at + o, l) = v
    <3>1. \A i \in 0 .. l - 1 : (at + o) + i = at + (o + i) /\ o + i \in 20 .. 39 + n + m
      BY <2>3
    <3>2. FieldAt(mem, at + o, l, v)
      BY <2>2, <2>3, <3>1, Zenon DEF FieldAt, InsertField
    <3>3. at + o \in Int
      OBVIOUS
    <3> QED BY <2>3, <3>2, <3>3, GetFacts, Zenon
  <2>4. Get(mem, at + 20, 4) = r.size
    <3>1. InsertField(r, 20, n, 4, r.size)
      BY InsertFields, Zenon
    <3>2. 20 \in Int /\ 4 \in Nat /\ 4 > 0 /\ 20 >= 20 /\ 20 + 4 <= 40 + n + m
      OBVIOUS
    <3> QED BY <2>3, <3>1, <3>2, Zenon
  <2>5. Get(mem, at + 24, n) = r.data
    <3>1. CASE n = 0
      BY <2>1, <3>1, Zenon DEF Get
    <3>2. CASE n > 0
      <4>1. InsertField(r, 24, n, n, r.data)
        BY InsertFields, Zenon
      <4>2. 24 \in Int /\ 24 >= 20 /\ 24 + n <= 40 + n + m
        OBVIOUS
      <4> QED BY <2>3, <3>2, <4>1, <4>2, Zenon
    <3> QED BY <3>1, <3>2
  <2>6. Get(mem, at + (24 + n), 8) = r.rid
    <3>1. InsertField(r, 24 + n, n, 8, r.rid)
      BY InsertFields, Zenon
    <3>2. 24 + n \in Int /\ 8 \in Nat /\ 8 > 0 /\ 24 + n >= 20 /\ 24 + n + 8 <= 40 + n + m
      OBVIOUS
    <3> QED BY <2>3, <3>1, <3>2, Zenon
  <2>7. Get(mem, at + (32 + n), 8) = r.table_name_size
    <3>1. InsertField(r, 32 + n, n, 8, r.table_name_size)
      BY InsertFields, Zenon
    <3>2. 32 + n \in Int /\ 8 \in Nat /\ 8 > 0 /\ 32 + n >= 20 /\ 32 + n + 8 <= 40 + n + m
      OBVIOUS
    <3> QED BY <2>3, <3>1, <3>2, Zenon
  <2>8. Get(mem, at + (40 + n), m) = r.table_name
    <3>1. CASE m = 0
      BY <2>1, <3>1, Zenon DEF Get
    <3>2. CASE m > 0
      <4>1. InsertField(r, 40 + n, n, m, r.table_name)
        BY InsertFields, Zenon
      <4>2. 40 + n \in Int /\ 40 + n >= 20 /\ 40 + n + m <= 40 + n + m
        OBVIOUS
      <4> QED BY <2>3, <3>2, <4>1, <4>2, Zenon
    <3> QED BY <3>1, <3>2
  <2>9. /\ at + 20 + n + 4 = at + (24 + n) /\ at + (24 + n) + 8 = at + (32 + n)
        /\ at + 20 + 4 = at + 24 /\ at + (24 + n) + 8 + 8 = at + (40 + n)
    OBVIOUS
  <2>10. DeserializeInsert(mem, at) = r
    <3>1. PICK q : q = at + (24 + n)
      OBVIOUS
    <3>2. /\ Get(mem, at + OFFSET_LOG_DATA, SizeofInt) = r.size
          /\ at + OFFSET_LOG_DATA + Number(r.size) + SizeofInt = q
      BY <1>1, <2>1, <2>4, <2>9, <3>1, Zenon
    <3>3. /\ Get(mem, q + SizeofRid, SizeofSizeT) = r.table_name_size
          /\ Get(mem, q, SizeofRid) = r.rid
          /\ Get(mem, at + OFFSET_LOG_DATA + SizeofInt, Number(r.size)) = r.data
          /\ Get(mem, q + SizeofRid + SizeofSizeT, Number(r.table_name_size)) = r.table_name
      BY <1>1, <2>1, <2>5, <2>6, <2>7, <2>8, <2>9, <3>1, Zenon
    <3>4. /\ DeserializeHeader(mem, at).log_type = r.log_type /\ DeserializeHeader(mem, at).lsn = r.lsn
          /\ DeserializeHeader(mem, at).log_tid = r.log_tid
          /\ DeserializeHeader(mem, at).prev_lsn = r.prev_lsn
          /\ DeserializeHeader(mem, at).log_tot_len = r.log_tot_len
      BY <1>7
    <3> QED BY <2>1, <3>2, <3>3, <3>4, Zenon DEF DeserializeInsert
  <2> QED BY <1>1, <1>6, <2>1, <2>10, Zenon DEF Deserialize
<1> QED BY <1>8, <1>9, Zenon DEF IsRecord

\* The records there may be.
LogEntries ==
  {BeginLogRecord(0, l, p) : l \in Int, p \in Int} \cup
  {InsertLogRecord(0, l, p, n, m) : l \in Int, p \in Int, n \in Sizes, m \in NameSizes}

LogTypes ==
  /\ buffer \in [0 .. LOG_BUFFER_SIZE -> Cell]
  /\ offset_ \in 0 .. LOG_BUFFER_SIZE
  /\ file \in Seq(Cell)
  /\ log \in Seq(LogEntries) /\ starts \in Seq(Nat) /\ Len(starts) = Len(log)
  /\ flushed \in Nat /\ whole \in Nat /\ faults \in Nat

\* The bytes written out whole and the buffer end where the next record starts.
LogPlaces ==
  /\ NextStart \in Nat /\ offset_ <= NextStart
  /\ \A i \in 1 .. Len(log) :
       TotLen(log[i]) <= LOG_BUFFER_SIZE /\ starts[i] + TotLen(log[i]) <= NextStart
  /\ \A i \in flushed + 1 .. Len(log) : starts[i] >= NextStart - offset_
  /\ flushed < Len(log) => starts[flushed + 1] = NextStart - offset_
  /\ flushed = Len(log) => offset_ = 0
  /\ whole <= flushed /\ flushed <= Len(log)
  /\ faults = 0 => whole = flushed /\ Len(file) = NextStart - offset_

\* Each record stands, byte for byte, in the file or in the buffer.
FileHolds ==
  \A i \in 1 .. whole :
    /\ starts[i] + TotLen(log[i]) <= Len(file)
    /\ \A k \in 0 .. TotLen(log[i]) - 1 : file[starts[i] + k + 1] = ByteOf(log[i], k)

BufferHolds ==
  \A i \in flushed + 1 .. Len(log) : \A k \in 0 .. TotLen(log[i]) - 1 :
    buffer[(starts[i] - (NextStart - offset_)) + k] = ByteOf(log[i], k)

LogInv == LogTypes /\ LogPlaces /\ FileHolds /\ BufferHolds

\* A record of the log has a length that covers its header, and bytes.
LEMMA EntryFacts ==
  ASSUME NEW r \in LogEntries
  PROVE  /\ IsRecord(r) /\ TotLen(r) \in Nat /\ TotLen(r) >= 20
         /\ \A k \in 0 .. TotLen(r) - 1 : ByteOf(r, k) \in Cell
<1>1. IsRecord(r)
  <2>1. \/ \E l \in Int, p \in Int : r = BeginLogRecord(0, l, p)
        \/ \E l \in Int, p \in Int, n \in Sizes, m \in NameSizes : r = InsertLogRecord(0, l, p, n, m)
    BY DEF LogEntries
  <2> QED BY <2>1, Zenon DEF IsRecord, IsBegin, IsInsert
<1>2. CASE IsBegin(r)
  <2>1. TotLen(r) = 20
    BY <1>2, BeginFacts, Zenon
  <2>2. /\ r.log_type \in LogValue /\ r.lsn \in LogValue /\ r.log_tid \in LogValue
        /\ r.prev_lsn \in LogValue /\ r.log_tot_len \in LogValue
    BY <1>2, BeginFacts, Zenon
  <2>3. \A k \in 0 .. TotLen(r) - 1 : ByteOf(r, k) \in Cell
    <3> TAKE k \in 0 .. TotLen(r) - 1
    <3>1. k \in Int /\ k < 20
      BY <2>1
    <3>2. HeaderByte(r, k) \in Cell
      BY <2>2, <3>1 DEF HeaderByte, Cell
    <3> QED BY <3>1, <3>2, Zenon DEF ByteOf
  <2> QED BY <1>1, <2>1, <2>3
<1>3. CASE IsInsert(r)
  <2>1. PICK n \in Nat, m \in Nat :
          /\ Number(r.size) = n /\ TotLen(r) = 40 + n + m
          /\ r.log_type \in LogValue /\ r.lsn \in LogValue /\ r.log_tid \in LogValue
          /\ r.prev_lsn \in LogValue /\ r.log_tot_len \in LogValue
          /\ r.size \in LogValue /\ r.data \in LogValue /\ r.rid \in LogValue
          /\ r.table_name_size \in LogValue /\ r.table_name \in LogValue
    BY <1>3, InsertFacts, Zenon
  <2>2. /\ r.log_type \in LogValue /\ r.lsn \in LogValue /\ r.log_tid \in LogValue
        /\ r.prev_lsn \in LogValue /\ r.log_tot_len \in LogValue
        /\ r.size \in LogValue /\ r.data \in LogValue /\ r.rid \in LogValue
        /\ r.table_name_size \in LogValue /\ r.table_name \in LogValue
    BY <2>1, Zenon
  <2>3. \A k \in 0 .. TotLen(r) - 1 : ByteOf(r, k) \in Cell
    <3> TAKE k \in 0 .. TotLen(r) - 1
    <3>1. k \in Int
      BY <2>1
    <3>2. HeaderByte(r, k) \in Cell
      BY <2>2, <3>1 DEF HeaderByte, Cell
    <3>3. InsertByte(r, k, n) \in Cell
      BY <2>2, <3>1 DEF InsertByte, Cell
    <3> QED BY <2>1, <3>2, <3>3, Zenon DEF ByteOf
  <2> QED BY <1>1, <2>1, <2>3
<1> QED BY <1>1, <1>2, <1>3, Zenon DEF IsRecord

\* What stands in the file and in the buffer is read back.
LEMMA HeldIsRead == LogInv => LogReadsBack
<1> SUFFICES ASSUME LogInv PROVE LogReadsBack
  OBVIOUS
<1>1. ASSUME NEW i \in 1 .. whole
      PROVE  Deserialize(ReadLog(LOG_BUFFER_SIZE, starts[i]), 0) = log[i]
  <2>1. i \in 1 .. Len(log) /\ log[i] \in LogEntries /\ starts[i] \in Nat /\ Len(file) \in Nat
    <3>1. /\ whole \in Nat /\ flushed \in Nat /\ whole <= flushed /\ flushed <= Len(log)
          /\ log \in Seq(LogEntries) /\ starts \in Seq(Nat) /\ Len(starts) = Len(log)
          /\ file \in Seq(Cell)
      BY Zenon DEF LogInv, LogTypes, LogPlaces
    <3>2. i \in 1 .. Len(log)
      BY <1>1, <3>1
    <3> QED BY <3>1, <3>2
  <2>2. PICK r \in LogEntries : r = log[i]
    BY <2>1
  <2>3. PICK t \in Nat : t = TotLen(r) /\ t >= 20
    BY <2>2, EntryFacts
  <2>4. PICK s \in Nat, f \in Nat : s = starts[i] /\ f = Len(file)
    BY <2>1
  <2>5. t <= LOG_BUFFER_SIZE /\ s + t <= f
    BY <1>1, <2>1, <2>2, <2>3, <2>4 DEF LogInv, LogPlaces, FileHolds
  <2>6. PICK c \in Int : c = ReadLogCount(LOG_BUFFER_SIZE, starts[i]) /\ c >= t
    <3>1. ReadLogCount(LOG_BUFFER_SIZE, starts[i]) =
            IF LOG_BUFFER_SIZE < f - s THEN LOG_BUFFER_SIZE ELSE f - s
      BY <2>3, <2>4, <2>5, LogAssumption DEF ReadLogCount
    <3> QED BY <2>3, <2>4, <2>5, <3>1, LogAssumption
  <2>7. PICK mem : mem = ReadLog(LOG_BUFFER_SIZE, starts[i])
    OBVIOUS
  <2>8. mem = [a \in 0 .. c - 1 |-> file[s + a + 1]]
    BY <2>4, <2>6, <2>7, Zenon DEF ReadLog
  <2>9. ASSUME NEW k \in 0 .. t - 1 PROVE 0 + k \in DOMAIN mem /\ mem[0 + k] = ByteOf(r, k)
    <3>1. k \in 0 .. c - 1 /\ 0 + k = k
      BY <2>6, <2>9
    <3>2. file[s + k + 1] = ByteOf(r, k)
      BY <1>1, <2>2, <2>3, <2>4, <2>9 DEF LogInv, FileHolds
    <3> QED BY <2>8, <3>1, <3>2
  <2>10. Holds(mem, 0, r)
    BY <2>3, <2>9, Zenon DEF Holds
  <2>11. IsRecord(r) /\ 0 \in Int
    BY EntryFacts
  <2> QED BY <2>2, <2>7, <2>10, <2>11, DeserializeFacts, Zenon
<1>2. offset_ <= LOG_BUFFER_SIZE
  BY LogAssumption DEF LogInv, LogTypes
<1>3. ASSUME NEW i \in (flushed + 1) .. Len(log)
      PROVE  Deserialize(buffer, starts[i] - starts[flushed + 1]) = log[i]
  <2>1. /\ i \in 1 .. Len(log) /\ log[i] \in LogEntries /\ starts[i] \in Nat
        /\ offset_ \in Nat /\ NextStart \in Nat
    BY <1>3, LogAssumption DEF LogInv, LogTypes, LogPlaces
  <2>2. PICK r \in LogEntries : r = log[i]
    BY <2>1
  <2>3. PICK t \in Nat : t = TotLen(r) /\ t >= 20
    BY <2>2, EntryFacts
  <2>4. PICK s \in Nat, e \in Nat, n \in Nat : s = starts[i] /\ e = offset_ /\ n = NextStart
    BY <2>1
  <2>5. PICK at \in Int : at = s - (n - e)
    OBVIOUS
  <2>6. flushed < Len(log)
    BY <1>3 DEF LogInv, LogTypes
  <2>7. starts[i] - starts[flushed + 1] = at /\ at >= 0 /\ s + t <= n /\ e <= LOG_BUFFER_SIZE
    BY <1>2, <1>3, <2>1, <2>2, <2>3, <2>4, <2>5, <2>6 DEF LogInv, LogPlaces
  <2>8. DOMAIN buffer = 0 .. LOG_BUFFER_SIZE
    BY Zenon DEF LogInv, LogTypes
  <2>9. ASSUME NEW k \in 0 .. t - 1 PROVE at + k \in DOMAIN buffer /\ buffer[at + k] = ByteOf(r, k)
    <3>1. at + k \in 0 .. LOG_BUFFER_SIZE
      <4>1. k \in Nat /\ s + k < n /\ LOG_BUFFER_SIZE \in Nat
        BY <2>7, <2>9, LogAssumption
      <4>2. at + k = (s + k) - n + e
        BY <2>5, <4>1
      <4> QED BY <2>7, <4>1, <4>2
    <3>2. buffer[at + k] = ByteOf(r, k)
      <4>1. k \in 0 .. TotLen(log[i]) - 1
        BY <2>2, <2>3, <2>9
      <4>2. buffer[starts[i] - (NextStart - offset_) + k] = ByteOf(log[i], k)
        BY <1>3, <4>1, Zenon DEF LogInv, BufferHolds
      <4> QED BY <2>2, <2>4, <2>5, <4>2
    <3> QED BY <2>8, <3>1, <3>2
  <2>10. Holds(buffer, at, r)
    BY <2>3, <2>9, Zenon DEF Holds
  <2>11. IsRecord(r)
    BY EntryFacts
  <2> QED BY <2>2, <2>7, <2>10, <2>11, DeserializeFacts, Zenon
<1> QED BY <1>1, <1>2, <1>3, Zenon DEF LogReadsBack, FileReadsBack, BufferReadsBack

\* What a sequence with another behind it holds.
LEMMA ConcatFacts ==
  ASSUME NEW s \in Seq(Cell), NEW t \in Seq(Cell)
  PROVE  /\ s \o t \in Seq(Cell) /\ Len(s \o t) = Len(s) + Len(t)
         /\ \A i \in 1 .. Len(s) : (s \o t)[i] = s[i]
         /\ \A i \in Len(s) + 1 .. Len(s) + Len(t) : (s \o t)[i] = t[i - Len(s)]
  OBVIOUS

\* The invariants of the file and of the buffer after a step, in terms of what the step gives.
LEMMA HoldsNext ==
  /\ FileHolds' <=>
       \A i \in 1 .. whole' :
         /\ starts'[i] + TotLen(log'[i]) <= Len(file')
         /\ \A k \in 0 .. TotLen(log'[i]) - 1 : file'[starts'[i] + k + 1] = ByteOf(log'[i], k)
  /\ BufferHolds' <=>
       \A i \in flushed' + 1 .. Len(log') : \A k \in 0 .. TotLen(log'[i]) - 1 :
         buffer'[(starts'[i] - (NextStart' - offset_')) + k] = ByteOf(log'[i], k)
  BY Zenon DEF FileHolds, BufferHolds, TotLen, Number, ByteOf, HeaderByte, InsertByte

\* A record appended goes behind the others, and disturbs none.
LEMMA AppendKeepsLog ==
  ASSUME LogInv, NEW r \in LogEntries, Append1(r)
  PROVE  LogInv'
<1>1. /\ buffer \in [0 .. LOG_BUFFER_SIZE -> Cell] /\ log \in Seq(LogEntries)
      /\ starts \in Seq(Nat) /\ Len(starts) = Len(log)
      /\ ~IsFull(TotLen(r)) /\ buffer' = Serialize(buffer, offset_, r)
      /\ offset_' = offset_ + TotLen(r) /\ log' = Append(log, r)
      /\ starts' = Append(starts, NextStart)
      /\ UNCHANGED <<file, flushed, whole, faults>>
  BY DEF LogInv, LogTypes, Append1
<1>2. PICK L \in Nat, e \in Nat, n \in Nat, f \in Nat, B \in Nat :
        L = Len(log) /\ e = offset_ /\ n = NextStart /\ f = flushed /\ B = LOG_BUFFER_SIZE
  BY LogAssumption DEF LogInv, LogTypes, LogPlaces
<1>3. PICK t \in Nat : t = TotLen(r) /\ t >= 20
  BY EntryFacts
<1>4. e + t <= B /\ e <= n /\ f <= L /\ (f = L => e = 0)
  BY <1>1, <1>2, <1>3 DEF IsFull, LogInv, LogPlaces
<1>5. /\ Len(log') = L + 1 /\ log'[L + 1] = r /\ \A i \in 1 .. L : log'[i] = log[i]
      /\ log' \in Seq(LogEntries)
  <2>1. log \in Seq(LogEntries) /\ log' = Append(log, r) /\ L = Len(log)
    BY <1>1, <1>2
  <2> QED BY <2>1
<1>6. /\ Len(starts') = L + 1 /\ starts'[L + 1] = n /\ \A i \in 1 .. L : starts'[i] = starts[i]
      /\ starts' \in Seq(Nat) /\ \A i \in 1 .. L : starts[i] \in Nat
  BY <1>1, <1>2
<1>7. NextStart' = n + t /\ offset_' = e + t /\ NextStart' - offset_' = n - e
  <2>1. log' # << >>
    BY <1>5, <1>2
  <2>2. NextStart' = starts'[L + 1] + TotLen(log'[L + 1])
    BY <1>5, <2>1, Zenon DEF NextStart, TotLen, Number
  <2>3. NextStart' = n + t /\ offset_' = e + t
    BY <1>1, <1>2, <1>3, <1>5, <1>6, <2>2, Zenon
  <2>4. (n + t) - (e + t) = n - e
    BY <1>2, <1>3
  <2> QED BY <2>3, <2>4, Zenon
<1>8. /\ IsMemory(buffer', 0 .. B)
      /\ \A a \in 0 .. B : buffer'[a] = IF a >= e /\ a < e + t THEN ByteOf(r, a - e) ELSE buffer[a]
  <2>1. IsMemory(buffer, 0 .. B) /\ 0 .. B \in SUBSET Int /\ e \in Int /\ IsRecord(r)
    <3>1. IsMemory(buffer, 0 .. B) /\ IsRecord(r)
      BY <1>1, <1>2, EntryFacts, Zenon DEF IsMemory
    <3>2. 0 .. B \in SUBSET Int /\ e \in Int
      BY <1>2
    <3> QED BY <3>1, <3>2, Zenon
  <2>2. PICK out : out = Serialize(buffer, e, r) /\ out = buffer'
    BY <1>1, <1>2
  <2>3. SerializeEffect(out, buffer, 0 .. B, e, r)
    BY <2>1, <2>2, SerializeFacts, Zenon
  <2> QED BY <1>3, <2>2, <2>3, Zenon DEF SerializeEffect
<1>9. buffer' \in [0 .. LOG_BUFFER_SIZE -> Cell]
  <2>1. ASSUME NEW a \in 0 .. B PROVE buffer'[a] \in Cell
    <3>1. CASE a >= e /\ a < e + t
      <4>1. a - e \in 0 .. t - 1
        BY <3>1
      <4> QED BY <1>3, <1>8, <3>1, <4>1, EntryFacts, Zenon
    <3>2. CASE ~(a >= e /\ a < e + t)
      BY <1>1, <1>2, <1>8, <3>2, Zenon
    <3> QED BY <3>1, <3>2
  <2> QED BY <1>2, <1>8, <2>1 DEF IsMemory
<1>10. LogTypes'
  <2>1. offset_' \in 0 .. LOG_BUFFER_SIZE
    BY <1>2, <1>4, <1>7
  <2> QED BY <1>1, <1>5, <1>6, <1>9, <2>1, Zenon DEF LogInv, LogTypes
<1>11. ASSUME NEW i \in 1 .. L
       PROVE  /\ TotLen(log[i]) \in Nat /\ TotLen(log[i]) <= B /\ starts[i] + TotLen(log[i]) <= n
              /\ TotLen(log'[i]) = TotLen(log[i]) /\ starts[i] \in Nat /\ starts'[i] = starts[i]
  <2>1. log[i] \in LogEntries
    BY <1>1, <1>2
  <2>2. TotLen(log[i]) \in Nat
    BY <2>1, EntryFacts
  <2> QED BY <1>2, <1>5, <1>6, <2>2, Zenon DEF LogInv, LogPlaces
<1>12. LogPlaces'
  <2>1. ASSUME NEW i \in 1 .. L + 1
        PROVE  TotLen(log'[i]) <= B /\ starts'[i] + TotLen(log'[i]) <= n + t
    <3>1. CASE i \in 1 .. L
      BY <1>11, <3>1
    <3>2. CASE i = L + 1
      BY <1>3, <1>4, <1>5, <1>6, <3>2
    <3> QED BY <3>1, <3>2
  <2>2. ASSUME NEW i \in f + 1 .. L + 1 PROVE starts'[i] >= n - e
    <3>1. CASE i \in f + 1 .. L
      BY <1>2, <1>6, <3>1 DEF LogInv, LogPlaces
    <3>2. CASE i = L + 1
      BY <1>6, <3>2
    <3> QED BY <3>1, <3>2
  <2>3. starts'[f + 1] = n - e
    <3>1. CASE f < L
      BY <1>2, <1>6, <3>1 DEF LogInv, LogPlaces
    <3>2. CASE f = L
      BY <1>4, <1>6, <3>2
    <3> QED BY <1>4, <3>1, <3>2
  <2>4. /\ whole' <= flushed' /\ flushed' <= Len(log')
        /\ faults' = 0 => whole' = flushed' /\ Len(file') = NextStart' - offset_'
    <3>1. /\ whole <= f
          /\ faults = 0 => whole = f /\ Len(file) = n - e
          /\ flushed' = f /\ Len(log') = L + 1 /\ NextStart' - offset_' = n - e
          /\ whole' = whole /\ faults' = faults /\ Len(file') = Len(file)
      BY <1>1, <1>2, <1>5, <1>7, Zenon DEF LogInv, LogPlaces
    <3>2. f <= L + 1
      BY <1>4
    <3> QED BY <3>1, <3>2, Zenon
  <2>5. NextStart' \in Nat /\ offset_' <= NextStart' /\ flushed' # Len(log') /\ flushed' = f
    <3>1. flushed' = f /\ Len(log') = L + 1 /\ NextStart' = n + t /\ offset_' = e + t
      BY <1>1, <1>2, <1>5, <1>7, Zenon
    <3>2. n + t \in Nat /\ e + t <= n + t /\ f # L + 1
      BY <1>4
    <3> QED BY <3>1, <3>2, Zenon
  <2> QED BY <1>2, <1>5, <1>7, <2>1, <2>2, <2>3, <2>4, <2>5, Zenon DEF LogPlaces, TotLen, Number
<1>13. FileHolds'
  <2> SUFFICES ASSUME NEW i \in 1 .. whole
               PROVE  /\ starts'[i] + TotLen(log'[i]) <= Len(file)
                      /\ \A k \in 0 .. TotLen(log'[i]) - 1 : file[starts'[i] + k + 1] = ByteOf(log'[i], k)
    BY <1>1, HoldsNext, Zenon
  <2>1. i \in 1 .. L
    BY <1>2 DEF LogInv, LogTypes, LogPlaces
  <2> QED BY <1>5, <1>6, <2>1, Zenon DEF LogInv, FileHolds
<1>14. BufferHolds'
  <2> SUFFICES ASSUME NEW i \in f + 1 .. L + 1, NEW k \in 0 .. TotLen(log'[i]) - 1
               PROVE  buffer'[(starts'[i] - (n - e)) + k] = ByteOf(log'[i], k)
    <3>1. flushed' = f /\ Len(log') = L + 1 /\ NextStart' - offset_' = n - e
      BY <1>1, <1>2, <1>5, <1>7, Zenon
    <3> QED BY <3>1, HoldsNext, Zenon
  <2>1. CASE i \in f + 1 .. L
    <3>1. i \in 1 .. L
      BY <2>1
    <3>2. PICK s \in Nat, u \in Nat : s = starts[i] /\ u = TotLen(log[i])
      BY <1>11, <3>1, Zenon
    <3>3. k \in 0 .. u - 1 /\ s + u <= n /\ s >= n - e
      BY <1>2, <1>11, <2>1, <3>1, <3>2, Zenon DEF LogInv, LogPlaces
    <3>4. PICK a \in Int : a = (s - (n - e)) + k
      OBVIOUS
    <3>5. a \in 0 .. B /\ a < e
      BY <1>4, <3>3, <3>4
    <3>6. buffer[a] = ByteOf(log[i], k)
      BY <1>2, <2>1, <3>2, <3>3, <3>4, Zenon DEF LogInv, BufferHolds
    <3>7. buffer'[a] = buffer[a]
      <4>1. ~(a >= e /\ a < e + t)
        BY <3>5
      <4> QED BY <1>8, <3>5, <4>1, Zenon
    <3> QED BY <1>5, <1>11, <3>1, <3>2, <3>4, <3>6, <3>7, Zenon
  <2>2. CASE i = L + 1
    <3>1. k \in 0 .. t - 1 /\ log'[i] = r /\ starts'[i] = n
      BY <1>3, <1>5, <1>6, <2>2, Zenon
    <3>2. PICK a \in Int : a = (n - (n - e)) + k
      BY <3>1
    <3>3. a \in 0 .. B /\ a >= e /\ a < e + t /\ a - e = k
      BY <1>4, <3>1, <3>2
    <3> QED BY <1>8, <3>1, <3>2, <3>3, Zenon
  <2> QED BY <2>1, <2>2
<1> QED BY <1>10, <1>12, <1>13, <1>14, Zenon DEF LogInv

\* write_log() moves the bytes of the buffer behind those of the file.
LEMMA WriteKeepsLog == LogInv /\ WriteLog => LogInv'
<1> SUFFICES ASSUME LogInv, WriteLog PROVE LogInv'
  OBVIOUS
<1>1. /\ buffer \in [0 .. LOG_BUFFER_SIZE -> Cell] /\ file \in Seq(Cell)
      /\ file' = file \o [i \in 1 .. offset_ |-> buffer[i - 1]]
      /\ flushed' = Len(log) /\ whole' = (IF faults = 0 THEN Len(log) ELSE whole)
      /\ offset_' = 0 /\ UNCHANGED <<buffer, log, starts, faults>>
  BY DEF LogInv, LogTypes, WriteLog
<1>2. PICK L \in Nat, e \in Nat, n \in Nat, f \in Nat, B \in Nat, w \in Nat, F \in Nat :
        /\ L = Len(log) /\ e = offset_ /\ n = NextStart /\ f = flushed /\ B = LOG_BUFFER_SIZE
        /\ w = whole /\ F = Len(file)
  <2>1. offset_ \in Nat /\ LOG_BUFFER_SIZE \in Nat
    BY LogAssumption DEF LogInv, LogTypes
  <2>2. Len(log) \in Nat /\ Len(file) \in Nat
    BY DEF LogInv, LogTypes
  <2>3. NextStart \in Nat /\ flushed \in Nat /\ whole \in Nat
    BY Zenon DEF LogInv, LogTypes, LogPlaces
  <2> QED BY <2>1, <2>2, <2>3, Zenon
<1>3. e <= B /\ e <= n /\ f <= L /\ w <= f
  BY <1>2 DEF LogInv, LogTypes, LogPlaces
<1>4. PICK out : out = [i \in 1 .. e |-> buffer[i - 1]]
  BY Zenon
<1>5. out \in Seq(Cell) /\ Len(out) = e /\ \A i \in 1 .. e : out[i] = buffer[i - 1]
  <2>1. \A i \in 1 .. e : i - 1 \in 0 .. B
    BY <1>3
  <2>2. out \in [1 .. e -> Cell]
    BY <1>1, <1>2, <1>4, <2>1, Zenon
  <2> QED BY <1>4, <2>2
<1>6. /\ file' = file \o out /\ file' \in Seq(Cell) /\ Len(file') = F + e
      /\ \A i \in 1 .. F : file'[i] = file[i]
      /\ \A i \in F + 1 .. F + e : file'[i] = buffer[i - F - 1]
  <2>1. file' = file \o out
    BY <1>1, <1>2, <1>4, Zenon
  <2>2. /\ file' \in Seq(Cell) /\ Len(file') = F + e
        /\ \A i \in 1 .. F : file'[i] = file[i]
        /\ \A i \in F + 1 .. F + e : file'[i] = out[i - F]
    <3>1. file \in Seq(Cell) /\ out \in Seq(Cell) /\ F = Len(file) /\ e = Len(out)
      BY <1>1, <1>2, <1>5
    <3> QED BY <2>1, <3>1, ConcatFacts, Zenon
  <2>3. \A i \in F + 1 .. F + e : i - F \in 1 .. e
    OBVIOUS
  <2> QED BY <1>5, <2>1, <2>2, <2>3
<1>7. NextStart' = n
  BY <1>1, <1>2, Zenon DEF NextStart, TotLen, Number
<1>8. LogTypes'
  <2>1. offset_' \in 0 .. LOG_BUFFER_SIZE /\ flushed' \in Nat /\ whole' \in Nat /\ faults' \in Nat
    BY <1>1, <1>2, LogAssumption DEF LogInv, LogTypes
  <2> QED BY <1>1, <1>6, <2>1, Zenon DEF LogInv, LogTypes
<1>9. LogPlaces'
  <2>1. \A i \in 1 .. L : TotLen(log[i]) <= B /\ starts[i] + TotLen(log[i]) <= n
    BY <1>2, Zenon DEF LogInv, LogPlaces
  <2>2. /\ n \in Nat /\ 0 <= n /\ ~(L < L) /\ L <= L /\ L + 1 .. L = {}
        /\ whole' <= L
    BY <1>1, <1>2, <1>3
  <2>3. faults = 0 => whole' = L /\ Len(file') = n - 0
    <3> HAVE faults = 0
    <3>1. whole' = L
      BY <1>1, <1>2
    <3>2. F = n - e
      BY <1>2 DEF LogInv, LogPlaces
    <3> QED BY <1>6, <3>1, <3>2
  <2> QED BY <1>1, <1>2, <1>7, <2>1, <2>2, <2>3, Zenon DEF LogPlaces, TotLen, Number
<1>10. FileHolds'
  <2> SUFFICES ASSUME NEW i \in 1 .. whole'
               PROVE  /\ starts[i] + TotLen(log[i]) <= Len(file')
                      /\ \A k \in 0 .. TotLen(log[i]) - 1 : file'[starts[i] + k + 1] = ByteOf(log[i], k)
    BY <1>1, HoldsNext, Zenon
  <2>1. i \in 1 .. L
    BY <1>1, <1>2, <1>3
  <2>2. log[i] \in LogEntries /\ starts[i] \in Nat
    BY <1>2, <2>1 DEF LogInv, LogTypes
  <2>3. PICK s \in Nat, u \in Nat : s = starts[i] /\ u = TotLen(log[i])
    BY <2>2, EntryFacts
  <2>4. CASE i \in 1 .. w
    <3>1. s + u <= F /\ \A k \in 0 .. u - 1 : file[s + k + 1] = ByteOf(log[i], k)
      BY <1>2, <2>3, <2>4, Zenon DEF LogInv, FileHolds
    <3>2. \A k \in 0 .. u - 1 : s + k + 1 \in 1 .. F
      BY <3>1
    <3>3. s + u <= F + e
      BY <3>1
    <3> QED BY <1>6, <2>3, <3>1, <3>2, <3>3, Zenon
  <2>5. CASE i \notin 1 .. w
    <3>1. faults = 0
      BY <1>1, <1>2, <2>5
    <3>2. w = f /\ F = n - e
      BY <1>2, <3>1 DEF LogInv, LogPlaces
    <3>3. i \in f + 1 .. L
      BY <2>1, <2>5, <3>2
    <3>4. s + u <= n /\ s >= n - e
      BY <1>2, <2>1, <2>3, <3>3 DEF LogInv, LogPlaces
    <3>5. s + u <= F + e
      BY <3>2, <3>4
    <3>6. ASSUME NEW k \in 0 .. u - 1 PROVE file'[s + k + 1] = ByteOf(log[i], k)
      <4>1. s + k + 1 \in F + 1 .. F + e
        BY <3>2, <3>4
      <4>2. (s + k + 1) - F - 1 = (s - (n - e)) + k
        BY <3>2
      <4>3. buffer[(s - (n - e)) + k] = ByteOf(log[i], k)
        BY <1>2, <2>3, <3>3, <3>6, Zenon DEF LogInv, BufferHolds
      <4> QED BY <1>6, <4>1, <4>2, <4>3, Zenon
    <3> QED BY <1>6, <2>3, <3>5, <3>6, Zenon
  <2> QED BY <2>4, <2>5
<1>11. BufferHolds'
  <2>1. flushed' + 1 .. Len(log') = {}
    BY <1>1, <1>2
  <2> QED BY <2>1, Zenon DEF BufferHolds
<1> QED BY <1>8, <1>9, <1>10, <1>11, Zenon DEF LogInv

\* A write that stops part way leaves what was written before.
LEMMA ShortWriteKeepsLog == LogInv /\ WriteLogShort => LogInv'
<1> SUFFICES ASSUME LogInv, WriteLogShort PROVE LogInv'
  OBVIOUS
<1>1. PICK m \in {1, offset_ - 1} : file' = file \o [i \in 1 .. m |-> buffer[i - 1]]
  BY Zenon DEF WriteLogShort
<1>2. /\ buffer \in [0 .. LOG_BUFFER_SIZE -> Cell] /\ file \in Seq(Cell) /\ faults \in Nat
      /\ offset_ \in 1 .. LOG_BUFFER_SIZE
      /\ faults' = faults + 1 /\ UNCHANGED <<buffer, offset_, log, starts, flushed, whole>>
  BY LogAssumption DEF LogInv, LogTypes, WriteLogShort
<1>3. m \in Nat /\ m <= LOG_BUFFER_SIZE /\ faults' \in Nat /\ faults' # 0
  BY <1>2, LogAssumption
<1>4. PICK F \in Nat : F = Len(file)
  BY <1>2
<1>5. file' \in Seq(Cell) /\ Len(file') = F + m /\ \A i \in 1 .. F : file'[i] = file[i]
  <2>1. PICK out : out = [i \in 1 .. m |-> buffer[i - 1]]
    BY Zenon
  <2>2. \A i \in 1 .. m : i - 1 \in 0 .. LOG_BUFFER_SIZE
    BY <1>3, LogAssumption
  <2>3. out \in [1 .. m -> Cell]
    BY <1>2, <2>1, <2>2, Zenon
  <2>4. out \in Seq(Cell) /\ Len(out) = m
    BY <1>3, <2>1, <2>3
  <2>5. file' = file \o out
    BY <1>1, <2>1, Zenon
  <2> QED BY <1>2, <1>4, <2>4, <2>5, ConcatFacts, Zenon
<1>6. NextStart' = NextStart
  BY <1>2, Zenon DEF NextStart, TotLen, Number
<1>7. LogTypes'
  BY <1>2, <1>3, <1>5, Zenon DEF LogInv, LogTypes
<1>8. LogPlaces'
  BY <1>2, <1>3, <1>6, Zenon DEF LogInv, LogPlaces, TotLen, Number
<1>9. FileHolds'
  <2> SUFFICES ASSUME NEW i \in 1 .. whole
               PROVE  /\ starts[i] + TotLen(log[i]) <= Len(file')
                      /\ \A k \in 0 .. TotLen(log[i]) - 1 : file'[starts[i] + k + 1] = ByteOf(log[i], k)
    BY <1>2, HoldsNext, Zenon
  <2>1. i \in 1 .. Len(log)
    BY DEF LogInv, LogTypes, LogPlaces
  <2>2. log[i] \in LogEntries /\ starts[i] \in Nat
    BY <2>1 DEF LogInv, LogTypes
  <2>3. PICK s \in Nat, u \in Nat : s = starts[i] /\ u = TotLen(log[i])
    BY <2>2, EntryFacts
  <2>4. s + u <= F /\ \A k \in 0 .. u - 1 : file[s + k + 1] = ByteOf(log[i], k)
    BY <1>4, <2>3, Zenon DEF LogInv, FileHolds
  <2>5. (\A k \in 0 .. u - 1 : s + k + 1 \in 1 .. F) /\ s + u <= F + m
    BY <1>3, <2>4
  <2> QED BY <1>5, <2>3, <2>4, <2>5, Zenon
<1>10. BufferHolds'
  BY <1>2, <1>6, HoldsNext, Zenon DEF LogInv, BufferHolds
<1> QED BY <1>7, <1>8, <1>9, <1>10, Zenon DEF LogInv

\* LogReadsBack (LogRecords): whatever records are appended, however often the
\* buffer is written out and wherever a write stops, every record that is whole
\* in the log file is read back from it as it was serialised, and every record
\* that is not written yet from the buffer (log_manager.h:46-61, 138-163,
\* disk_manager.cpp:298-332).
THEOREM LogIsReadBack == LogSpec => []LogReadsBack
<1>1. LogInit => LogInv
  <2> SUFFICES ASSUME LogInit PROVE LogInv
    OBVIOUS
  <2>1. LogTypes
    <3>1. <<Value("zero", 0), 0>> \in Cell
      BY DEF Cell, LogValue, LogKinds, Value
    <3>2. buffer \in [0 .. LOG_BUFFER_SIZE -> Cell]
      BY <3>1 DEF LogInit
    <3>3. /\ offset_ = 0 /\ file = << >> /\ log = << >> /\ starts = << >>
          /\ flushed = 0 /\ whole = 0 /\ faults = 0
      BY Zenon DEF LogInit
    <3>4. 0 \in Nat /\ 0 \in 0 .. LOG_BUFFER_SIZE
      BY LogAssumption
    <3>5. << >> \in Seq(Cell) /\ << >> \in Seq(LogEntries) /\ << >> \in Seq(Nat)
      OBVIOUS
    <3> QED BY <3>2, <3>3, <3>4, <3>5, Zenon DEF LogTypes
  <2>2. NextStart = 0
    BY DEF LogInit, NextStart
  <2>3. LogPlaces
    BY <2>2 DEF LogInit, LogPlaces
  <2> QED BY <2>1, <2>3 DEF LogInit, LogInv, FileHolds, BufferHolds
<1>2. LogInv /\ [LogNext]_logVars => LogInv'
  <2> SUFFICES ASSUME LogInv, [LogNext]_logVars PROVE LogInv'
    OBVIOUS
  <2>1. Lsn \in Int /\ PrevLsn \in Int /\ 0 \in Int
    BY DEF Lsn, PrevLsn, INVALID, LogInv, LogTypes
  <2>2. BeginLogRecord(0, Lsn, PrevLsn) \in LogEntries
    BY <2>1 DEF LogEntries
  <2>3. \A n \in Sizes, m \in NameSizes : InsertLogRecord(0, Lsn, PrevLsn, n, m) \in LogEntries
    BY <2>1 DEF LogEntries
  <2>4. CASE \E r \in LogEntries : Append1(r)
    BY <2>4, AppendKeepsLog
  <2>5. CASE WriteLog
    BY <2>5, WriteKeepsLog
  <2>6. CASE WriteLogShort
    BY <2>6, ShortWriteKeepsLog
  <2>7. CASE UNCHANGED logVars
    <3>1. UNCHANGED <<buffer, offset_, file, log, starts, flushed, whole, faults>>
      BY <2>7 DEF logVars
    <3>2. NextStart' = NextStart
      BY <3>1, Zenon DEF NextStart, TotLen, Number
    <3>3. LogTypes' /\ LogPlaces'
      BY <3>1, <3>2, Zenon DEF LogInv, LogTypes, LogPlaces, TotLen, Number
    <3>4. FileHolds'
      BY <3>1, HoldsNext, Zenon DEF LogInv, FileHolds
    <3>5. BufferHolds'
      BY <3>1, <3>2, HoldsNext, Zenon DEF LogInv, BufferHolds
    <3> QED BY <3>3, <3>4, <3>5, Zenon DEF LogInv
  <2> QED BY <2>2, <2>3, <2>4, <2>5, <2>6, <2>7, Zenon DEF LogNext
<1> QED BY <1>1, <1>2, HeldIsRead, PTL DEF LogSpec

=============================================================================
