----------------------------- MODULE BufferPool -----------------------------
(***************************************************************************)
(* BufferPoolManager (src/storage/buffer_pool_manager.cpp) over the disk   *)
(* manager and the LRU replacer, used by concurrent clients.               *)
(*                                                                         *)
(* Every operation holds latch_ throughout, so one that makes no page      *)
(* write followed by a change a client can race with is a single step.     *)
(* The exception is a flush: it writes a page that clients may hold, and   *)
(* only then clears is_dirty_, while clients write through their Page*     *)
(* and call the unlatched mark_dirty().  flush_page() and                  *)
(* flush_all_pages() are therefore several steps, with latch_ held.        *)
(*                                                                         *)
(* A client is a set of handles.  A handle is one pin: what a fetch_page() *)
(* or new_page() returned and an unpin_page() gives back.  Calls that      *)
(* return nullptr or false change nothing and are stuttering steps.        *)
(***************************************************************************)
EXTENDS LRUList, DiskManager

CONSTANTS
  Handle,          \* the pins clients can hold at a time
  ReadFaults,      \* read_page() may fail on a page that is in the file
  WriteFaults,     \* write_page() may fail, leaving the file as it was
  CleanNewPages    \* clients may give a new page back without having dirtied it

ASSUME PoolAssumption ==
  /\ IsFiniteSet(Handle)
  /\ ReadFaults \in BOOLEAN
  /\ WriteFaults \in BOOLEAN
  /\ CleanNewPages \in BOOLEAN

VARIABLES
  page_table,   \* page_table_: page -> frame, or NoFrame
  id_,          \* pages_[f].id_; NoPage stands for page_no INVALID_PAGE_ID
  pin_count,    \* pages_[f].pin_count_
  is_dirty,     \* pages_[f].is_dirty_
  data,         \* pages_[f].data_
  free_list,    \* free_list_
  lru,          \* *replacer_
  flush,        \* the flush in progress: pages yet to visit, page just written
  ptr,          \* the frame a handle points to (its Page* ), or NoFrame
  pid,          \* the page a handle was given for, or NoPage
  wrote,        \* the handles through which the page was written
  latest        \* what a page was last given as contents

pageVars == <<id_, pin_count, is_dirty, data>>
poolVars == <<page_table, pageVars, free_list, lru>>
clientVars == <<ptr, pid, wrote, latest>>
vars == <<poolVars, flush, clientVars, diskVars>>

PageId == [fd : Fd, page_no : PageNo]
NoPage == [fd |-> -1, page_no |-> -1]

Idle == [todo |-> {}, cur |-> NoPage]
Latched == flush # Idle

Cached(p) == page_table[p] # NoFrame

(* Clients ask for pages that a file they opened has been given. *)
Allocated(p) == Open(p.fd) /\ p.page_no < fd2pageno[p.fd]

-----------------------------------------------------------------------------
(* find_victim_page(): the front of the free list, else the LRU victim. *)
HasVictim == free_list # << >> \/ lru.list # << >>

VictimFrame == IF free_list # << >> THEN Head(free_list) ELSE VictimOf(lru)

FreeListRest == IF free_list # << >> THEN Tail(free_list) ELSE free_list

ReplacerRest == IF free_list # << >> THEN lru ELSE Victim(lru)

(* update_page(), first part: write the page of the frame back. *)
NeedsWriteBackClean(f) == id_[f] # NoPage /\ ~is_dirty[f]

NeedsWriteBack(f) == id_[f] # NoPage /\ is_dirty[f]

WriteBack(f) ==
  IF NeedsWriteBack(f) THEN WritePage(id_[f].fd, id_[f].page_no, data[f])
  ELSE UNCHANGED ioVars

(* update_page(), second part: the frame is page p's. *)
Remap(f, p) ==
  /\ page_table' = [q \in PageId |-> IF q = p THEN f
                                     ELSE IF q = id_[f] THEN NoFrame
                                     ELSE page_table[q]]
  /\ id_' = [id_ EXCEPT ![f] = p]

(* The tail of fetch_page() and new_page(): the frame is pinned, clean and *)
(* holds d.                                                                *)
Load(f, p, d) ==
  /\ free_list' = FreeListRest
  /\ WriteBack(f)
  /\ Remap(f, p)
  /\ pin_count' = [pin_count EXCEPT ![f] = 1]
  /\ is_dirty' = [is_dirty EXCEPT ![f] = FALSE]
  /\ data' = [data EXCEPT ![f] = d]
  /\ lru' = Pin(ReplacerRest, f)

Take(h, f, p) ==
  /\ ptr' = [ptr EXCEPT ![h] = f]
  /\ pid' = [pid EXCEPT ![h] = p]

(* fetch_page() *)
CanFetch(h, p) == ~Latched /\ ptr[h] = NoFrame /\ Allocated(p)

FetchHit(h, p) ==
  /\ CanFetch(h, p) /\ Cached(p)
  /\ LET f == page_table[p] IN
       /\ pin_count' = [pin_count EXCEPT ![f] = @ + 1]
       /\ lru' = Pin(lru, f)
       /\ Take(h, f, p)
  /\ UNCHANGED <<page_table, id_, is_dirty, data, free_list, flush, wrote, latest,
                 diskVars>>

FetchMiss(h, p) ==
  /\ CanFetch(h, p) /\ ~Cached(p) /\ HasVictim
  /\ UNCHANGED <<flush, wrote, latest, fileVars, fd2pageno>>
  /\ Load(VictimFrame, p, OnDisk(p.fd, p.page_no)')
  /\ ~PastEnd(p.fd, p.page_no)'
  /\ Take(h, VictimFrame, p)

(* read_page() throws: the frame is mapped and zeroed, but not pinned and  *)
(* on no list.                                                             *)
FetchReadThrows(h, p) ==
  /\ CanFetch(h, p) /\ ~Cached(p) /\ HasVictim
  /\ UNCHANGED <<pin_count, flush, clientVars, fileVars, fd2pageno>>
  /\ LET f == VictimFrame IN
       /\ free_list' = FreeListRest
       /\ lru' = ReplacerRest
       /\ WriteBack(f)
       /\ Remap(f, p)
       /\ is_dirty' = [is_dirty EXCEPT ![f] = FALSE]
       /\ data' = [data EXCEPT ![f] = Zero]
  /\ ReadFaults \/ PastEnd(p.fd, p.page_no)'

(* write_page() throws in update_page(): the victim keeps its page but is  *)
(* on no list.                                                             *)
EvictThrowsClean ==
  /\ WriteFaults /\ NeedsWriteBack(VictimFrame)
  /\ free_list' = FreeListRest
  /\ lru' = ReplacerRest
  /\ is_dirty' = [is_dirty EXCEPT ![VictimFrame] = FALSE]
  /\ UNCHANGED <<page_table, id_, pin_count, data, flush, clientVars, fileVars,
                 ioVars>>

EvictThrows ==
  /\ WriteFaults /\ NeedsWriteBack(VictimFrame)
  /\ free_list' = FreeListRest
  /\ lru' = ReplacerRest
  /\ UNCHANGED <<page_table, pageVars, flush, clientVars, fileVars, ioVars>>

FetchWriteThrows(h, p) ==
  /\ CanFetch(h, p) /\ ~Cached(p) /\ HasVictim
  /\ EvictThrows
  /\ UNCHANGED fd2pageno

(* new_page(): the page number is allocated before the victim is written.  *)
NewPage(h, fd) ==
  LET p == [fd |-> fd, page_no |-> fd2pageno[fd]] IN
    /\ ~Latched /\ ptr[h] = NoFrame /\ Open(fd) /\ HasVictim
    /\ AllocatePage(fd)
    /\ Load(VictimFrame, p, Zero)
    /\ Take(h, VictimFrame, p)
    /\ wrote' = IF CleanNewPages THEN wrote ELSE wrote \union {h}
    /\ latest' = [latest EXCEPT ![p] = Zero]
    /\ UNCHANGED <<flush, fileVars>>

NewPageWriteThrows(h, fd) ==
  /\ ~Latched /\ ptr[h] = NoFrame /\ Open(fd) /\ HasVictim
  /\ AllocatePage(fd)
  /\ EvictThrows

(* unpin_page(): a dirty page stays dirty, whatever the caller says. *)
SaidDirty(was, says) == says

StaysDirty(was, says) == was \/ says

(* A client that wrote the page says so. *)
UnpinPage(h, dirty) ==
  LET f == page_table[id_[ptr[h]]] IN
    /\ ~Latched /\ ptr[h] # NoFrame
    /\ h \in wrote => dirty
    /\ pin_count[f] > 0
    /\ pin_count' = [pin_count EXCEPT ![f] = @ - 1]
    /\ is_dirty' = [is_dirty EXCEPT ![f] = StaysDirty(@, dirty)]
    /\ lru' = IF pin_count[f] = 1 THEN Unpin(lru, f) ELSE lru
    /\ Take(h, NoFrame, NoPage)
    /\ wrote' = wrote \ {h}
    /\ UNCHANGED <<page_table, id_, data, free_list, flush, latest, diskVars>>

(* delete_page(): a cached page nobody holds is written back if dirty and  *)
(* its frame becomes free.                                                 *)
DeletePage(p) ==
  LET f == page_table[p] IN
    /\ ~Latched /\ Cached(p) /\ pin_count[f] = 0
    /\ IF is_dirty[f] THEN WritePage(id_[f].fd, id_[f].page_no, data[f])
       ELSE UNCHANGED ioVars
    /\ page_table' = [page_table EXCEPT ![p] = NoFrame]
    /\ id_' = [id_ EXCEPT ![f] = NoPage]
    /\ pin_count' = [pin_count EXCEPT ![f] = 0]
    /\ is_dirty' = [is_dirty EXCEPT ![f] = FALSE]
    /\ data' = [data EXCEPT ![f] = Zero]
    /\ lru' = Pin(lru, f)
    /\ free_list' = Append(free_list, f)
    /\ UNCHANGED <<flush, clientVars, fileVars, fd2pageno>>

-----------------------------------------------------------------------------
(* flush_page(): the page is written whether dirty or not ... *)
FlushPage(p) ==
  /\ ~Latched /\ Cached(p)
  /\ WritePage(p.fd, p.page_no, data[page_table[p]])
  /\ flush' = [todo |-> {}, cur |-> p]
  /\ UNCHANGED <<poolVars, clientVars, fileVars, fd2pageno>>

(* flush_all_pages(): the loop over page_table_ visits the file's pages in *)
(* some order, and writes those it finds dirty ...                         *)
FlushAllPages(fd) ==
  /\ ~Latched
  /\ flush' = [todo |-> {p \in PageId : p.fd = fd /\ Cached(p)}, cur |-> NoPage]
  /\ UNCHANGED <<poolVars, clientVars, diskVars>>

FlushVisitAgain(p) ==
  /\ flush.cur = NoPage /\ p \in flush.todo
  /\ IF is_dirty[page_table[p]]
     THEN /\ WritePage(p.fd, p.page_no, data[page_table[p]])
          /\ flush' = [todo |-> flush.todo, cur |-> p]
     ELSE /\ flush' = [todo |-> flush.todo \ {p}, cur |-> NoPage]
          /\ UNCHANGED ioVars
  /\ UNCHANGED <<poolVars, clientVars, fileVars, fd2pageno>>

FlushVisit(p) ==
  /\ flush.cur = NoPage /\ p \in flush.todo
  /\ IF is_dirty[page_table[p]]
     THEN /\ WritePage(p.fd, p.page_no, data[page_table[p]])
          /\ flush' = [todo |-> flush.todo \ {p}, cur |-> p]
     ELSE /\ flush' = [todo |-> flush.todo \ {p}, cur |-> NoPage]
          /\ UNCHANGED ioVars
  /\ UNCHANGED <<poolVars, clientVars, fileVars, fd2pageno>>

(* ... and then marks the page clean. *)
FlushClear ==
  /\ flush.cur # NoPage
  /\ is_dirty' = [is_dirty EXCEPT ![page_table[flush.cur]] = FALSE]
  /\ flush' = [flush EXCEPT !.cur = NoPage]
  /\ UNCHANGED <<page_table, id_, pin_count, data, free_list, lru, clientVars,
                 diskVars>>

(* write_page() throws in flush_all_pages(): the rest is not visited. *)
FlushThrows ==
  /\ WriteFaults
  /\ flush.cur = NoPage
  /\ \E p \in flush.todo : is_dirty[page_table[p]]
  /\ flush' = Idle
  /\ UNCHANGED <<poolVars, clientVars, diskVars>>

-----------------------------------------------------------------------------
(* What a client does with its Page*, without latch_. *)
Write(h, d) ==
  /\ ptr[h] # NoFrame
  /\ data' = [data EXCEPT ![ptr[h]] = d]
  /\ wrote' = wrote \union {h}
  /\ latest' = [latest EXCEPT ![pid[h]] = d]
  /\ UNCHANGED <<page_table, id_, pin_count, is_dirty, free_list, lru, flush, ptr,
                 pid, diskVars>>

MarkDirty(h) ==
  /\ ptr[h] # NoFrame
  /\ is_dirty' = [is_dirty EXCEPT ![ptr[h]] = TRUE]
  /\ UNCHANGED <<page_table, id_, pin_count, data, free_list, lru, flush,
                 clientVars, diskVars>>

-----------------------------------------------------------------------------
(* The constructor: all frames free, over files just created and opened. *)
Init ==
  /\ page_table = [p \in PageId |-> NoFrame]
  /\ id_ = [f \in Frame |-> NoPage]
  /\ pin_count = [f \in Frame |-> 0]
  /\ is_dirty = [f \in Frame |-> FALSE]
  /\ data = [f \in Frame |-> Zero]
  /\ free_list = [i \in 1..PoolSize |-> i - 1]
  /\ lru = EmptyLRU
  /\ flush = Idle
  /\ ptr = [h \in Handle |-> NoFrame]
  /\ pid = [h \in Handle |-> NoPage]
  /\ wrote = {}
  /\ latest = [p \in PageId |-> Zero]
  /\ exists = Path
  /\ size = [path \in Path |-> 0]
  /\ content = [path \in Path |-> ZeroPages]
  /\ fd2path \in [Fd -> Path \union {NoPath}]
  /\ path2fd \in [Path -> Fd \union {NoFd}]
  /\ FdTablesInverse
  /\ fd2pageno = [fd \in Fd |-> 0]

Fetch(h, p) ==
  \/ FetchHit(h, p)
  \/ FetchMiss(h, p)
  \/ FetchReadThrows(h, p)
  \/ FetchWriteThrows(h, p)

New(h, fd) == NewPage(h, fd) \/ NewPageWriteThrows(h, fd)

Client(h) ==
  \/ \E p \in PageId : Fetch(h, p)
  \/ \E fd \in Fd : New(h, fd)
  \/ \E dirty \in BOOLEAN : UnpinPage(h, dirty)
  \/ \E d \in Data : Write(h, d)
  \/ MarkDirty(h)

FlushStep == FlushClear \/ FlushThrows \/ \E p \in PageId : FlushVisit(p)

Next ==
  \/ \E h \in Handle : Client(h)
  \/ \E p \in PageId : DeletePage(p) \/ FlushPage(p)
  \/ \E fd \in Fd : FlushAllPages(fd)
  \/ FlushStep

(* A flush is a loop in the thread that holds latch_: it goes on. *)
Spec == Init /\ [][Next]_vars /\ WF_vars(FlushStep)

-----------------------------------------------------------------------------
TypeOK ==
  /\ page_table \in [PageId -> Frame \union {NoFrame}]
  /\ id_ \in [Frame -> PageId \union {NoPage}]
  /\ pin_count \in [Frame -> Nat]
  /\ is_dirty \in [Frame -> BOOLEAN]
  /\ data \in [Frame -> Data]
  /\ free_list \in Seq(Frame)
  /\ WellFormed(lru)
  /\ flush \in [todo : SUBSET PageId, cur : PageId \union {NoPage}]
  /\ ptr \in [Handle -> Frame \union {NoFrame}]
  /\ pid \in [Handle -> PageId \union {NoPage}]
  /\ wrote \subseteq Handle
  /\ latest \in [PageId -> Data]
  /\ DiskTypeOK

(* The page table and the pages' own ids say the same: a page is in one    *)
(* frame at most, and a frame evicted or deleted leaves no mapping behind  *)
(* (update_page 54-60, delete_page 299-302).                               *)
TableMatchesFrames ==
  /\ \A p \in PageId : Cached(p) => id_[page_table[p]] = p
  /\ \A f \in Frame : id_[f] # NoPage => page_table[id_[f]] = f

(* No frame is given out twice: a frame on the free list or in the         *)
(* replacer is pinned by nobody, no frame is on both lists or on the free  *)
(* list twice, and a frame without a page is free.                         *)
FramesAccounted ==
  /\ IsInjective(free_list)
  /\ \A f \in Range(free_list) : pin_count[f] = 0 /\ ~is_dirty[f]
  /\ \A f \in lru.hash : pin_count[f] = 0 /\ id_[f] # NoPage
  /\ \A f \in Frame : f \in Range(free_list) <=> id_[f] = NoPage

Holders(f) == {h \in Handle : ptr[h] = f}

(* A page is not taken from under a client: the frame a handle points to   *)
(* stays the frame of its page, and pin_count_ is the number of handles,   *)
(* so it neither drops to zero early nor stays positive.                   *)
PinsMatchHandles ==
  /\ \A h \in Handle : ptr[h] # NoFrame => pid[h] # NoPage /\ id_[ptr[h]] = pid[h]
  /\ \A f \in Frame : pin_count[f] = Cardinality(Holders(f))

(* A page's contents, wherever the pool would find them. *)
Contents(p) ==
  IF Cached(p) THEN data[page_table[p]] ELSE OnDisk(p.fd, p.page_no)

(* No update is lost: what a client last wrote to a page is what the next  *)
(* fetch_page() gives, through evictions, deletions, flushes that race     *)
(* with the write, and failed write-backs.                                 *)
NoLostUpdate == \A p \in PageId : Allocated(p) => Contents(p) = latest[p]

(* A page that is clean and that no client is still writing is on disk as  *)
(* it was last written: clearing is_dirty_ after write_page() (flush_page  *)
(* 212-215, flush_all_pages 333-334) never forgets a write that came in    *)
(* between.                                                                *)
CleanMeansOnDisk ==
  \A f \in Frame :
    /\ id_[f] # NoPage /\ ~is_dirty[f]
    /\ \A h \in wrote : ptr[h] # f
    => OnDisk(id_[f].fd, id_[f].page_no) = latest[id_[f]]

(* Every allocated page can be fetched: it is cached, or it is in the file *)
(* so that read_page() does not come short (disk_manager.cpp:80).          *)
AllocatedReadable ==
  \A p \in PageId : Allocated(p) => Cached(p) \/ ~PastEnd(p.fd, p.page_no)

(* No frame drops out of use: one that is neither free nor held can be     *)
(* evicted.                                                                *)
NoFrameStranded ==
  \A f \in Frame :
    f \in Range(free_list) \/ f \in lru.hash \/ pin_count[f] > 0

(* What else holds in every state, whatever faults happen: only allocated  *)
(* pages are cached, a flush visits cached pages, and a handle that wrote  *)
(* is held.                                                                *)
PoolStructure ==
  /\ TypeOK
  /\ TableMatchesFrames
  /\ FramesAccounted
  /\ PinsMatchHandles
  /\ FdTablesInverse
  /\ \A p \in PageId : Cached(p) => Allocated(p)
  /\ \A p \in flush.todo : Cached(p)
  /\ flush.cur # NoPage => Cached(flush.cur)
  /\ \A h \in wrote : ptr[h] # NoFrame

(* What NoLostUpdate rests on: where the pages' contents are, in every     *)
(* state.  A page not allocated yet is zeros, a page just flushed is on    *)
(* disk unless a handle wrote it since.                                    *)
ContentsKept ==
  /\ NoLostUpdate
  /\ CleanMeansOnDisk
  /\ HolesAreZero
  /\ \A p \in PageId :
       Open(p.fd) /\ ~Allocated(p)
         => latest[p] = Zero /\ OnDisk(p.fd, p.page_no) = Zero
  /\ flush.cur # NoPage /\ (\A h \in wrote : ptr[h] # page_table[flush.cur])
       => OnDisk(flush.cur.fd, flush.cur.page_no) = latest[flush.cur]

(* What AllocatedReadable rests on when nothing fails: an allocated page   *)
(* that is not in the file yet is cached and dirty, or will be when the    *)
(* handle that writes it is given back; a page just flushed is in the      *)
(* file.                                                                   *)
WillBeWritten(p) ==
  Cached(p) /\ (is_dirty[page_table[p]] \/ \E h \in wrote : ptr[h] = page_table[p])

PagesReadable ==
  /\ \A p \in PageId :
       Allocated(p) => ~PastEnd(p.fd, p.page_no) \/ WillBeWritten(p)
  /\ flush.cur # NoPage => ~PastEnd(flush.cur.fd, flush.cur.page_no)
  /\ NoFrameStranded

(* A flush ends and gives latch_ back, however clients keep dirtying the   *)
(* pages it visits.                                                        *)
FlushEnds == Latched ~> ~Latched
=============================================================================
