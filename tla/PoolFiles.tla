----------------------------- MODULE PoolFiles ------------------------------
(***************************************************************************)
(* The buffer pool's cache across open_file() and close_file() of the      *)
(* record manager (record/rm_manager.h).  The pool names a page by the     *)
(* file descriptor and the page number.  close_file() writes the pages of  *)
(* its descriptor back and closes it; it does not take them out of the     *)
(* page table.  The operating system gives the smallest free descriptor    *)
(* to the next file that is opened.                                        *)
(* Pinned pages and the replacement order are the subject of BufferPool;   *)
(* here every call is over before the next one starts, and any page may be *)
(* the victim.                                                             *)
(***************************************************************************)
EXTENDS Integers, FiniteSets

CONSTANTS
  Files,
  MaxDescriptor,  \* descriptors 1..MaxDescriptor
  PagesPerFile,   \* pages 1..PagesPerFile of every file
  Frames,         \* frames of the pool
  MaxVersion      \* bound on the updates of a page

Descriptor == 1..MaxDescriptor
PageOfFile == 1..PagesPerFile
Closed == "closed"

ASSUME PoolFilesAssumption ==
  /\ MaxDescriptor \in Nat /\ PagesPerFile \in Nat /\ MaxVersion \in Nat
  /\ Closed \notin Files

VARIABLES
  open,     \* descriptor -> the file it is open on, or Closed
  stored,   \* file, page -> the content on disk
  cache,    \* (descriptor, page) -> the content in the pool; page_table_
  version,  \* file, page -> the number of updates of the page (history)
  users     \* descriptor -> the files it has been open on (history)

poolFilesVars == <<open, stored, cache, version, users>>

Content(f, p) == [file |-> f, page |-> p, version |-> version[f][p]]

(* write_page() of the cached pages `ids`. *)
WriteBack(ids) ==
  stored' = [f \in Files |-> [p \in PageOfFile |->
    IF \E id \in ids : open[id[1]] = f /\ id[2] = p
      THEN cache[CHOOSE id \in ids : open[id[1]] = f /\ id[2] = p].data
      ELSE stored[f][p]]]

-----------------------------------------------------------------------------
(* open_file(): a file that is not open yet, on the smallest free          *)
(* descriptor.                                                             *)
RmOpenFile(f) ==
  /\ \A fd \in Descriptor : open[fd] # f
  /\ \E fd \in Descriptor :
       /\ open[fd] = Closed
       /\ \A g \in 1..(fd - 1) : open[g] # Closed
       /\ open' = [open EXCEPT ![fd] = f]
       /\ users' = [users EXCEPT ![fd] = @ \union {f}]
  /\ UNCHANGED <<stored, cache, version>>

(* fetch_page() of a page that is in the pool changes no content; of       *)
(* another page, it takes a free frame or the frame of a victim, which it  *)
(* writes back first if it is dirty.                                       *)
FetchInto(fd, p) ==
  /\ open[fd] # Closed
  /\ <<fd, p>> \notin DOMAIN cache
  /\ \E victims \in SUBSET DOMAIN cache :
       /\ Cardinality(victims) = IF Cardinality(DOMAIN cache) < Frames THEN 0 ELSE 1
       /\ WriteBack({id \in victims : cache[id].is_dirty})
       /\ cache' = [id \in (DOMAIN cache \ victims) \union {<<fd, p>>} |->
            IF id = <<fd, p>> THEN [data |-> stored'[open[fd]][p], is_dirty |-> FALSE]
                              ELSE cache[id]]
  /\ UNCHANGED <<open, version, users>>

(* A record operation changes a page it has fetched, and unpins it dirty.  *)
UpdateCached(fd, p) ==
  /\ open[fd] # Closed
  /\ <<fd, p>> \in DOMAIN cache
  /\ version[open[fd]][p] < MaxVersion
  /\ version' = [version EXCEPT ![open[fd]][p] = @ + 1]
  /\ cache' = [cache EXCEPT ![<<fd, p>>] =
       [data |-> [@.data EXCEPT !.version = version'[open[fd]][p]], is_dirty |-> TRUE]]
  /\ UNCHANGED <<open, stored, users>>

(* close_file(): flush_all_pages() of the descriptor, then close. *)
RmCloseFileUnflushed(fd) ==
  /\ open[fd] # Closed
  /\ open' = [open EXCEPT ![fd] = Closed]
  /\ UNCHANGED <<stored, cache, version, users>>

RmCloseFile(fd) ==
  /\ open[fd] # Closed
  /\ LET own == {id \in DOMAIN cache : id[1] = fd} IN
       /\ WriteBack({id \in own : cache[id].is_dirty})
       /\ cache' = [id \in DOMAIN cache |->
            IF id \in own THEN [cache[id] EXCEPT !.is_dirty = FALSE] ELSE cache[id]]
  /\ open' = [open EXCEPT ![fd] = Closed]
  /\ UNCHANGED <<version, users>>

-----------------------------------------------------------------------------
PoolFilesInit ==
  /\ open = [fd \in Descriptor |-> Closed]
  /\ version = [f \in Files |-> [p \in PageOfFile |-> 0]]
  /\ stored = [f \in Files |-> [p \in PageOfFile |-> Content(f, p)]]
  /\ cache = [id \in {} |-> [data |-> 0, is_dirty |-> FALSE]]
  /\ users = [fd \in Descriptor |-> {}]

PoolFilesNext ==
  \/ \E f \in Files : RmOpenFile(f)
  \/ \E fd \in Descriptor, p \in PageOfFile : FetchInto(fd, p) \/ UpdateCached(fd, p)
  \/ \E fd \in Descriptor : RmCloseFile(fd)

PoolFilesSpec == PoolFilesInit /\ [][PoolFilesNext]_poolFilesVars

-----------------------------------------------------------------------------
(* What is checked. *)

(* No descriptor has been given to a second file. *)
OneFileEach == \A fd \in Descriptor : \A f, g \in users[fd] : f = g

(* A file that has been closed is complete on disk, and what the pool      *)
(* holds for an open descriptor is the latest content of that page of that *)
(* file, also after files were closed and opened again (rm_manager.h:69-   *)
(* 83, buffer_pool_manager.cpp:82-131, flush_all_pages()), as long as no   *)
(* file gets the descriptor another one had.                               *)
ReopenedIntact ==
  OneFileEach =>
    /\ \A f \in Files : (\A fd \in Descriptor : open[fd] # f) =>
         \A p \in PageOfFile : stored[f][p] = Content(f, p)
    /\ \A id \in DOMAIN cache : open[id[1]] # Closed =>
         cache[id].data = Content(open[id[1]], id[2])

(* A page id is "the unique identifier of the page" (storage/page.h:77):   *)
(* what the pool holds under a page id of an open descriptor is a page of  *)
(* the file the descriptor is open on.                                     *)
PageIdUnique ==
  \A id \in DOMAIN cache : open[id[1]] # Closed => cache[id].data.file = open[id[1]]
=============================================================================
