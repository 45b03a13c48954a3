----------------------------- MODULE IndexFile ------------------------------
(***************************************************************************)
(* Index files (index/ix_manager.h and the constructor, create_node() and  *)
(* release_node_handle() of index/ix_index_handle.cpp), on the disk        *)
(* manager's files, descriptors and page counters.                         *)
(*                                                                         *)
(* create_index() is one step per system call, so the process may stop     *)
(* between any two of them.  The buffer pool is abstracted to the set of   *)
(* node pages an open index has; close_index() flushes them.  The          *)
(* functions that search, insert into and split the tree are empty in the  *)
(* code, so a node is created by create_node() alone.                      *)
(*                                                                         *)
(* Page 0 of the file holds the header as four-byte words, in the order    *)
(* serialize() copies them; page 1 is the head of the list of leaves and   *)
(* page 2 the first root.  A node page is an IxPageHdr, the array of keys  *)
(* and the array of record identifiers, each with room for btree_order + 1 *)
(* entries.                                                                *)
(***************************************************************************)
EXTENDS DiskManager, Sequences, Functions

CONSTANTS
  PAGE_SIZE,    \* bytes of a page
  Columns,      \* the column lists an index may be asked for
  MaxNodes,     \* bound on the nodes created in one run of the process
  MaxCrashes    \* bound on the times the process stops

(* No header: the one IxFileHdr() builds has length 0. *)
None == [tot_len |-> 0]

VARIABLES
  creating,    \* the create_index() in progress: its step, path and columns
  handle,      \* path -> file_hdr_ of the open IxIndexHandle
  nodes,       \* path -> pages of the index, in the pool or on the disk
  saved,       \* path -> the pages close_index() has flushed
  closed,      \* path -> the header last written (history)
  grown,       \* path -> nodes created less nodes released since opening (history)
  served,      \* descriptor -> the files it has been open on (history)
  created,     \* nodes created so far (bound)
  crashes

indexVars == <<creating, handle, nodes, saved, closed, grown, served, created, crashes>>
indexFileVars == <<diskVars, indexVars>>

-----------------------------------------------------------------------------
(* The header (index/ix_defs.h) and the layout of a node page. *)
IX_NO_PAGE == -1
IX_FILE_HDR_PAGE == 0
IX_LEAF_HEADER_PAGE == 1
IX_INIT_ROOT_PAGE == 2
IX_INIT_NUM_PAGES == 3
IX_MAX_COL_LEN == 512
SizeofIxPageHdr == 24
SizeofRid == 8
Word == 4

(* A column of an index: its type and its length in bytes. *)
Column(type, len) == [type |-> type, len |-> len]

ColTotLen(cols) == FoldFunction(LAMBDA c, sum : c.len + sum, 0, cols)

(* A page has room for the header of a node and four entries of the        *)
(* longest kind, and an index for its three first pages.                   *)
ASSUME IndexAssumption ==
  /\ PAGE_SIZE \in Nat
  /\ PAGE_SIZE >= SizeofIxPageHdr + 4 * (IX_MAX_COL_LEN + SizeofRid)
  /\ MaxPage >= IX_INIT_NUM_PAGES
  /\ MaxNodes \in Nat
  /\ MaxCrashes \in Nat
  /\ Columns \subseteq Seq([type : Int, len : Nat])
  /\ \A cols \in Columns : ColTotLen(cols) \in Nat

-----------------------------------------------------------------------------
(* Mutant: one entry more than fits. *)
BtreeOrderFull(tot) == (PAGE_SIZE - SizeofIxPageHdr) \div (tot + SizeofRid) + 1

(* btree_order: how many entries fit, one entry being kept in reserve. *)
BtreeOrder(tot) == (PAGE_SIZE - SizeofIxPageHdr) \div (tot + SizeofRid) - 1

(* The header create_index() builds for these columns. *)
NewHeader(cols) ==
  LET tot == ColTotLen(cols) IN
  [ tot_len        |-> Word * (4 + 6) + 2 * Word * Len(cols),
    first_free     |-> IX_NO_PAGE,
    num_pages      |-> IX_INIT_NUM_PAGES,
    root_page      |-> IX_INIT_ROOT_PAGE,
    col_types      |-> [i \in 1..Len(cols) |-> cols[i].type],
    col_lens       |-> [i \in 1..Len(cols) |-> cols[i].len],
    col_tot_len    |-> tot,
    btree_order    |-> BtreeOrder(tot),
    keys_size      |-> (BtreeOrder(tot) + 1) * tot,
    first_leaf     |-> IX_INIT_ROOT_PAGE,
    last_leaf      |-> IX_INIT_ROOT_PAGE ]

-----------------------------------------------------------------------------
(* serialize(): the words of a header, in the order they are copied. *)
Serialize(h) ==
  << h.tot_len, h.first_free, h.num_pages, h.root_page, Len(h.col_types) >>
    \o h.col_types \o h.col_lens
    \o << h.col_tot_len, h.btree_order, h.keys_size, h.first_leaf, h.last_leaf >>

(* deserialize(), into a header whose column vectors are empty. *)
Deserialize(w) ==
  LET n == w[5]
      rest == 5 + 2 * n IN
  [ tot_len        |-> w[1],
    first_free     |-> w[2],
    num_pages      |-> w[3],
    root_page      |-> w[4],
    col_types      |-> SubSeq(w, 6, 5 + n),
    col_lens       |-> SubSeq(w, 6 + n, rest),
    col_tot_len    |-> w[rest + 1],
    btree_order    |-> w[rest + 2],
    keys_size      |-> w[rest + 3],
    first_leaf     |-> w[rest + 4],
    last_leaf      |-> w[rest + 5] ]

(* The offset serialize() and deserialize() end with, and assert. *)
EndOffset(h) == Word * Len(Serialize(h))

-----------------------------------------------------------------------------
(* Where a node keeps entry i (0 <= i <= btree_order): its key and its     *)
(* record identifier, as the byte offsets IxNodeHandle computes.           *)
KeyStart(h, i) == SizeofIxPageHdr + i * h.col_tot_len
RidStart(h, i) == SizeofIxPageHdr + h.keys_size + i * SizeofRid

-----------------------------------------------------------------------------
Idle == [at |-> "idle"]
FixedPages == {IX_FILE_HDR_PAGE, IX_LEAF_HEADER_PAGE, IX_INIT_ROOT_PAGE}

(* The head of the list of leaves, and an empty root that is a leaf. *)
LeafPage(prev, next) ==
  [ parent |-> IX_NO_PAGE, num_key |-> 0, is_leaf |-> TRUE,
    prev_leaf |-> prev, next_leaf |-> next ]

-----------------------------------------------------------------------------
(* A write of less than a page at the end of a file does not complete it:  *)
(* read_page() of a whole page still throws.                               *)
WritePart(fd, n, d) ==
  /\ content' = [content EXCEPT ![fd2path[fd]][n] = d]
  /\ UNCHANGED size

(* The page just written belongs to the index. *)
PageWritten(path, n) ==
  /\ nodes' = [nodes EXCEPT ![path] = @ \union {n}]
  /\ saved' = [saved EXCEPT ![path] = @ \union {n}]

(* The file is open on a descriptor. *)
Serve(path) ==
  served' = [fd \in Fd |-> IF fd2path'[fd] = path THEN served[fd] \union {path} ELSE served[fd]]

CreateBegin(path, cols) ==
  /\ creating = Idle
  /\ CreateFile(path)
  /\ creating' = [at |-> "open", path |-> path, cols |-> cols]
  /\ UNCHANGED <<handle, nodes, saved, closed, grown, served, created, crashes>>

CreateOpen ==
  /\ creating.at = "open"
  /\ OpenFile(creating.path)
  /\ creating' = [creating EXCEPT !.at = "header"]
  /\ Serve(creating.path)
  /\ UNCHANGED <<handle, nodes, saved, closed, grown, created, crashes>>

(* InvalidColLengthError leaves the new file in place, and open.  That     *)
(* the assertion on btree_order holds is part of NodeFits.                 *)
CreateHeader ==
  /\ creating.at = "header"
  /\ LET fd == path2fd[creating.path] IN
     IF ColTotLen(creating.cols) > IX_MAX_COL_LEN
       THEN creating' = Idle /\ UNCHANGED <<ioVars, closed, nodes, saved>>
       ELSE /\ creating' = [creating EXCEPT !.at = "leaf_header"]
            /\ WritePart(fd, IX_FILE_HDR_PAGE, Serialize(NewHeader(creating.cols)))
            /\ closed' = [closed EXCEPT ![creating.path] = NewHeader(creating.cols)]
            /\ PageWritten(creating.path, IX_FILE_HDR_PAGE)
  /\ UNCHANGED <<fileVars, fd2pageno, handle, grown, served, created, crashes>>

CreateLeafHeader ==
  /\ creating.at = "leaf_header"
  /\ WritePage(path2fd[creating.path], IX_LEAF_HEADER_PAGE,
               LeafPage(IX_INIT_ROOT_PAGE, IX_INIT_ROOT_PAGE))
  /\ PageWritten(creating.path, IX_LEAF_HEADER_PAGE)
  /\ creating' = [creating EXCEPT !.at = "root"]
  /\ UNCHANGED <<fileVars, fd2pageno, handle, closed, grown, served, created, crashes>>

CreateRootPart ==
  /\ creating.at = "root"
  /\ LET fd == path2fd[creating.path] IN
       /\ WritePart(fd, IX_INIT_ROOT_PAGE,
                    LeafPage(IX_LEAF_HEADER_PAGE, IX_LEAF_HEADER_PAGE))
       /\ fd2pageno' = [fd2pageno EXCEPT ![fd] = IX_INIT_NUM_PAGES - 1]
  /\ PageWritten(creating.path, IX_INIT_ROOT_PAGE)
  /\ creating' = [creating EXCEPT !.at = "close"]
  /\ UNCHANGED <<fileVars, handle, closed, grown, served, created, crashes>>

CreateRoot ==
  /\ creating.at = "root"
  /\ LET fd == path2fd[creating.path] IN
       /\ WritePage(fd, IX_INIT_ROOT_PAGE,
                    LeafPage(IX_LEAF_HEADER_PAGE, IX_LEAF_HEADER_PAGE))
       /\ fd2pageno' = [fd2pageno EXCEPT ![fd] = IX_INIT_NUM_PAGES - 1]
  /\ PageWritten(creating.path, IX_INIT_ROOT_PAGE)
  /\ creating' = [creating EXCEPT !.at = "close"]
  /\ UNCHANGED <<fileVars, handle, closed, grown, served, created, crashes>>

CreateClose ==
  /\ creating.at = "close"
  /\ CloseFile(path2fd[creating.path])
  /\ creating' = Idle
  /\ UNCHANGED <<handle, nodes, saved, closed, grown, served, created, crashes>>

-----------------------------------------------------------------------------
(* open_index() and the constructor: the header is read as a whole page;   *)
(* when that throws, the descriptor stays in the disk manager's tables.    *)
(* The page counter goes on from whatever this descriptor last counted     *)
(* (MaxPage bounds it here, as it does in AllocatePage).                   *)
OpenIndexCountsNot(path) ==
  /\ creating = Idle
  /\ OpenFile(path)
  /\ IF size[path] = 0 THEN UNCHANGED handle
     ELSE handle' = [handle EXCEPT ![path] = Deserialize(content[path][IX_FILE_HDR_PAGE])]
  /\ grown' = [grown EXCEPT ![path] = 0]
  /\ Serve(path)
  /\ UNCHANGED <<creating, nodes, saved, closed, created, crashes>>

OpenIndex(path) ==
  /\ creating = Idle
  /\ path2fd[path] = NoFd
  /\ path \in exists
  /\ \E fd \in Fd :
       /\ ~Open(fd)
       /\ fd2pageno[fd] < MaxPage
       /\ path2fd' = [path2fd EXCEPT ![path] = fd]
       /\ fd2path' = [fd2path EXCEPT ![fd] = path]
       /\ IF size[path] = 0
            THEN UNCHANGED <<handle, fd2pageno>>
            ELSE /\ handle' = [handle EXCEPT
                      ![path] = Deserialize(content[path][IX_FILE_HDR_PAGE])]
                 /\ fd2pageno' = [fd2pageno EXCEPT ![fd] = @ + 1]
  /\ grown' = [grown EXCEPT ![path] = 0]
  /\ Serve(path)
  /\ UNCHANGED <<exists, ioVars, creating, nodes, saved, closed, created, crashes>>

(* create_node(): new_page() numbers the page with allocate_page(). *)
CreateNode(path) ==
  /\ creating = Idle
  /\ handle[path] # None
  /\ created < MaxNodes
  /\ LET fd == path2fd[path] IN
       /\ nodes' = [nodes EXCEPT ![path] = @ \union {fd2pageno[fd]}]
       /\ AllocatePage(fd)
  /\ handle' = [handle EXCEPT ![path].num_pages = @ + 1]
  /\ grown' = [grown EXCEPT ![path] = @ + 1]
  /\ created' = created + 1
  /\ UNCHANGED <<fileVars, ioVars, creating, saved, closed, served, crashes>>

(* release_node_handle(), for a node that has left the tree. *)
ReleaseNode(path) ==
  /\ creating = Idle
  /\ handle[path] # None
  /\ \E n \in nodes[path] \ FixedPages : nodes' = [nodes EXCEPT ![path] = @ \ {n}]
  /\ handle' = [handle EXCEPT ![path].num_pages = @ - 1]
  /\ grown' = [grown EXCEPT ![path] = @ - 1]
  /\ UNCHANGED <<diskVars, creating, saved, closed, served, created, crashes>>

CloseIndexKeepsHeader(path) ==
  /\ creating = Idle
  /\ handle[path] # None
  /\ CloseFile(path2fd[path])
  /\ closed' = [closed EXCEPT ![path] = handle[path]]
  /\ saved' = [saved EXCEPT ![path] = nodes[path]]
  /\ handle' = [handle EXCEPT ![path] = None]
  /\ UNCHANGED <<creating, nodes, grown, served, created, crashes>>

(* close_index(): the header, the pages of the pool, then the descriptor. *)
CloseIndex(path) ==
  /\ creating = Idle
  /\ handle[path] # None
  /\ LET fd == path2fd[path]
         top == CHOOSE n \in nodes[path] : \A k \in nodes[path] : k <= n IN
       /\ content' = [content EXCEPT
            ![path][IX_FILE_HDR_PAGE] = Serialize(handle[path])]
       /\ size' = [size EXCEPT ![path] = IF top >= @ THEN top + 1 ELSE @]
       /\ path2fd' = [path2fd EXCEPT ![path] = NoFd]
       /\ fd2path' = [fd2path EXCEPT ![fd] = NoPath]
  /\ closed' = [closed EXCEPT ![path] = handle[path]]
  /\ saved' = [saved EXCEPT ![path] = nodes[path]]
  /\ handle' = [handle EXCEPT ![path] = None]
  /\ UNCHANGED <<exists, fd2pageno, creating, nodes, grown, served, created, crashes>>

DestroyIndex(path) ==
  /\ creating = Idle
  /\ DestroyFile(path)
  /\ nodes' = [nodes EXCEPT ![path] = {}]
  /\ saved' = [saved EXCEPT ![path] = {}]
  /\ closed' = [closed EXCEPT ![path] = None]
  /\ UNCHANGED <<creating, handle, grown, served, created, crashes>>

(* The process stops, and starts again with an empty disk manager. *)
Crash ==
  /\ crashes < MaxCrashes
  /\ crashes' = crashes + 1
  /\ creating' = Idle
  /\ handle' = [path \in Path |-> None]
  /\ nodes' = saved
  /\ created' = 0
  /\ served' = [fd \in Fd |-> {}]
  /\ path2fd' = [path \in Path |-> NoFd]
  /\ fd2path' = [fd \in Fd |-> NoPath]
  /\ fd2pageno' = [fd \in Fd |-> 0]
  /\ UNCHANGED <<exists, ioVars, saved, closed, grown>>

-----------------------------------------------------------------------------
IndexInit ==
  /\ DiskInit
  /\ creating = Idle
  /\ handle = [path \in Path |-> None]
  /\ nodes = [path \in Path |-> {}]
  /\ saved = [path \in Path |-> {}]
  /\ closed = [path \in Path |-> None]
  /\ grown = [path \in Path |-> 0]
  /\ served = [fd \in Fd |-> {}]
  /\ created = 0
  /\ crashes = 0

IndexNext ==
  \/ \E path \in Path, cols \in Columns : CreateBegin(path, cols)
  \/ CreateOpen \/ CreateHeader \/ CreateLeafHeader \/ CreateRoot \/ CreateClose
  \/ \E path \in Path :
       \/ OpenIndex(path) \/ CloseIndex(path) \/ DestroyIndex(path)
       \/ CreateNode(path) \/ ReleaseNode(path)
  \/ Crash

IndexSpec == IndexInit /\ [][IndexNext]_indexFileVars

-----------------------------------------------------------------------------
(* What is checked. *)

(* An index that is open was closed, or created, with the very header      *)
(* open_index() read: the words serialize() wrote are the fields           *)
(* deserialize() finds, whatever the number of columns and wherever an     *)
(* earlier process stopped; only the number of pages has moved, by the     *)
(* nodes created and released since                                        *)
(* (ix_defs.h:58-127, ix_manager.h:159-162).                               *)
HeaderReadsBack ==
  \A path \in Path :
    handle[path] # None =>
      /\ handle[path] = [closed[path] EXCEPT !.num_pages = @ + grown[path]]
      /\ EndOffset(handle[path]) = handle[path].tot_len

(* Every node of an open index has its entries inside the page and its     *)
(* keys apart from its record identifiers, the reserved entry included:    *)
(* |page_hdr| + (|attr| + |rid|) * (n + 1) <= PAGE_SIZE                    *)
(* (ix_manager.h:65-78, ix_index_handle.h:64-68).                          *)
NodeFits ==
  \A path \in Path :
    handle[path] # None =>
      LET h == handle[path] IN
        /\ KeyStart(h, h.btree_order + 1) <= RidStart(h, 0)
        /\ RidStart(h, h.btree_order + 1) <= PAGE_SIZE
        /\ h.btree_order > 2

(* The root of an index that is open can be read as a whole page, as long  *)
(* as the process has not stopped inside create_index(): no file that      *)
(* create_index() left unfinished by throwing is ever open as an index     *)
(* (ix_manager.h:126, "Must write PAGE_SIZE here in case of future         *)
(* fetch_node()").                                                         *)
RootFetchable ==
  crashes = 0 =>
    \A path \in Path : handle[path] # None => handle[path].root_page < size[path]

(* An index that open_index() accepted can be used: its header is the one  *)
(* written, and its root is in the file.                                   *)
OpenIndexUsable == HeaderReadsBack /\ RootFetchable

(* The file has been open on one descriptor only, which served no other. *)
OwnDescriptor(path) ==
  \A fd \in Fd : path \in served[fd] => fd = path2fd[path] /\ served[fd] = {path}

(* A node create_node() makes gets a page the index does not use yet, so   *)
(* it overwrites neither another node nor the root nor the head of the     *)
(* leaves, however often the file is closed, opened, destroyed and created *)
(* again, as long as the process runs and the file keeps its descriptor to *)
(* itself (ix_index_handle.cpp:444-453).                                   *)
NodesFresh ==
  [][\A path \in Path :
       crashes = 0 /\ CreateNode(path) /\ OwnDescriptor(path)
         => fd2pageno[path2fd[path]] \notin nodes[path]]_indexFileVars

(* The constructor makes the disk manager number new pages of the file     *)
(* from file_hdr_->num_pages on, as its comment says                       *)
(* (ix_index_handle.cpp:153-155).                                          *)
NumberedFromHeader ==
  [][\A path \in Path :
       OpenIndex(path) /\ handle'[path] # None
         => fd2pageno'[path2fd'[path]] = handle'[path].num_pages]_indexFileVars
=============================================================================
