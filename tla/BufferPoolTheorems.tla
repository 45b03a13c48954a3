------------------------- MODULE BufferPoolTheorems -------------------------
(***************************************************************************)
(* What is proved of the buffer pool, for every pool size, every number of *)
(* files, pages and handles; each theorem says which faults it excludes.   *)
(* PoolStructure is proved in BufferPoolProofs.                            *)
(***************************************************************************)
EXTENDS BufferPoolProofs, FiniteSetTheorems

(***************************************************************************)
(* No update is lost: what the pool or the file holds for a page is what   *)
(* was last written to it.  The proof builds on PoolStructure, and needs   *)
(* reads that do not fail: after a failed read_page() the frame stays      *)
(* mapped to a page whose contents were never read.                        *)
(***************************************************************************)

(* Nobody can have written a frame that is not pinned, so a victim that is *)
(* clean is on disk as last written.                                       *)
LEMMA UnpinnedCleanOnDisk ==
  ASSUME HandleCounts, PoolStructure, ContentsKept, NEW f \in Frame,
         pin_count[f] = 0, id_[f] # NoPage, ~is_dirty[f]
  PROVE  OnDisk(id_[f].fd, id_[f].page_no) = latest[id_[f]]
<1>1. \A k \in Handle : ptr[k] # f
  BY UnpinnedFacts, Zenon DEF PoolStructure
<1>2. \A k \in wrote : ptr[k] # f
  BY <1>1, Zenon DEF PoolStructure, TypeOK
<1> QED BY <1>2, Zenon DEF ContentsKept, CleanMeansOnDisk

(* What a cached page holds is what was last written to it. *)
LEMMA CachedLatest ==
  ASSUME PoolStructure, ContentsKept, NEW f \in Frame, id_[f] # NoPage
  PROVE  /\ id_[f] \in PageId /\ Cached(id_[f]) /\ Allocated(id_[f])
         /\ page_table[id_[f]] = f /\ data[f] = latest[id_[f]]
<1>1. NoFrame \notin Frame
  BY NothingFacts, Zenon
<1>2. id_[f] \in PageId /\ page_table[id_[f]] = f
  BY ZenonT(30) DEF PoolStructure, TypeOK, TableMatchesFrames
<1>3. Cached(id_[f]) /\ Allocated(id_[f])
  BY <1>1, <1>2, Zenon DEF PoolStructure, Cached
<1>4. Contents(id_[f]) = data[f]
  BY <1>2, <1>3, Zenon DEF Contents
<1> QED BY <1>2, <1>3, <1>4, Zenon DEF ContentsKept, NoLostUpdate

(* Evicting a frame that nobody holds, by writing it back if it is dirty,  *)
(* leaves its page on disk as last written, and no other page changes.     *)
LEMMA EvictKeepsContents ==
  ASSUME HandleCounts, PoolStructure, ContentsKept, UNCHANGED fileVars,
         NEW f \in Frame, pin_count[f] = 0, WriteBack(f)
  PROVE  /\ \A q \in PageId : q = id_[f] => OnDisk(q.fd, q.page_no)' = latest[q]
         /\ \A q \in PageId : Open(q.fd) /\ q # id_[f] =>
              OnDisk(q.fd, q.page_no)' = OnDisk(q.fd, q.page_no)
         /\ HolesAreZero'
<1>1. /\ \A q \in PageId : Open(q.fd) =>
           OnDisk(q.fd, q.page_no)'
             = IF NeedsWriteBack(f) /\ q = id_[f] THEN data[f]
               ELSE OnDisk(q.fd, q.page_no)
      /\ HolesAreZero'
  BY WriteBackFacts, Zenon DEF ContentsKept
<1>2. ASSUME NEW q \in PageId, q = id_[f]
      PROVE  OnDisk(q.fd, q.page_no)' = latest[q]
  <2>1. id_[f] # NoPage
    BY <1>2, NothingFacts, Zenon
  <2>2. Open(q.fd) /\ data[f] = latest[q]
    BY <1>2, <2>1, CachedLatest, Zenon DEF Allocated
  <2>3. ~is_dirty[f] => OnDisk(q.fd, q.page_no) = latest[q]
    BY <1>2, <2>1, UnpinnedCleanOnDisk, Zenon
  <2> QED BY <1>1, <1>2, <2>1, <2>2, <2>3, Zenon DEF NeedsWriteBack
<1> QED BY <1>1, <1>2, Zenon

(* The frame of a victim becomes page p's, with contents d. *)
LEMMA LoadContents ==
  ASSUME HandleCounts, PoolStructure, ContentsKept, ~Latched, UNCHANGED flush, UNCHANGED fileVars,
         NEW f \in Frame, pin_count[f] = 0, WriteBack(f),
         NEW p \in PageId, ~Cached(p), Remap(f, p), NEW d,
         data' = [data EXCEPT ![f] = d],
         is_dirty' = [is_dirty EXCEPT ![f] = FALSE],
         \A q \in PageId : latest'[q] = IF q = p THEN d ELSE latest[q],
         \A q \in PageId : Allocated(q)' <=> q = p \/ Allocated(q),
         OnDisk(p.fd, p.page_no)' = d \/ \E k \in wrote' : ptr'[k] = f,
         wrote \subseteq wrote', \A k \in wrote : ptr'[k] = ptr[k]
  PROVE  ContentsKept'
<1>1. NoFrame \notin Frame /\ NoPage \notin PageId
  BY NothingFacts, Zenon
<1>2. /\ \A q \in PageId : q = id_[f] => OnDisk(q.fd, q.page_no)' = latest[q]
      /\ \A q \in PageId : Open(q.fd) /\ q # id_[f] =>
           OnDisk(q.fd, q.page_no)' = OnDisk(q.fd, q.page_no)
      /\ HolesAreZero'
  BY EvictKeepsContents, Zenon
<1>3. /\ \A q \in PageId : Cached(q)' <=> q = p \/ (Cached(q) /\ q # id_[f])
      /\ id_'[f] = p /\ page_table'[p] = f /\ p # NoPage
      /\ \A g \in Frame \ {f} : id_'[g] = id_[g]
      /\ \A q \in PageId : q # p /\ q # id_[f] => page_table'[q] = page_table[q]
  BY RemapFacts, ZenonT(30)
<1>4. TypeOK /\ TableMatchesFrames
  BY Zenon DEF PoolStructure
<1>5. NoLostUpdate'
  <2>1. ASSUME NEW q \in PageId, Allocated(q)' PROVE Contents(q)' = latest'[q]
    <3>1. CASE q = p
      BY <1>3, <1>4, <3>1, ZenonT(30) DEF Contents, TypeOK
    <3>2. CASE q # p /\ q = id_[f]
      BY <1>2, <1>3, <3>2, Zenon DEF Contents
    <3>3. CASE q # p /\ q # id_[f] /\ Cached(q)
      <4>1. Allocated(q) /\ Contents(q) = latest[q]
        BY <2>1, <3>3, Zenon DEF ContentsKept, NoLostUpdate
      <4>2. page_table[q] \in Frame \ {f}
        BY <1>1, <1>4, <3>3 DEF TypeOK, Cached, TableMatchesFrames
      <4>3. Contents(q)' = data'[page_table[q]]
        BY <1>3, <3>3, Zenon DEF Contents
      <4> QED BY <1>4, <3>3, <4>1, <4>2, <4>3, Zenon DEF Contents, TypeOK
    <3>4. CASE q # p /\ q # id_[f] /\ ~Cached(q)
      <4>1. Allocated(q) /\ Contents(q) = latest[q] /\ Open(q.fd)
        BY <2>1, <3>4, Zenon DEF ContentsKept, NoLostUpdate, Allocated
      <4> QED BY <1>2, <1>3, <3>4, <4>1, Zenon DEF Contents
    <3> QED BY <3>1, <3>2, <3>3, <3>4, Zenon
  <2> QED BY <2>1, Zenon DEF NoLostUpdate
<1>6. CleanMeansOnDisk'
  <2>1. ASSUME NEW g \in Frame, id_'[g] # NoPage, ~is_dirty'[g],
               \A k \in wrote' : ptr'[k] # g
        PROVE  OnDisk(id_[g].fd, id_[g].page_no)' = latest'[id_'[g]]
    <3>1. CASE g = f
      <4>1. OnDisk(p.fd, p.page_no)' = latest'[p]
        BY <2>1, <3>1, Zenon
      <4> QED BY <1>3, <3>1, <4>1, Zenon DEF OnDisk
    <3>2. CASE g # f
      <4>1. PICK q \in PageId : q = id_[g] /\ q = id_'[g]
        BY <1>3, <1>4, <2>1, <3>2 DEF TypeOK
      <4>2. Cached(q) /\ Allocated(q) /\ page_table[q] = g
        <5>1. id_[g] # NoPage
          BY <1>1, <4>1, Zenon
        <5> QED BY <4>1, <5>1, CachedLatest, Zenon
      <4>3. q # p /\ q # id_[f] /\ Open(q.fd)
        <5>1. q = id_[f] => page_table[q] = f
          BY <1>1, <1>4, ZenonT(30) DEF TableMatchesFrames
        <5> QED BY <3>2, <4>2, <5>1, Zenon DEF Allocated
      <4>4. ~is_dirty[g] /\ \A k \in wrote : ptr[k] # g
        BY <1>4, <2>1, <3>2, Zenon DEF TypeOK
      <4>5. OnDisk(q.fd, q.page_no) = latest[q]
        BY <1>1, <4>1, <4>4, ZenonT(30) DEF ContentsKept, CleanMeansOnDisk
      <4>6. OnDisk(q.fd, q.page_no)' = latest'[q]
        BY <1>2, <4>3, <4>5, Zenon
      <4> QED BY <4>1, <4>6, Zenon DEF OnDisk
    <3> QED BY <3>1, <3>2, Zenon
  <2> QED BY <2>1, Zenon DEF CleanMeansOnDisk
<1>7. ASSUME NEW q \in PageId, Open(q.fd)', ~Allocated(q)'
      PROVE  latest'[q] = Zero /\ OnDisk(q.fd, q.page_no)' = Zero
  <2>1. q # p /\ ~Allocated(q) /\ Open(q.fd)
    BY <1>7, Zenon DEF Open, fileVars
  <2>2. q # id_[f]
    BY <1>1, <2>1, CachedLatest
  <2>3. latest[q] = Zero /\ OnDisk(q.fd, q.page_no) = Zero
    BY <2>1, Zenon DEF ContentsKept
  <2> QED BY <1>2, <2>1, <2>2, <2>3, Zenon
<1>8. flush'.cur = NoPage
  BY NoFlush, Zenon
<1> QED BY <1>2, <1>5, <1>6, <1>7, <1>8, Zenon DEF ContentsKept

(* fetch_page() of a page not cached: the victim goes to disk if dirty,    *)
(* and the frame gets what is on disk.                                     *)
LEMMA FetchMissContents ==
  ASSUME HandleCounts, PoolStructure, ContentsKept, NEW h \in Handle, NEW p \in PageId,
         FetchMiss(h, p)
  PROVE  ContentsKept'
<1>1. PICK f \in Frame : f = VictimFrame /\ pin_count[f] = 0
  BY VictimFrameFacts, Zenon DEF PoolStructure, FetchMiss
<1>2. /\ ~Latched /\ UNCHANGED flush /\ UNCHANGED fileVars /\ UNCHANGED fd2pageno
      /\ WriteBack(f) /\ ~Cached(p) /\ Remap(f, p) /\ Allocated(p)
      /\ data' = [data EXCEPT ![f] = OnDisk(p.fd, p.page_no)']
      /\ is_dirty' = [is_dirty EXCEPT ![f] = FALSE]
      /\ UNCHANGED <<wrote, latest>> /\ ptr' = [ptr EXCEPT ![h] = f]
      /\ ptr[h] = NoFrame
  BY <1>1, Zenon DEF FetchMiss, Load, Take, CanFetch
<1>3. OnDisk(p.fd, p.page_no)' = latest[p]
  <2>1. Contents(p) = latest[p] /\ Contents(p) = OnDisk(p.fd, p.page_no) /\ Open(p.fd)
    BY <1>2, Zenon DEF ContentsKept, NoLostUpdate, Contents, Allocated
  <2>2. p = id_[f] => OnDisk(p.fd, p.page_no)' = latest[p]
    BY <1>1, <1>2, EvictKeepsContents, Zenon
  <2>3. p # id_[f] => OnDisk(p.fd, p.page_no)' = OnDisk(p.fd, p.page_no)
    BY <1>1, <1>2, <2>1, EvictKeepsContents, Zenon
  <2> QED BY <2>1, <2>2, <2>3, Zenon
<1>4. data' = [data EXCEPT ![f] = latest[p]]
  BY <1>2, <1>3, Zenon
<1>5. \A q \in PageId : Allocated(q)' <=> q = p \/ Allocated(q)
  BY <1>2, Zenon DEF Allocated, Open, fileVars
<1>6. \A k \in wrote : ptr'[k] = ptr[k]
  BY <1>2, Zenon DEF PoolStructure, TypeOK
<1>7. \A q \in PageId : latest'[q] = IF q = p THEN latest[p] ELSE latest[q]
  BY <1>2, Zenon
<1> QED BY <1>1, <1>2, <1>3, <1>4, <1>5, <1>6, <1>7, LoadContents, Zenon

(* A read past the end throws, but the page it leaves zeroed was zeros. *)
LEMMA FetchReadThrowsContents ==
  ASSUME HandleCounts, PoolStructure, ContentsKept, ~ReadFaults,
         NEW h \in Handle, NEW p \in PageId, FetchReadThrows(h, p)
  PROVE  ContentsKept'
<1>1. PICK f \in Frame : f = VictimFrame /\ pin_count[f] = 0
  BY VictimFrameFacts, Zenon DEF PoolStructure, FetchReadThrows
<1>2. /\ ~Latched /\ UNCHANGED flush /\ UNCHANGED fileVars /\ UNCHANGED fd2pageno
      /\ WriteBack(f) /\ ~Cached(p) /\ Remap(f, p) /\ Allocated(p)
      /\ data' = [data EXCEPT ![f] = Zero]
      /\ is_dirty' = [is_dirty EXCEPT ![f] = FALSE]
      /\ UNCHANGED <<wrote, latest, ptr>> /\ PastEnd(p.fd, p.page_no)'
  BY <1>1, Zenon DEF FetchReadThrows, CanFetch, clientVars
<1>3. PastEnd(p.fd, p.page_no) /\ Open(p.fd)
  BY <1>2, WriteBackFacts, Zenon DEF Allocated
<1>4. OnDisk(p.fd, p.page_no) = Zero
  BY <1>3, Zenon
     DEF ContentsKept, HolesAreZero, OnDisk, PastEnd, PoolStructure, TypeOK,
     DiskTypeOK, Open, PageId
<1>5. latest[p] = Zero
  BY <1>2, <1>4, Zenon DEF ContentsKept, NoLostUpdate, Contents
<1>6. OnDisk(p.fd, p.page_no)' = Zero
  <2>1. p = id_[f] => OnDisk(p.fd, p.page_no)' = latest[p]
    BY <1>1, <1>2, EvictKeepsContents, Zenon
  <2>2. p # id_[f] => OnDisk(p.fd, p.page_no)' = OnDisk(p.fd, p.page_no)
    BY <1>1, <1>2, <1>3, EvictKeepsContents, Zenon
  <2> QED BY <1>4, <1>5, <2>1, <2>2, Zenon
<1>7. \A q \in PageId : Allocated(q)' <=> q = p \/ Allocated(q)
  BY <1>2, Zenon DEF Allocated, Open, fileVars
<1>8. \A q \in PageId : latest'[q] = IF q = p THEN Zero ELSE latest[q]
  BY <1>2, <1>5, Zenon
<1>9. wrote \subseteq wrote' /\ \A k \in wrote : ptr'[k] = ptr[k]
  BY <1>2, Zenon
<1> QED BY <1>1, <1>2, <1>6, <1>7, <1>8, <1>9, LoadContents, Zenon

(* new_page(): a page not allocated before is zeros on disk, as is the     *)
(* frame.                                                                  *)
LEMMA NewPageContents ==
  ASSUME HandleCounts, PoolStructure, ContentsKept, NEW h \in Handle, NEW fd \in Fd, NewPage(h, fd)
  PROVE  ContentsKept'
<1>1. PICK f \in Frame : f = VictimFrame /\ pin_count[f] = 0
  BY VictimFrameFacts, Zenon DEF PoolStructure, NewPage
<1>2. /\ fd2pageno \in [Fd -> 0..MaxPage] /\ fd2pageno[fd] < MaxPage /\ MaxPage \in Nat
      /\ fd2pageno' = [fd2pageno EXCEPT ![fd] = @ + 1]
  BY DiskAssumption, Zenon
     DEF NewPage, AllocatePage, PoolStructure, TypeOK, DiskTypeOK
<1>3. PICK p \in PageId : p = [fd |-> fd, page_no |-> fd2pageno[fd]]
  <2>1. fd2pageno[fd] \in PageNo
    BY <1>2 DEF PageNo
  <2> QED BY <2>1, Zenon DEF PageId
<1>4. /\ ~Latched /\ UNCHANGED flush /\ UNCHANGED fileVars /\ Open(fd)
      /\ WriteBack(f) /\ Remap(f, p)
      /\ data' = [data EXCEPT ![f] = Zero]
      /\ is_dirty' = [is_dirty EXCEPT ![f] = FALSE]
      /\ wrote \subseteq wrote' /\ latest' = [latest EXCEPT ![p] = Zero]
      /\ ptr' = [ptr EXCEPT ![h] = f] /\ ptr[h] = NoFrame
  BY <1>1, <1>3, Zenon DEF NewPage, Load, Take
<1>5. p \in PageId /\ p.fd = fd /\ p.page_no = fd2pageno[fd]
  BY <1>3, <1>2, Zenon DEF PageId, PageNo
<1>6. ~Allocated(p) /\ ~Cached(p)
  BY <1>2, <1>5 DEF PoolStructure, Allocated
<1>7. OnDisk(p.fd, p.page_no)' = Zero
  <2>1. OnDisk(p.fd, p.page_no) = Zero
    BY <1>4, <1>5, <1>6, Zenon DEF ContentsKept
  <2>2. p # id_[f]
    BY <1>5, <1>6, CachedLatest, NothingFacts, Zenon
  <2> QED BY <1>1, <1>4, <1>5, <2>1, <2>2, EvictKeepsContents, Zenon
<1>8. \A q \in PageId : Allocated(q)' <=> q = p \/ Allocated(q)
  <2>1. \A q \in PageId : q.fd \in Fd /\ q.page_no \in Int
                          /\ (q = p <=> q.fd = fd /\ q.page_no = fd2pageno[fd])
    BY <1>3 DEF PageId, PageNo
  <2> QED BY <1>4, <1>2, <2>1 DEF Allocated, Open, fileVars
<1>9. \A q \in PageId : latest'[q] = IF q = p THEN Zero ELSE latest[q]
  BY <1>4, <1>5, Zenon DEF PoolStructure, TypeOK
<1>10. \A k \in wrote : ptr'[k] = ptr[k]
  BY <1>4, Zenon DEF PoolStructure, TypeOK
<1>11. /\ ~Latched /\ UNCHANGED flush /\ UNCHANGED fileVars
       /\ WriteBack(f) /\ Remap(f, p) /\ ~Cached(p) /\ pin_count[f] = 0
       /\ data' = [data EXCEPT ![f] = Zero]
       /\ is_dirty' = [is_dirty EXCEPT ![f] = FALSE]
       /\ wrote \subseteq wrote' /\ p \in PageId
  BY <1>1, <1>4, <1>5, <1>6, Zenon
<1> QED BY <1>1, <1>7, <1>8, <1>9, <1>10, <1>11, LoadContents, ZenonT(60)

(* A failed write-back changes no contents; new_page() may have allocated  *)
(* a page number by then, of a page that is zeros.                         *)
LEMMA EvictThrowsContents ==
  ASSUME PoolStructure, ContentsKept, ~Latched, EvictThrows,
         \A q \in PageId : Allocated(q) => Allocated(q)'
  PROVE  ContentsKept'
<1>1. /\ UNCHANGED <<page_table, id_, is_dirty, data, flush, ptr, wrote, latest>>
      /\ UNCHANGED <<size, content, fd2path>>
  BY Zenon DEF EvictThrows, pageVars, clientVars, fileVars, ioVars
<1>2. \A q \in PageId : /\ OnDisk(q.fd, q.page_no)' = OnDisk(q.fd, q.page_no)
                        /\ Open(q.fd)' <=> Open(q.fd)
                        /\ Contents(q)' = Contents(q)
  BY <1>1, Zenon DEF OnDisk, Open, Contents, Cached
<1>4. NoLostUpdate'
  <2>1. ASSUME NEW q \in PageId, Allocated(q)' PROVE Contents(q) = latest[q]
    <3>1. CASE Allocated(q)
      BY <3>1, Zenon DEF ContentsKept, NoLostUpdate
    <3>2. CASE ~Allocated(q)
      <4>1. Open(q.fd) /\ ~Cached(q)
        BY <1>2, <2>1, <3>2, Zenon DEF Allocated, PoolStructure
      <4> QED BY <3>2, <4>1, Zenon DEF ContentsKept, Contents
    <3> QED BY <3>1, <3>2, Zenon
  <2> QED BY <1>1, <1>2, <2>1, Zenon DEF NoLostUpdate
<1>3. CleanMeansOnDisk' /\ HolesAreZero'
  BY <1>1, Zenon DEF ContentsKept, CleanMeansOnDisk, HolesAreZero, OnDisk
<1>5. \A q \in PageId : Open(q.fd)' /\ ~Allocated(q)'
        => latest'[q] = Zero /\ OnDisk(q.fd, q.page_no)' = Zero
  BY <1>1, <1>2, Zenon DEF ContentsKept
<1>6. flush'.cur = NoPage
  BY <1>1, NoFlush, Zenon
<1> QED BY <1>4, <1>3, <1>5, <1>6, Zenon DEF ContentsKept

(* A write-back that throws leaves the victim cached, dirty and as it was. *)
LEMMA WriteThrowsContents ==
  ASSUME PoolStructure, ContentsKept, NEW h \in Handle,
         \/ \E p \in PageId : FetchWriteThrows(h, p)
         \/ \E fd \in Fd : NewPageWriteThrows(h, fd)
  PROVE  ContentsKept'
<1>1. fd2pageno \in [Fd -> 0..MaxPage] /\ MaxPage \in Nat
  BY DiskAssumption, Zenon DEF PoolStructure, TypeOK, DiskTypeOK
<1>2. ASSUME NEW p \in PageId, FetchWriteThrows(h, p) PROVE ContentsKept'
  <2>1. ~Latched /\ EvictThrows /\ fd2pageno' = fd2pageno /\ fd2path' = fd2path
    BY <1>2, Zenon DEF FetchWriteThrows, CanFetch, EvictThrows, fileVars
  <2>2. \A q \in PageId : Allocated(q) => Allocated(q)'
    BY <2>1, Zenon DEF Allocated, Open
  <2> QED BY <2>1, <2>2, EvictThrowsContents, Zenon
<1>3. ASSUME NEW fd \in Fd, NewPageWriteThrows(h, fd) PROVE ContentsKept'
  <2>1. /\ ~Latched /\ EvictThrows /\ fd2path' = fd2path
        /\ fd2pageno' = [fd2pageno EXCEPT ![fd] = @ + 1]
    BY <1>3, Zenon DEF NewPageWriteThrows, AllocatePage, EvictThrows, fileVars
  <2>2. \A q \in PageId : Allocated(q) => Allocated(q)'
    BY <1>1, <2>1 DEF Allocated, Open, PageId, PageNo
  <2> QED BY <2>1, <2>2, EvictThrowsContents, Zenon
<1> QED BY <1>2, <1>3, Zenon

(* Steps that change neither contents nor files: what matters is that a    *)
(* frame that becomes clean, or whose last writer leaves, is on disk.      *)
LEMMA SameContents ==
  ASSUME PoolStructure, ContentsKept,
         UNCHANGED <<page_table, id_, data, latest>>,
         UNCHANGED <<size, content, fd2path, fd2pageno>>,
         \A f \in Frame :
           /\ id_[f] # NoPage /\ ~is_dirty'[f] /\ \A h \in wrote' : ptr'[h] # f
           => \/ ~is_dirty[f] /\ \A h \in wrote : ptr[h] # f
              \/ OnDisk(id_[f].fd, id_[f].page_no) = latest[id_[f]],
         \/ flush'.cur = NoPage
         \/ flush'.cur = flush.cur /\ wrote \subseteq wrote'
            /\ \A h \in wrote : ptr'[h] = ptr[h]
  PROVE  ContentsKept'
<1>1. \A q \in PageId : /\ OnDisk(q.fd, q.page_no)' = OnDisk(q.fd, q.page_no)
                        /\ Open(q.fd)' <=> Open(q.fd)
                        /\ Allocated(q)' <=> Allocated(q)
                        /\ Contents(q)' = Contents(q)
  BY Zenon DEF OnDisk, Open, Allocated, Contents, Cached
<1>2. NoLostUpdate' /\ HolesAreZero'
  BY <1>1, Zenon DEF ContentsKept, NoLostUpdate, HolesAreZero
<1>3. CleanMeansOnDisk'
  <2>1. ASSUME NEW f \in Frame, id_'[f] # NoPage, ~is_dirty'[f],
               \A h \in wrote' : ptr'[h] # f
        PROVE  OnDisk(id_[f].fd, id_[f].page_no) = latest[id_[f]]
    BY <2>1, Zenon DEF ContentsKept, CleanMeansOnDisk
  <2> QED BY <2>1, Zenon DEF CleanMeansOnDisk, OnDisk
<1>4. \A q \in PageId : Open(q.fd)' /\ ~Allocated(q)'
        => latest'[q] = Zero /\ OnDisk(q.fd, q.page_no)' = Zero
  BY <1>1, Zenon DEF ContentsKept
<1>5. flush'.cur # NoPage /\ (\A h \in wrote' : ptr'[h] # page_table'[flush'.cur])
        => OnDisk(flush.cur.fd, flush.cur.page_no)' = latest'[flush'.cur]
  <2>1. SUFFICES ASSUME flush'.cur # NoPage,
                        \A h \in wrote' : ptr'[h] # page_table'[flush'.cur]
                 PROVE  OnDisk(flush.cur.fd, flush.cur.page_no)' = latest'[flush'.cur]
    BY Zenon
  <2>2. /\ flush'.cur = flush.cur
        /\ \A h \in wrote : ptr[h] # page_table[flush.cur]
    BY <2>1, Zenon
  <2>3. OnDisk(flush.cur.fd, flush.cur.page_no) = latest[flush.cur]
    BY <2>1, <2>2, Zenon DEF ContentsKept
  <2> QED BY <2>2, <2>3, Zenon DEF OnDisk
<1> QED BY <1>2, <1>3, <1>4, <1>5, Zenon DEF ContentsKept

(* fetch_page() of a cached page changes no contents. *)
LEMMA FetchHitContents ==
  ASSUME PoolStructure, ContentsKept, NEW h \in Handle, NEW p \in PageId,
         FetchHit(h, p)
  PROVE  ContentsKept'
<1>1. /\ UNCHANGED <<page_table, id_, data, latest, is_dirty, flush, wrote>>
      /\ UNCHANGED <<size, content, fd2path, fd2pageno>>
      /\ ptr[h] = NoFrame /\ ~Latched
      /\ ptr' = [ptr EXCEPT ![h] = page_table[p]]
  BY Zenon DEF FetchHit, diskVars, fileVars, ioVars, Take, CanFetch
<1>2. \A k \in wrote : ptr'[k] = ptr[k]
  BY <1>1, Zenon DEF PoolStructure, TypeOK
<1>3. flush'.cur = NoPage
  BY <1>1, NoFlush, Zenon
<1> QED BY <1>1, <1>2, <1>3, SameContents, Zenon

(* The writer that unpins says the page is dirty. *)
LEMMA UnpinPageContents ==
  ASSUME PoolStructure, ContentsKept, NEW h \in Handle, NEW dirty \in BOOLEAN,
         UnpinPage(h, dirty)
  PROVE  ContentsKept'
<1>1. PICK f \in Frame : f = ptr[h] /\ page_table[id_[f]] = f
  BY ZenonT(30) DEF UnpinPage, PoolStructure, TypeOK, PinsMatchHandles, TableMatchesFrames
<1>2. /\ UNCHANGED <<page_table, id_, data, latest, flush>>
      /\ UNCHANGED <<size, content, fd2path, fd2pageno>>
      /\ h \in wrote => dirty
      /\ is_dirty' = [is_dirty EXCEPT ![f] = @ \/ dirty]
      /\ ptr' = [ptr EXCEPT ![h] = NoFrame] /\ wrote' = wrote \ {h} /\ ~Latched
  BY <1>1, Zenon DEF UnpinPage, Take, StaysDirty, diskVars, fileVars, ioVars
<1>3. ASSUME NEW g \in Frame, ~is_dirty'[g], \A k \in wrote' : ptr'[k] # g
      PROVE  ~is_dirty[g] /\ \A k \in wrote : ptr[k] # g
  <2>1. ~is_dirty[g] /\ (g = f => ~dirty)
    BY <1>2, <1>3, Zenon DEF PoolStructure, TypeOK
  <2>2. \A k \in wrote : k # h => ptr[k] # g
    BY <1>2, <1>3, Zenon DEF PoolStructure, TypeOK
  <2>3. h \in wrote => ptr[h] # g
    BY <1>1, <1>2, <2>1, Zenon
  <2> QED BY <2>1, <2>2, <2>3, Zenon
<1>4. flush'.cur = NoPage
  BY <1>2, NoFlush, Zenon
<1> QED BY <1>2, <1>3, <1>4, SameContents, Zenon

(* delete_page() writes the page back if it is dirty before the frame is   *)
(* given up.                                                               *)
LEMMA DeletePageContents ==
  ASSUME HandleCounts, PoolStructure, ContentsKept, NEW p \in PageId, DeletePage(p)
  PROVE  ContentsKept'
<1>1. NoFrame \notin Frame /\ NoPage \notin PageId
  BY NothingFacts, Zenon
<1>2. TypeOK /\ TableMatchesFrames
  BY Zenon DEF PoolStructure
<1>3. PICK f \in Frame : f = page_table[p] /\ id_[f] = p
  BY <1>2, Zenon DEF DeletePage, Cached, TypeOK, TableMatchesFrames
<1>4. /\ pin_count[f] = 0 /\ ~Latched /\ UNCHANGED fileVars
      /\ page_table' = [page_table EXCEPT ![p] = NoFrame]
      /\ id_' = [id_ EXCEPT ![f] = NoPage]
      /\ is_dirty' = [is_dirty EXCEPT ![f] = FALSE]
      /\ data' = [data EXCEPT ![f] = Zero]
      /\ UNCHANGED <<flush, ptr, wrote, latest, fd2pageno>>
  BY <1>3, Zenon DEF DeletePage, clientVars
<1>5. WriteBack(f)
  BY <1>1, <1>3, Zenon DEF DeletePage, WriteBack, NeedsWriteBack
<1>6. /\ OnDisk(p.fd, p.page_no)' = latest[p]
      /\ \A q \in PageId : Open(q.fd) /\ q # p =>
           OnDisk(q.fd, q.page_no)' = OnDisk(q.fd, q.page_no)
      /\ HolesAreZero'
  BY <1>3, <1>4, <1>5, EvictKeepsContents, Zenon
<1>7. \A q \in PageId : /\ Open(q.fd)' <=> Open(q.fd)
                        /\ Allocated(q)' <=> Allocated(q)
  BY <1>4, Zenon DEF Open, Allocated, fileVars
<1>8. NoLostUpdate'
  <2>1. ASSUME NEW q \in PageId, Allocated(q) PROVE Contents(q)' = latest[q]
    <3>1. Contents(q) = latest[q] /\ Open(q.fd)
      BY <2>1, Zenon DEF ContentsKept, NoLostUpdate, Allocated
    <3>2. CASE q = p
      <4>1. ~Cached(q)'
        BY <1>2, <1>4, <3>2, Zenon DEF Cached, TypeOK
      <4> QED BY <1>6, <3>2, <4>1, Zenon DEF Contents
    <3>3. CASE q # p
      <4>1. page_table'[q] = page_table[q] /\ page_table[q] # f
        BY <1>1, <1>2, <1>3, <1>4, <3>3, Zenon
           DEF TypeOK, TableMatchesFrames, Cached
      <4>2. Cached(q) => page_table[q] \in Frame \ {f}
        BY <1>2, <4>1, Zenon DEF TypeOK, Cached
      <4>3. Cached(q) => data'[page_table[q]] = data[page_table[q]]
        BY <1>2, <1>4, <4>2, Zenon DEF TypeOK
      <4> QED BY <1>6, <3>1, <3>3, <4>1, <4>3, Zenon DEF Contents, Cached
    <3> QED BY <3>2, <3>3, Zenon
  <2> QED BY <1>4, <1>7, <2>1, Zenon DEF NoLostUpdate
<1>9. CleanMeansOnDisk'
  <2>1. ASSUME NEW g \in Frame, id_'[g] # NoPage, ~is_dirty'[g],
               \A k \in wrote' : ptr'[k] # g
        PROVE  OnDisk(id_[g].fd, id_[g].page_no)' = latest'[id_'[g]]
    <3>1. g # f
      BY <1>2, <1>4, <2>1, Zenon DEF TypeOK
    <3>2. PICK q \in PageId : q = id_[g] /\ q = id_'[g]
      BY <1>2, <1>4, <2>1, <3>1, Zenon DEF TypeOK
    <3>3. Open(q.fd) /\ q # p
      <4>1. id_[g] # NoPage
        BY <1>1, <3>2, Zenon
      <4>2. page_table[q] = g /\ Allocated(q)
        BY <3>2, <4>1, CachedLatest, Zenon
      <4> QED BY <1>3, <3>1, <4>2, Zenon DEF Allocated
    <3>4. OnDisk(q.fd, q.page_no) = latest[q]
      BY <1>1, <1>2, <1>4, <2>1, <3>1, <3>2, Zenon
         DEF ContentsKept, CleanMeansOnDisk, TypeOK
    <3>5. OnDisk(q.fd, q.page_no)' = latest'[q]
      BY <1>4, <1>6, <3>3, <3>4, Zenon
    <3> QED BY <3>2, <3>5, Zenon DEF OnDisk
  <2> QED BY <2>1, Zenon DEF CleanMeansOnDisk
<1>10. ASSUME NEW q \in PageId, Open(q.fd)', ~Allocated(q)'
       PROVE  latest'[q] = Zero /\ OnDisk(q.fd, q.page_no)' = Zero
  <2>1. Open(q.fd) /\ ~Allocated(q) /\ q # p
    BY <1>1, <1>3, <1>7, <1>10, CachedLatest, ZenonT(30)
  <2> QED BY <1>4, <1>6, <2>1, Zenon DEF ContentsKept
<1>11. flush'.cur = NoPage
  BY <1>4, NoFlush, Zenon
<1> QED BY <1>6, <1>8, <1>9, <1>10, <1>11, Zenon DEF ContentsKept

(* A flush puts a page on disk as it is cached, which is as last written;  *)
(* the page is then the one whose is_dirty_ will be cleared.               *)
LEMMA FlushWriteContents ==
  ASSUME PoolStructure, ContentsKept, UNCHANGED fileVars, UNCHANGED fd2pageno,
         UNCHANGED <<page_table, id_, is_dirty, data, ptr, wrote, latest>>,
         NEW p \in PageId, Cached(p), flush'.cur = p,
         WritePage(p.fd, p.page_no, data[page_table[p]])
  PROVE  ContentsKept'
<1>1. /\ \A q \in PageId : Open(q.fd) =>
           OnDisk(q.fd, q.page_no)'
             = IF q = p THEN data[page_table[p]] ELSE OnDisk(q.fd, q.page_no)
      /\ HolesAreZero'
  BY FlushWriteFacts, Zenon DEF ContentsKept
<1>2. Allocated(p) /\ Open(p.fd) /\ data[page_table[p]] = latest[p]
  BY Zenon DEF PoolStructure, ContentsKept, NoLostUpdate, Contents, Allocated
<1>3. \A q \in PageId : /\ Open(q.fd)' <=> Open(q.fd)
                        /\ Allocated(q)' <=> Allocated(q)
                        /\ Cached(q)' <=> Cached(q)
  BY Zenon DEF Open, Allocated, Cached, fileVars
<1>4. NoLostUpdate'
  <2>1. ASSUME NEW q \in PageId, Allocated(q) PROVE Contents(q)' = latest[q]
    <3>1. Contents(q) = latest[q] /\ Open(q.fd)
      BY <2>1, Zenon DEF ContentsKept, NoLostUpdate, Allocated
    <3> QED BY <1>1, <1>2, <1>3, <3>1, Zenon DEF Contents
  <2> QED BY <1>3, <2>1, Zenon DEF NoLostUpdate
<1>5. CleanMeansOnDisk'
  <2>1. ASSUME NEW g \in Frame, id_[g] # NoPage, ~is_dirty[g],
               \A k \in wrote : ptr[k] # g
        PROVE  OnDisk(id_[g].fd, id_[g].page_no)' = latest[id_[g]]
    <3>1. PICK q \in PageId : q = id_[g] /\ Open(q.fd)
      BY <2>1, CachedLatest, Zenon DEF Allocated
    <3>2. OnDisk(q.fd, q.page_no) = latest[q]
      BY <2>1, <3>1, Zenon DEF ContentsKept, CleanMeansOnDisk
    <3>3. OnDisk(q.fd, q.page_no)' = latest[q]
      BY <1>1, <1>2, <3>1, <3>2, Zenon
    <3> QED BY <3>1, <3>3, Zenon DEF OnDisk
  <2> QED BY <2>1, Zenon DEF CleanMeansOnDisk
<1>6. \A q \in PageId : Open(q.fd)' /\ ~Allocated(q)'
        => latest'[q] = Zero /\ OnDisk(q.fd, q.page_no)' = Zero
  BY <1>1, <1>2, <1>3, Zenon DEF ContentsKept
<1>7. OnDisk(p.fd, p.page_no)' = latest'[p]
  BY <1>1, <1>2, Zenon
<1>8. OnDisk(flush.cur.fd, flush.cur.page_no)' = latest'[flush'.cur]
  BY <1>7, Zenon DEF OnDisk
<1> QED BY <1>1, <1>4, <1>5, <1>6, <1>8, Zenon DEF ContentsKept

(* The steps of flush_page() and flush_all_pages(). *)
LEMMA FlushContents ==
  ASSUME PoolStructure, ContentsKept,
         \/ \E p \in PageId : FlushPage(p) \/ FlushVisit(p)
         \/ \E fd \in Fd : FlushAllPages(fd)
         \/ FlushClear
         \/ FlushThrows
  PROVE  ContentsKept'
<1>1. ASSUME NEW p \in PageId, FlushPage(p) PROVE ContentsKept'
  <2>1. /\ UNCHANGED <<page_table, id_, is_dirty, data, ptr, wrote, latest>>
        /\ UNCHANGED fileVars /\ UNCHANGED fd2pageno /\ Cached(p) /\ flush'.cur = p
        /\ WritePage(p.fd, p.page_no, data[page_table[p]])
    BY <1>1, Zenon DEF FlushPage, poolVars, pageVars, clientVars
  <2> QED BY <2>1, FlushWriteContents, Zenon
<1>2. ASSUME NEW p \in PageId, FlushVisit(p) PROVE ContentsKept'
  <2>1. /\ UNCHANGED <<page_table, id_, is_dirty, data, ptr, wrote, latest>>
        /\ UNCHANGED fileVars /\ UNCHANGED fd2pageno /\ Cached(p)
    BY <1>2, Zenon DEF FlushVisit, poolVars, pageVars, clientVars, PoolStructure
  <2>2. CASE is_dirty[page_table[p]]
    <3>1. flush'.cur = p /\ WritePage(p.fd, p.page_no, data[page_table[p]])
      BY <1>2, <2>2 DEF FlushVisit
    <3> QED BY <2>1, <3>1, FlushWriteContents, Zenon
  <2>3. CASE ~is_dirty[page_table[p]]
    <3>1. flush'.cur = NoPage /\ UNCHANGED <<size, content, fd2path, fd2pageno>>
      BY <1>2, <2>1, <2>3 DEF FlushVisit, ioVars, fileVars
    <3> QED BY <2>1, <3>1, SameContents, Zenon
  <2> QED BY <2>2, <2>3, Zenon
<1>3. ASSUME FlushThrows \/ \E fd \in Fd : FlushAllPages(fd) PROVE ContentsKept'
  <2>1. /\ UNCHANGED <<page_table, id_, is_dirty, data, ptr, wrote, latest>>
        /\ UNCHANGED <<size, content, fd2path, fd2pageno>> /\ flush'.cur = NoPage
    BY <1>3 DEF FlushAllPages, FlushThrows, Idle, poolVars, pageVars, clientVars,
                diskVars, ioVars, fileVars
  <2> QED BY <2>1, SameContents, Zenon
<1>4. ASSUME FlushClear PROVE ContentsKept'
  <2>1. PICK p \in PageId : p = flush.cur /\ Cached(p)
    BY <1>4, Zenon DEF FlushClear, PoolStructure, TypeOK
  <2>2. PICK f \in Frame : f = page_table[p] /\ id_[f] = p
    BY <2>1, ZenonT(30) DEF PoolStructure, TypeOK, TableMatchesFrames, Cached
  <2>3. /\ UNCHANGED <<page_table, id_, data, ptr, wrote, latest>>
        /\ UNCHANGED <<size, content, fd2path, fd2pageno>>
        /\ is_dirty' = [is_dirty EXCEPT ![f] = FALSE]
        /\ flush.cur # NoPage /\ flush' = [flush EXCEPT !.cur = NoPage]
    BY <1>4, <2>1, <2>2, Zenon
       DEF FlushClear, clientVars, diskVars, ioVars, fileVars
  <2>4. flush'.cur = NoPage
    BY <2>3, Zenon DEF PoolStructure, TypeOK
  <2>5. (\A k \in wrote : ptr[k] # f) => OnDisk(p.fd, p.page_no) = latest[p]
    BY <2>1, <2>2, <2>3, Zenon DEF ContentsKept
  <2>6. ASSUME NEW g \in Frame, ~is_dirty'[g], \A k \in wrote' : ptr'[k] # g
        PROVE  \/ ~is_dirty[g] /\ \A k \in wrote : ptr[k] # g
               \/ OnDisk(id_[g].fd, id_[g].page_no) = latest[id_[g]]
    <3>1. CASE g = f
      BY <2>2, <2>3, <2>5, <2>6, <3>1, Zenon
    <3>2. CASE g # f
      BY <2>3, <2>6, <3>2, Zenon DEF PoolStructure, TypeOK
    <3> QED BY <3>1, <3>2, Zenon
  <2> QED BY <2>3, <2>4, <2>6, SameContents, Zenon
<1> QED BY <1>1, <1>2, <1>3, <1>4, Zenon

(* A client writes through its Page*, or calls mark_dirty(). *)
LEMMA WriteContents ==
  ASSUME PoolStructure, ContentsKept, NEW h \in Handle, NEW d \in Data, Write(h, d)
  PROVE  ContentsKept'
<1>1. PICK f \in Frame : f = ptr[h] /\ id_[f] = pid[h] /\ id_[f] # NoPage
  BY Zenon DEF Write, PoolStructure, PinsMatchHandles, TypeOK
<1>2. PICK p \in PageId : p = id_[f] /\ Cached(p) /\ Allocated(p) /\ page_table[p] = f
  BY <1>1, CachedLatest, Zenon
<1>3. /\ UNCHANGED <<page_table, id_, is_dirty, ptr, flush>>
      /\ UNCHANGED <<size, content, fd2path, fd2pageno>>
      /\ data' = [data EXCEPT ![f] = d] /\ latest' = [latest EXCEPT ![p] = d]
      /\ wrote' = wrote \union {h}
  BY <1>1, <1>2, Zenon DEF Write, diskVars, ioVars, fileVars
<1>4. /\ data'[f] = d /\ \A g \in Frame \ {f} : data'[g] = data[g]
      /\ latest'[p] = d /\ \A q \in PageId \ {p} : latest'[q] = latest[q]
  BY <1>3, Zenon DEF PoolStructure, TypeOK
<1>5. \A q \in PageId : /\ OnDisk(q.fd, q.page_no)' = OnDisk(q.fd, q.page_no)
                        /\ Open(q.fd)' <=> Open(q.fd)
                        /\ Allocated(q)' <=> Allocated(q)
                        /\ Cached(q)' <=> Cached(q)
  BY <1>3, Zenon DEF OnDisk, Open, Allocated, Cached
<1>6. NoLostUpdate'
  <2>1. ASSUME NEW q \in PageId, Allocated(q) PROVE Contents(q)' = latest'[q]
    <3>1. Contents(q) = latest[q]
      BY <2>1, Zenon DEF ContentsKept, NoLostUpdate
    <3>2. CASE q = p
      BY <1>2, <1>3, <1>4, <1>5, <3>2, Zenon DEF Contents
    <3>3. CASE q # p
      <4>1. Cached(q) => page_table[q] \in Frame \ {f}
        BY <1>2, <3>3 DEF PoolStructure, TypeOK, TableMatchesFrames, Cached
      <4> QED BY <1>3, <1>4, <1>5, <3>1, <3>3, <4>1, ZenonT(30) DEF Contents
    <3> QED BY <3>2, <3>3, Zenon
  <2> QED BY <1>5, <2>1, Zenon DEF NoLostUpdate
<1>7. CleanMeansOnDisk'
  <2>1. ASSUME NEW g \in Frame, id_[g] # NoPage, ~is_dirty[g],
               \A k \in wrote' : ptr[k] # g
        PROVE  OnDisk(id_[g].fd, id_[g].page_no) = latest'[id_[g]]
    <3>1. g # f /\ \A k \in wrote : ptr[k] # g
      BY <1>1, <1>3, <2>1, Zenon
    <3>2. id_[g] \in PageId /\ page_table[id_[g]] = g
      BY <2>1, CachedLatest, Zenon
    <3>3. id_[g] # p
      BY <1>2, <3>1, <3>2, Zenon
    <3>4. OnDisk(id_[g].fd, id_[g].page_no) = latest[id_[g]]
      BY <2>1, <3>1, Zenon DEF ContentsKept, CleanMeansOnDisk
    <3> QED BY <1>4, <3>2, <3>3, <3>4, Zenon
  <2> QED BY <1>3, <2>1, Zenon DEF CleanMeansOnDisk, OnDisk
<1>8. \A q \in PageId : Open(q.fd)' /\ ~Allocated(q)'
        => latest'[q] = Zero /\ OnDisk(q.fd, q.page_no)' = Zero
  BY <1>2, <1>4, <1>5, Zenon DEF ContentsKept
<1>9. HolesAreZero'
  BY <1>3, Zenon DEF ContentsKept, HolesAreZero
<1>10. ASSUME flush.cur # NoPage, \A k \in wrote' : ptr[k] # page_table[flush.cur]
       PROVE  OnDisk(flush.cur.fd, flush.cur.page_no) = latest'[flush.cur]
  <2>1. flush.cur \in PageId /\ page_table[flush.cur] # f
    BY <1>1, <1>3, <1>10, Zenon DEF PoolStructure, TypeOK
  <2>2. flush.cur # p /\ \A k \in wrote : ptr[k] # page_table[flush.cur]
    BY <1>2, <1>3, <1>10, <2>1, Zenon
  <2>3. OnDisk(flush.cur.fd, flush.cur.page_no) = latest[flush.cur]
    BY <1>10, <2>2, Zenon DEF ContentsKept
  <2> QED BY <1>4, <2>1, <2>2, <2>3, Zenon
<1>11. flush'.cur # NoPage /\ (\A k \in wrote' : ptr'[k] # page_table'[flush'.cur])
         => OnDisk(flush.cur.fd, flush.cur.page_no)' = latest'[flush'.cur]
  BY <1>3, <1>10, Zenon DEF OnDisk
<1> QED BY <1>6, <1>7, <1>8, <1>9, <1>11, Zenon DEF ContentsKept

-----------------------------------------------------------------------------
(* At the start every page is zeros. *)
LEMMA InitContents == Init => ContentsKept
<1> SUFFICES ASSUME Init PROVE ContentsKept
  BY Zenon
<1>1. \A p \in PageId : Open(p.fd) => OnDisk(p.fd, p.page_no) = Zero
  BY Zenon DEF Init, OnDisk, Open, ZeroPages, PageId
<1>2. NoLostUpdate
  BY <1>1, Zenon DEF Init, NoLostUpdate, Allocated, Contents, Cached
<1>3. CleanMeansOnDisk /\ HolesAreZero
  BY Zenon DEF Init, CleanMeansOnDisk, HolesAreZero, ZeroPages
<1> QED BY <1>1, <1>2, <1>3, Zenon DEF ContentsKept, Init, Idle

(* Every step keeps the contents. *)
LEMMA NextContents ==
  ASSUME HandleCounts, ~ReadFaults
  PROVE  PoolStructure /\ ContentsKept /\ [Next]_vars => ContentsKept'
<1> SUFFICES ASSUME PoolStructure, ContentsKept, [Next]_vars PROVE ContentsKept'
  BY Zenon
<1>1. ASSUME NEW h \in Handle, Client(h) PROVE ContentsKept'
  <2>1. ASSUME MarkDirty(h) PROVE ContentsKept'
    <3>1. /\ UNCHANGED <<page_table, id_, data, ptr, wrote, latest, flush>>
          /\ UNCHANGED <<size, content, fd2path, fd2pageno>>
          /\ is_dirty' = [is_dirty EXCEPT ![ptr[h]] = TRUE]
      BY <2>1, Zenon DEF MarkDirty, clientVars, diskVars, ioVars, fileVars
    <3>2. \A f \in Frame : ~is_dirty'[f] => ~is_dirty[f]
      BY <3>1, Zenon DEF PoolStructure, TypeOK
    <3> QED BY <3>1, <3>2, SameContents, Zenon
  <2> QED BY <1>1, <2>1, FetchHitContents, FetchMissContents,
             FetchReadThrowsContents,
             WriteThrowsContents, NewPageContents, UnpinPageContents,
             WriteContents, Zenon
          DEF Client, Fetch, New
<1>2. ASSUME NEW p \in PageId, DeletePage(p) \/ FlushPage(p) PROVE ContentsKept'
  BY <1>2, DeletePageContents, FlushContents, Zenon
<1>3. ASSUME NEW fd \in Fd, FlushAllPages(fd) PROVE ContentsKept'
  BY <1>3, FlushContents, Zenon
<1>4. ASSUME FlushStep PROVE ContentsKept'
  BY <1>4, FlushContents, Zenon DEF FlushStep
<1>5. ASSUME UNCHANGED vars PROVE ContentsKept'
  <2>1. /\ UNCHANGED <<page_table, id_, is_dirty, data, ptr, wrote, latest, flush>>
        /\ UNCHANGED <<size, content, fd2path, fd2pageno>>
    BY <1>5, Zenon
       DEF vars, poolVars, pageVars, clientVars, diskVars, ioVars, fileVars
  <2> QED BY <2>1, SameContents, Zenon
<1> QED BY <1>1, <1>2, <1>3, <1>4, <1>5, Zenon DEF Next

-----------------------------------------------------------------------------
(* The theorems. *)

(* The handles are finitely many, so sets of them are counted as usual. *)
LEMMA HandleCountsHold == HandleCounts
<1> SUFFICES ASSUME NEW S \in SUBSET Handle
             PROVE  /\ Cardinality(S) \in Nat
                    /\ Cardinality(S) = 0 <=> S = {}
                    /\ \A h \in S : Cardinality(S \ {h}) = Cardinality(S) - 1
                    /\ \A h \in Handle \ S :
                         Cardinality(S \union {h}) = Cardinality(S) + 1
  BY DEF HandleCounts
<1>1. IsFiniteSet(S)
  BY PoolAssumption, FS_Subset
<1>2. Cardinality(S) \in Nat /\ (Cardinality(S) = 0 <=> S = {})
  BY <1>1, FS_CardinalityType, FS_EmptySet
<1>3. \A h \in S : Cardinality(S \ {h}) = Cardinality(S) - 1
  BY <1>1, FS_RemoveElement
<1>4. \A h \in Handle \ S : Cardinality(S \union {h}) = Cardinality(S) + 1
  BY <1>1, FS_AddElement
<1> QED BY <1>2, <1>3, <1>4

(* Whatever reads and writes fail, the pool's tables stay consistent: types*)
(* hold, the page table and the frames agree, no frame is given out twice, *)
(* and a page is never evicted while a client holds it.                    *)
THEOREM PoolStructureInvariant == Spec => []PoolStructure
<1>1. Init => PoolStructure
  BY InitStructure, HandleCountsHold
<1>2. PoolStructure /\ [Next]_vars => PoolStructure'
  BY NextStructure, HandleCountsHold
<1> QED BY <1>1, <1>2, PTL DEF Spec

(* Every variable keeps its type: no frame number, page id or pin count    *)
(* goes out of range.                                                      *)
THEOREM PoolTypes == Spec => []TypeOK
<1>1. PoolStructure => TypeOK
  BY DEF PoolStructure
<1> QED BY <1>1, PoolStructureInvariant, PTL

(* The page table and the frames' own page ids agree (update_page(),       *)
(* delete_page()).                                                         *)
THEOREM TableAgrees == Spec => []TableMatchesFrames
<1>1. PoolStructure => TableMatchesFrames
  BY DEF PoolStructure
<1> QED BY <1>1, PoolStructureInvariant, PTL

(* The pin count of a frame is the number of clients that hold it, and the *)
(* frame a client holds stays the frame of its page (buffer_pool_manager   *)
(* .cpp: fetch_page, new_page, unpin_page, delete_page).                   *)
THEOREM HeldPagesStay == Spec => []PinsMatchHandles
<1>1. PoolStructure => PinsMatchHandles
  BY DEF PoolStructure
<1> QED BY <1>1, PoolStructureInvariant, PTL

(* No frame is given out twice (find_victim_page, delete_page). *)
THEOREM FramesAccountedFor == Spec => []FramesAccounted
<1>1. PoolStructure => FramesAccounted
  BY DEF PoolStructure
<1> QED BY <1>1, PoolStructureInvariant, PTL

(* With reads that do not fail, the contents of every page are where the   *)
(* pool will look for them, whatever writes fail.                          *)
THEOREM ContentsInvariant ==
  ASSUME ~ReadFaults
  PROVE  Spec => []ContentsKept
<1>1. PoolStructure /\ ContentsKept /\ [Next]_vars => ContentsKept'
  BY NextContents, HandleCountsHold
<1> QED BY <1>1, InitContents, PoolStructureInvariant, PTL DEF Spec

(* With reads that do not fail, no update is ever lost, whatever writes    *)
(* fail: the next fetch_page() of a page gives what was last written to    *)
(* it.                                                                     *)
THEOREM UpdatesSurvive ==
  ASSUME ~ReadFaults
  PROVE  Spec => []NoLostUpdate
<1>1. ContentsKept => NoLostUpdate
  BY DEF ContentsKept
<1> QED BY <1>1, ContentsInvariant, PTL

(* Likewise a clean page that nobody is writing is on disk, although       *)
(* flush_page() and flush_all_pages() clear is_dirty_ after their write    *)
(* and without keeping clients out.                                        *)
THEOREM CleanPagesOnDisk ==
  ASSUME ~ReadFaults
  PROVE  Spec => []CleanMeansOnDisk
<1>1. ContentsKept => CleanMeansOnDisk
  BY DEF ContentsKept
<1> QED BY <1>1, ContentsInvariant, PTL

-----------------------------------------------------------------------------
(* A page that was to be written still is, after a step that leaves the    *)
(* page table and the files alone.                                         *)
LEMMA SameFilesReadable ==
  ASSUME PoolStructure, PagesReadable,
         UNCHANGED <<page_table, size, fd2path, fd2pageno>>,
         \A g \in Frame :
           \/ is_dirty[g]
           \/ \E k \in wrote : ptr[k] = g
           => \/ is_dirty'[g]
              \/ \E k \in wrote' : ptr'[k] = g
              \/ ~PastEnd(id_[g].fd, id_[g].page_no),
         flush'.cur # NoPage => flush'.cur = flush.cur,
         NoFrameStranded'
  PROVE  PagesReadable'
<1>1. \A q \in PageId : /\ Allocated(q)' <=> Allocated(q)
                        /\ Cached(q)' <=> Cached(q)
                        /\ PastEnd(q.fd, q.page_no)' <=> PastEnd(q.fd, q.page_no)
  BY Zenon DEF Open, Allocated, Cached, PastEnd
<1>2. ASSUME NEW q \in PageId, Allocated(q), PastEnd(q.fd, q.page_no)
      PROVE  WillBeWritten(q)'
  <2>1. WillBeWritten(q)
    BY <1>2, Zenon DEF PagesReadable
  <2>2. PICK g \in Frame : g = page_table[q] /\ id_[g] = q
    <3>1. page_table \in [PageId -> Frame \union {NoFrame}] /\ TableMatchesFrames
      BY Zenon DEF PoolStructure, TypeOK
    <3> QED BY <2>1, <3>1, Zenon DEF WillBeWritten, Cached, TableMatchesFrames
  <2>3. is_dirty[g] \/ \E k \in wrote : ptr[k] = g
    BY <2>1, <2>2, Zenon DEF WillBeWritten
  <2>4. is_dirty'[g] \/ \E k \in wrote' : ptr'[k] = g
    BY <1>2, <2>2, <2>3, Zenon
  <2> QED BY <1>1, <2>1, <2>2, <2>4, Zenon DEF WillBeWritten
<1>3. \A q \in PageId : Allocated(q)' => ~PastEnd(q.fd, q.page_no)' \/ WillBeWritten(q)'
  BY <1>1, <1>2, Zenon
<1>4. ASSUME flush'.cur # NoPage
      PROVE  ~PastEnd(flush.cur.fd, flush.cur.page_no)'
  <2>1. flush'.cur = flush.cur /\ ~PastEnd(flush.cur.fd, flush.cur.page_no)
    BY <1>4, Zenon DEF PagesReadable
  <2> QED BY <2>1, Zenon DEF PastEnd
<1> QED BY <1>3, <1>4, Zenon DEF PagesReadable

(* The common part of fetch_page() on a miss and new_page(): the victim's  *)
(* page is written if it still has to be, and the frame is pinned.         *)
LEMMA LoadReadable ==
  ASSUME PoolStructure, PagesReadable, ~Latched, HasVictim,
         NEW h \in Handle, ptr[h] = NoFrame, NEW p \in PageId, ~Cached(p), NEW d,
         Load(VictimFrame, p, d), Take(h, VictimFrame, p),
         UNCHANGED flush, UNCHANGED fileVars, wrote \subseteq wrote',
         \A q \in PageId : q # p /\ Allocated(q)' => Allocated(q),
         ~PastEnd(p.fd, p.page_no)' \/ h \in wrote'
  PROVE  PagesReadable'
<1>1. PICK f \in Frame :
        /\ f = VictimFrame /\ pin_count[f] = 0
        /\ Range(FreeListRest) = Range(free_list) \ {f}
        /\ WellFormed(ReplacerRest) /\ ReplacerRest.hash = lru.hash \ {f}
  BY VictimFrameFacts, Zenon DEF PoolStructure
<1>2. /\ free_list' = FreeListRest /\ WriteBack(f) /\ Remap(f, p)
      /\ pin_count' = [pin_count EXCEPT ![f] = 1]
      /\ is_dirty' = [is_dirty EXCEPT ![f] = FALSE]
      /\ lru' = Pin(ReplacerRest, f)
      /\ ptr' = [ptr EXCEPT ![h] = f]
  BY <1>1, Zenon DEF Load, Take
<1>3. /\ page_table'[p] = f
      /\ \A q \in PageId : q # p /\ q # id_[f] => page_table'[q] = page_table[q]
      /\ \A q \in PageId : Cached(q)' <=> q = p \/ (Cached(q) /\ q # id_[f])
  BY <1>1, <1>2, RemapFacts, Zenon
<1>4. \A q \in PageId : Open(q.fd) =>
        /\ PastEnd(q.fd, q.page_no)' => PastEnd(q.fd, q.page_no)
        /\ PastEnd(q.fd, q.page_no)' => ~(NeedsWriteBack(f) /\ q = id_[f])
  BY <1>1, <1>2, WriteBackFacts, Zenon
<1>5. \A k \in Handle : ptr[k] # f
  BY <1>1, HandleCountsHold, UnpinnedFacts, Zenon DEF PoolStructure
<1>6. /\ page_table \in [PageId -> Frame \union {NoFrame}]
      /\ is_dirty \in [Frame -> BOOLEAN] /\ pin_count \in [Frame -> Nat]
      /\ ptr \in [Handle -> Frame \union {NoFrame}] /\ wrote \subseteq Handle
      /\ TableMatchesFrames /\ NoFrame \notin Frame /\ NoPage \notin PageId
  BY NothingFacts, Zenon DEF PoolStructure, TypeOK
<1>7. ASSUME NEW q \in PageId, Allocated(q)', PastEnd(q.fd, q.page_no)'
      PROVE  WillBeWritten(q)'
  <2>1. CASE q = p
    <3>1. h \in wrote' /\ ptr'[h] = f
      BY <1>2, <1>6, <1>7, <2>1, Zenon
    <3> QED BY <1>3, <2>1, <3>1, Zenon DEF WillBeWritten
  <2>2. CASE q # p
    <3>1. Allocated(q) /\ Open(q.fd) /\ PastEnd(q.fd, q.page_no)
      BY <1>4, <1>7, <2>2, Zenon DEF Allocated
    <3>2. WillBeWritten(q)
      BY <3>1, Zenon DEF PagesReadable
    <3>3. PICK g \in Frame : g = page_table[q] /\ id_[g] = q /\ Cached(q)
      BY <1>6, <3>2, Zenon DEF WillBeWritten, Cached, TableMatchesFrames
    <3>4. g # f
      <4>1. ASSUME g = f PROVE FALSE
        <5>1. is_dirty[f]
          BY <1>5, <1>6, <3>2, <3>3, <4>1, Zenon DEF WillBeWritten
        <5>2. NeedsWriteBack(f)
          BY <1>6, <3>3, <4>1, <5>1, Zenon DEF NeedsWriteBack
        <5> QED BY <1>4, <1>7, <3>1, <3>3, <4>1, <5>2, Zenon
      <4> QED BY <4>1, Zenon
    <3>5. q # id_[f]
      BY <1>1, <1>6, <3>3, <3>4, Zenon DEF TableMatchesFrames
    <3>6. Cached(q)' /\ page_table'[q] = g
      BY <1>3, <2>2, <3>3, <3>5, Zenon
    <3>7. is_dirty'[g] \/ \E k \in wrote' : ptr'[k] = g
      <4>1. CASE is_dirty[g]
        BY <1>2, <1>6, <3>4, <4>1, Zenon
      <4>2. ASSUME NEW k \in wrote, ptr[k] = g PROVE k \in wrote' /\ ptr'[k] = g
        BY <1>2, <1>6, <4>2, Zenon
      <4> QED BY <3>2, <3>3, <4>1, <4>2, Zenon DEF WillBeWritten
    <3> QED BY <3>6, <3>7, Zenon DEF WillBeWritten
  <2> QED BY <2>1, <2>2, Zenon
<1>8. NoFrameStranded'
  <2>1. ASSUME NEW g \in Frame
        PROVE  g \in Range(free_list)' \/ g \in lru'.hash \/ pin_count'[g] > 0
    <3>1. CASE g = f
      BY <1>2, <1>6, <3>1
    <3>2. CASE g # f
      <4>1. g \in Range(free_list) \/ g \in lru.hash \/ pin_count[g] > 0
        BY Zenon DEF PagesReadable, NoFrameStranded
      <4>2. pin_count'[g] = pin_count[g]
        BY <1>2, <1>6, <3>2, Zenon
      <4>3. g \in Range(free_list) => g \in Range(free_list)'
        BY <1>1, <1>2, <3>2, Zenon
      <4>4. g \in lru.hash => g \in lru'.hash
        BY <1>1, <1>2, <3>2, PinFacts, Zenon
      <4> QED BY <4>1, <4>2, <4>3, <4>4, Zenon
    <3> QED BY <3>1, <3>2, Zenon
  <2> QED BY <2>1, Zenon DEF NoFrameStranded
<1>9. flush'.cur = NoPage
  BY NoFlush, Zenon
<1> QED BY <1>7, <1>8, <1>9, Zenon DEF PagesReadable

(* fetch_page() of a page that is not cached finds it in the file. *)
LEMMA FetchReadable ==
  ASSUME ~ReadFaults, ~WriteFaults, PoolStructure, PagesReadable,
         NEW h \in Handle, NEW p \in PageId, Fetch(h, p)
  PROVE  PagesReadable'
<1>1. CASE FetchHit(h, p)
  <2>1. PICK f \in Frame : f = page_table[p]
    BY <1>1, Zenon DEF FetchHit, Cached, PoolStructure, TypeOK
  <2>2. /\ UNCHANGED <<page_table, is_dirty, free_list, flush, wrote>>
        /\ UNCHANGED <<size, fd2path, fd2pageno>>
        /\ pin_count' = [pin_count EXCEPT ![f] = @ + 1]
        /\ lru' = Pin(lru, f) /\ ptr' = [ptr EXCEPT ![h] = f] /\ ptr[h] = NoFrame
    BY <1>1, <2>1, Zenon DEF FetchHit, CanFetch, Take, diskVars, fileVars, ioVars
  <2>3. /\ pin_count \in [Frame -> Nat] /\ WellFormed(lru) /\ wrote \subseteq Handle
        /\ ptr \in [Handle -> Frame \union {NoFrame}] /\ NoFrame \notin Frame
    BY NothingFacts, Zenon DEF PoolStructure, TypeOK
  <2>4. lru'.hash = lru.hash \ {f}
    BY <2>2, <2>3, PinFacts, Zenon
  <2>5. ASSUME NEW g \in Frame
        PROVE  g \in Range(free_list)' \/ g \in lru'.hash \/ pin_count'[g] > 0
    <3>1. g \in Range(free_list) \/ g \in lru.hash \/ pin_count[g] > 0
      BY Zenon DEF PagesReadable, NoFrameStranded
    <3>2. g = f => pin_count'[g] > 0
      BY <2>2, <2>3
    <3>3. g # f => pin_count'[g] = pin_count[g]
      BY <2>2, <2>3, Zenon
    <3> QED BY <2>2, <2>4, <3>1, <3>2, <3>3, Zenon
  <2>6. \A g \in Frame : (\E k \in wrote : ptr[k] = g) => \E k \in wrote' : ptr'[k] = g
    BY <2>2, <2>3, Zenon
  <2>7. NoFrameStranded'
    BY <2>5, Zenon DEF NoFrameStranded
  <2> QED BY <2>2, <2>6, <2>7, SameFilesReadable, Zenon
<1>2. CASE FetchMiss(h, p)
  <2>1. /\ ~Latched /\ HasVictim /\ ptr[h] = NoFrame /\ ~Cached(p)
        /\ Load(VictimFrame, p, OnDisk(p.fd, p.page_no)') /\ Take(h, VictimFrame, p)
        /\ UNCHANGED <<flush, wrote, fd2pageno>> /\ UNCHANGED fileVars
        /\ ~PastEnd(p.fd, p.page_no)'
    BY <1>2, Zenon DEF FetchMiss, CanFetch
  <2>2. \A q \in PageId : Allocated(q)' => Allocated(q)
    BY <2>1, Zenon DEF Allocated, Open, fileVars
  <2> QED BY <2>1, <2>2, LoadReadable, Zenon
<1>3. CASE FetchReadThrows(h, p)
  <2>1. /\ HasVictim /\ ~Cached(p) /\ Allocated(p) /\ UNCHANGED fileVars
        /\ WriteBack(VictimFrame) /\ PastEnd(p.fd, p.page_no)'
    BY <1>3, Zenon DEF FetchReadThrows, CanFetch
  <2>2. VictimFrame \in Frame
    BY <2>1, VictimFrameFacts, Zenon DEF PoolStructure
  <2>3. PastEnd(p.fd, p.page_no)
    BY <2>1, <2>2, WriteBackFacts, Zenon DEF Allocated
  <2> QED BY <2>1, <2>3, Zenon DEF PagesReadable, WillBeWritten
<1> QED BY <1>1, <1>2, <1>3, Zenon DEF Fetch, FetchWriteThrows, EvictThrows

(* new_page(), by clients that dirty their new pages. *)
LEMMA NewReadable ==
  ASSUME ~WriteFaults, ~CleanNewPages, PoolStructure, PagesReadable,
         NEW h \in Handle, NEW fd \in Fd, New(h, fd)
  PROVE  PagesReadable'
<1>1. NewPage(h, fd)
  BY Zenon DEF New, NewPageWriteThrows, EvictThrows
<1>2. PICK p : p = [fd |-> fd, page_no |-> fd2pageno[fd]]
  BY Zenon
<1>3. /\ ~Latched /\ HasVictim /\ ptr[h] = NoFrame
      /\ Load(VictimFrame, p, Zero) /\ Take(h, VictimFrame, p)
      /\ wrote' = wrote \union {h} /\ UNCHANGED flush /\ UNCHANGED fileVars
  BY <1>1, <1>2, Zenon DEF NewPage
<1>4. /\ fd2pageno \in [Fd -> 0..MaxPage] /\ fd2pageno[fd] < MaxPage
      /\ fd2pageno' = [fd2pageno EXCEPT ![fd] = @ + 1] /\ MaxPage \in Nat
  BY <1>1, DiskAssumption, Zenon
     DEF NewPage, AllocatePage, PoolStructure, TypeOK, DiskTypeOK
<1>5. p \in PageId /\ p.fd = fd /\ p.page_no = fd2pageno[fd]
  BY <1>2, <1>4 DEF PageId, PageNo
<1>6. ~Cached(p)
  BY <1>4, <1>5 DEF PoolStructure, Allocated
<1>7. \A q \in PageId : q # p /\ Allocated(q)' => Allocated(q)
  <2>1. ASSUME NEW q \in PageId, q # p, Open(q.fd), q.page_no < fd2pageno'[q.fd]
        PROVE  q.page_no < fd2pageno[q.fd]
    <3>1. q.fd \in Fd /\ q.page_no \in Nat
      BY <1>4 DEF PageId, PageNo
    <3>2. q.fd = fd => q.page_no # fd2pageno[fd]
      BY <1>2, <2>1 DEF PageId
    <3> QED BY <1>4, <2>1, <3>1, <3>2
  <2> QED BY <1>3, <2>1, Zenon DEF Allocated, Open, fileVars
<1> QED BY <1>3, <1>5, <1>6, <1>7, LoadReadable, Zenon

(* unpin_page(): whoever wrote the page says it is dirty. *)
LEMMA UnpinReadable ==
  ASSUME PoolStructure, PagesReadable, NEW h \in Handle, NEW dirty \in BOOLEAN,
         UnpinPage(h, dirty)
  PROVE  PagesReadable'
<1>1. PICK f \in Frame : f = ptr[h] /\ page_table[id_[f]] = f
  BY ZenonT(30) DEF UnpinPage, PoolStructure, TypeOK, PinsMatchHandles, TableMatchesFrames
<1>2. /\ UNCHANGED <<page_table, free_list, flush>>
      /\ UNCHANGED <<size, fd2path, fd2pageno>>
      /\ h \in wrote => dirty
      /\ pin_count[f] > 0 /\ pin_count' = [pin_count EXCEPT ![f] = @ - 1]
      /\ is_dirty' = [is_dirty EXCEPT ![f] = @ \/ dirty]
      /\ lru' = IF pin_count[f] = 1 THEN Unpin(lru, f) ELSE lru
      /\ ptr' = [ptr EXCEPT ![h] = NoFrame] /\ wrote' = wrote \ {h}
  BY <1>1, Zenon DEF UnpinPage, Take, StaysDirty, diskVars, fileVars, ioVars
<1>3. /\ pin_count \in [Frame -> Nat] /\ WellFormed(lru) /\ wrote \subseteq Handle
      /\ is_dirty \in [Frame -> BOOLEAN] /\ ptr \in [Handle -> Frame \union {NoFrame}]
  BY Zenon DEF PoolStructure, TypeOK
<1>4. lru'.hash = IF pin_count[f] = 1 THEN lru.hash \union {f} ELSE lru.hash
  BY <1>2, <1>3, UnpinFacts, Zenon
<1>5. ASSUME NEW g \in Frame
      PROVE  g \in Range(free_list)' \/ g \in lru'.hash \/ pin_count'[g] > 0
  <2>1. g \in Range(free_list) \/ g \in lru.hash \/ pin_count[g] > 0
    BY Zenon DEF PagesReadable, NoFrameStranded
  <2>2. g = f => pin_count'[g] > 0 \/ pin_count[f] = 1
    BY <1>2, <1>3
  <2>3. g # f => pin_count'[g] = pin_count[g]
    BY <1>2, <1>3, Zenon
  <2> QED BY <1>2, <1>4, <2>1, <2>2, <2>3, Zenon
<1>6. ASSUME NEW g \in Frame, is_dirty[g] \/ \E k \in wrote : ptr[k] = g
      PROVE  is_dirty'[g] \/ \E k \in wrote' : ptr'[k] = g
  <2>1. is_dirty[g] => is_dirty'[g]
    BY <1>2, <1>3, Zenon
  <2>2. ASSUME NEW k \in wrote, ptr[k] = g, k # h PROVE k \in wrote' /\ ptr'[k] = g
    BY <1>2, <1>3, <2>2, Zenon
  <2>3. h \in wrote /\ ptr[h] = g => is_dirty'[g]
    BY <1>1, <1>2, <1>3, Zenon
  <2> QED BY <1>6, <2>1, <2>2, <2>3, Zenon
<1>7. NoFrameStranded'
  BY <1>5, Zenon DEF NoFrameStranded
<1> QED BY <1>2, <1>6, <1>7, SameFilesReadable, Zenon

(* delete_page() writes the page back if it is dirty. *)
LEMMA DeleteReadable ==
  ASSUME PoolStructure, PagesReadable, NEW p \in PageId, DeletePage(p)
  PROVE  PagesReadable'
<1>1. /\ page_table \in [PageId -> Frame \union {NoFrame}]
      /\ is_dirty \in [Frame -> BOOLEAN] /\ pin_count \in [Frame -> Nat]
      /\ free_list \in Seq(Frame) /\ WellFormed(lru) /\ wrote \subseteq Handle
      /\ TableMatchesFrames /\ FramesAccounted
      /\ NoFrame \notin Frame /\ NoPage \notin PageId
  BY NothingFacts, Zenon DEF PoolStructure, TypeOK
<1>2. PICK f \in Frame : f = page_table[p] /\ id_[f] = p
  BY <1>1, Zenon DEF DeletePage, Cached, TableMatchesFrames
<1>3. /\ pin_count[f] = 0 /\ ~Latched /\ UNCHANGED fileVars
      /\ page_table' = [page_table EXCEPT ![p] = NoFrame]
      /\ pin_count' = [pin_count EXCEPT ![f] = 0]
      /\ is_dirty' = [is_dirty EXCEPT ![f] = FALSE]
      /\ lru' = Pin(lru, f) /\ free_list' = Append(free_list, f)
      /\ UNCHANGED <<flush, ptr, wrote, fd2pageno>>
  BY <1>2, Zenon DEF DeletePage, clientVars
<1>4. WriteBack(f)
  BY <1>1, <1>2, Zenon DEF DeletePage, WriteBack, NeedsWriteBack
<1>5. \A q \in PageId : Open(q.fd) =>
        /\ PastEnd(q.fd, q.page_no)' => PastEnd(q.fd, q.page_no)
        /\ PastEnd(q.fd, q.page_no)' => ~(NeedsWriteBack(f) /\ q = id_[f])
  BY <1>3, <1>4, WriteBackFacts, Zenon
<1>6. \A k \in Handle : ptr[k] # f
  BY <1>3, HandleCountsHold, UnpinnedFacts, Zenon DEF PoolStructure
<1>7. ASSUME NEW q \in PageId, Allocated(q)', PastEnd(q.fd, q.page_no)'
      PROVE  WillBeWritten(q)'
  <2>1. Allocated(q) /\ Open(q.fd)
    BY <1>3, <1>7, Zenon DEF Allocated, Open, fileVars
  <2>2. PastEnd(q.fd, q.page_no) /\ WillBeWritten(q)
    BY <1>5, <1>7, <2>1, Zenon DEF PagesReadable
  <2>3. PICK g \in Frame : g = page_table[q] /\ id_[g] = q /\ Cached(q)
    BY <1>1, <2>2, Zenon DEF WillBeWritten, Cached, TableMatchesFrames
  <2>4. g # f
    <3>1. ASSUME g = f PROVE FALSE
      <4>1. is_dirty[f]
        BY <1>1, <1>6, <2>2, <2>3, <3>1, Zenon DEF WillBeWritten
      <4>2. NeedsWriteBack(f)
        BY <1>1, <1>2, <4>1, Zenon DEF NeedsWriteBack
      <4> QED BY <1>5, <1>7, <2>1, <2>3, <3>1, <4>2, Zenon
    <3> QED BY <3>1, Zenon
  <2>5. page_table'[q] = g /\ is_dirty'[g] = is_dirty[g]
    BY <1>1, <1>2, <1>3, <2>3, <2>4, Zenon
  <2> QED BY <1>1, <1>3, <2>2, <2>3, <2>5, Zenon DEF WillBeWritten, Cached
<1>8. NoFrameStranded'
  <2>1. f \notin Range(free_list) /\ IsInjective(free_list)
    BY <1>1, <1>2, Zenon DEF FramesAccounted
  <2>2. Range(free_list)' = Range(free_list) \union {f}
    BY <1>1, <1>3, <2>1, AppendFacts
  <2>3. lru'.hash = lru.hash \ {f}
    BY <1>1, <1>3, PinFacts, Zenon
  <2>4. \A g \in Frame : g # f => pin_count'[g] = pin_count[g]
    BY <1>1, <1>3, Zenon
  <2> QED BY <2>2, <2>3, <2>4, Zenon DEF PagesReadable, NoFrameStranded
<1>9. flush'.cur = NoPage
  BY <1>3, NoFlush, Zenon
<1> QED BY <1>7, <1>8, <1>9, Zenon DEF PagesReadable

(* A flush that writes a page takes it into the file. *)
LEMMA FlushWriteReadable ==
  ASSUME PoolStructure, PagesReadable, UNCHANGED fileVars,
         UNCHANGED <<page_table, is_dirty, pin_count, free_list, lru>>,
         UNCHANGED <<ptr, wrote, fd2pageno>>,
         NEW p \in PageId, Cached(p), flush'.cur = p,
         WritePage(p.fd, p.page_no, data[page_table[p]])
  PROVE  PagesReadable'
<1>1. \A q \in PageId : Open(q.fd) =>
        (PastEnd(q.fd, q.page_no)' => PastEnd(q.fd, q.page_no) /\ q # p)
  BY FlushWriteFacts, Zenon
<1>2. Open(p.fd)
  BY Zenon DEF PoolStructure, Allocated
<1>3. ASSUME NEW q \in PageId, Allocated(q)', PastEnd(q.fd, q.page_no)'
      PROVE  WillBeWritten(q)'
  <2>1. Allocated(q) /\ Open(q.fd)
    BY <1>3, Zenon DEF Allocated, Open, fileVars
  <2>2. WillBeWritten(q)
    BY <1>1, <1>3, <2>1, Zenon DEF PagesReadable
  <2> QED BY <2>2, Zenon DEF WillBeWritten, Cached
<1>4. ~PastEnd(p.fd, p.page_no)'
  BY <1>1, <1>2, Zenon
<1>5. ~PastEnd(flush.cur.fd, flush.cur.page_no)'
  BY <1>4, Zenon DEF PastEnd
<1>6. NoFrameStranded'
  BY Zenon DEF PagesReadable, NoFrameStranded
<1> QED BY <1>3, <1>5, <1>6, Zenon DEF PagesReadable

(* The steps of flush_page() and flush_all_pages(). *)
LEMMA FlushReadable ==
  ASSUME ~WriteFaults, PoolStructure, PagesReadable,
         \/ \E p \in PageId : FlushPage(p)
         \/ \E fd \in Fd : FlushAllPages(fd)
         \/ FlushStep
  PROVE  PagesReadable'
<1>1. ASSUME NEW p \in PageId, FlushPage(p) PROVE PagesReadable'
  <2>1. /\ UNCHANGED <<page_table, is_dirty, pin_count, free_list, lru>>
        /\ UNCHANGED <<ptr, wrote, fd2pageno>> /\ UNCHANGED fileVars
        /\ Cached(p) /\ flush'.cur = p
        /\ WritePage(p.fd, p.page_no, data[page_table[p]])
    BY <1>1, Zenon DEF FlushPage, poolVars, pageVars, clientVars
  <2> QED BY <2>1, FlushWriteReadable, Zenon
<1>2. ASSUME NEW p \in PageId, FlushVisit(p) PROVE PagesReadable'
  <2>1. /\ UNCHANGED <<page_table, is_dirty, pin_count, free_list, lru>>
        /\ UNCHANGED <<ptr, wrote, fd2pageno>> /\ UNCHANGED fileVars /\ Cached(p)
    BY <1>2, Zenon DEF FlushVisit, poolVars, pageVars, clientVars, PoolStructure
  <2>2. CASE is_dirty[page_table[p]]
    <3>1. flush'.cur = p /\ WritePage(p.fd, p.page_no, data[page_table[p]])
      BY <1>2, <2>2 DEF FlushVisit
    <3> QED BY <2>1, <3>1, FlushWriteReadable, Zenon
  <2>3. CASE ~is_dirty[page_table[p]]
    <3>1. flush'.cur = NoPage /\ UNCHANGED <<size, fd2path, fd2pageno>>
      BY <1>2, <2>1, <2>3 DEF FlushVisit, ioVars, fileVars
    <3>2. NoFrameStranded'
      BY <2>1, Zenon DEF PagesReadable, NoFrameStranded
    <3> QED BY <2>1, <3>1, <3>2, SameFilesReadable, Zenon
  <2> QED BY <2>2, <2>3, Zenon
<1>3. ASSUME NEW fd \in Fd, FlushAllPages(fd) PROVE PagesReadable'
  <2>1. /\ UNCHANGED <<page_table, is_dirty, pin_count, free_list, lru>>
        /\ UNCHANGED <<ptr, wrote>> /\ UNCHANGED <<size, fd2path, fd2pageno>>
        /\ flush'.cur = NoPage
    BY <1>3 DEF FlushAllPages, poolVars, pageVars, clientVars, diskVars, ioVars, fileVars
  <2>2. NoFrameStranded'
    BY <2>1, Zenon DEF PagesReadable, NoFrameStranded
  <2> QED BY <2>1, <2>2, SameFilesReadable, Zenon
<1>4. ASSUME FlushClear PROVE PagesReadable'
  <2>1. PICK p \in PageId : p = flush.cur /\ Cached(p)
    BY <1>4, Zenon DEF FlushClear, PoolStructure, TypeOK
  <2>2. PICK f \in Frame : f = page_table[p] /\ id_[f] = p
    BY <2>1, ZenonT(30) DEF PoolStructure, TypeOK, TableMatchesFrames, Cached
  <2>3. /\ UNCHANGED <<page_table, pin_count, free_list, lru>>
        /\ UNCHANGED <<ptr, wrote>> /\ UNCHANGED <<size, fd2path, fd2pageno>>
        /\ is_dirty' = [is_dirty EXCEPT ![f] = FALSE]
        /\ flush.cur # NoPage /\ flush' = [flush EXCEPT !.cur = NoPage]
    BY <1>4, <2>1, <2>2, Zenon DEF FlushClear, clientVars, diskVars, ioVars, fileVars
  <2>4. flush'.cur = NoPage
    BY <2>3, Zenon DEF PoolStructure, TypeOK
  <2>5. ~PastEnd(id_[f].fd, id_[f].page_no)
    BY <2>1, <2>2, <2>3, Zenon DEF PagesReadable
  <2>6. \A g \in Frame : g # f => is_dirty'[g] = is_dirty[g]
    BY <2>3, Zenon DEF PoolStructure, TypeOK
  <2>7. NoFrameStranded'
    BY <2>3, Zenon DEF PagesReadable, NoFrameStranded
  <2>8. ASSUME NEW g \in Frame, is_dirty[g] \/ \E k \in wrote : ptr[k] = g
        PROVE  \/ is_dirty'[g]
               \/ \E k \in wrote' : ptr'[k] = g
               \/ ~PastEnd(id_[g].fd, id_[g].page_no)
    BY <2>3, <2>5, <2>6, <2>8, Zenon
  <2> QED BY <2>3, <2>4, <2>7, <2>8, SameFilesReadable, Zenon
<1> QED BY <1>1, <1>2, <1>3, <1>4, Zenon DEF FlushStep, FlushThrows

(* A client that writes through its Page* is a writer until it unpins, and *)
(* one that calls mark_dirty() has dirtied the page.                       *)
LEMMA WriterReadable ==
  ASSUME PoolStructure, PagesReadable, NEW h \in Handle,
         (\E d \in Data : Write(h, d)) \/ MarkDirty(h)
  PROVE  PagesReadable'
<1>1. /\ UNCHANGED <<page_table, pin_count, free_list, lru, flush, ptr>>
      /\ UNCHANGED <<size, fd2path, fd2pageno>> /\ wrote \subseteq wrote'
      /\ is_dirty' = is_dirty \/ is_dirty' = [is_dirty EXCEPT ![ptr[h]] = TRUE]
  BY ZenonT(30) DEF Write, MarkDirty, vars, poolVars, pageVars, clientVars, diskVars,
                    ioVars, fileVars
<1>2. \A g \in Frame : is_dirty[g] => is_dirty'[g]
  BY <1>1, Zenon DEF PoolStructure, TypeOK
<1>3. NoFrameStranded'
  BY <1>1, Zenon DEF PagesReadable, NoFrameStranded
<1> QED BY <1>1, <1>2, <1>3, SameFilesReadable, Zenon

(* The constructor frees all frames, and no page is allocated. *)
LEMMA InitReadable == Init => PagesReadable
<1> SUFFICES ASSUME Init PROVE PagesReadable
  BY Zenon
<1>1. \A p \in PageId : ~Allocated(p)
  BY DiskAssumption DEF Init, Allocated, PageId, PageNo
<1>2. flush.cur = NoPage
  BY DEF Init, Idle
<1>3. ASSUME NEW f \in Frame PROVE f \in Range(free_list)
  <2>1. f + 1 \in 1..PoolSize /\ free_list[f + 1] = f /\ DOMAIN free_list = 1..PoolSize
    BY PoolSizeAssumption DEF Init, Frame
  <2> QED BY <2>1, Zenon DEF Range
<1> QED BY <1>1, <1>2, <1>3, Zenon DEF PagesReadable, NoFrameStranded

(* When nothing fails and clients dirty their new pages, every page can be *)
(* fetched and every frame used.                                           *)
THEOREM ReadableInvariant ==
  ASSUME ~ReadFaults, ~WriteFaults, ~CleanNewPages
  PROVE  Spec => []PagesReadable
<1>1. ASSUME PoolStructure, PagesReadable, [Next]_vars PROVE PagesReadable'
  <2>1. ASSUME NEW h \in Handle, Client(h) PROVE PagesReadable'
    BY <1>1, <2>1, FetchReadable, NewReadable, UnpinReadable, WriterReadable, Zenon
       DEF Client
  <2>2. ASSUME NEW p \in PageId, DeletePage(p) \/ FlushPage(p) PROVE PagesReadable'
    BY <1>1, <2>2, DeleteReadable, FlushReadable, Zenon
  <2>3. ASSUME FlushStep \/ \E fd \in Fd : FlushAllPages(fd) PROVE PagesReadable'
    BY <1>1, <2>3, FlushReadable, Zenon
  <2>4. CASE UNCHANGED vars
    <3>1. UNCHANGED <<page_table, is_dirty, pin_count, free_list, lru, flush, ptr, wrote>>
          /\ UNCHANGED <<size, fd2path, fd2pageno>>
      BY <2>4, Zenon DEF vars, poolVars, pageVars, clientVars, diskVars, ioVars, fileVars
    <3>2. NoFrameStranded'
      BY <1>1, <3>1, Zenon DEF PagesReadable, NoFrameStranded
    <3> QED BY <1>1, <3>1, <3>2, SameFilesReadable, Zenon
  <2> QED BY <1>1, <2>1, <2>2, <2>3, <2>4, Zenon DEF Next
<1> QED BY <1>1, InitReadable, PoolStructureInvariant, PTL DEF Spec

(* Then every allocated page is cached or in the file: fetch_page() does   *)
(* not run past its end.                                                   *)
THEOREM AllocatedPagesReadable ==
  ASSUME ~ReadFaults, ~WriteFaults, ~CleanNewPages
  PROVE  Spec => []AllocatedReadable
<1>1. PagesReadable => AllocatedReadable
  BY DEF PagesReadable, WillBeWritten, AllocatedReadable
<1> QED BY <1>1, ReadableInvariant, PTL

(* And no frame drops out of use: one that is not free can be evicted as   *)
(* soon as nobody holds it.                                                *)
THEOREM FramesStayUsable ==
  ASSUME ~ReadFaults, ~WriteFaults, ~CleanNewPages
  PROVE  Spec => []NoFrameStranded
<1>1. PagesReadable => NoFrameStranded
  BY DEF PagesReadable
<1> QED BY <1>1, ReadableInvariant, PTL
=============================================================================
