-------------------------- MODULE BufferPoolProofs --------------------------
(***************************************************************************)
(* Proofs about the buffer pool and its replacer, for every pool size,     *)
(* every set of files and handles and every combination of faults: what    *)
(* the operations on the replacer's list and on the free list do, the pool *)
(* (BufferPool), and the replacer on its own (LRUReplacer).                *)
(***************************************************************************)
EXTENDS BufferPool, LRUReplacer, TLAPS

(* Taking one element out of a sequence moves the later ones up by one     *)
(* (erase() in pin() of lru_replacer.cpp).                                 *)
LEMMA RemoveAtElements ==
  ASSUME NEW S, NEW s \in Seq(S), NEW i \in 1..Len(s)
  PROVE  /\ RemoveAt(s, i) \in Seq(S)
         /\ Len(RemoveAt(s, i)) = Len(s) - 1
         /\ \A k \in 1..(Len(s) - 1) :
              RemoveAt(s, i)[k] = IF k < i THEN s[k] ELSE s[k + 1]
<1> DEFINE a == SubSeq(s, 1, i - 1)
           b == SubSeq(s, i + 1, Len(s))
           t == a \o b
<1>1. a \in Seq(S) /\ Len(a) = i - 1 /\ \A k \in 1..(i - 1) : a[k] = s[k]
  OBVIOUS
<1>2. /\ b \in Seq(S) /\ Len(b) = Len(s) - i
      /\ \A k \in 1..(Len(s) - i) : b[k] = s[i + k]
  OBVIOUS
<1> HIDE DEF a, b
<1>3. t \in Seq(S) /\ Len(t) = Len(s) - 1
  <2>1. a \in Seq(S) /\ b \in Seq(S)
    BY <1>1, <1>2
  <2>2. t \in Seq(S) /\ Len(t) = Len(a) + Len(b)
    BY ONLY <2>1
  <2> QED BY <2>2, <1>1, <1>2
<1>4. \A k \in 1..Len(t) : t[k] = IF k < i THEN s[k] ELSE s[k + 1]
  BY <1>1, <1>2, <1>3
<1> QED BY <1>3, <1>4, Zenon DEF t, a, b, RemoveAt

(* The elements of a sequence over a set are in the set. *)
LEMMA RangeFacts == \A S : \A s \in Seq(S) : Range(s) \subseteq S
BY DEF Range

(* Taking one element out of a sequence without repetitions leaves the     *)
(* others, without repetitions.                                            *)
LEMMA RemoveAtFacts ==
  ASSUME NEW S, NEW s \in Seq(S), IsInjective(s), NEW i \in 1..Len(s)
  PROVE  /\ RemoveAt(s, i) \in Seq(S)
         /\ IsInjective(RemoveAt(s, i))
         /\ Range(RemoveAt(s, i)) = Range(s) \ {s[i]}
<1> DEFINE t == RemoveAt(s, i)
<1>3. t \in Seq(S) /\ Len(t) = Len(s) - 1
  BY RemoveAtElements
<1>4. \A k \in 1..Len(t) : t[k] = IF k < i THEN s[k] ELSE s[k + 1]
  BY <1>3, RemoveAtElements, Zenon
<1>5. DOMAIN t = 1..Len(t) /\ DOMAIN s = 1..Len(s)
  BY <1>3
<1> HIDE DEF t
<1>6. IsInjective(t)
  <2>1. SUFFICES ASSUME NEW k \in 1..Len(t), NEW m \in 1..Len(t), t[k] = t[m]
                 PROVE  k = m
    BY <1>5 DEF IsInjective
  <2> DEFINE At(n) == IF n < i THEN n ELSE n + 1
  <2>2. At(k) \in DOMAIN s /\ At(m) \in DOMAIN s
    BY <1>3, <1>5
  <2>3. t[k] = s[At(k)] /\ t[m] = s[At(m)]
    BY <1>4
  <2>4. At(k) = At(m)
    BY <2>1, <2>2, <2>3, Zenon DEF IsInjective
  <2> QED BY <1>3, <2>4
<1>7. Range(t) \subseteq Range(s) \ {s[i]}
  <2>1. ASSUME NEW k \in 1..Len(t) PROVE t[k] \in Range(s) /\ t[k] # s[i]
    <3>1. PICK n \in 1..Len(s) : n # i /\ t[k] = s[n]
      <4>1. CASE k < i
        BY <1>3, <1>4, <4>1
      <4>2. CASE k >= i
        <5>1. k + 1 \in 1..Len(s) /\ k + 1 # i /\ t[k] = s[k + 1]
          BY <1>3, <1>4, <4>2
        <5> QED BY <5>1
      <4> QED BY <4>1, <4>2
    <3> QED BY <1>5, <3>1, Zenon DEF IsInjective, Range
  <2> QED BY <1>5, <2>1, Zenon DEF Range
<1>8. ASSUME NEW k \in 1..Len(s), s[k] # s[i] PROVE s[k] \in Range(t)
  <2>1. CASE k < i
    BY <2>1, <1>3, <1>4, <1>5, SMTT(30) DEF Range
  <2>2. CASE k > i
    <3>1. k - 1 \in 1..Len(t) /\ t[k - 1] = s[k]
      BY <2>2, <1>3, <1>4
    <3> QED BY <3>1, <1>5 DEF Range
  <2> QED BY <1>8, <2>1, <2>2
<1>9. Range(t) = Range(s) \ {s[i]}
  BY <1>5, <1>7, <1>8, Zenon DEF Range
<1> QED BY <1>3, <1>6, <1>9, Zenon DEF t

(* The same for the last element (victim()) ... *)
LEMMA FrontFacts ==
  ASSUME NEW S, NEW s \in Seq(S), s # << >>, IsInjective(s)
  PROVE  /\ Front(s) \in Seq(S)
         /\ IsInjective(Front(s))
         /\ Last(s) \in S
         /\ Last(s) \in Range(s)
         /\ Range(Front(s)) = Range(s) \ {Last(s)}
<1> DEFINE t == Front(s)
<1>1. Len(s) \in Nat \ {0} /\ DOMAIN s = 1..Len(s)
  OBVIOUS
<1>2. /\ t \in Seq(S) /\ Len(t) = Len(s) - 1
      /\ \A k \in 1..(Len(s) - 1) : t[k] = s[k]
  BY <1>1 DEF Front
<1>3. DOMAIN t = 1..(Len(s) - 1)
  BY <1>2
<1> HIDE DEF t
<1>4. Last(s) \in S /\ Last(s) \in Range(s)
  BY <1>1 DEF Last, Range
<1>5. IsInjective(t)
  BY <1>1, <1>2, <1>3 DEF IsInjective
<1>6. Range(t) = Range(s) \ {Last(s)}
  <2>1. \A k \in 1..(Len(s) - 1) : t[k] # Last(s)
    BY <1>1, <1>2 DEF IsInjective, Last
  <2>2. \A k \in 1..Len(s) : s[k] # Last(s) => k \in 1..(Len(s) - 1)
    BY <1>1 DEF Last
  <2> QED BY <1>1, <1>2, <1>3, <2>1, <2>2 DEF Range
<1> QED BY <1>2, <1>4, <1>5, <1>6 DEF t

(* ... and for the first (pop_front() of free_list_). *)
LEMMA TailFacts ==
  ASSUME NEW S, NEW s \in Seq(S), s # << >>, IsInjective(s)
  PROVE  /\ Tail(s) \in Seq(S)
         /\ IsInjective(Tail(s))
         /\ Head(s) \in S
         /\ Head(s) \in Range(s)
         /\ Range(Tail(s)) = Range(s) \ {Head(s)}
<1> DEFINE t == Tail(s)
<1>1. Len(s) \in Nat \ {0} /\ DOMAIN s = 1..Len(s)
  OBVIOUS
<1>2. /\ t \in Seq(S) /\ Len(t) = Len(s) - 1
      /\ \A k \in 1..(Len(s) - 1) : t[k] = s[k + 1]
  OBVIOUS
<1>3. DOMAIN t = 1..(Len(s) - 1)
  BY <1>2
<1> HIDE DEF t
<1>4. Head(s) = s[1]
  OBVIOUS
<1>5. Head(s) \in S /\ Head(s) \in Range(s)
  BY <1>1, <1>4 DEF Range
<1>6. IsInjective(t)
  <2>1. \A k \in 1..(Len(s) - 1) : k + 1 \in DOMAIN s /\ t[k] = s[k + 1]
    BY <1>1, <1>2
  <2>2. \A k, m \in 1..(Len(s) - 1) : t[k] = t[m] => k + 1 = m + 1
    BY <2>1 DEF IsInjective
  <2> QED BY <1>1, <1>3, <2>2 DEF IsInjective
<1>7. Range(t) = Range(s) \ {Head(s)}
  <2>1. \A k \in 1..(Len(s) - 1) : t[k] # Head(s) /\ t[k] \in Range(s)
    BY <1>1, <1>2, <1>4 DEF IsInjective, Range
  <2>2. ASSUME NEW k \in 1..Len(s), s[k] # Head(s) PROVE s[k] \in Range(t)
    <3>1. k - 1 \in 1..(Len(s) - 1) /\ t[k - 1] = s[k]
      BY <1>1, <1>2, <1>4, <2>2
    <3> QED BY <3>1, <1>3 DEF Range
  <2> QED BY <1>1, <1>3, <2>1, <2>2 DEF Range
<1> QED BY <1>2, <1>5, <1>6, <1>7 DEF t

(* An element that is not in a sequence can be added at the front          *)
(* (push_front() in unpin()) ...                                           *)
LEMMA ConsFacts ==
  ASSUME NEW S, NEW s \in Seq(S), IsInjective(s), NEW e \in S, e \notin Range(s)
  PROVE  /\ <<e>> \o s \in Seq(S)
         /\ IsInjective(<<e>> \o s)
         /\ Range(<<e>> \o s) = Range(s) \union {e}
<1> DEFINE t == <<e>> \o s
<1>1. Len(s) \in Nat /\ DOMAIN s = 1..Len(s)
  OBVIOUS
<1>2. <<e>> \in Seq(S) /\ Len(<<e>>) = 1 /\ <<e>>[1] = e
  OBVIOUS
<1>3. /\ t \in Seq(S) /\ Len(t) = Len(s) + 1
      /\ \A k \in 1..(Len(s) + 1) : t[k] = IF k = 1 THEN e ELSE s[k - 1]
  BY <1>1, <1>2
<1>4. DOMAIN t = 1..(Len(s) + 1)
  BY <1>3
<1> HIDE DEF t
<1>5. IsInjective(t)
  <2>1. \A k \in 1..Len(s) : s[k] # e
    BY <1>1 DEF Range
  <2>2. \A k \in 2..(Len(s) + 1) : k - 1 \in DOMAIN s /\ t[k] = s[k - 1]
    BY <1>1, <1>3
  <2>3. t[1] = e /\ \A k \in 2..(Len(s) + 1) : t[k] # e
    BY <1>1, <1>3, <2>1, <2>2
  <2>4. \A k, m \in 2..(Len(s) + 1) : t[k] = t[m] => k - 1 = m - 1
    BY <2>2 DEF IsInjective
  <2>5. \A k \in 1..(Len(s) + 1) : k = 1 \/ k \in 2..(Len(s) + 1)
    BY <1>1
  <2>6. SUFFICES ASSUME NEW k \in 1..(Len(s) + 1), NEW m \in 1..(Len(s) + 1),
                        t[k] = t[m]
                 PROVE  k = m
    BY <1>4 DEF IsInjective
  <2> QED BY <1>1, <2>3, <2>4, <2>5, <2>6
<1>6. Range(t) = Range(s) \union {e}
  <2>1. \A k \in 1..(Len(s) + 1) : t[k] \in Range(s) \union {e}
    BY <1>1, <1>3 DEF Range
  <2>2. e \in Range(t)
    BY <1>1, <1>3, <1>4 DEF Range
  <2>3. ASSUME NEW k \in 1..Len(s) PROVE s[k] \in Range(t)
    <3>1. k + 1 \in 1..(Len(s) + 1) /\ t[k + 1] = s[k]
      BY <1>1, <1>3
    <3> QED BY <3>1, <1>4 DEF Range
  <2> QED BY <1>1, <1>4, <2>1, <2>2, <2>3 DEF Range
<1> QED BY <1>3, <1>5, <1>6 DEF t

(* ... or at the back (push_back() of free_list_). *)
LEMMA AppendFacts ==
  ASSUME NEW S, NEW s \in Seq(S), IsInjective(s), NEW e \in S, e \notin Range(s)
  PROVE  /\ Append(s, e) \in Seq(S)
         /\ IsInjective(Append(s, e))
         /\ Range(Append(s, e)) = Range(s) \union {e}
<1> DEFINE t == Append(s, e)
<1>1. Len(s) \in Nat /\ DOMAIN s = 1..Len(s)
  OBVIOUS
<1>2. /\ t \in Seq(S) /\ Len(t) = Len(s) + 1
      /\ \A k \in 1..Len(s) : t[k] = s[k]
      /\ t[Len(s) + 1] = e
  OBVIOUS
<1>3. DOMAIN t = 1..(Len(s) + 1)
  BY <1>2
<1> HIDE DEF t
<1>4. \A k \in 1..Len(s) : s[k] # e
  BY <1>1 DEF Range
<1>5. \A k \in 1..(Len(s) + 1) : k \in 1..Len(s) \/ k = Len(s) + 1
  BY <1>1
<1>6. IsInjective(t)
  BY <1>1, <1>2, <1>3, <1>4, <1>5 DEF IsInjective
<1>7. Range(t) = Range(s) \union {e}
  BY <1>1, <1>2, <1>3, <1>5 DEF Range
<1> QED BY <1>2, <1>6, <1>7 DEF t

-----------------------------------------------------------------------------
(* pin() keeps the list and the hash together and takes the frame out. *)
LEMMA PinFacts ==
  ASSUME NEW r, WellFormed(r), NEW f
  PROVE  WellFormed(Pin(r, f)) /\ Pin(r, f).hash = r.hash \ {f}
<1>1. CASE f \notin r.hash
  BY <1>1 DEF Pin
<1>2. CASE f \in r.hash
  <2> DEFINE i == CHOOSE k \in DOMAIN r.list : r.list[k] = f
  <2>1. i \in DOMAIN r.list /\ r.list[i] = f
    BY <1>2 DEF WellFormed, Range
  <2>2. r.list \in Seq(Frame) /\ IsInjective(r.list) /\ r.hash = Range(r.list)
    BY DEF WellFormed
  <2>3. i \in 1..Len(r.list)
    BY <2>1, <2>2
  <2> HIDE DEF i
  <2>4. /\ RemoveAt(r.list, i) \in Seq(Frame)
        /\ IsInjective(RemoveAt(r.list, i))
        /\ Range(RemoveAt(r.list, i)) = r.hash \ {f}
    BY <2>1, <2>2, <2>3, RemoveAtFacts
  <2>5. Pin(r, f) = [list |-> RemoveAt(r.list, i), hash |-> r.hash \ {f}]
    BY <1>2 DEF Pin, i
  <2> QED BY <2>4, <2>5 DEF WellFormed
<1> QED BY <1>1, <1>2

(* unpin() keeps the list and the hash together and puts the frame in. *)
LEMMA UnpinFacts ==
  ASSUME NEW r, WellFormed(r), NEW f \in Frame
  PROVE  WellFormed(Unpin(r, f)) /\ Unpin(r, f).hash = r.hash \union {f}
<1>1. CASE f \in r.hash
  BY <1>1 DEF Unpin
<1>2. CASE f \notin r.hash
  <2>1. r.list \in Seq(Frame) /\ IsInjective(r.list) /\ r.hash = Range(r.list)
    BY DEF WellFormed
  <2>2. /\ <<f>> \o r.list \in Seq(Frame)
        /\ IsInjective(<<f>> \o r.list)
        /\ Range(<<f>> \o r.list) = r.hash \union {f}
    BY <1>2, <2>1, ConsFacts
  <2>3. Unpin(r, f) = [list |-> <<f>> \o r.list, hash |-> r.hash \union {f}]
    BY <1>2 DEF Unpin
  <2> QED BY <2>2, <2>3 DEF WellFormed
<1> QED BY <1>1, <1>2

(* victim() takes out a frame that was in. *)
LEMMA VictimFacts ==
  ASSUME NEW r, WellFormed(r), r.list # << >>
  PROVE  /\ VictimOf(r) \in r.hash
         /\ VictimOf(r) \in Frame
         /\ WellFormed(Victim(r))
         /\ Victim(r).hash = r.hash \ {VictimOf(r)}
<1>1. r.list \in Seq(Frame) /\ IsInjective(r.list) /\ r.hash = Range(r.list)
  BY DEF WellFormed
<1>2. /\ Front(r.list) \in Seq(Frame)
      /\ IsInjective(Front(r.list))
      /\ Last(r.list) \in Frame
      /\ Last(r.list) \in r.hash
      /\ Range(Front(r.list)) = r.hash \ {Last(r.list)}
  <2> DEFINE s == r.list
  <2>1. s \in Seq(Frame) /\ s # << >> /\ IsInjective(s)
    BY <1>1
  <2> HIDE DEF s
  <2>2. /\ Front(s) \in Seq(Frame)
        /\ IsInjective(Front(s))
        /\ Last(s) \in Frame
        /\ Last(s) \in Range(s)
        /\ Range(Front(s)) = Range(s) \ {Last(s)}
    BY <2>1, FrontFacts
  <2> QED BY <1>1, <2>2 DEF s
<1>3. Victim(r) = [list |-> Front(r.list), hash |-> r.hash \ {Last(r.list)}]
  BY DEF Victim, VictimOf
<1> QED BY <1>2, <1>3 DEF WellFormed, VictimOf

(* The frames of a well-formed replacer are frames of the pool. *)
LEMMA HashFacts ==
  ASSUME NEW r, WellFormed(r)
  PROVE  r.hash \subseteq Frame /\ (r.list # << >> <=> r.hash # {})
<1>1. r.list \in Seq(Frame) /\ r.hash = Range(r.list)
  BY DEF WellFormed
<1>2. DOMAIN r.list = 1..Len(r.list) /\ Len(r.list) \in Nat
  BY <1>1
<1>3. r.hash \subseteq Frame
  BY <1>1, <1>2 DEF Range
<1>4. r.list # << >> => r.list[1] \in r.hash
  BY <1>1, <1>2 DEF Range
<1>5. r.list = << >> => r.hash = {}
  BY <1>1 DEF Range
<1> QED BY <1>3, <1>4, <1>5

-----------------------------------------------------------------------------
(* NoFrame and NoPage are neither a frame nor a page. *)
LEMMA NothingFacts == NoFrame \notin Frame /\ NoPage \notin PageId
BY PoolSizeAssumption, DiskAssumption DEF Frame, NoFrame, PageId, NoPage, Fd

(* While latch_ is free, no flush is in progress. *)
LEMMA NoFlush == ~Latched => flush.todo = {} /\ flush.cur = NoPage
BY DEF Latched, Idle

(* The frame find_victim_page() gives belongs to nobody and leaves both    *)
(* lists.                                                                  *)
LEMMA VictimFrameFacts ==
  ASSUME TypeOK, FramesAccounted, HasVictim
  PROVE  /\ VictimFrame \in Frame
         /\ pin_count[VictimFrame] = 0
         /\ FreeListRest \in Seq(Frame)
         /\ IsInjective(FreeListRest)
         /\ Range(FreeListRest) = Range(free_list) \ {VictimFrame}
         /\ WellFormed(ReplacerRest)
         /\ ReplacerRest.hash = lru.hash \ {VictimFrame}
<1>1. free_list \in Seq(Frame) /\ IsInjective(free_list) /\ WellFormed(lru)
  BY Zenon DEF TypeOK, FramesAccounted
<1>2. CASE free_list # << >>
  <2>1. VictimFrame = Head(free_list) /\ FreeListRest = Tail(free_list)
        /\ ReplacerRest = lru
    BY <1>2, Zenon DEF VictimFrame, FreeListRest, ReplacerRest
  <2>2. /\ Head(free_list) \in Frame
        /\ Head(free_list) \in Range(free_list)
        /\ Tail(free_list) \in Seq(Frame)
        /\ IsInjective(Tail(free_list))
        /\ Range(Tail(free_list)) = Range(free_list) \ {Head(free_list)}
    BY <1>1, <1>2, TailFacts, Zenon
  <2>3. Head(free_list) \notin lru.hash /\ pin_count[Head(free_list)] = 0
    BY <2>2, Zenon DEF FramesAccounted
  <2> QED BY <1>1, <2>1, <2>2, <2>3, Zenon
<1>3. CASE free_list = << >>
  <2>1. VictimFrame = VictimOf(lru) /\ FreeListRest = free_list
        /\ ReplacerRest = Victim(lru) /\ lru.list # << >>
    BY <1>3, Zenon DEF VictimFrame, FreeListRest, ReplacerRest, HasVictim
  <2>2. /\ VictimOf(lru) \in lru.hash
        /\ VictimOf(lru) \in Frame
        /\ WellFormed(Victim(lru))
        /\ Victim(lru).hash = lru.hash \ {VictimOf(lru)}
    BY <1>1, <2>1, VictimFacts, Zenon
  <2>3. Range(free_list) = {}
    BY <1>3 DEF Range
  <2>4. pin_count[VictimOf(lru)] = 0
    BY <2>2, Zenon DEF FramesAccounted
  <2> QED BY <1>1, <2>1, <2>2, <2>3, <2>4, Zenon
<1> QED BY <1>2, <1>3, Zenon

(* What write_page() does to the file, seen through the descriptors. *)
LEMMA WritePageFacts ==
  ASSUME DiskTypeOK, FdTablesInverse, UNCHANGED fileVars,
         NEW w \in PageId, Open(w.fd), NEW d \in Data,
         WritePage(w.fd, w.page_no, d)
  PROVE  /\ size' \in [Path -> 0..MaxPage]
         /\ content' \in [Path -> [PageNo -> Data]]
         /\ \A q \in PageId : Open(q.fd) =>
              /\ OnDisk(q.fd, q.page_no)'
                   = IF q = w THEN d ELSE OnDisk(q.fd, q.page_no)
              /\ PastEnd(q.fd, q.page_no)' => PastEnd(q.fd, q.page_no) /\ q # w
         /\ HolesAreZero => HolesAreZero'
<1> DEFINE path == fd2path[w.fd]
<1>1. w.fd \in Fd /\ w.page_no \in PageNo /\ path \in Path
  BY Zenon DEF PageId, Open, DiskTypeOK
<1>2. MaxPage \in Nat /\ w.page_no \in Int /\ w.page_no >= 0 /\ w.page_no + 1 <= MaxPage
  BY <1>1, DiskAssumption DEF PageNo
<1>3. size' = [size EXCEPT ![path] = IF w.page_no >= @ THEN w.page_no + 1 ELSE @]
  BY Zenon DEF WritePage
<1>4. content' = [content EXCEPT ![path] = [@ EXCEPT ![w.page_no] = d]]
  BY Zenon DEF WritePage
<1>5. size \in [Path -> 0..MaxPage] /\ content \in [Path -> [PageNo -> Data]]
  BY Zenon DEF DiskTypeOK
<1> HIDE DEF path
<1>6. size' \in [Path -> 0..MaxPage]
  BY <1>1, <1>2, <1>3, <1>5
<1>7. content' \in [Path -> [PageNo -> Data]]
  BY <1>1, <1>4, <1>5, Zenon
<1>8. ASSUME NEW q \in PageId, Open(q.fd)
      PROVE  /\ OnDisk(q.fd, q.page_no)'
                  = IF q = w THEN d ELSE OnDisk(q.fd, q.page_no)
             /\ PastEnd(q.fd, q.page_no)' => PastEnd(q.fd, q.page_no) /\ q # w
  <2>1. q.fd \in Fd /\ q.page_no \in PageNo /\ fd2path[q.fd] \in Path
    BY <1>8, Zenon DEF PageId, Open, DiskTypeOK
  <2>2. fd2path[q.fd] = path <=> q.fd = w.fd
    BY <1>1, <2>1 DEF FdTablesInverse, path
  <2>3. q = w <=> q.fd = w.fd /\ q.page_no = w.page_no
    BY DEF PageId
  <2>4. fd2path' = fd2path
    BY Zenon DEF fileVars
  <2>5. OnDisk(q.fd, q.page_no)' = IF q = w THEN d ELSE OnDisk(q.fd, q.page_no)
    BY <1>1, <1>4, <1>5, <2>1, <2>2, <2>3, <2>4, Zenon DEF OnDisk
  <2>6. PastEnd(q.fd, q.page_no)' => PastEnd(q.fd, q.page_no) /\ q # w
    BY <1>1, <1>2, <1>3, <1>5, <2>1, <2>2, <2>3, <2>4 DEF PastEnd, PageNo
  <2> QED BY <2>5, <2>6, Zenon
<1>9. HolesAreZero => HolesAreZero'
  BY <1>1, <1>2, <1>3, <1>4, <1>5 DEF HolesAreZero, PageNo
<1> QED BY <1>6, <1>7, <1>8, <1>9, Zenon

(* update_page() writes the frame's old page, and no other, if it is dirty. *)
LEMMA WriteBackFacts ==
  ASSUME PoolStructure, UNCHANGED fileVars, NEW f \in Frame, WriteBack(f)
  PROVE  /\ size' \in [Path -> 0..MaxPage]
         /\ content' \in [Path -> [PageNo -> Data]]
         /\ \A q \in PageId : Open(q.fd) =>
              /\ OnDisk(q.fd, q.page_no)'
                   = IF NeedsWriteBack(f) /\ q = id_[f] THEN data[f]
                     ELSE OnDisk(q.fd, q.page_no)
              /\ PastEnd(q.fd, q.page_no)' => PastEnd(q.fd, q.page_no)
              /\ PastEnd(q.fd, q.page_no)' => ~(NeedsWriteBack(f) /\ q = id_[f])
         /\ HolesAreZero => HolesAreZero'
<1>1. DiskTypeOK /\ FdTablesInverse
  BY Zenon DEF PoolStructure, TypeOK
<1>2. CASE NeedsWriteBack(f)
  <2>1. id_[f] \in PageId /\ data[f] \in Data
    BY <1>2, Zenon DEF NeedsWriteBack, PoolStructure, TypeOK
  <2>2. page_table[id_[f]] = f /\ f # NoFrame
    BY <1>2, PoolSizeAssumption
       DEF NeedsWriteBack, PoolStructure, TableMatchesFrames, Frame, NoFrame
  <2>3. Open(id_[f].fd)
    BY <2>1, <2>2, Zenon DEF PoolStructure, Cached, Allocated
  <2>4. WritePage(id_[f].fd, id_[f].page_no, data[f])
    BY <1>2, Zenon DEF WriteBack
  <2> QED BY <1>1, <1>2, <2>1, <2>3, <2>4, WritePageFacts, Zenon
<1>3. CASE ~NeedsWriteBack(f)
  <2>1. size' = size /\ content' = content /\ fd2path' = fd2path
    BY <1>3, Zenon DEF WriteBack, ioVars, fileVars
  <2>2. size \in [Path -> 0..MaxPage] /\ content \in [Path -> [PageNo -> Data]]
    BY <1>1, Zenon DEF DiskTypeOK
  <2> QED BY <1>3, <2>1, <2>2, Zenon DEF OnDisk, PastEnd, HolesAreZero
<1> QED BY <1>2, <1>3, Zenon

(* How the number of handles in a set changes with one of them.  It holds  *)
(* of every finite set of handles (see BufferPoolTheorems); the lemmas     *)
(* about single steps take it as a hypothesis.                             *)
HandleCounts ==
  \A S \in SUBSET Handle :
    /\ Cardinality(S) \in Nat
    /\ Cardinality(S) = 0 <=> S = {}
    /\ \A h \in S : Cardinality(S \ {h}) = Cardinality(S) - 1
    /\ \A h \in Handle \ S : Cardinality(S \union {h}) = Cardinality(S) + 1

(* A handle that takes a frame is one more pin, one that gives it back one *)
(* less.                                                                   *)
LEMMA TakeFacts ==
  ASSUME HandleCounts, TypeOK, NEW h \in Handle, NEW g \in Frame \union {NoFrame},
         ptr' = [ptr EXCEPT ![h] = g], NEW f \in Frame
  PROVE  /\ Cardinality(Holders(f)) \in Nat
         /\ f # g /\ f # ptr[h] => Holders(f)' = Holders(f)
         /\ f = g /\ f # ptr[h] =>
              Cardinality(Holders(f)') = Cardinality(Holders(f)) + 1
         /\ f # g /\ f = ptr[h] =>
              Cardinality(Holders(f)') = Cardinality(Holders(f)) - 1
<1>1. Holders(f) \in SUBSET Handle
  BY Zenon DEF Holders
<1>2. ptr \in [Handle -> Frame \union {NoFrame}]
  BY Zenon DEF TypeOK
<1>3. Cardinality(Holders(f)) \in Nat
  BY <1>1, Zenon DEF HandleCounts
<1>4. f # g /\ f # ptr[h] => Holders(f)' = Holders(f)
  BY <1>2, Zenon DEF Holders
<1>5. ASSUME f = g, f # ptr[h]
      PROVE  Cardinality(Holders(f)') = Cardinality(Holders(f)) + 1
  <2>1. Holders(f)' = Holders(f) \union {h} /\ h \notin Holders(f)
    BY <1>2, <1>5, Zenon DEF Holders
  <2> QED BY <1>1, <2>1, ZenonT(30) DEF HandleCounts
<1>6. ASSUME f # g, f = ptr[h]
      PROVE  Cardinality(Holders(f)') = Cardinality(Holders(f)) - 1
  <2>1. Holders(f)' = Holders(f) \ {h} /\ h \in Holders(f)
    BY <1>2, <1>6, Zenon DEF Holders
  <2> QED BY <1>1, <2>1 DEF HandleCounts
<1> QED BY <1>3, <1>4, <1>5, <1>6, Zenon

(* A frame with pin_count_ 0 is held by nobody. *)
LEMMA UnpinnedFacts ==
  ASSUME HandleCounts, PinsMatchHandles, NEW f \in Frame, pin_count[f] = 0
  PROVE  \A k \in Handle : ptr[k] # f
<1>1. Holders(f) \in SUBSET Handle
  BY Zenon DEF Holders
<1>2. Cardinality(Holders(f)) = 0
  BY Zenon DEF PinsMatchHandles
<1>3. Holders(f) = {}
  BY <1>1, <1>2, Zenon DEF HandleCounts
<1> QED BY <1>3, Zenon DEF Holders

-----------------------------------------------------------------------------
(* update_page() keeps the page table and the frames' ids together, when   *)
(* the new page is not cached.                                             *)
LEMMA RemapFacts ==
  ASSUME PoolStructure, NEW f \in Frame, NEW p \in PageId, ~Cached(p), Remap(f, p)
  PROVE  /\ page_table' \in [PageId -> Frame \union {NoFrame}]
         /\ id_' \in [Frame -> PageId \union {NoPage}]
         /\ TableMatchesFrames'
         /\ \A q \in PageId : Cached(q)' <=> q = p \/ (Cached(q) /\ q # id_[f])
         /\ id_'[f] = p /\ page_table'[p] = f /\ p # NoPage
         /\ \A g \in Frame \ {f} : id_'[g] = id_[g]
         /\ \A q \in PageId : q # p /\ q # id_[f] => page_table'[q] = page_table[q]
<1>1. /\ page_table \in [PageId -> Frame \union {NoFrame}]
      /\ id_ \in [Frame -> PageId \union {NoPage}]
      /\ TableMatchesFrames
  BY Zenon DEF PoolStructure, TypeOK
<1>2. f # NoFrame /\ NoFrame \notin Frame /\ p # NoPage /\ NoPage \notin PageId
  BY NothingFacts, Zenon
<1>3. /\ page_table' = [q \in PageId |-> IF q = p THEN f
                                         ELSE IF q = id_[f] THEN NoFrame
                                         ELSE page_table[q]]
      /\ id_' = [id_ EXCEPT ![f] = p]
  BY Zenon DEF Remap
<1>4. /\ page_table' \in [PageId -> Frame \union {NoFrame}]
      /\ id_' \in [Frame -> PageId \union {NoPage}]
  BY <1>1, <1>3, Zenon
<1>5. \A q \in PageId : Cached(q)' <=> q = p \/ (Cached(q) /\ q # id_[f])
  BY <1>2, <1>3, Zenon DEF Cached
<1>6. /\ id_'[f] = p /\ page_table'[p] = f
      /\ \A g \in Frame \ {f} : id_'[g] = id_[g]
      /\ \A q \in PageId : q # p /\ q # id_[f] => page_table'[q] = page_table[q]
  BY <1>1, <1>3, Zenon
<1>7. \A q \in PageId : Cached(q)' => id_'[page_table'[q]] = q
  BY <1>1, <1>2, <1>5, <1>6 DEF TableMatchesFrames, Cached
<1>8. \A g \in Frame : id_'[g] # NoPage => page_table'[id_'[g]] = g
  BY <1>1, <1>2, <1>4, <1>6 DEF TableMatchesFrames, Cached
<1>9. TableMatchesFrames'
  BY <1>7, <1>8, Zenon DEF TableMatchesFrames, Cached
<1> QED BY <1>2, <1>4, <1>5, <1>6, <1>9, Zenon

(* The common part of fetch_page() on a miss and new_page(). *)
LEMMA LoadStructure ==
  ASSUME HandleCounts, PoolStructure, ~Latched, HasVictim,
         NEW h \in Handle, ptr[h] = NoFrame,
         NEW p \in PageId, ~Cached(p), NEW d \in Data,
         Load(VictimFrame, p, d), Take(h, VictimFrame, p),
         UNCHANGED flush, UNCHANGED fileVars,
         fd2pageno' \in [Fd -> 0..MaxPage],
         Allocated(p)', \A q \in PageId : Allocated(q) => Allocated(q)',
         wrote' \in SUBSET (wrote \union {h}), latest' \in [PageId -> Data]
  PROVE  PoolStructure'
<1>1. PICK f \in Frame :
        /\ f = VictimFrame /\ pin_count[f] = 0
        /\ FreeListRest \in Seq(Frame) /\ IsInjective(FreeListRest)
        /\ Range(FreeListRest) = Range(free_list) \ {f}
        /\ WellFormed(ReplacerRest) /\ ReplacerRest.hash = lru.hash \ {f}
  BY VictimFrameFacts, Zenon DEF PoolStructure
<1>2. NoFrame \notin Frame /\ NoPage \notin PageId
  BY NothingFacts, Zenon
<1>3. /\ free_list' = FreeListRest /\ WriteBack(f) /\ Remap(f, p)
      /\ pin_count' = [pin_count EXCEPT ![f] = 1]
      /\ is_dirty' = [is_dirty EXCEPT ![f] = FALSE]
      /\ data' = [data EXCEPT ![f] = d]
      /\ lru' = Pin(ReplacerRest, f)
  BY <1>1, Zenon DEF Load
<1>4. /\ page_table' \in [PageId -> Frame \union {NoFrame}]
      /\ id_' \in [Frame -> PageId \union {NoPage}]
      /\ TableMatchesFrames'
      /\ \A q \in PageId : Cached(q)' <=> q = p \/ (Cached(q) /\ q # id_[f])
      /\ id_'[f] = p /\ page_table'[p] = f /\ p # NoPage
      /\ \A g \in Frame \ {f} : id_'[g] = id_[g]
  BY <1>1, <1>3, RemapFacts, Zenon
<1>5. WellFormed(lru') /\ lru'.hash = lru.hash \ {f}
  BY <1>1, <1>3, PinFacts
<1>6. ptr' = [ptr EXCEPT ![h] = f] /\ pid' = [pid EXCEPT ![h] = p]
  BY <1>1, Zenon DEF Take
<1>7. /\ size' \in [Path -> 0..MaxPage] /\ content' \in [Path -> [PageNo -> Data]]
  BY <1>1, <1>3, WriteBackFacts, Zenon
<1>8. TypeOK /\ FramesAccounted /\ PinsMatchHandles
  BY Zenon DEF PoolStructure
<1>9. DiskTypeOK'
  BY <1>7, <1>8, Zenon DEF TypeOK, DiskTypeOK, fileVars
<1>10. /\ pin_count' \in [Frame -> Nat] /\ is_dirty' \in [Frame -> BOOLEAN]
       /\ data' \in [Frame -> Data] /\ free_list' \in Seq(Frame)
       /\ ptr' \in [Handle -> Frame \union {NoFrame}]
       /\ pid' \in [Handle -> PageId \union {NoPage}] /\ wrote' \subseteq Handle
       /\ flush' \in [todo : SUBSET PageId, cur : PageId \union {NoPage}]
  BY <1>1, <1>3, <1>6, <1>8, Zenon DEF TypeOK
<1>11. TypeOK'
  BY <1>4, <1>5, <1>9, <1>10, Zenon DEF TypeOK
<1>12. FramesAccounted'
  <2>1. \A g \in Range(free_list)' : g # f /\ pin_count'[g] = 0 /\ ~is_dirty'[g]
    <3>1. \A g \in Range(free_list)' : g \in Range(free_list) /\ g # f
      BY <1>1, <1>3, Zenon
    <3>2. \A g \in Range(free_list) : g \in Frame
      BY <1>8 DEF TypeOK, Range
    <3> QED BY <1>3, <1>8, <3>1, <3>2, Zenon DEF FramesAccounted, TypeOK
  <2>2. \A g \in lru'.hash : pin_count'[g] = 0 /\ id_'[g] # NoPage
    <3>1. \A g \in lru'.hash : g \in Frame /\ g \in lru.hash /\ g # f
      BY <1>5, <1>8, HashFacts, Zenon DEF TypeOK
    <3> QED BY <1>3, <1>4, <1>8, <3>1, Zenon DEF FramesAccounted, TypeOK
  <2>3. \A g \in Frame : g \in Range(free_list)' <=> id_'[g] = NoPage
    BY <1>1, <1>3, <1>4, <1>8, Zenon DEF FramesAccounted
  <2>4. IsInjective(free_list')
    BY <1>1, <1>3, Zenon
  <2> QED BY <2>1, <2>2, <2>3, <2>4, Zenon DEF FramesAccounted
<1>13. \A k \in Handle : ptr[k] # f
  BY <1>1, <1>8, UnpinnedFacts, Zenon
<1>14. PinsMatchHandles'
  <2>1. ASSUME NEW k \in Handle, ptr'[k] # NoFrame
        PROVE  pid'[k] # NoPage /\ id_'[ptr'[k]] = pid'[k]
    <3>1. CASE k = h
      BY <1>4, <1>6, <1>8, <3>1, Zenon DEF TypeOK
    <3>2. CASE k # h
      <4>1. ptr'[k] = ptr[k] /\ pid'[k] = pid[k] /\ ptr[k] \in Frame \ {f}
        BY <1>6, <1>8, <1>13, <2>1, <3>2, Zenon DEF TypeOK
      <4> QED BY <1>4, <1>8, <2>1, <4>1, Zenon DEF PinsMatchHandles
    <3> QED BY <3>1, <3>2, Zenon
  <2>2. ASSUME NEW g \in Frame
        PROVE  pin_count'[g] = Cardinality(Holders(g)')
    <3>1. CASE g = f
      <4>1. Cardinality(Holders(g)') = Cardinality(Holders(g)) + 1
        BY <3>1, <1>1, <1>2, <1>6, <1>8, TakeFacts, ZenonT(30)
      <4>2. pin_count'[g] = 1
        BY <1>3, <1>8, <3>1, Zenon DEF TypeOK
      <4>3. Cardinality(Holders(g)) = 0 /\ 0 + 1 = 1
        BY <1>1, <1>8, <3>1 DEF PinsMatchHandles
      <4> QED BY <4>1, <4>2, <4>3, Zenon
    <3>2. CASE g # f
      <4>1. Holders(g)' = Holders(g)
        BY <1>2, <1>6, <1>8, <3>2, Zenon DEF Holders, TypeOK
      <4> QED BY <1>1, <1>3, <1>8, <3>2, <4>1, Zenon DEF PinsMatchHandles, TypeOK
    <3> QED BY <3>1, <3>2, Zenon
  <2>3. \A g \in Frame : pin_count'[g] = Cardinality(Holders(g))'
    BY <2>2, Zenon
  <2> QED BY <2>1, <2>3, Zenon DEF PinsMatchHandles
<1>15. FdTablesInverse'
  BY Zenon DEF PoolStructure, FdTablesInverse, fileVars
<1>16. \A q \in PageId : Cached(q)' => Allocated(q)'
  BY <1>4, Zenon DEF PoolStructure
<1>17. flush'.todo = {} /\ flush'.cur = NoPage
  BY NoFlush, Zenon
<1>18. \A k \in wrote' : ptr'[k] # NoFrame
  BY <1>1, <1>2, <1>6, <1>8 DEF PoolStructure, TypeOK
<1> QED BY <1>4, <1>11, <1>12, <1>14, <1>15, <1>16, <1>17, <1>18, Zenon
           DEF PoolStructure

(* fetch_page() of a cached page. *)
LEMMA FetchHitStructure ==
  ASSUME HandleCounts, PoolStructure, NEW h \in Handle,
         NEW p \in PageId, FetchHit(h, p)
  PROVE  PoolStructure'
<1>1. NoFrame \notin Frame /\ NoPage \notin PageId
  BY NothingFacts, Zenon
<1>2. TypeOK /\ FramesAccounted /\ PinsMatchHandles /\ TableMatchesFrames
  BY Zenon DEF PoolStructure
<1>3. PICK f \in Frame : f = page_table[p] /\ id_[f] = p
  BY <1>2, Zenon DEF FetchHit, Cached, TypeOK, TableMatchesFrames
<1>4. /\ pin_count' = [pin_count EXCEPT ![f] = @ + 1]
      /\ lru' = Pin(lru, f)
      /\ ptr' = [ptr EXCEPT ![h] = f] /\ pid' = [pid EXCEPT ![h] = p]
      /\ ptr[h] = NoFrame
  BY <1>3, Zenon DEF FetchHit, Take, CanFetch
<1>5. /\ UNCHANGED <<page_table, id_, is_dirty, data, free_list, flush, wrote, latest>>
      /\ UNCHANGED <<exists, path2fd, fd2path, size, content, fd2pageno>>
  BY Zenon DEF FetchHit, diskVars, fileVars, ioVars
<1>6. WellFormed(lru') /\ lru'.hash = lru.hash \ {f}
  BY <1>2, <1>4, PinFacts, Zenon DEF TypeOK
<1>7. TypeOK'
  <2>1. /\ pin_count' \in [Frame -> Nat]
        /\ ptr' \in [Handle -> Frame \union {NoFrame}]
        /\ pid' \in [Handle -> PageId \union {NoPage}]
    BY <1>2, <1>4 DEF TypeOK
  <2> QED BY <1>2, <1>5, <1>6, <2>1, Zenon DEF TypeOK, DiskTypeOK
<1>8. FramesAccounted'
  <2>1. f \notin Range(free_list)
    BY <1>1, <1>2, <1>3, Zenon DEF FramesAccounted
  <2>2. \A g \in Range(free_list) \union lru.hash : g \in Frame
    BY <1>2, HashFacts, RangeFacts, Zenon DEF TypeOK
  <2>3. \A g \in Range(free_list)' : pin_count'[g] = 0 /\ ~is_dirty'[g]
    BY <1>2, <1>4, <1>5, <2>1, <2>2, Zenon DEF FramesAccounted, TypeOK
  <2>4. \A g \in lru'.hash : pin_count'[g] = 0 /\ id_'[g] # NoPage
    BY <1>2, <1>4, <1>5, <1>6, <2>2, Zenon DEF FramesAccounted, TypeOK
  <2> QED BY <1>2, <1>5, <2>3, <2>4, Zenon DEF FramesAccounted
<1>9. PinsMatchHandles'
  <2>1. \A k \in Handle : ptr'[k] # NoFrame => pid'[k] # NoPage /\ id_'[ptr'[k]] = pid'[k]
    BY <1>1, <1>2, <1>3, <1>4, <1>5, Zenon DEF PinsMatchHandles, TypeOK
  <2>2. ASSUME NEW g \in Frame PROVE pin_count'[g] = Cardinality(Holders(g)')
    <3>1. CASE g = f
      <4>1. Cardinality(Holders(g)') = Cardinality(Holders(g)) + 1
        BY <1>1, <1>2, <1>3, <1>4, <3>1, TakeFacts, Zenon
      <4> QED BY <1>2, <1>4, <3>1, <4>1, Zenon DEF PinsMatchHandles, TypeOK
    <3>2. CASE g # f
      <4>1. Holders(g)' = Holders(g)
        BY <1>1, <1>2, <1>4, <3>2, Zenon DEF Holders, TypeOK
      <4> QED BY <1>2, <1>4, <3>2, <4>1, Zenon DEF PinsMatchHandles, TypeOK
    <3> QED BY <3>1, <3>2, Zenon
  <2>3. \A g \in Frame : pin_count'[g] = Cardinality(Holders(g))'
    BY <2>2, Zenon
  <2> QED BY <2>1, <2>3, Zenon DEF PinsMatchHandles
<1>10. TableMatchesFrames' /\ FdTablesInverse'
  BY <1>2, <1>5 DEF TableMatchesFrames, Cached, PoolStructure, FdTablesInverse
<1>11. /\ \A q \in PageId : Cached(q)' => Allocated(q)'
       /\ \A q \in flush'.todo : Cached(q)'
       /\ flush'.cur # NoPage => Cached(flush.cur)'
  BY <1>5, Zenon DEF PoolStructure, Cached, Allocated, Open
<1>12. \A k \in wrote' : ptr'[k] # NoFrame
  BY <1>1, <1>2, <1>3, <1>4, <1>5, Zenon DEF PoolStructure, TypeOK
<1> QED BY <1>7, <1>8, <1>9, <1>10, <1>11, <1>12, Zenon DEF PoolStructure

(* The page read is in the file, so Load() applies. *)
LEMMA FetchMissStructure ==
  ASSUME HandleCounts, PoolStructure, NEW h \in Handle,
         NEW p \in PageId, FetchMiss(h, p)
  PROVE  PoolStructure'
<1>1. PICK f \in Frame : f = VictimFrame
  BY VictimFrameFacts, Zenon DEF PoolStructure, FetchMiss
<1>2. PICK d : d = OnDisk(p.fd, p.page_no)'
  BY Zenon
<1>3. WriteBack(f) /\ UNCHANGED fileVars /\ Open(p.fd)
  BY <1>1, Zenon DEF FetchMiss, Load, CanFetch, Allocated
<1>4. d \in Data
  <2>1. content' \in [Path -> [PageNo -> Data]]
    BY <1>3, WriteBackFacts, Zenon
  <2>2. fd2path[p.fd] \in Path /\ p.page_no \in PageNo
    BY <1>3, Zenon DEF PoolStructure, TypeOK, DiskTypeOK, Open, PageId
  <2> QED BY <1>2, <1>3, <2>1, <2>2, Zenon DEF OnDisk, fileVars
<1>5. /\ ~Latched /\ HasVictim /\ ptr[h] = NoFrame /\ ~Cached(p)
      /\ Load(VictimFrame, p, d) /\ Take(h, VictimFrame, p)
      /\ UNCHANGED <<flush, wrote, latest, fd2pageno>> /\ Allocated(p)
  BY <1>2, Zenon DEF FetchMiss, CanFetch
<1>6. \A q \in PageId : Allocated(q) => Allocated(q)'
  BY <1>3, <1>5, Zenon DEF Allocated, Open, fileVars
<1>7. fd2pageno' \in [Fd -> 0..MaxPage] /\ latest' \in [PageId -> Data]
  BY <1>5, Zenon DEF PoolStructure, TypeOK, DiskTypeOK
<1> QED BY <1>3, <1>4, <1>5, <1>6, <1>7, LoadStructure, Zenon

(* new_page(). *)
LEMMA NewPageStructure ==
  ASSUME HandleCounts, PoolStructure, NEW h \in Handle,
         NEW fd \in Fd, NewPage(h, fd)
  PROVE  PoolStructure'
<1>1. PICK p : p = [fd |-> fd, page_no |-> fd2pageno[fd]]
  BY Zenon
<1>2. /\ ~Latched /\ HasVictim /\ ptr[h] = NoFrame /\ Open(fd)
      /\ Load(VictimFrame, p, Zero) /\ Take(h, VictimFrame, p)
      /\ wrote' \in SUBSET (wrote \union {h})
      /\ latest' = [latest EXCEPT ![p] = Zero]
      /\ UNCHANGED flush /\ UNCHANGED fileVars
  BY <1>1, Zenon DEF NewPage
<1>3. /\ fd2pageno \in [Fd -> 0..MaxPage] /\ fd2pageno[fd] < MaxPage
      /\ fd2pageno' = [fd2pageno EXCEPT ![fd] = @ + 1]
  BY Zenon DEF NewPage, AllocatePage, PoolStructure, TypeOK, DiskTypeOK
<1>4. MaxPage \in Nat /\ Zero \in Data
  BY DiskAssumption, Zenon
<1>5. p \in PageId /\ p.fd = fd /\ p.page_no = fd2pageno[fd]
  BY <1>1, <1>3, <1>4 DEF PageId, PageNo
<1>6. ~Cached(p)
  BY <1>3, <1>4, <1>5 DEF PoolStructure, Allocated
<1>7. fd2pageno' \in [Fd -> 0..MaxPage] /\ latest' \in [PageId -> Data]
  BY <1>2, <1>3, <1>4, <1>5 DEF PoolStructure, TypeOK
<1>8. Open(p.fd)' /\ p.page_no < fd2pageno'[p.fd]
  BY <1>2, <1>3, <1>4, <1>5 DEF Open, fileVars
<1>9. \A q \in PageId : Allocated(q) => Allocated(q)'
  BY <1>2, <1>3, <1>4 DEF Allocated, Open, fileVars, PageId, PageNo
<1>10. Allocated(p)'
  BY <1>8, Zenon DEF Allocated
<1> QED BY <1>2, <1>4, <1>5, <1>6, <1>7, <1>9, <1>10, LoadStructure, Zenon

(* What a throw in the middle of a load leaves behind: the victim is on no *)
(* list any more, and is mapped, to its old page (write_page() threw) or   *)
(* to the new one (read_page() threw).                                     *)
LEMMA StrandStructure ==
  ASSUME HandleCounts, PoolStructure, HasVictim, ~Latched,
         NEW f \in Frame, f = VictimFrame,
         free_list' = FreeListRest, lru' = ReplacerRest,
         UNCHANGED <<pin_count, flush, clientVars, fileVars>>,
         page_table' \in [PageId -> Frame \union {NoFrame}],
         id_' \in [Frame -> PageId \union {NoPage}], TableMatchesFrames',
         is_dirty' \in [Frame -> BOOLEAN], data' \in [Frame -> Data],
         \A g \in Frame \ {f} : id_'[g] = id_[g] /\ is_dirty'[g] = is_dirty[g],
         id_'[f] # NoPage, DiskTypeOK',
         \A q \in PageId : Cached(q)' => Allocated(q)'
  PROVE  PoolStructure'
<1>1. /\ pin_count[f] = 0
      /\ FreeListRest \in Seq(Frame) /\ IsInjective(FreeListRest)
      /\ Range(FreeListRest) = Range(free_list) \ {f}
      /\ WellFormed(ReplacerRest) /\ ReplacerRest.hash = lru.hash \ {f}
  BY VictimFrameFacts, Zenon DEF PoolStructure
<1>2. UNCHANGED <<flush, ptr, pid, wrote, latest, pin_count>>
  BY Zenon DEF clientVars
<1>3. TypeOK /\ FramesAccounted /\ PinsMatchHandles
  BY Zenon DEF PoolStructure
<1>4. TypeOK'
  BY <1>1, <1>2, <1>3, Zenon DEF TypeOK
<1>5. FramesAccounted'
  <2>1. \A g \in Range(free_list) \union lru.hash : g \in Frame
    BY <1>3, HashFacts, RangeFacts, Zenon DEF TypeOK
  <2>2. /\ Range(free_list)' = Range(free_list) \ {f}
        /\ lru'.hash = lru.hash \ {f} /\ IsInjective(free_list')
    BY <1>1, Zenon
  <2>3. \A g \in Range(free_list)' : pin_count'[g] = 0 /\ ~is_dirty'[g]
    BY <1>2, <1>3, <2>1, <2>2, Zenon DEF FramesAccounted
  <2>4. \A g \in lru'.hash : pin_count'[g] = 0 /\ id_'[g] # NoPage
    BY <1>2, <1>3, <2>1, <2>2, Zenon DEF FramesAccounted
  <2>5. \A g \in Frame : g \in Range(free_list)' <=> id_'[g] = NoPage
    BY <1>3, <2>2, Zenon DEF FramesAccounted
  <2> QED BY <2>2, <2>3, <2>4, <2>5, Zenon DEF FramesAccounted
<1>6. \A k \in Handle : ptr[k] # f
  BY <1>1, <1>3, UnpinnedFacts, Zenon
<1>7. PinsMatchHandles'
  <2>1. \A k \in Handle : ptr'[k] # NoFrame => pid'[k] # NoPage /\ id_'[ptr'[k]] = pid'[k]
    BY <1>2, <1>3, <1>6 DEF PinsMatchHandles, TypeOK
  <2>2. \A g \in Frame : Holders(g)' = Holders(g)
    BY <1>2, Zenon DEF Holders
  <2> QED BY <1>2, <1>3, <2>1, <2>2, Zenon DEF PinsMatchHandles
<1>8. FdTablesInverse'
  BY ZenonT(30) DEF PoolStructure, FdTablesInverse, fileVars
<1>9. flush'.todo = {} /\ flush'.cur = NoPage
  BY <1>2, NoFlush, Zenon
<1>10. \A k \in wrote' : ptr'[k] # NoFrame
  BY <1>2, Zenon DEF PoolStructure
<1> QED BY <1>4, <1>5, <1>7, <1>8, <1>9, <1>10, Zenon DEF PoolStructure

(* fetch_page() whose read_page() throws: the frame is mapped and not      *)
(* listed.                                                                 *)
LEMMA FetchReadThrowsStructure ==
  ASSUME HandleCounts, PoolStructure, NEW h \in Handle,
         NEW p \in PageId, FetchReadThrows(h, p)
  PROVE  PoolStructure'
<1>1. PICK f \in Frame : f = VictimFrame
  BY VictimFrameFacts, Zenon DEF PoolStructure, FetchReadThrows
<1>2. /\ HasVictim /\ ~Latched /\ ~Cached(p) /\ Allocated(p)
      /\ free_list' = FreeListRest /\ lru' = ReplacerRest
      /\ WriteBack(f) /\ Remap(f, p)
      /\ is_dirty' = [is_dirty EXCEPT ![f] = FALSE]
      /\ data' = [data EXCEPT ![f] = Zero]
      /\ UNCHANGED <<pin_count, flush, clientVars, fileVars>>
      /\ UNCHANGED fileVars /\ UNCHANGED fd2pageno
  BY <1>1, Zenon DEF FetchReadThrows, CanFetch
<1>3. /\ page_table' \in [PageId -> Frame \union {NoFrame}]
      /\ id_' \in [Frame -> PageId \union {NoPage}] /\ TableMatchesFrames'
      /\ \A q \in PageId : Cached(q)' <=> q = p \/ (Cached(q) /\ q # id_[f])
      /\ id_'[f] # NoPage /\ \A g \in Frame \ {f} : id_'[g] = id_[g]
  BY <1>2, RemapFacts, Zenon
<1>4. /\ is_dirty' \in [Frame -> BOOLEAN] /\ data' \in [Frame -> Data]
      /\ \A g \in Frame \ {f} : is_dirty'[g] = is_dirty[g]
  BY <1>2, DiskAssumption, Zenon DEF PoolStructure, TypeOK
<1>5. DiskTypeOK'
  <2>1. size' \in [Path -> 0..MaxPage] /\ content' \in [Path -> [PageNo -> Data]]
    BY <1>2, WriteBackFacts, Zenon
  <2> QED BY <1>2, <2>1, Zenon DEF PoolStructure, TypeOK, DiskTypeOK, fileVars
<1>6. \A q \in PageId : Cached(q)' => Allocated(q)'
  BY <1>2, <1>3, Zenon DEF PoolStructure, Allocated, Open, fileVars
<1>7. \A g \in Frame \ {f} : id_'[g] = id_[g] /\ is_dirty'[g] = is_dirty[g]
  BY <1>3, <1>4, Zenon
<1> QED BY <1>1, <1>2, <1>3, <1>4, <1>5, <1>6, <1>7, StrandStructure, Zenon

(* fd2pageno_ may have grown: new_page() allocates before it evicts. *)
LEMMA EvictThrowsStructure ==
  ASSUME HandleCounts, PoolStructure, ~Latched, HasVictim, EvictThrows,
         fd2pageno' \in [Fd -> 0..MaxPage],
         \A fd \in Fd : fd2pageno'[fd] >= fd2pageno[fd]
  PROVE  PoolStructure'
<1>1. PICK f \in Frame : f = VictimFrame
  BY VictimFrameFacts, Zenon DEF PoolStructure
<1>2. /\ free_list' = FreeListRest /\ lru' = ReplacerRest
      /\ UNCHANGED <<pin_count, flush, clientVars, fileVars>>
      /\ UNCHANGED <<page_table, id_, is_dirty, data, size, content>>
      /\ UNCHANGED <<exists, path2fd, fd2path>>
      /\ id_[f] # NoPage
  BY <1>1, Zenon DEF EvictThrows, pageVars, ioVars, NeedsWriteBack, fileVars
<1>3. /\ page_table' \in [PageId -> Frame \union {NoFrame}]
      /\ id_' \in [Frame -> PageId \union {NoPage}] /\ TableMatchesFrames'
      /\ is_dirty' \in [Frame -> BOOLEAN] /\ data' \in [Frame -> Data]
  BY <1>2, Zenon DEF PoolStructure, TypeOK, TableMatchesFrames, Cached
<1>4. DiskTypeOK'
  BY <1>2, Zenon DEF PoolStructure, TypeOK, DiskTypeOK
<1>5. \A q \in PageId : Cached(q)' => Allocated(q)'
  BY <1>2, DiskAssumption
     DEF PoolStructure, TypeOK, DiskTypeOK, Cached, Allocated, Open, PageId, PageNo
<1>6. \A g \in Frame \ {f} : id_'[g] = id_[g] /\ is_dirty'[g] = is_dirty[g]
  BY <1>2, Zenon
<1>7. id_'[f] # NoPage
  BY <1>2, Zenon
<1> QED BY <1>1, <1>2, <1>3, <1>4, <1>5, <1>6, <1>7, StrandStructure, Zenon

(* fetch_page() or new_page() whose write-back throws: the victim is not   *)
(* listed.                                                                 *)
LEMMA WriteThrowsStructure ==
  ASSUME HandleCounts, PoolStructure, NEW h \in Handle,
         \/ \E p \in PageId : FetchWriteThrows(h, p)
         \/ \E fd \in Fd : NewPageWriteThrows(h, fd)
  PROVE  PoolStructure'
<1>1. fd2pageno \in [Fd -> 0..MaxPage] /\ MaxPage \in Nat
  BY DiskAssumption, Zenon DEF PoolStructure, TypeOK, DiskTypeOK
<1>2. ASSUME NEW p \in PageId, FetchWriteThrows(h, p) PROVE PoolStructure'
  <2>1. /\ ~Latched /\ HasVictim /\ EvictThrows /\ fd2pageno' = fd2pageno
    BY <1>2, Zenon DEF FetchWriteThrows, CanFetch
  <2> QED BY <1>1, <2>1, EvictThrowsStructure
<1>3. ASSUME NEW fd \in Fd, NewPageWriteThrows(h, fd) PROVE PoolStructure'
  <2>1. /\ ~Latched /\ HasVictim /\ EvictThrows /\ fd2pageno[fd] < MaxPage
        /\ fd2pageno' = [fd2pageno EXCEPT ![fd] = @ + 1]
    BY <1>3, Zenon DEF NewPageWriteThrows, AllocatePage
  <2>2. /\ fd2pageno' \in [Fd -> 0..MaxPage]
        /\ \A g \in Fd : fd2pageno'[g] >= fd2pageno[g]
    BY <1>1, <2>1
  <2> QED BY <2>1, <2>2, EvictThrowsStructure, Zenon
<1> QED BY <1>2, <1>3, Zenon

(* unpin_page(). *)
LEMMA UnpinPageStructure ==
  ASSUME HandleCounts, PoolStructure, NEW h \in Handle,
         NEW dirty \in BOOLEAN, UnpinPage(h, dirty)
  PROVE  PoolStructure'
<1>1. NoFrame \notin Frame /\ NoPage \notin PageId
  BY NothingFacts, Zenon
<1>2. TypeOK /\ FramesAccounted /\ PinsMatchHandles /\ TableMatchesFrames
  BY Zenon DEF PoolStructure
<1>3. PICK f \in Frame : f = ptr[h] /\ page_table[id_[f]] = f /\ id_[f] # NoPage
  BY <1>2, Zenon DEF UnpinPage, TypeOK, PinsMatchHandles, TableMatchesFrames
<1>4. /\ pin_count[f] > 0
      /\ pin_count' = [pin_count EXCEPT ![f] = @ - 1]
      /\ is_dirty' = [is_dirty EXCEPT ![f] = @ \/ dirty]
      /\ lru' = IF pin_count[f] = 1 THEN Unpin(lru, f) ELSE lru
      /\ ptr' = [ptr EXCEPT ![h] = NoFrame] /\ pid' = [pid EXCEPT ![h] = NoPage]
      /\ wrote' = wrote \ {h} /\ ~Latched
  BY <1>3, Zenon DEF UnpinPage, Take, StaysDirty
<1>5. /\ UNCHANGED <<page_table, id_, data, free_list, flush, latest>>
      /\ UNCHANGED <<exists, path2fd, fd2path, size, content, fd2pageno>>
  BY Zenon DEF UnpinPage, diskVars, fileVars, ioVars
<1>6. /\ WellFormed(lru')
      /\ lru'.hash = IF pin_count[f] = 1 THEN lru.hash \union {f} ELSE lru.hash
  BY <1>2, <1>4, UnpinFacts, Zenon DEF TypeOK
<1>7. TypeOK'
  <2>1. /\ pin_count' \in [Frame -> Nat] /\ is_dirty' \in [Frame -> BOOLEAN]
    BY <1>2, <1>4 DEF TypeOK
  <2>2. /\ ptr' \in [Handle -> Frame \union {NoFrame}]
        /\ pid' \in [Handle -> PageId \union {NoPage}] /\ wrote' \subseteq Handle
    BY <1>2, <1>4, Zenon DEF TypeOK
  <2> QED BY <1>2, <1>5, <1>6, <2>1, <2>2, Zenon DEF TypeOK, DiskTypeOK
<1>8. FramesAccounted'
  <2>1. f \notin Range(free_list)
    BY <1>2, <1>3, Zenon DEF FramesAccounted
  <2>2. \A g \in Range(free_list) \union lru.hash : g \in Frame
    BY <1>2, HashFacts, RangeFacts, Zenon DEF TypeOK
  <2>3. \A g \in Range(free_list)' : pin_count'[g] = 0 /\ ~is_dirty'[g]
    BY <1>2, <1>4, <1>5, <2>1, <2>2, ZenonT(30) DEF FramesAccounted, TypeOK
  <2>4. \A g \in lru'.hash : pin_count'[g] = 0 /\ id_'[g] # NoPage
    <3>1. f \notin lru.hash
      <4>1. pin_count[f] # 0
        BY <1>4
      <4> QED BY <1>2, <4>1, Zenon DEF FramesAccounted
    <3> QED BY <1>2, <1>3, <1>4, <1>5, <1>6, <2>2, <3>1, SMTT(30) DEF FramesAccounted, TypeOK
  <2> QED BY <1>2, <1>5, <2>3, <2>4, Zenon DEF FramesAccounted
<1>9. PinsMatchHandles'
  <2>1. \A k \in Handle : ptr'[k] # NoFrame => pid'[k] # NoPage /\ id_'[ptr'[k]] = pid'[k]
    BY <1>1, <1>2, <1>4, <1>5, Zenon DEF PinsMatchHandles, TypeOK
  <2>2. ASSUME NEW g \in Frame PROVE pin_count'[g] = Cardinality(Holders(g)')
    <3>1. CASE g = f
      <4>1. Cardinality(Holders(g)') = Cardinality(Holders(g)) - 1
        BY <1>1, <1>2, <1>3, <1>4, <3>1, TakeFacts, Zenon
      <4> QED BY <1>2, <1>4, <3>1, <4>1, Zenon DEF PinsMatchHandles, TypeOK
    <3>2. CASE g # f
      <4>1. Holders(g)' = Holders(g)
        BY <1>1, <1>2, <1>3, <1>4, <3>2, Zenon DEF Holders, TypeOK
      <4> QED BY <1>2, <1>4, <3>2, <4>1, Zenon DEF PinsMatchHandles, TypeOK
    <3> QED BY <3>1, <3>2, Zenon
  <2>3. \A g \in Frame : pin_count'[g] = Cardinality(Holders(g))'
    BY <2>2, Zenon
  <2> QED BY <2>1, <2>3, Zenon DEF PinsMatchHandles
<1>10. TableMatchesFrames' /\ FdTablesInverse'
  BY <1>2, <1>5, Zenon
     DEF TableMatchesFrames, Cached, PoolStructure, FdTablesInverse
<1>11. /\ \A q \in PageId : Cached(q)' => Allocated(q)'
       /\ \A q \in flush'.todo : Cached(q)'
       /\ flush'.cur # NoPage => Cached(flush.cur)'
  BY <1>5, Zenon DEF PoolStructure, Cached, Allocated, Open
<1>12. \A k \in wrote' : ptr'[k] # NoFrame
  BY <1>2, <1>4, Zenon DEF PoolStructure, TypeOK
<1> QED BY <1>7, <1>8, <1>9, <1>10, <1>11, <1>12, Zenon DEF PoolStructure

(* delete_page(). *)
LEMMA DeletePageStructure ==
  ASSUME HandleCounts, PoolStructure, NEW p \in PageId, DeletePage(p)
  PROVE  PoolStructure'
<1>1. NoFrame \notin Frame /\ NoPage \notin PageId
  BY NothingFacts, Zenon
<1>2. TypeOK /\ FramesAccounted /\ PinsMatchHandles /\ TableMatchesFrames
  BY Zenon DEF PoolStructure
<1>3. PICK f \in Frame : f = page_table[p] /\ id_[f] = p
  BY <1>2, Zenon DEF DeletePage, Cached, TypeOK, TableMatchesFrames
<1>4. /\ pin_count[f] = 0 /\ ~Latched
      /\ page_table' = [page_table EXCEPT ![p] = NoFrame]
      /\ id_' = [id_ EXCEPT ![f] = NoPage]
      /\ pin_count' = [pin_count EXCEPT ![f] = 0]
      /\ is_dirty' = [is_dirty EXCEPT ![f] = FALSE]
      /\ data' = [data EXCEPT ![f] = Zero]
      /\ lru' = Pin(lru, f) /\ free_list' = Append(free_list, f)
  BY <1>3, Zenon DEF DeletePage
<1>5. UNCHANGED <<flush, ptr, pid, wrote, latest, fd2pageno>> /\ UNCHANGED fileVars
  BY Zenon DEF DeletePage, clientVars
<1>6. WriteBack(f)
  BY <1>1, <1>3, Zenon DEF DeletePage, WriteBack, NeedsWriteBack
<1>7. WellFormed(lru') /\ lru'.hash = lru.hash \ {f}
  BY <1>2, <1>4, PinFacts, Zenon DEF TypeOK
<1>8. /\ free_list' \in Seq(Frame) /\ IsInjective(free_list')
      /\ Range(free_list)' = Range(free_list) \union {f}
  <2>1. f \notin Range(free_list)
    BY <1>1, <1>2, <1>3, Zenon DEF FramesAccounted
  <2>2. free_list \in Seq(Frame) /\ IsInjective(free_list)
    BY <1>2, Zenon DEF FramesAccounted, TypeOK
  <2> QED BY <1>4, <2>1, <2>2, AppendFacts
<1>9. TypeOK'
  <2>1. /\ pin_count' \in [Frame -> Nat] /\ is_dirty' \in [Frame -> BOOLEAN]
        /\ data' \in [Frame -> Data] /\ id_' \in [Frame -> PageId \union {NoPage}]
        /\ page_table' \in [PageId -> Frame \union {NoFrame}]
    BY <1>2, <1>4, DiskAssumption, Zenon DEF TypeOK
  <2>2. size' \in [Path -> 0..MaxPage] /\ content' \in [Path -> [PageNo -> Data]]
    BY <1>5, <1>6, WriteBackFacts, Zenon
  <2>3. DiskTypeOK'
    BY <1>2, <1>5, <2>2, Zenon DEF TypeOK, DiskTypeOK, fileVars
  <2> QED BY <1>2, <1>5, <1>7, <1>8, <2>1, <2>3, Zenon DEF TypeOK
<1>10. FramesAccounted'
  <2>1. \A g \in Range(free_list) \union lru.hash : g \in Frame
    BY <1>2, HashFacts, RangeFacts, Zenon DEF TypeOK
  <2>2. \A g \in Range(free_list)' : pin_count'[g] = 0 /\ ~is_dirty'[g]
    BY <1>2, <1>4, <1>8, <2>1, Zenon DEF FramesAccounted, TypeOK
  <2>3. \A g \in lru'.hash : pin_count'[g] = 0 /\ id_'[g] # NoPage
    BY <1>2, <1>4, <1>7, <2>1, Zenon DEF FramesAccounted, TypeOK
  <2>4. \A g \in Frame : g \in Range(free_list)' <=> id_'[g] = NoPage
    BY <1>2, <1>4, <1>8, Zenon DEF FramesAccounted, TypeOK
  <2> QED BY <1>8, <2>2, <2>3, <2>4, Zenon DEF FramesAccounted
<1>11. TableMatchesFrames'
  <2>1. \A q \in PageId : Cached(q)' => q # p /\ Cached(q) /\ page_table'[q] = page_table[q]
    BY <1>2, <1>4, Zenon DEF Cached, TypeOK
  <2>2. \A q \in PageId : Cached(q)' => id_'[page_table'[q]] = q
    BY <1>2, <1>3, <1>4, <2>1, ZenonT(30) DEF TableMatchesFrames, TypeOK, Cached
  <2>3. \A g \in Frame : id_'[g] # NoPage => page_table'[id_'[g]] = g
    BY <1>2, <1>3, <1>4, ZenonT(30) DEF TableMatchesFrames, TypeOK
  <2> QED BY <2>2, <2>3, Zenon DEF TableMatchesFrames, Cached
<1>12. PinsMatchHandles'
  <2>1. \A k \in Handle : ptr[k] # f
    BY <1>2, <1>4, UnpinnedFacts, Zenon
  <2>2. \A k \in Handle : ptr'[k] # NoFrame => pid'[k] # NoPage /\ id_'[ptr'[k]] = pid'[k]
    BY <1>2, <1>4, <1>5, <2>1, Zenon DEF PinsMatchHandles, TypeOK
  <2>3. \A g \in Frame : Holders(g)' = Holders(g) /\ pin_count'[g] = pin_count[g]
    BY <1>2, <1>4, <1>5, Zenon DEF Holders, TypeOK
  <2> QED BY <1>2, <2>2, <2>3, Zenon DEF PinsMatchHandles
<1>13. FdTablesInverse'
  BY <1>5, Zenon DEF PoolStructure, FdTablesInverse, fileVars
<1>14. \A q \in PageId : Cached(q)' => Allocated(q)'
  BY <1>2, <1>4, <1>5, Zenon
     DEF PoolStructure, TypeOK, Cached, Allocated, Open, fileVars
<1>15. flush'.todo = {} /\ flush'.cur = NoPage
  BY <1>4, <1>5, NoFlush, Zenon
<1>16. \A k \in wrote' : ptr'[k] # NoFrame
  BY <1>5, Zenon DEF PoolStructure
<1> QED BY <1>9, <1>10, <1>11, <1>12, <1>13, <1>14, <1>15, <1>16, Zenon
           DEF PoolStructure

(* Steps that move no page between frames: the flushes and what clients do *)
(* through their Page*.                                                    *)
LEMMA InPlaceStructure ==
  ASSUME PoolStructure,
         UNCHANGED <<page_table, id_, pin_count, free_list, lru, ptr, pid>>,
         UNCHANGED <<fileVars, fd2pageno>>,
         is_dirty' \in [Frame -> BOOLEAN], data' \in [Frame -> Data],
         \A f \in Frame : is_dirty'[f] => is_dirty[f] \/ id_[f] # NoPage,
         flush' \in [todo : SUBSET PageId, cur : PageId \union {NoPage}],
         \A p \in flush'.todo : Cached(p),
         flush'.cur # NoPage => Cached(flush'.cur),
         wrote' \subseteq Handle, \A h \in wrote' : ptr[h] # NoFrame,
         latest' \in [PageId -> Data],
         size' \in [Path -> 0..MaxPage], content' \in [Path -> [PageNo -> Data]]
  PROVE  PoolStructure'
<1>1. /\ UNCHANGED <<page_table, id_, pin_count, free_list, lru, ptr, pid>>
      /\ UNCHANGED <<exists, path2fd, fd2path, fd2pageno>>
  BY Zenon DEF fileVars
<1>2. TypeOK'
  BY <1>1, Zenon DEF PoolStructure, TypeOK, DiskTypeOK
<1>3. FramesAccounted'
  <2>1. \A g \in Range(free_list) : g \in Frame
    BY RangeFacts, Zenon DEF PoolStructure, TypeOK
  <2>2. \A g \in Range(free_list) : ~is_dirty'[g]
    BY <2>1, Zenon DEF PoolStructure, FramesAccounted
  <2> QED BY <1>1, <2>2, ZenonT(30) DEF PoolStructure, FramesAccounted
<1>4. TableMatchesFrames' /\ FdTablesInverse'
  <2>1. TableMatchesFrames /\ FdTablesInverse
    BY Zenon DEF PoolStructure
  <2>2. TableMatchesFrames'
    BY <1>1, <2>1, Zenon DEF TableMatchesFrames, Cached
  <2>3. FdTablesInverse'
    BY <1>1, <2>1, Zenon DEF FdTablesInverse
  <2> QED BY <2>2, <2>3
<1>5. PinsMatchHandles'
  <2>1. \A f \in Frame : Holders(f)' = Holders(f)
    BY <1>1, Zenon DEF Holders
  <2> QED BY <1>1, <2>1, Zenon DEF PoolStructure, PinsMatchHandles
<1>6. /\ \A p \in PageId : Cached(p)' => Allocated(p)'
      /\ \A p \in flush'.todo : Cached(p)'
      /\ flush'.cur # NoPage => Cached(flush.cur)'
      /\ \A h \in wrote' : ptr'[h] # NoFrame
  BY <1>1, Zenon DEF PoolStructure, Cached, Allocated, Open
<1> QED BY <1>2, <1>3, <1>4, <1>5, <1>6, Zenon DEF PoolStructure

(* A flush writes pages that are cached, hence allocated and open. *)
LEMMA FlushWriteFacts ==
  ASSUME PoolStructure, UNCHANGED fileVars, NEW p \in PageId, Cached(p),
         WritePage(p.fd, p.page_no, data[page_table[p]])
  PROVE  /\ size' \in [Path -> 0..MaxPage]
         /\ content' \in [Path -> [PageNo -> Data]]
         /\ \A q \in PageId : Open(q.fd) =>
              /\ OnDisk(q.fd, q.page_no)'
                   = IF q = p THEN data[page_table[p]] ELSE OnDisk(q.fd, q.page_no)
              /\ PastEnd(q.fd, q.page_no)' => PastEnd(q.fd, q.page_no) /\ q # p
         /\ HolesAreZero => HolesAreZero'
<1>1. DiskTypeOK /\ FdTablesInverse /\ Open(p.fd) /\ data[page_table[p]] \in Data
  BY Zenon DEF PoolStructure, TypeOK, Cached, Allocated
<1> QED BY <1>1, WritePageFacts, Zenon

(* The steps of flush_page() and flush_all_pages(). *)
LEMMA FlushStructure ==
  ASSUME PoolStructure,
         \/ \E p \in PageId : FlushPage(p) \/ FlushVisit(p)
         \/ \E fd \in Fd : FlushAllPages(fd)
         \/ FlushClear
         \/ FlushThrows
  PROVE  PoolStructure'
<1>1. TypeOK /\ size \in [Path -> 0..MaxPage] /\ content \in [Path -> [PageNo -> Data]]
  BY Zenon DEF PoolStructure, TypeOK, DiskTypeOK
<1>2. ASSUME NEW p \in PageId, FlushPage(p) PROVE PoolStructure'
  <2>1. /\ UNCHANGED <<page_table, id_, pin_count, is_dirty, data, free_list, lru>>
        /\ UNCHANGED <<ptr, pid, wrote, latest>> /\ UNCHANGED <<fileVars, fd2pageno>>
        /\ Cached(p) /\ WritePage(p.fd, p.page_no, data[page_table[p]])
        /\ flush' = [todo |-> {}, cur |-> p]
    BY <1>2, Zenon DEF FlushPage, poolVars, pageVars, clientVars
  <2>2. size' \in [Path -> 0..MaxPage] /\ content' \in [Path -> [PageNo -> Data]]
    BY <2>1, FlushWriteFacts, Zenon
  <2> QED BY <1>1, <2>1, <2>2, InPlaceStructure, Zenon DEF PoolStructure, TypeOK
<1>3. ASSUME NEW p \in PageId, FlushVisit(p) PROVE PoolStructure'
  <2>1. /\ UNCHANGED <<page_table, id_, pin_count, is_dirty, data, free_list, lru>>
        /\ UNCHANGED <<ptr, pid, wrote, latest>> /\ UNCHANGED <<fileVars, fd2pageno>>
        /\ Cached(p)
        /\ flush'.todo = flush.todo \ {p} /\ flush'.cur \in {p, NoPage}
        /\ flush' \in [todo : SUBSET PageId, cur : PageId \union {NoPage}]
    BY <1>3 DEF FlushVisit, poolVars, pageVars, clientVars, PoolStructure, TypeOK
  <2>2. size' \in [Path -> 0..MaxPage] /\ content' \in [Path -> [PageNo -> Data]]
    <3>1. CASE is_dirty[page_table[p]]
      <4>1. WritePage(p.fd, p.page_no, data[page_table[p]])
        BY <1>3, <3>1, Zenon DEF FlushVisit
      <4> QED BY <2>1, <4>1, FlushWriteFacts, Zenon
    <3>2. CASE ~is_dirty[page_table[p]]
      BY <1>1, <1>3, <3>2, Zenon DEF FlushVisit, ioVars
    <3> QED BY <3>1, <3>2, Zenon
  <2> QED BY <1>1, <2>1, <2>2, InPlaceStructure, ZenonT(30) DEF PoolStructure, TypeOK
<1>4. ASSUME NEW fd \in Fd, FlushAllPages(fd) PROVE PoolStructure'
  <2>1. /\ UNCHANGED <<page_table, id_, pin_count, is_dirty, data, free_list, lru>>
        /\ UNCHANGED <<ptr, pid, wrote, latest>> /\ UNCHANGED <<fileVars, fd2pageno>>
        /\ UNCHANGED <<size, content>>
        /\ flush' = [todo |-> {p \in PageId : p.fd = fd /\ Cached(p)}, cur |-> NoPage]
    BY <1>4, Zenon
       DEF FlushAllPages, poolVars, pageVars, clientVars, diskVars, ioVars
  <2> QED BY <1>1, <2>1, InPlaceStructure, Zenon DEF PoolStructure, TypeOK
<1>5. ASSUME FlushClear PROVE PoolStructure'
  <2>1. /\ UNCHANGED <<page_table, id_, pin_count, data, free_list, lru>>
        /\ UNCHANGED <<ptr, pid, wrote, latest>> /\ UNCHANGED <<fileVars, fd2pageno>>
        /\ UNCHANGED <<size, content>>
        /\ is_dirty' = [is_dirty EXCEPT ![page_table[flush.cur]] = FALSE]
        /\ flush' = [flush EXCEPT !.cur = NoPage]
    BY <1>5, Zenon DEF FlushClear, clientVars, diskVars, ioVars
  <2>2. /\ is_dirty' \in [Frame -> BOOLEAN]
        /\ \A f \in Frame : is_dirty'[f] => is_dirty[f] \/ id_[f] # NoPage
    BY <1>1, <2>1, Zenon DEF TypeOK
  <2>3. /\ flush' \in [todo : SUBSET PageId, cur : PageId \union {NoPage}]
        /\ flush'.todo = flush.todo /\ flush'.cur = NoPage
    BY <1>1, <2>1, Zenon DEF TypeOK
  <2> QED BY <1>1, <2>1, <2>2, <2>3, InPlaceStructure, Zenon
             DEF PoolStructure, TypeOK
<1>6. ASSUME FlushThrows PROVE PoolStructure'
  <2>1. /\ UNCHANGED <<page_table, id_, pin_count, is_dirty, data, free_list, lru>>
        /\ UNCHANGED <<ptr, pid, wrote, latest>> /\ UNCHANGED <<fileVars, fd2pageno>>
        /\ UNCHANGED <<size, content>>
        /\ flush' = [todo |-> {}, cur |-> NoPage]
    BY <1>6, Zenon
       DEF FlushThrows, Idle, poolVars, pageVars, clientVars, diskVars, ioVars
  <2> QED BY <1>1, <2>1, InPlaceStructure, Zenon DEF PoolStructure, TypeOK
<1> QED BY <1>2, <1>3, <1>4, <1>5, <1>6, Zenon

(* A client writes through its Page*, or calls mark_dirty(). *)
LEMMA WriteStructure ==
  ASSUME PoolStructure, NEW h \in Handle,
         MarkDirty(h) \/ \E d \in Data : Write(h, d)
  PROVE  PoolStructure'
<1>1. TypeOK /\ size \in [Path -> 0..MaxPage] /\ content \in [Path -> [PageNo -> Data]]
  BY Zenon DEF PoolStructure, TypeOK, DiskTypeOK
<1>2. /\ ptr[h] # NoFrame /\ ptr[h] \in Frame
      /\ id_[ptr[h]] = pid[h] /\ pid[h] # NoPage /\ pid[h] \in PageId
  BY <1>1, ZenonT(30) DEF MarkDirty, Write, PoolStructure, PinsMatchHandles, TypeOK
<1>3. ASSUME NEW d \in Data, Write(h, d) PROVE PoolStructure'
  <2>1. /\ UNCHANGED <<page_table, id_, pin_count, is_dirty, free_list, lru, flush>>
        /\ UNCHANGED <<ptr, pid>> /\ UNCHANGED <<fileVars, fd2pageno>>
        /\ UNCHANGED <<size, content>>
        /\ data' = [data EXCEPT ![ptr[h]] = d]
        /\ latest' = [latest EXCEPT ![pid[h]] = d]
        /\ wrote' = wrote \union {h}
    BY <1>3, Zenon DEF Write, diskVars, ioVars
  <2>2. /\ data' \in [Frame -> Data] /\ latest' \in [PageId -> Data]
        /\ wrote' \subseteq Handle /\ \A k \in wrote' : ptr[k] # NoFrame
    BY <1>1, <1>2, <2>1, Zenon DEF TypeOK, PoolStructure
  <2> QED BY <1>1, <2>1, <2>2, InPlaceStructure, Zenon DEF PoolStructure, TypeOK
<1>4. ASSUME MarkDirty(h) PROVE PoolStructure'
  <2>1. /\ UNCHANGED <<page_table, id_, pin_count, data, free_list, lru, flush>>
        /\ UNCHANGED <<ptr, pid, wrote, latest>> /\ UNCHANGED <<fileVars, fd2pageno>>
        /\ UNCHANGED <<size, content>>
        /\ is_dirty' = [is_dirty EXCEPT ![ptr[h]] = TRUE]
    BY <1>4, Zenon DEF MarkDirty, clientVars, diskVars, ioVars
  <2>2. /\ is_dirty' \in [Frame -> BOOLEAN]
        /\ \A f \in Frame : is_dirty'[f] => is_dirty[f] \/ id_[f] # NoPage
    BY <1>1, <1>2, <2>1, Zenon DEF TypeOK
  <2> QED BY <1>1, <2>1, <2>2, InPlaceStructure, Zenon DEF PoolStructure, TypeOK
<1> QED BY <1>3, <1>4, Zenon

-----------------------------------------------------------------------------
(* The constructor. *)
LEMMA InitStructure == HandleCounts /\ Init => PoolStructure
<1> SUFFICES ASSUME HandleCounts, Init PROVE PoolStructure
  BY Zenon
<1>1. NoFrame \notin Frame /\ NoPage \notin PageId
  BY NothingFacts, Zenon
<1>2. /\ free_list \in Seq(Frame) /\ IsInjective(free_list)
      /\ Range(free_list) = Frame
  <2>1. free_list = [i \in 1..PoolSize |-> i - 1] /\ DOMAIN free_list = 1..PoolSize
    BY Zenon DEF Init
  <2>2. free_list \in Seq(Frame)
    BY <2>1, PoolSizeAssumption DEF Frame
  <2>3. IsInjective(free_list)
    BY <2>1, PoolSizeAssumption DEF IsInjective
  <2>4. ASSUME NEW g \in Frame PROVE g \in Range(free_list)
    <3>1. g + 1 \in 1..PoolSize /\ free_list[g + 1] = g
      BY <2>1, PoolSizeAssumption DEF Frame
    <3> QED BY <2>1, <3>1, Zenon DEF Range
  <2>5. Range(free_list) \subseteq Frame
    BY <2>1, PoolSizeAssumption DEF Range, Frame
  <2> QED BY <2>2, <2>3, <2>4, <2>5, Zenon
<1>3. WellFormed(lru) /\ lru.hash = {}
  BY DEF Init, EmptyLRU, WellFormed, Range, IsInjective
<1>4. DiskTypeOK /\ FdTablesInverse
  BY DiskAssumption DEF Init, DiskTypeOK, ZeroPages
<1>5. TypeOK
  BY <1>2, <1>3, <1>4, DiskAssumption, Zenon DEF Init, TypeOK, Idle
<1>6. \A f \in Frame : Holders(f) = {}
  BY <1>1, Zenon DEF Init, Holders
<1>7. PinsMatchHandles
  BY <1>6, Zenon DEF Init, PinsMatchHandles, HandleCounts
<1>8. FramesAccounted
  BY <1>2, <1>3, Zenon DEF Init, FramesAccounted
<1>9. TableMatchesFrames
  BY Zenon DEF Init, TableMatchesFrames, Cached
<1> QED BY <1>4, <1>5, <1>7, <1>8, <1>9, Zenon
           DEF Init, PoolStructure, Cached, Idle

(* Every step keeps the structure. *)
LEMMA NextStructure ==
  HandleCounts /\ PoolStructure /\ [Next]_vars => PoolStructure'
<1> SUFFICES ASSUME HandleCounts, PoolStructure, [Next]_vars PROVE PoolStructure'
  BY Zenon
<1>1. ASSUME NEW h \in Handle, Client(h) PROVE PoolStructure'
  BY <1>1, FetchHitStructure, FetchMissStructure, FetchReadThrowsStructure,
     WriteThrowsStructure, NewPageStructure, UnpinPageStructure,
     WriteStructure, Zenon
     DEF Client, Fetch, New
<1>2. ASSUME NEW p \in PageId, DeletePage(p) \/ FlushPage(p) PROVE PoolStructure'
  BY <1>2, DeletePageStructure, FlushStructure, Zenon
<1>3. ASSUME NEW fd \in Fd, FlushAllPages(fd) PROVE PoolStructure'
  BY <1>3, FlushStructure, Zenon
<1>4. ASSUME FlushStep PROVE PoolStructure'
  BY <1>4, FlushStructure, Zenon DEF FlushStep
<1>5. ASSUME UNCHANGED vars PROVE PoolStructure'
  <2>1. /\ UNCHANGED <<page_table, id_, pin_count, is_dirty, data, free_list, lru>>
        /\ UNCHANGED <<ptr, pid, wrote, latest, flush>>
        /\ UNCHANGED <<fileVars, fd2pageno>> /\ UNCHANGED <<size, content>>
    BY <1>5, Zenon DEF vars, poolVars, pageVars, clientVars, diskVars, ioVars
  <2> QED BY <2>1, InPlaceStructure, Zenon DEF PoolStructure, TypeOK, DiskTypeOK
<1> QED BY <1>1, <1>2, <1>3, <1>4, <1>5, Zenon DEF Next

-----------------------------------------------------------------------------
(* The list and the hash of the replacer stay together, whatever frames    *)
(* are pinned, unpinned and taken, and in whatever order (lru_replacer     *)
(* .cpp: victim(), pin(), unpin()).                                        *)
THEOREM ReplacerWellFormed == LRUSpec => []LRUWellFormed
<1>1. LRUInit => LRUWellFormed
  BY DEF LRUInit, LRUWellFormed, WellFormed, EmptyLRU, IsInjective, Range
<1>2. LRUWellFormed /\ [LRUNext]_lruVars => LRUWellFormed'
  <2> SUFFICES ASSUME LRUWellFormed, [LRUNext]_lruVars PROVE LRUWellFormed'
    OBVIOUS
  <2> USE DEF LRUWellFormed
  <2>1. CASE VictimStep
    BY <2>1, VictimFacts DEF VictimStep
  <2>2. ASSUME NEW f \in Frame, PinStep(f) PROVE LRUWellFormed'
    BY <2>2, PinFacts DEF PinStep
  <2>3. ASSUME NEW f \in Frame, UnpinStep(f) PROVE LRUWellFormed'
    BY <2>3, UnpinFacts DEF UnpinStep
  <2>4. CASE UNCHANGED lruVars
    BY <2>4 DEF lruVars
  <2> QED
    BY <2>1, <2>2, <2>3, <2>4 DEF LRUNext
<1> QED BY <1>1, <1>2, PTL DEF LRUSpec

(* One element is further back in a sequence than another: ListedAfter for *)
(* any list.                                                               *)
Behind(s, f, g) == \E i, j \in DOMAIN s : i < j /\ s[i] = g /\ s[j] = f

(* erase() in pin() keeps the order of the other frames. *)
LEMMA RemoveAtOrder ==
  ASSUME NEW S, NEW s \in Seq(S), IsInjective(s), NEW n \in 1..Len(s), NEW f, NEW g
  PROVE  Behind(RemoveAt(s, n), f, g) <=> Behind(s, f, g) /\ s[n] \notin {f, g}
<1> DEFINE t == RemoveAt(s, n)
           Was(k) == IF k < n THEN k ELSE k + 1
<1>1. /\ t \in Seq(S) /\ Len(t) = Len(s) - 1
      /\ \A k \in 1..(Len(s) - 1) : t[k] = IF k < n THEN s[k] ELSE s[k + 1]
  BY RemoveAtElements
<1>2. DOMAIN t = 1..(Len(s) - 1) /\ DOMAIN s = 1..Len(s) /\ Len(s) \in Nat
  BY <1>1
<1> HIDE DEF t
<1>3. ASSUME Behind(t, f, g) PROVE Behind(s, f, g) /\ s[n] \notin {f, g}
  <2>1. PICK i, j \in 1..(Len(s) - 1) : i < j /\ t[i] = g /\ t[j] = f
    BY <1>2, <1>3 DEF Behind
  <2>2. /\ Was(i) \in DOMAIN s /\ Was(j) \in DOMAIN s /\ Was(i) < Was(j)
        /\ Was(i) # n /\ Was(j) # n
    BY <1>2, <2>1
  <2>3. s[Was(i)] = g /\ s[Was(j)] = f
    BY <1>1, <2>1, Zenon
  <2>4. s[n] # g /\ s[n] # f
    BY <1>2, <2>2, <2>3 DEF IsInjective
  <2> HIDE DEF Was
  <2> QED
    BY <2>2, <2>3, <2>4 DEF Behind
<1>4. ASSUME Behind(s, f, g), s[n] \notin {f, g} PROVE Behind(t, f, g)
  <2> DEFINE Is(k) == IF k < n THEN k ELSE k - 1
  <2>1. PICK i, j \in 1..Len(s) : i < j /\ s[i] = g /\ s[j] = f
    BY <1>2, <1>4 DEF Behind
  <2>2. i # n /\ j # n
    BY <1>4, <2>1
  <2>3. Is(i) \in DOMAIN t /\ Is(j) \in DOMAIN t /\ Is(i) < Is(j)
    BY <1>2, <2>1, <2>2
  <2>4. ASSUME NEW k \in 1..Len(s), k # n PROVE t[Is(k)] = s[k]
    <3>1. CASE k < n
      BY <1>1, <1>2, <3>1
    <3>2. CASE k > n
      <4>1. k - 1 \in 1..(Len(s) - 1) /\ ~(k - 1 < n) /\ (k - 1) + 1 = k
        BY <1>2, <3>2
      <4>2. t[k - 1] = s[(k - 1) + 1]
        BY <1>1, <4>1
      <4> QED
        BY <3>2, <4>1, <4>2
    <3> QED
      BY <2>4, <3>1, <3>2
  <2> HIDE DEF Is
  <2> QED
    BY <2>1, <2>2, <2>3, <2>4 DEF Behind
<1> QED
  BY <1>3, <1>4 DEF t

(* pop_back() is erase() of the last element. *)
LEMMA FrontIsRemoveAt ==
  ASSUME NEW S, NEW s \in Seq(S), s # << >>
  PROVE  /\ Len(s) \in 1..Len(s)
         /\ Front(s) = RemoveAt(s, Len(s))
<1>1. Len(s) \in Nat \ {0} /\ DOMAIN s = 1..Len(s)
  OBVIOUS
<1> DEFINE t == RemoveAt(s, Len(s))
           u == Front(s)
<1>2. u \in Seq(S) /\ Len(u) = Len(s) - 1 /\ \A k \in 1..(Len(s) - 1) : u[k] = s[k]
  BY <1>1, SMTT(30) DEF Front
<1>3. t \in Seq(S) /\ Len(t) = Len(s) - 1 /\ \A k \in 1..(Len(s) - 1) : t[k] = s[k]
  <2>1. Len(s) \in 1..Len(s) /\ \A k \in 1..(Len(s) - 1) : k < Len(s)
    BY <1>1
  <2>2. /\ t \in Seq(S) /\ Len(t) = Len(s) - 1
        /\ \A k \in 1..(Len(s) - 1) : t[k] = IF k < Len(s) THEN s[k] ELSE s[k + 1]
    BY <2>1, RemoveAtElements, Zenon
  <2> HIDE DEF t
  <2> QED
    BY <2>1, <2>2
<1> HIDE DEF t, u
<1>4. u = t
  BY <1>2, <1>3
<1> QED
  BY <1>1, <1>4 DEF t, u

(* push_front() in unpin(): every other frame is behind the new one. *)
LEMMA ConsOrder ==
  ASSUME NEW S, NEW s \in Seq(S), NEW e \in S, e \notin Range(s), NEW f, NEW g
  PROVE  Behind(<<e>> \o s, f, g) <=> Behind(s, f, g) \/ (g = e /\ f \in Range(s))
<1> DEFINE t == <<e>> \o s
<1>1. <<e>> \in Seq(S) /\ Len(<<e>>) = 1 /\ <<e>>[1] = e
  OBVIOUS
<1>2. /\ t \in Seq(S) /\ Len(t) = Len(s) + 1
      /\ \A k \in 1..(Len(s) + 1) : t[k] = IF k = 1 THEN e ELSE s[k - 1]
  BY <1>1
<1>3. DOMAIN t = 1..(Len(s) + 1) /\ DOMAIN s = 1..Len(s) /\ Len(s) \in Nat
  BY <1>2
<1> HIDE DEF t
<1>4. ASSUME Behind(t, f, g) PROVE Behind(s, f, g) \/ (g = e /\ f \in Range(s))
  <2>1. PICK i, j \in 1..(Len(s) + 1) : i < j /\ t[i] = g /\ t[j] = f
    BY <1>3, <1>4 DEF Behind
  <2>2. j - 1 \in DOMAIN s /\ s[j - 1] = f
    BY <1>2, <1>3, <2>1
  <2>3. CASE i = 1
    BY <1>2, <1>3, <2>1, <2>2, <2>3, Zenon DEF Range
  <2>4. CASE i # 1
    <3>1. i - 1 \in DOMAIN s /\ s[i - 1] = g /\ i - 1 < j - 1
      BY <1>2, <1>3, <2>1, <2>4
    <3> QED
      BY <2>2, <3>1 DEF Behind
  <2> QED
    BY <2>3, <2>4
<1>5. ASSUME Behind(s, f, g) PROVE Behind(t, f, g)
  <2>1. PICK i, j \in 1..Len(s) : i < j /\ s[i] = g /\ s[j] = f
    BY <1>3, <1>5 DEF Behind
  <2>2. /\ i + 1 \in DOMAIN t /\ j + 1 \in DOMAIN t /\ i + 1 < j + 1
        /\ t[i + 1] = g /\ t[j + 1] = f
    BY <1>2, <1>3, <2>1
  <2> QED
    BY <2>2 DEF Behind
<1>6. ASSUME f \in Range(s) PROVE Behind(t, f, e)
  <2>1. PICK j \in 1..Len(s) : s[j] = f
    BY <1>3, <1>6 DEF Range
  <2>2. /\ 1 \in DOMAIN t /\ j + 1 \in DOMAIN t /\ 1 < j + 1
        /\ t[1] = e /\ t[j + 1] = f
    BY <1>2, <1>3, <2>1
  <2> QED
    BY <2>2 DEF Behind
<1> QED
  BY <1>4, <1>5, <1>6 DEF t

(* The frame at the back is behind every other. *)
LEMMA LastIsBehind ==
  ASSUME NEW S, NEW s \in Seq(S), s # << >>, NEW g \in Range(s) \ {Last(s)}
  PROVE  Behind(s, Last(s), g)
<1>1. DOMAIN s = 1..Len(s) /\ Len(s) \in Nat \ {0}
  OBVIOUS
<1>2. PICK i \in 1..Len(s) : s[i] = g
  BY <1>1 DEF Range
<1>3. i < Len(s)
  BY <1>1, <1>2 DEF Last
<1> QED
  BY <1>1, <1>2, <1>3 DEF Behind, Last

(* Only listed frames are behind each other. *)
LEMMA BehindListed ==
  ASSUME NEW s, NEW f, NEW g, Behind(s, f, g)
  PROVE  f \in Range(s) /\ g \in Range(s)
BY DEF Behind, Range

-----------------------------------------------------------------------------
(* The order of the list, as the policy sees it. *)
Older == {fg \in Frame \X Frame : ListedAfter(fg[1], fg[2])}

(* Pairs of frames that are ListedAfter each other, now and after a step. *)
LEMMA OlderFacts ==
  /\ \A f, g \in Frame : <<f, g>> \in Older <=> Behind(replacer.list, f, g)
  /\ \A f, g \in Frame : <<f, g>> \in Older' <=> Behind(replacer'.list, f, g)
  /\ Older \subseteq Frame \X Frame /\ Older' \subseteq Frame \X Frame
BY DEF Older, ListedAfter, Behind

(* A step that takes one frame out of the list is a Forget of the policy. *)
LEMMA ForgetFacts ==
  ASSUME NEW f \in Frame, replacer'.hash = replacer.hash \ {f},
         \A g, h \in Frame :
           Behind(replacer'.list, g, h) <=> Behind(replacer.list, g, h) /\ f \notin {g, h}
  PROVE  Policy!Forget(f)
<1>1. Older' = {fg \in Older : f \notin {fg[1], fg[2]}}
  BY OlderFacts
<1> QED
  BY <1>1 DEF Policy!Forget, Older

(* The replacer evicts, uses and releases frames as the policy does: what  *)
(* victim() returns has gone longest without being pinned (lru_replacer    *)
(* .cpp: victim(), pin(), unpin()).                                        *)
THEOREM ReplacerImplementsPolicy == LRUSpec => RefinesRecency
<1>1. LRUInit => Policy!Init
  BY DEF LRUInit, Policy!Init, EmptyLRU, ListedAfter
<1>2. LRUWellFormed /\ [LRUNext]_lruVars => [Policy!Next]_(Policy!vars)
  <2> SUFFICES ASSUME LRUWellFormed, [LRUNext]_lruVars
               PROVE  [Policy!Next]_(Policy!vars)
    OBVIOUS
  <2> DEFINE s == replacer.list
  <2>a. s \in Seq(Frame) /\ IsInjective(s) /\ replacer.hash = Range(s) /\ replacer.hash \subseteq Frame
    BY HashFacts DEF LRUWellFormed, WellFormed
  <2>1. CASE VictimStep
    <3> DEFINE f == Last(s)
    <3>1. s # << >> /\ out' = f /\ replacer' = [list |-> Front(s), hash |-> replacer.hash \ {f}]
      BY <2>1 DEF VictimStep, Victim, VictimOf
    <3>2. f \in Frame /\ f \in replacer.hash
      BY <2>a, <3>1, FrontFacts
    <3>3. Len(s) \in 1..Len(s) /\ Front(s) = RemoveAt(s, Len(s)) /\ s[Len(s)] = f
      BY <2>a, <3>1, FrontIsRemoveAt DEF Last
    <3>4. \A g, h : Behind(RemoveAt(s, Len(s)), g, h)
                      <=> Behind(s, g, h) /\ s[Len(s)] \notin {g, h}
      BY <2>a, <3>3, RemoveAtOrder
    <3>5. Policy!Forget(f)
      <4>1. replacer'.list = RemoveAt(s, Len(s)) /\ replacer'.hash = replacer.hash \ {f}
        BY <3>1, <3>3
      <4>2. \A g, h \in Frame :
              Behind(replacer'.list, g, h) <=> Behind(replacer.list, g, h) /\ f \notin {g, h}
        BY <3>3, <3>4, <4>1
      <4> QED BY <3>2, <4>1, <4>2, ForgetFacts, Zenon
    <3>6. \A g \in replacer.hash \ {f} : <<f, g>> \in Older
      BY <2>a, <3>1, <3>2, LastIsBehind, OlderFacts, Zenon
    <3>7. Policy!Evict(f)
      BY <3>1, <3>2, <3>5, <3>6, Zenon DEF Policy!Evict, Older
    <3> QED
      BY <3>2, <3>7 DEF Policy!Next
  <2>2. ASSUME NEW f \in Frame, PinStep(f) PROVE Policy!Use(f)
    <3>1. replacer' = Pin(replacer, f) /\ out' = NoFrame
      BY <2>2 DEF PinStep
    <3>2. CASE f \notin replacer.hash
      <4>1. replacer' = replacer
        BY <3>1, <3>2 DEF Pin
      <4>2. \A g, h : Behind(s, g, h) => f \notin {g, h}
        BY <2>a, <3>2, BehindListed
      <4>3. Policy!Forget(f)
        BY <3>2, <4>1, <4>2, ForgetFacts
      <4> QED
        BY <3>1, <4>3 DEF Policy!Use
    <3>3. CASE f \in replacer.hash
      <4> DEFINE i == CHOOSE k \in DOMAIN s : s[k] = f
      <4>1. i \in 1..Len(s) /\ s[i] = f
        BY <2>a, <3>3 DEF Range
      <4>2. replacer' = [list |-> RemoveAt(s, i), hash |-> replacer.hash \ {f}]
        BY <3>1, <3>3 DEF Pin
      <4> HIDE DEF i
      <4>3. \A g, h : Behind(RemoveAt(s, i), g, h) <=> Behind(s, g, h) /\ s[i] \notin {g, h}
        BY <2>a, <4>1, RemoveAtOrder
      <4>4. Policy!Forget(f)
        BY <4>1, <4>2, <4>3, ForgetFacts
      <4> QED
        BY <3>1, <4>4 DEF Policy!Use
    <3> QED
      BY <3>2, <3>3
  <2>3. ASSUME NEW f \in Frame, UnpinStep(f) PROVE Policy!Release(f)
    <3>1. replacer' = Unpin(replacer, f) /\ out' = NoFrame
      BY <2>3 DEF UnpinStep
    <3>2. CASE f \in replacer.hash
      <4>1. replacer' = replacer
        BY <3>1, <3>2 DEF Unpin
      <4> QED
        BY <3>1, <3>2, <4>1 DEF Policy!Release, ListedAfter
    <3>3. CASE f \notin replacer.hash
      <4>1. replacer' = [list |-> <<f>> \o s, hash |-> replacer.hash \union {f}]
        BY <3>1, <3>3 DEF Unpin
      <4>2. \A g, h : Behind(<<f>> \o s, g, h) <=> Behind(s, g, h) \/ (h = f /\ g \in Range(s))
        BY <2>a, <3>3, ConsOrder
      <4>3. Older' = Older \union {<<g, f>> : g \in replacer.hash}
        BY <2>a, <4>1, <4>2, OlderFacts
      <4> QED
        <5>1. replacer'.hash = replacer.hash \union {f}
          BY <4>1
        <5> QED BY <3>1, <3>3, <4>3, <5>1, Zenon DEF Policy!Release, Older
    <3> QED
      BY <3>2, <3>3
  <2>4. CASE UNCHANGED lruVars
    BY <2>4 DEF lruVars, Policy!vars, ListedAfter
  <2> QED
    BY <2>1, <2>2, <2>3, <2>4 DEF LRUNext, Policy!Next
<1> QED BY <1>1, <1>2, ReplacerWellFormed, PTL DEF LRUSpec, RefinesRecency, Policy!Spec
=============================================================================
