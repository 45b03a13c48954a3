-------------------------- MODULE IndexFileProofs ---------------------------
(***************************************************************************)
(* Proofs about IndexFile for every set of files, descriptors and column   *)
(* lists: IndexInv is an invariant, so an index that open_index() accepts  *)
(* has the header last written and a root in its file, its nodes fit their *)
(* pages, and a node create_node() makes gets a page of its own.           *)
(*                                                                         *)
(* The argument: the tables of descriptors are each other's inverse, so a  *)
(* step acts on one file and tells nothing of the others (OtherFile); the  *)
(* header on the disk is the one last written from the second write of     *)
(* create_index() on, and deserialize() inverts serialize(); a file is     *)
(* empty or has its root unless create_index() was stopped; and the page   *)
(* counter of a descriptor is past the nodes of the only file it served.   *)
(***************************************************************************)
EXTENDS IndexFile, WellFoundedInduction, TLAPS

(* The headers create_index() builds and later closes write back. *)
IsHeader(h) ==
  /\ h \in [tot_len : Int, first_free : {IX_NO_PAGE}, num_pages : Int,
            root_page : {IX_INIT_ROOT_PAGE}, col_types : Seq(Int), col_lens : Seq(Int),
            col_tot_len : 0..IX_MAX_COL_LEN, btree_order : Int, keys_size : Int,
            first_leaf : {IX_INIT_ROOT_PAGE}, last_leaf : {IX_INIT_ROOT_PAGE}]
  /\ Len(h.col_lens) = Len(h.col_types)
  /\ h.tot_len = 40 + 8 * Len(h.col_types)
  /\ h.btree_order = BtreeOrder(h.col_tot_len)
  /\ h.keys_size = (h.btree_order + 1) * h.col_tot_len

CreateSteps == {"open", "header", "leaf_header", "root", "close"}

Creating(path) == creating # Idle /\ creating.path = path

IndexTypes ==
  /\ exists \subseteq Path
  /\ size \in [Path -> Nat]
  /\ DOMAIN content = Path
  /\ \A path \in Path : DOMAIN content[path] = PageNo
  /\ path2fd \in [Path -> Fd \union {NoFd}]
  /\ fd2path \in [Fd -> Path \union {NoPath}]
  /\ fd2pageno \in [Fd -> Nat]
  /\ nodes \in [Path -> SUBSET (0..MaxPage)]
  /\ saved \in [Path -> SUBSET (0..MaxPage)]
  /\ grown \in [Path -> Int]
  /\ served \in [Fd -> SUBSET Path]
  /\ DOMAIN handle = Path
  /\ DOMAIN closed = Path
  /\ creating = Idle \/ creating \in [at : CreateSteps, path : Path, cols : Columns]
  /\ crashes \in Nat

(* The tables of open files, and what is open when. *)
TablesInv ==
  /\ FdTablesInverse
  /\ \A path \in Path : path2fd[path] # NoFd => path \in exists
  /\ \A path \in Path : handle[path] # None => path2fd[path] # NoFd /\ ~Creating(path)
  /\ creating # Idle =>
       /\ creating.path \in exists
       /\ creating.at # "open" => path2fd[creating.path] # NoFd

(* The header in the file is the one last written. *)
HeaderWritten(path) ==
  /\ IsHeader(closed[path])
  /\ content[path][IX_FILE_HDR_PAGE] = Serialize(closed[path])
  /\ IX_FILE_HDR_PAGE \in nodes[path] \intersect saved[path]

(* What is known of one file: its header; its root, as long as the process *)
(* runs; and its nodes, as long as it keeps its descriptor to itself.      *)
HeaderAt(path) ==
  /\ path \in exists /\ size[path] # 0 => HeaderWritten(path)
  /\ Creating(path) /\ creating.at \in {"leaf_header", "root", "close"} => HeaderWritten(path)
  /\ Creating(path) /\ creating.at \in {"open", "header"} => size[path] = 0
  /\ handle[path] # None =>
       /\ size[path] # 0
       /\ handle[path] = [closed[path] EXCEPT !.num_pages = @ + grown[path]]

RootAt(path) ==
  path \in exists =>
    /\ ~Creating(path) => size[path] = 0 \/ size[path] > IX_INIT_ROOT_PAGE
    /\ Creating(path) /\ creating.at = "close" => size[path] > IX_INIT_ROOT_PAGE

OnlyOn(path, fd) == served[fd] = {path} /\ \A g \in Fd : path \in served[g] => g = fd

NodesAt(path) ==
  /\ path \notin exists => nodes[path] = {}
  /\ Creating(path) /\ creating.at \in {"open", "header"} => nodes[path] = {}
  /\ Creating(path) => nodes[path] \subseteq FixedPages
  /\ path2fd[path] # NoFd => path \in served[path2fd[path]]
  /\ (\A fd \in Fd : path \notin served[fd]) => nodes[path] = {}
  /\ Creating(path) /\ creating.at = "close" => fd2pageno[path2fd[path]] = IX_INIT_ROOT_PAGE
  /\ \A fd \in Fd :
       OnlyOn(path, fd) /\ ~Creating(path) =>
         \A n \in nodes[path] :
           n <= fd2pageno[fd] /\ (handle[path] # None => n < fd2pageno[fd])

FilesInv ==
  \A path \in Path : HeaderAt(path) /\ (crashes = 0 => RootAt(path) /\ NodesAt(path))

IndexInv == IndexTypes /\ TablesInv /\ FilesInv

(* How many entries fit: division, as the code divides. *)
LEMMA DivideFits ==
  ASSUME NEW a \in Nat, NEW d \in Nat \ {0}
  PROVE  /\ a \div d \in Nat
         /\ (a \div d) * d <= a
         /\ \A k \in Nat : k * d <= a => k <= a \div d
<1>1. a \div d \in Nat /\ a % d \in 0..(d - 1) /\ a = d * (a \div d) + (a % d)
  OBVIOUS
<1>2. (a \div d) * d <= a
  BY <1>1
<1>3. ASSUME NEW k \in Nat, k * d <= a PROVE k <= a \div d
  <2> DEFINE q == a \div d
  <2>1. q \in Nat /\ a < d * q + d
    BY <1>1
  <2> HIDE DEF q
  <2>2. CASE q + 1 <= k
    <3>1. (q + 1) * d <= k * d
      BY <2>1, <2>2
    <3> QED BY <3>1, <2>1, <1>3
  <2> QED BY <2>1, <2>2 DEF q
<1> QED BY <1>1, <1>2, <1>3

(* The types of a header's fields. *)
LEMMA HeaderFields ==
  ASSUME NEW h, IsHeader(h)
  PROVE  /\ h.col_types \in Seq(Int) /\ h.col_lens \in Seq(Int)
         /\ h.tot_len \in Int /\ h.first_free \in Int /\ h.num_pages \in Int
         /\ h.root_page = 2 /\ h.btree_order \in Int /\ h.keys_size \in Int
         /\ h.col_tot_len \in Nat /\ h.col_tot_len <= 512
         /\ h.first_leaf = 2 /\ h.last_leaf = 2
<1>1. /\ h.col_types \in Seq(Int) /\ h.col_lens \in Seq(Int)
      /\ h.tot_len \in Int /\ h.first_free \in {IX_NO_PAGE} /\ h.num_pages \in Int
      /\ h.root_page \in {IX_INIT_ROOT_PAGE} /\ h.btree_order \in Int /\ h.keys_size \in Int
      /\ h.col_tot_len \in 0..IX_MAX_COL_LEN
      /\ h.first_leaf \in {IX_INIT_ROOT_PAGE} /\ h.last_leaf \in {IX_INIT_ROOT_PAGE}
  BY Zenon DEF IsHeader
<1>2. h.root_page = 2 /\ h.first_leaf = 2 /\ h.last_leaf = 2 /\ h.first_free = -1
  BY <1>1, Zenon DEF IX_NO_PAGE, IX_INIT_ROOT_PAGE
<1>3. h.col_tot_len \in 0..512
  BY <1>1, Zenon DEF IX_MAX_COL_LEN
<1>4. h.col_tot_len \in Nat /\ h.col_tot_len <= 512
  BY <1>3
<1>5. h.first_free \in Int
  BY <1>2
<1> QED BY <1>1, <1>2, <1>4, <1>5, Zenon

\* The length of a list of numbers is a natural.
LEMMA LenNat == ASSUME NEW s \in Seq(Int) PROVE Len(s) \in Nat
OBVIOUS

\* A list of numbers is a function of its places.
LEMMA SeqFunction == ASSUME NEW s \in Seq(Int) PROVE s = [i \in 1..Len(s) |-> s[i]]
OBVIOUS

(* The elements of two sequences joined. *)
LEMMA JoinFacts ==
  ASSUME NEW s \in Seq(Int), NEW t \in Seq(Int), NEW j, NEW k, Len(s) = j, Len(t) = k
  PROVE  /\ s \o t \in Seq(Int)
         /\ Len(s \o t) = j + k
         /\ \A i \in 1..j : (s \o t)[i] = s[i]
         /\ \A i \in 1..k : (s \o t)[j + i] = t[i]
<1>1. j \in Nat /\ k \in Nat
  BY LenNat
<1>2. s \o t \in Seq(Int) /\ Len(s \o t) = j + k
  OBVIOUS
<1>3. ASSUME NEW i \in 1..j PROVE (s \o t)[i] = s[i]
  BY <1>1
<1>4. ASSUME NEW i \in 1..k PROVE (s \o t)[j + i] = t[i]
  BY <1>1
<1> QED BY <1>2, <1>3, <1>4

(* A node laid out by a header fits its page: the orders create_index()    *)
(* computes leave room for the entry in reserve.                           *)
LEMMA HeaderFits ==
  ASSUME NEW h, IsHeader(h)
  PROVE  /\ KeyStart(h, h.btree_order + 1) <= RidStart(h, 0)
         /\ RidStart(h, h.btree_order + 1) <= PAGE_SIZE
         /\ h.btree_order > 2
<1> DEFINE tot == h.col_tot_len
           q == (PAGE_SIZE - SizeofIxPageHdr) \div (tot + SizeofRid)
<1>1. tot \in Nat /\ tot <= 512 /\ h.btree_order = q - 1 /\ h.keys_size = (h.btree_order + 1) * tot
  BY HeaderFields, Zenon DEF IsHeader, BtreeOrder
<1>2. PAGE_SIZE - SizeofIxPageHdr \in Nat /\ 4 * (512 + 8) <= PAGE_SIZE - SizeofIxPageHdr
  BY IndexAssumption DEF SizeofIxPageHdr, SizeofRid, IX_MAX_COL_LEN
<1>3. tot + SizeofRid \in Nat \ {0} /\ 4 * (tot + SizeofRid) <= PAGE_SIZE - SizeofIxPageHdr
  BY <1>1, <1>2 DEF SizeofRid
<1>4. q \in Nat /\ q * (tot + SizeofRid) <= PAGE_SIZE - SizeofIxPageHdr /\ 4 <= q
  <2> DEFINE a == PAGE_SIZE - SizeofIxPageHdr
             d == tot + SizeofRid
  <2>1. a \in Nat /\ d \in Nat \ {0} /\ 4 * d <= a
    BY <1>2, <1>3
  <2> HIDE DEF a, d
  <2>2. a \div d \in Nat /\ (a \div d) * d <= a /\ 4 <= a \div d
    BY <2>1, DivideFits
  <2> QED BY <2>2 DEF a, d
<1> HIDE DEF q, tot
<1>5. h.btree_order + 1 = q /\ h.keys_size = q * tot
  BY <1>1, <1>4
<1>6. KeyStart(h, h.btree_order + 1) = SizeofIxPageHdr + q * tot
  BY <1>5 DEF KeyStart, tot
<1>7. RidStart(h, 0) = SizeofIxPageHdr + q * tot
  BY <1>1, <1>4, <1>5 DEF RidStart, SizeofIxPageHdr, SizeofRid
<1>8. RidStart(h, h.btree_order + 1) = SizeofIxPageHdr + q * tot + q * SizeofRid
  BY <1>5 DEF RidStart
<1>9. q * (tot + SizeofRid) = q * tot + q * SizeofRid /\ q * tot \in Nat
  BY <1>1, <1>4 DEF SizeofRid
<1> QED BY <1>1, <1>2, <1>4, <1>6, <1>7, <1>8, <1>9, IndexAssumption DEF SizeofIxPageHdr, SizeofRid

(* What deserialize() reads is what serialize() wrote, field by field, for *)
(* any number of columns, and both end where the header says.              *)
LEMMA HeaderRoundTrip ==
  ASSUME NEW h, IsHeader(h)
  PROVE  Deserialize(Serialize(h)) = h /\ EndOffset(h) = h.tot_len
<1> DEFINE n == Len(h.col_types)
           front == << h.tot_len, h.first_free, h.num_pages, h.root_page, n >>
           back == << h.col_tot_len, h.btree_order, h.keys_size, h.first_leaf, h.last_leaf >>
           m == 5 + n
           rest == m + n
           s1 == front \o h.col_types
           s2 == s1 \o h.col_lens
           w == s2 \o back
<1>1. /\ n \in Nat /\ h.col_types \in Seq(Int) /\ h.col_lens \in Seq(Int)
      /\ Len(h.col_types) = n /\ Len(h.col_lens) = n
      /\ front \in Seq(Int) /\ back \in Seq(Int) /\ Len(front) = 5 /\ Len(back) = 5
  <2>1. Len(h.col_lens) = n
    BY Zenon DEF IsHeader
  <2>2. n \in Nat
    BY HeaderFields, LenNat, Zenon
  <2> HIDE DEF n
  <2>3. \A a, b, c, d, e \in Int : << a, b, c, d, e >> \in Seq(Int) /\ Len(<< a, b, c, d, e >>) = 5
    OBVIOUS
  <2>4. n \in Int /\ 2 \in Int /\ h.col_tot_len \in Int
    <3>1. h.col_tot_len \in Nat BY HeaderFields, Zenon
    <3> QED BY <3>1, <2>2
  <2>5. front \in Seq(Int) /\ Len(front) = 5
    BY <2>3, <2>4, HeaderFields, Zenon
  <2>6. back \in Seq(Int) /\ Len(back) = 5
    BY <2>3, <2>4, HeaderFields, Zenon
  <2> QED BY <2>1, <2>2, <2>5, <2>6, HeaderFields, Zenon DEF n
<1>2. Serialize(h) = w
  BY Zenon DEF Serialize
<1>3. /\ 5 + n = m /\ m + n = rest /\ m \in Nat /\ rest \in Nat
      /\ rest = 5 + 2 * n
  <2>1. n \in Nat BY <1>1, Zenon
  <2> HIDE DEF n
  <2> QED BY <2>1
<1> HIDE DEF front, back, n, m, rest
<1>4. /\ s1 \in Seq(Int) /\ Len(s1) = m
      /\ \A i \in 1..5 : s1[i] = front[i]
      /\ \A i \in 1..n : s1[5 + i] = h.col_types[i]
  <2> DEFINE f == 5
  <2>1. front \in Seq(Int) /\ h.col_types \in Seq(Int) /\ Len(front) = f /\ Len(h.col_types) = n
    BY <1>1, Zenon
  <2> HIDE DEF f
  <2>2. /\ s1 \in Seq(Int) /\ Len(s1) = f + n
        /\ \A i \in 1..f : s1[i] = front[i]
        /\ \A i \in 1..n : s1[f + i] = h.col_types[i]
    BY <2>1, JoinFacts, SMTT(20)
  <2> QED BY <2>2, <1>3, Zenon DEF f
<1> HIDE DEF s1
<1>5. /\ s2 \in Seq(Int) /\ Len(s2) = rest
      /\ \A i \in 1..m : s2[i] = s1[i]
      /\ \A i \in 1..n : s2[m + i] = h.col_lens[i]
  <2>1. s1 \in Seq(Int) /\ h.col_lens \in Seq(Int) /\ Len(s1) = m /\ Len(h.col_lens) = n
    BY <1>1, <1>4, Zenon
  <2>2. /\ s2 \in Seq(Int) /\ Len(s2) = m + n
        /\ \A i \in 1..m : s2[i] = s1[i]
        /\ \A i \in 1..n : s2[m + i] = h.col_lens[i]
    BY <2>1, JoinFacts, SMTT(20)
  <2> QED BY <2>2, <1>3, Zenon
<1> HIDE DEF s2
<1>6. /\ w \in Seq(Int) /\ Len(w) = rest + 5
      /\ \A i \in 1..rest : w[i] = s2[i]
      /\ \A i \in 1..5 : w[rest + i] = back[i]
  <2> DEFINE f == 5
  <2>1. s2 \in Seq(Int) /\ back \in Seq(Int) /\ Len(s2) = rest /\ Len(back) = f
    BY <1>1, <1>5, Zenon
  <2> HIDE DEF f
  <2>2. /\ w \in Seq(Int) /\ Len(w) = rest + f
        /\ \A i \in 1..rest : w[i] = s2[i]
        /\ \A i \in 1..f : w[rest + i] = back[i]
    BY <2>1, JoinFacts, SMTT(20)
  <2> QED BY <2>2, Zenon DEF f
<1> HIDE DEF w
<1>7. /\ \A i \in 1..5 : w[i] = front[i]
      /\ \A i \in 1..n : w[5 + i] = h.col_types[i]
      /\ \A i \in 1..n : w[5 + n + i] = h.col_lens[i]
  <2>1. n \in Nat BY <1>1, Zenon
  <2>2. \A i \in 1..5 : s1[i] = front[i] BY <1>4, Zenon
  <2>3. \A i \in 1..n : s1[5 + i] = h.col_types[i] BY <1>4, Zenon
  <2>4. \A i \in 1..m : s2[i] = s1[i] BY <1>5, Zenon
  <2>5. \A i \in 1..n : s2[m + i] = h.col_lens[i] BY <1>5, Zenon
  <2>6. \A i \in 1..rest : w[i] = s2[i] BY <1>6, Zenon
  <2>7. \A i \in 1..5 : w[i] = front[i]
    BY <2>1, <2>2, <2>4, <2>6, <1>3
  <2>8. \A i \in 1..n : w[5 + i] = h.col_types[i]
    BY <2>1, <2>3, <2>4, <2>6, <1>3
  <2>9. \A i \in 1..n : w[5 + n + i] = h.col_lens[i]
    BY <2>1, <2>5, <2>6, <1>3
  <2> QED BY <2>7, <2>8, <2>9, Zenon
<1>8. /\ w[1] = h.tot_len /\ w[2] = h.first_free /\ w[3] = h.num_pages
      /\ w[4] = h.root_page /\ w[5] = n
  <2>1. \A i \in 1..5 : w[i] = front[i] BY <1>7, Zenon
  <2> QED BY <2>1 DEF front
<1>9. /\ w[rest + 1] = h.col_tot_len /\ w[rest + 2] = h.btree_order
      /\ w[rest + 3] = h.keys_size /\ w[rest + 4] = h.first_leaf /\ w[rest + 5] = h.last_leaf
  <2>1. \A i \in 1..5 : w[rest + i] = back[i] BY <1>6, Zenon
  <2> QED BY <2>1 DEF back
<1>10. /\ SubSeq(w, 6, 5 + n) = h.col_types
       /\ SubSeq(w, 6 + n, 5 + 2 * n) = h.col_lens
  <2>1. n \in Nat BY <1>1, Zenon
  <2>2. ASSUME NEW s \in Seq(Int), Len(s) = n, NEW k \in Nat, \A i \in 1..n : w[k + i] = s[i]
        PROVE  SubSeq(w, k + 1, k + n) = s
    <3>1. s = [i \in 1..n |-> s[i]]
      BY <2>2, SeqFunction, Zenon
    <3>2. w \in Seq(Int)
      BY <1>6, Zenon
    <3>3. SubSeq(w, k + 1, k + n) = [i \in 1..n |-> w[k + i]]
      BY <3>2, <2>1
    <3> QED BY <2>2, <3>1, <3>3, Zenon
  <2>3. 6 = 5 + 1 /\ 6 + n = (5 + n) + 1 /\ 5 + 2 * n = (5 + n) + n /\ 5 + n \in Nat /\ 5 \in Nat
    BY <2>1
  <2>4. SubSeq(w, 5 + 1, 5 + n) = h.col_types
    BY <1>1, <1>7, <2>2, <2>3, Zenon
  <2>5. SubSeq(w, (5 + n) + 1, (5 + n) + n) = h.col_lens
    BY <1>1, <1>7, <2>2, <2>3, Zenon
  <2> QED BY <2>3, <2>4, <2>5, Zenon
<1>11. Deserialize(w) =
        [ tot_len |-> h.tot_len, first_free |-> h.first_free, num_pages |-> h.num_pages,
          root_page |-> h.root_page, col_types |-> h.col_types, col_lens |-> h.col_lens,
          col_tot_len |-> h.col_tot_len, btree_order |-> h.btree_order,
          keys_size |-> h.keys_size, first_leaf |-> h.first_leaf, last_leaf |-> h.last_leaf ]
  BY <1>3, <1>8, <1>9, <1>10, Zenon DEF Deserialize
<1>12. Deserialize(w) = h
  BY <1>11, Zenon DEF IsHeader
<1>13. EndOffset(h) = h.tot_len
  <2>1. EndOffset(h) = 4 * (rest + 5) /\ h.tot_len = 40 + 8 * n
    BY <1>2, <1>6, Zenon DEF EndOffset, Word, IsHeader, n
  <2>2. n \in Nat BY <1>1, Zenon
  <2> QED BY <2>1, <2>2, <1>3
<1> QED BY <1>2, <1>12, <1>13

(* The header create_index() builds is one. *)
LEMMA NewHeaderIs ==
  ASSUME NEW cols \in Columns, ColTotLen(cols) <= IX_MAX_COL_LEN
  PROVE  IsHeader(NewHeader(cols))
<1> DEFINE tot == ColTotLen(cols)
           n == Len(cols)
           types == [i \in 1..n |-> cols[i].type]
           lens == [i \in 1..n |-> cols[i].len]
           h == NewHeader(cols)
<1>1. cols \in Seq([type : Int, len : Nat]) /\ tot \in Nat
  BY IndexAssumption, Zenon
<1>2. tot \in 0..IX_MAX_COL_LEN
  <2>1. tot \in Nat /\ tot <= IX_MAX_COL_LEN BY <1>1
  <2> HIDE DEF tot
  <2> QED BY <2>1 DEF IX_MAX_COL_LEN
<1>3. n \in Nat /\ \A i \in 1..n : cols[i] \in [type : Int, len : Nat]
  <2> DEFINE S == [type : Int, len : Nat]
  <2>1. cols \in Seq(S) BY <1>1
  <2> HIDE DEF S
  <2>2. n \in Nat /\ \A i \in 1..n : cols[i] \in S BY <2>1
  <2> QED BY <2>2 DEF S
<1>4. \A i \in 1..n : cols[i].type \in Int /\ cols[i].len \in Int
  BY <1>3
<1>5. types \in Seq(Int) /\ lens \in Seq(Int) /\ Len(types) = n /\ Len(lens) = n
  <2> HIDE DEF n
  <2> QED BY <1>3, <1>4
<1>6. BtreeOrder(tot) \in Int
  <2>1. tot + SizeofRid \in Nat \ {0}
    <3>1. tot \in Nat BY <1>1
    <3> HIDE DEF tot
    <3> QED BY <3>1 DEF SizeofRid
  <2>2. PAGE_SIZE - SizeofIxPageHdr \in Nat
    BY IndexAssumption DEF SizeofIxPageHdr, SizeofRid, IX_MAX_COL_LEN
  <2>3. (PAGE_SIZE - SizeofIxPageHdr) \div (tot + SizeofRid) \in Nat
    <3> DEFINE d == tot + SizeofRid
               a == PAGE_SIZE - SizeofIxPageHdr
    <3>1. d \in Nat \ {0} /\ a \in Nat BY <2>1, <2>2
    <3> HIDE DEF d, a
    <3>2. a \div d \in Nat BY <3>1, DivideFits, Zenon
    <3> QED BY <3>2 DEF d, a
  <2> QED BY <2>3 DEF BtreeOrder
<1>7. (BtreeOrder(tot) + 1) * tot \in Int
  <2> DEFINE b == BtreeOrder(tot)
  <2>1. b \in Int /\ tot \in Int
    BY <1>1, <1>6
  <2> HIDE DEF b, tot
  <2>2. (b + 1) * tot \in Int BY <2>1
  <2> QED BY <2>2 DEF b
<1>8. Word * (4 + 6) + 2 * Word * n = 40 + 8 * n /\ 40 + 8 * n \in Int
  <2>1. n \in Nat BY <1>3
  <2> HIDE DEF n
  <2> QED BY <2>1 DEF Word
<1>9. IX_INIT_NUM_PAGES \in Int
  BY DEF IX_INIT_NUM_PAGES
<1>10. /\ h.tot_len = 40 + 8 * n /\ h.first_free = IX_NO_PAGE /\ h.num_pages = IX_INIT_NUM_PAGES
       /\ h.root_page = IX_INIT_ROOT_PAGE /\ h.col_types = types /\ h.col_lens = lens
       /\ h.col_tot_len = tot /\ h.btree_order = BtreeOrder(tot)
       /\ h.keys_size = (BtreeOrder(tot) + 1) * tot
       /\ h.first_leaf = IX_INIT_ROOT_PAGE /\ h.last_leaf = IX_INIT_ROOT_PAGE
  BY <1>8, Zenon DEF NewHeader
<1>11. NewHeader(cols) =
         [ tot_len |-> 40 + 8 * n, first_free |-> IX_NO_PAGE, num_pages |-> IX_INIT_NUM_PAGES,
           root_page |-> IX_INIT_ROOT_PAGE, col_types |-> types, col_lens |-> lens,
           col_tot_len |-> tot, btree_order |-> BtreeOrder(tot),
           keys_size |-> (BtreeOrder(tot) + 1) * tot,
           first_leaf |-> IX_INIT_ROOT_PAGE, last_leaf |-> IX_INIT_ROOT_PAGE ]
  BY <1>8, Zenon DEF NewHeader
<1> HIDE DEF tot, types, lens, n
<1>12. h \in [tot_len : Int, first_free : {IX_NO_PAGE}, num_pages : Int,
            root_page : {IX_INIT_ROOT_PAGE}, col_types : Seq(Int), col_lens : Seq(Int),
            col_tot_len : 0..IX_MAX_COL_LEN, btree_order : Int, keys_size : Int,
            first_leaf : {IX_INIT_ROOT_PAGE}, last_leaf : {IX_INIT_ROOT_PAGE}]
  <2> DEFINE size1 == 40 + 8 * n
             order == BtreeOrder(tot)
             keys == (BtreeOrder(tot) + 1) * tot
  <2>1. /\ size1 \in Int /\ order \in Int /\ keys \in Int /\ types \in Seq(Int) /\ lens \in Seq(Int)
        /\ IX_INIT_NUM_PAGES \in Int /\ tot \in 0..IX_MAX_COL_LEN
    BY <1>2, <1>5, <1>6, <1>7, <1>8, <1>9, Zenon
  <2>2. h = [ tot_len |-> size1, first_free |-> IX_NO_PAGE, num_pages |-> IX_INIT_NUM_PAGES,
           root_page |-> IX_INIT_ROOT_PAGE, col_types |-> types, col_lens |-> lens,
           col_tot_len |-> tot, btree_order |-> order, keys_size |-> keys,
           first_leaf |-> IX_INIT_ROOT_PAGE, last_leaf |-> IX_INIT_ROOT_PAGE ]
    BY <1>11
  <2> HIDE DEF h, size1, order, keys
  <2> QED BY <2>1, <2>2, Zenon
<1> QED BY <1>5, <1>10, <1>12, Zenon DEF IsHeader

\* A header is something other than no header.
LEMMA HeaderIsSome ==
  ASSUME NEW h, IsHeader(h)
  PROVE  h # None
<1>1. h.tot_len = 40 + 8 * Len(h.col_types) /\ Len(h.col_types) \in Nat
  BY HeaderFields, LenNat, Zenon DEF IsHeader
<1>2. h.tot_len # 0
  BY <1>1
<1>3. None.tot_len = 0
  BY Zenon DEF None
<1> QED BY <1>2, <1>3, Zenon

(* The header with another number of pages. *)
LEMMA GrownHeader ==
  ASSUME NEW c, IsHeader(c), NEW g \in Int
  PROVE  /\ IsHeader([c EXCEPT !.num_pages = @ + g])
         /\ [c EXCEPT !.num_pages = @ + 0] = c
         /\ [[c EXCEPT !.num_pages = @ + g] EXCEPT !.num_pages = @ + 1]
              = [c EXCEPT !.num_pages = @ + (g + 1)]
         /\ [[c EXCEPT !.num_pages = @ + g] EXCEPT !.num_pages = @ - 1]
              = [c EXCEPT !.num_pages = @ + (g - 1)]
<1> DEFINE h == [c EXCEPT !.num_pages = @ + g]
<1>1. c.num_pages \in Int
  BY HeaderFields, Zenon
<1>2. c.num_pages + g \in Int /\ c.num_pages + 0 = c.num_pages
  BY <1>1
<1>3. c \in [tot_len : Int, first_free : {IX_NO_PAGE}, num_pages : Int,
            root_page : {IX_INIT_ROOT_PAGE}, col_types : Seq(Int), col_lens : Seq(Int),
            col_tot_len : 0..IX_MAX_COL_LEN, btree_order : Int, keys_size : Int,
            first_leaf : {IX_INIT_ROOT_PAGE}, last_leaf : {IX_INIT_ROOT_PAGE}]
  BY Zenon DEF IsHeader
<1>4. h \in [tot_len : Int, first_free : {IX_NO_PAGE}, num_pages : Int,
            root_page : {IX_INIT_ROOT_PAGE}, col_types : Seq(Int), col_lens : Seq(Int),
            col_tot_len : 0..IX_MAX_COL_LEN, btree_order : Int, keys_size : Int,
            first_leaf : {IX_INIT_ROOT_PAGE}, last_leaf : {IX_INIT_ROOT_PAGE}]
  BY <1>2, <1>3, Zenon
<1>5. /\ h.num_pages = c.num_pages + g
      /\ h.col_types = c.col_types /\ h.col_lens = c.col_lens /\ h.tot_len = c.tot_len
      /\ h.btree_order = c.btree_order /\ h.keys_size = c.keys_size
      /\ h.col_tot_len = c.col_tot_len
  BY <1>3, Zenon
<1>6. IsHeader(h)
  BY <1>4, <1>5, Zenon DEF IsHeader
<1>7. [c EXCEPT !.num_pages = @ + 0] = c
  BY <1>2, <1>3, Zenon
<1>8. (c.num_pages + g) + 1 = c.num_pages + (g + 1) /\ (c.num_pages + g) - 1 = c.num_pages + (g - 1)
  BY <1>1
<1>9. [h EXCEPT !.num_pages = @ + 1] = [c EXCEPT !.num_pages = @ + (g + 1)]
  BY <1>3, <1>5, <1>8, Zenon
<1>10. [h EXCEPT !.num_pages = @ - 1] = [c EXCEPT !.num_pages = @ + (g - 1)]
  BY <1>3, <1>5, <1>8, Zenon
<1> QED BY <1>6, <1>7, <1>9, <1>10, Zenon

(* A create_index() in progress, and the same at another of its steps. *)
LEMMA CreateStepFacts ==
  ASSUME IndexTypes, creating.at \in CreateSteps
  PROVE  /\ creating # Idle /\ creating.path \in Path /\ creating.cols \in Columns
         /\ \A path : Creating(path) <=> path = creating.path
         /\ \A x \in CreateSteps :
              /\ [creating EXCEPT !.at = x] \in [at : CreateSteps, path : Path, cols : Columns]
              /\ [creating EXCEPT !.at = x] # Idle
              /\ [creating EXCEPT !.at = x].at = x
              /\ [creating EXCEPT !.at = x].path = creating.path
              /\ [creating EXCEPT !.at = x].cols = creating.cols
<1>1. Idle.at = "idle" /\ "idle" \notin CreateSteps
  BY Zenon DEF Idle, CreateSteps
<1>2. creating # Idle
  BY <1>1, Zenon
<1>3. creating \in [at : CreateSteps, path : Path, cols : Columns]
  BY <1>2, Zenon DEF IndexTypes
<1>4. \A x \in CreateSteps :
        /\ [creating EXCEPT !.at = x] \in [at : CreateSteps, path : Path, cols : Columns]
        /\ [creating EXCEPT !.at = x].at = x
        /\ [creating EXCEPT !.at = x].path = creating.path
        /\ [creating EXCEPT !.at = x].cols = creating.cols
  BY <1>3, Zenon
<1>5. \A x \in CreateSteps : [creating EXCEPT !.at = x] # Idle
  BY <1>1, <1>4, Zenon
<1>6. \A path : Creating(path) <=> path = creating.path
  BY <1>2, Zenon DEF Creating
<1> QED BY <1>2, <1>3, <1>4, <1>5, <1>6, Zenon

\* No create_index() is under way for a path when none is.
LEMMA IdleCreates == ASSUME creating = Idle, NEW path PROVE ~Creating(path)
BY Zenon DEF Creating

\* The three pages create_index() writes are pages.
LEMMA PagesThere == {IX_FILE_HDR_PAGE, IX_LEAF_HEADER_PAGE, IX_INIT_ROOT_PAGE} \subseteq PageNo
                    /\ FixedPages \subseteq 0..MaxPage
BY IndexAssumption, DiskAssumption
   DEF PageNo, IX_FILE_HDR_PAGE, IX_LEAF_HEADER_PAGE, IX_INIT_ROOT_PAGE, IX_INIT_NUM_PAGES, FixedPages

\* IndexInv holds when the server starts.
LEMMA IndexInitInv == IndexInit => IndexInv
<1> SUFFICES ASSUME IndexInit PROVE IndexInv
  OBVIOUS
<1>1. \A path : ~Creating(path)
  BY Zenon DEF IndexInit, Creating
<1>2. IndexTypes
  <2>1. /\ exists = {} /\ size = [path \in Path |-> 0]
        /\ content = [path \in Path |-> ZeroPages]
        /\ path2fd = [path \in Path |-> NoFd]
        /\ fd2path = [fd \in Fd |-> NoPath]
        /\ fd2pageno = [fd \in Fd |-> 0]
    BY Zenon DEF IndexInit, DiskInit
  <2>2. DOMAIN ZeroPages = PageNo
    BY Zenon DEF ZeroPages
  <2>3. size \in [Path -> Nat] /\ fd2pageno \in [Fd -> Nat]
    BY <2>1
  <2>4. DOMAIN content = Path /\ \A path \in Path : DOMAIN content[path] = PageNo
    BY <2>1, <2>2, Zenon
  <2>5. path2fd \in [Path -> Fd \union {NoFd}] /\ fd2path \in [Fd -> Path \union {NoPath}]
    BY <2>1, Zenon
  <2>6. grown \in [Path -> Int] /\ crashes \in Nat
    BY DEF IndexInit
  <2>7. /\ nodes \in [Path -> SUBSET (0..MaxPage)] /\ saved \in [Path -> SUBSET (0..MaxPage)]
        /\ served \in [Fd -> SUBSET Path] /\ DOMAIN handle = Path /\ DOMAIN closed = Path
        /\ creating = Idle
    BY Zenon DEF IndexInit
  <2> QED BY <2>1, <2>3, <2>4, <2>5, <2>6, <2>7, Zenon DEF IndexTypes
<1>3. TablesInv
  <2>1. /\ exists = {} /\ path2fd = [path \in Path |-> NoFd] /\ fd2path = [fd \in Fd |-> NoPath]
        /\ creating = Idle /\ handle = [path \in Path |-> None]
    BY Zenon DEF IndexInit, DiskInit
  <2>2. NoFd \notin Fd
    BY DEF NoFd, Fd
  <2>3. FdTablesInverse
    BY <2>1, <2>2, DiskAssumption DEF FdTablesInverse
  <2> QED BY <2>1, <2>3, Zenon DEF TablesInv
<1>4. /\ exists = {} /\ handle = [path \in Path |-> None]
      /\ nodes = [path \in Path |-> {}] /\ path2fd = [path \in Path |-> NoFd]
      /\ served = [fd \in Fd |-> {}]
  BY Zenon DEF IndexInit, DiskInit
<1>5. FilesInv
  BY <1>1, <1>4, Zenon DEF FilesInv, HeaderAt, RootAt, NodesAt
<1> QED BY <1>2, <1>3, <1>5 DEF IndexInv

(* A step that acts on file p tells nothing new of file q. *)
LEMMA OtherFile ==
  ASSUME IndexInv, NEW p, NEW q \in Path, q # p,
         ~Creating(q), ~Creating(q)', crashes' = crashes,
         q \in exists' <=> q \in exists,
         size'[q] = size[q], content'[q] = content[q], path2fd'[q] = path2fd[q],
         handle'[q] = handle[q], nodes'[q] = nodes[q], saved'[q] = saved[q],
         closed'[q] = closed[q], grown'[q] = grown[q],
         crashes = 0 => \A fd \in Fd :
           /\ served[fd] \subseteq served'[fd]
           /\ q \in served'[fd] => q \in served[fd]
           /\ fd2pageno'[fd] = fd2pageno[fd] \/ p \in served'[fd]
  PROVE  HeaderAt(q)' /\ (crashes' = 0 => RootAt(q)' /\ NodesAt(q)')
<1>1. HeaderAt(q) /\ (crashes = 0 => RootAt(q) /\ NodesAt(q))
  BY Zenon DEF IndexInv, FilesInv
<1>2. HeaderAt(q)'
  BY <1>1, Zenon DEF HeaderAt, HeaderWritten
<1>3. crashes' = 0 => RootAt(q)'
  BY <1>1, Zenon DEF RootAt
<1>4. ASSUME crashes' = 0 PROVE NodesAt(q)'
  <2>1. crashes = 0 /\ NodesAt(q)
    BY <1>1, <1>4, Zenon
  <2>2. path2fd[q] \in Fd \union {NoFd}
    BY Zenon DEF IndexInv, IndexTypes
  <2>3. path2fd'[q] # NoFd => q \in served'[path2fd'[q]]
    BY <2>1, <2>2, Zenon DEF NodesAt
  <2>4. (\A fd \in Fd : q \notin served'[fd]) => nodes'[q] = {}
    BY <2>1, Zenon DEF NodesAt
  <2>5. ASSUME NEW fd \in Fd, OnlyOn(q, fd)' PROVE OnlyOn(q, fd) /\ fd2pageno'[fd] = fd2pageno[fd]
    <3>1. served'[fd] = {q} /\ \A g \in Fd : q \in served'[g] => g = fd
      BY <2>5, Zenon DEF OnlyOn
    <3>2. q \in served[fd] /\ served[fd] \subseteq {q} /\ fd2pageno'[fd] = fd2pageno[fd]
      BY <2>1, <3>1, Zenon
    <3>3. served[fd] = {q}
      BY <3>2, Zenon
    <3>4. \A g \in Fd : q \in served[g] => g = fd
      BY <2>1, <3>1, Zenon
    <3> QED BY <3>2, <3>3, <3>4, Zenon DEF OnlyOn
  <2>6. \A fd \in Fd : OnlyOn(q, fd)' =>
          \A n \in nodes'[q] :
            n <= fd2pageno'[fd] /\ (handle'[q] # None => n < fd2pageno'[fd])
    BY <2>1, <2>5, Zenon DEF NodesAt
  <2> QED BY <2>1, <2>3, <2>4, <2>6, Zenon DEF NodesAt
<1> QED BY <1>2, <1>3, <1>4, Zenon

\* create_index() makes an empty file.
LEMMA CreateBeginInv ==
  ASSUME IndexInv, NEW p \in Path, NEW cols \in Columns, CreateBegin(p, cols)
  PROVE  IndexInv'
<1>1. /\ creating = Idle /\ p \notin exists
      /\ exists' = exists \union {p}
      /\ size' = [size EXCEPT ![p] = 0]
      /\ content' = [content EXCEPT ![p] = ZeroPages]
      /\ path2fd' = path2fd /\ fd2path' = fd2path /\ fd2pageno' = fd2pageno
      /\ creating' = [at |-> "open", path |-> p, cols |-> cols]
      /\ handle' = handle /\ nodes' = nodes /\ saved' = saved /\ closed' = closed
      /\ grown' = grown /\ served' = served /\ crashes' = crashes
  BY Zenon DEF CreateBegin, CreateFile
<1>2. creating' # Idle /\ creating'.at = "open" /\ creating'.path = p
  BY <1>1, Zenon DEF Idle
<1>3. \A q : ~Creating(q) /\ (Creating(q)' <=> q = p)
  BY <1>1, <1>2, Zenon DEF Creating
<1>4. path2fd[p] = NoFd /\ handle[p] = None
  BY <1>1, Zenon DEF IndexInv, TablesInv
<1>5. IndexTypes'
  <2>1. DOMAIN ZeroPages = PageNo
    BY Zenon DEF ZeroPages
  <2>2. creating' \in [at : CreateSteps, path : Path, cols : Columns]
    BY <1>1, Zenon DEF CreateSteps
  <2>3. size' \in [Path -> Nat]
    BY <1>1 DEF IndexInv, IndexTypes
  <2>4. DOMAIN content' = Path /\ \A q \in Path : DOMAIN (content'[q]) = PageNo
    BY <1>1, <2>1, Zenon DEF IndexInv, IndexTypes
  <2> QED BY <1>1, <2>2, <2>3, <2>4, Zenon DEF IndexInv, IndexTypes
<1>6. TablesInv'
  <2>1. FdTablesInverse'
    BY <1>1, Zenon DEF IndexInv, TablesInv, FdTablesInverse
  <2> QED BY <1>1, <1>2, <1>3, <1>4, <2>1, Zenon DEF IndexInv, TablesInv
<1>7. ASSUME NEW q \in Path, q # p
      PROVE  HeaderAt(q)' /\ (crashes' = 0 => RootAt(q)' /\ NodesAt(q)')
  <2>1. size'[q] = size[q] /\ content'[q] = content[q] /\ (q \in exists' <=> q \in exists)
    BY <1>1, <1>7, Zenon DEF IndexInv, IndexTypes
  <2> QED BY <1>1, <1>3, <1>7, <2>1, OtherFile, Zenon
<1>8. size'[p] = 0
  BY <1>1, Zenon DEF IndexInv, IndexTypes
<1>9. HeaderAt(p)'
  BY <1>1, <1>2, <1>4, <1>8, Zenon DEF HeaderAt
<1>10. ASSUME crashes' = 0 PROVE RootAt(p)' /\ NodesAt(p)'
  <2>1. NodesAt(p) /\ nodes[p] = {}
    BY <1>1, <1>10, Zenon DEF IndexInv, FilesInv, NodesAt
  <2>2. RootAt(p)'
    BY <1>2, <1>3, Zenon DEF RootAt
  <2>3. NodesAt(p)'
    BY <1>1, <1>2, <1>3, <2>1, Zenon DEF NodesAt
  <2> QED BY <2>2, <2>3
<1>11. FilesInv'
  BY <1>7, <1>9, <1>10, Zenon DEF FilesInv
<1> QED BY <1>5, <1>6, <1>11 DEF IndexInv

(* The descriptor of an open file is its own. *)
LEMMA DescriptorFacts ==
  ASSUME IndexInv, NEW p \in Path, path2fd[p] # NoFd
  PROVE  path2fd[p] \in Fd /\ fd2path[path2fd[p]] = p /\ p \in exists
<1>1. path2fd[p] \in Fd
  BY Zenon DEF IndexInv, IndexTypes
<1> QED BY <1>1, Zenon DEF IndexInv, TablesInv, FdTablesInverse

(* A closed file is opened on a free descriptor. *)
LEMMA OpenedOn ==
  ASSUME IndexInv, NEW p \in Path, NEW fd \in Fd, path2fd[p] = NoFd, p \in exists, ~Open(fd),
         path2fd' = [path2fd EXCEPT ![p] = fd],
         fd2path' = [fd2path EXCEPT ![fd] = p], exists' = exists, Serve(p)
  PROVE  /\ path2fd' \in [Path -> Fd \union {NoFd}]
         /\ fd2path' \in [Fd -> Path \union {NoPath}]
         /\ served' \in [Fd -> SUBSET Path]
         /\ FdTablesInverse'
         /\ path2fd'[p] = fd /\ fd # NoFd
         /\ \A q \in Path : q # p => path2fd'[q] = path2fd[q]
         /\ \A q \in Path : path2fd'[q] # NoFd => q \in exists'
         /\ served'[fd] = served[fd] \union {p}
         /\ \A g \in Fd : g # fd => served'[g] = served[g]
<1>1. /\ path2fd \in [Path -> Fd \union {NoFd}] /\ fd2path \in [Fd -> Path \union {NoPath}]
      /\ served \in [Fd -> SUBSET Path] /\ FdTablesInverse
      /\ \A q \in Path : path2fd[q] # NoFd => q \in exists
  BY Zenon DEF IndexInv, IndexTypes, TablesInv
<1>2. fd # NoFd /\ NoPath \notin Path
  BY DiskAssumption DEF NoFd, Fd
<1>3. fd2path[fd] = NoPath
  BY Zenon DEF Open
<1>4. /\ path2fd' \in [Path -> Fd \union {NoFd}] /\ fd2path' \in [Fd -> Path \union {NoPath}]
      /\ path2fd'[p] = fd /\ \A q \in Path : q # p => path2fd'[q] = path2fd[q]
  BY <1>1, Zenon
<1>5. fd2path'[fd] = p /\ \A g \in Fd : g # fd => fd2path'[g] = fd2path[g]
  BY <1>1, Zenon
<1>6. FdTablesInverse'
  <2> SUFFICES ASSUME NEW q \in Path, NEW g \in Fd PROVE path2fd'[q] = g <=> fd2path'[g] = q
    BY Zenon DEF FdTablesInverse
  <2>1. path2fd[q] = g <=> fd2path[g] = q
    BY <1>1, Zenon DEF FdTablesInverse
  <2>2. path2fd[q] # fd
    <3>1. fd2path[fd] # q
      BY <1>2, <1>3, Zenon
    <3> QED BY <1>1, <3>1, Zenon DEF FdTablesInverse
  <2>3. fd2path[g] # p
    <3>1. path2fd[p] # g
      BY <1>1, <1>2 DEF NoFd, Fd
    <3> QED BY <1>1, <3>1, Zenon DEF FdTablesInverse
  <2> QED BY <1>4, <1>5, <2>1, <2>2, <2>3, Zenon
<1>7. /\ served' \in [Fd -> SUBSET Path]
      /\ \A g \in Fd : served'[g] = IF fd2path'[g] = p THEN served[g] \union {p} ELSE served[g]
  BY <1>1, Zenon DEF Serve
<1>8. served'[fd] = served[fd] \union {p}
  BY <1>5, <1>7, Zenon
<1>9. ASSUME NEW g \in Fd, g # fd PROVE served'[g] = served[g]
  <2>1. fd2path'[g] # p
    BY <1>4, <1>6, <1>9, Zenon DEF FdTablesInverse
  <2> QED BY <1>7, <2>1, Zenon
<1>10. \A q \in Path : path2fd'[q] # NoFd => q \in exists'
  BY <1>1, <1>4, Zenon
<1> QED BY <1>2, <1>4, <1>6, <1>7, <1>8, <1>9, <1>10, Zenon

\* create_index() opens the file it made: the descriptor serves no other file.
LEMMA CreateOpenInv ==
  ASSUME IndexInv, CreateOpen, NEW p \in Path, p = creating.path
  PROVE  IndexInv'
<1>1. /\ creating.at = "open" /\ creating.at \in CreateSteps /\ "header" \in CreateSteps
      /\ IndexTypes
  BY Zenon DEF CreateOpen, CreateSteps, IndexInv
<1>2. /\ p \in Path /\ creating' = [creating EXCEPT !.at = "header"]
      /\ creating # Idle /\ creating' # Idle /\ creating'.at = "header" /\ creating'.path = p
      /\ creating' \in [at : CreateSteps, path : Path, cols : Columns]
      /\ \A q : Creating(q) <=> q = p
  BY <1>1, CreateStepFacts, Zenon DEF CreateOpen
<1>3. \A q : Creating(q)' <=> q = p
  BY <1>2, Zenon DEF Creating
<1>4. PICK fd \in Fd :
        /\ ~Open(fd)
        /\ path2fd' = [path2fd EXCEPT ![p] = fd]
        /\ fd2path' = [fd2path EXCEPT ![fd] = p]
  BY Zenon DEF CreateOpen, OpenFile
<1>5. /\ path2fd[p] = NoFd /\ p \in exists /\ exists' = exists /\ Serve(p)
      /\ size' = size /\ content' = content /\ fd2pageno' = fd2pageno
      /\ handle' = handle /\ nodes' = nodes /\ saved' = saved /\ closed' = closed
      /\ grown' = grown /\ crashes' = crashes
  BY Zenon DEF CreateOpen, OpenFile, ioVars
<1>6. /\ path2fd' \in [Path -> Fd \union {NoFd}]
      /\ fd2path' \in [Fd -> Path \union {NoPath}]
      /\ served' \in [Fd -> SUBSET Path]
      /\ FdTablesInverse'
      /\ path2fd'[p] = fd /\ fd # NoFd
      /\ \A q \in Path : q # p => path2fd'[q] = path2fd[q]
      /\ \A q \in Path : path2fd'[q] # NoFd => q \in exists'
      /\ served'[fd] = served[fd] \union {p}
      /\ \A g \in Fd : g # fd => served'[g] = served[g]
  BY <1>2, <1>4, <1>5, OpenedOn, Zenon
<1>7. IndexTypes'
  BY <1>1, <1>2, <1>5, <1>6, Zenon DEF IndexTypes
<1>8. TablesInv'
  BY <1>2, <1>3, <1>5, <1>6, Zenon DEF TablesInv, IndexInv
<1>9. ASSUME NEW q \in Path, q # p
      PROVE  HeaderAt(q)' /\ (crashes' = 0 => RootAt(q)' /\ NodesAt(q)')
  <2>1. \A g \in Fd : served[g] \subseteq served'[g] /\ (q \in served'[g] => q \in served[g])
    BY <1>6, <1>9, Zenon
  <2> QED BY <1>2, <1>3, <1>5, <1>6, <1>9, <2>1, OtherFile, Zenon
<1>10. HeaderAt(p) /\ (crashes = 0 => RootAt(p) /\ NodesAt(p)) /\ handle[p] = None
  BY <1>2, Zenon DEF IndexInv, FilesInv, TablesInv
<1>11. HeaderAt(p)'
  BY <1>1, <1>2, <1>3, <1>5, <1>10, Zenon DEF HeaderAt, HeaderWritten
<1>12. ASSUME crashes' = 0 PROVE RootAt(p)' /\ NodesAt(p)'
  <2>1. nodes[p] = {}
    BY <1>1, <1>2, <1>5, <1>10, <1>12, Zenon DEF NodesAt
  <2>2. RootAt(p)'
    BY <1>2, <1>3, Zenon DEF RootAt
  <2>3. NodesAt(p)'
    BY <1>2, <1>3, <1>5, <1>6, <2>1, Zenon DEF NodesAt
  <2> QED BY <2>2, <2>3
<1>13. FilesInv'
  BY <1>9, <1>11, <1>12, Zenon DEF FilesInv
<1> QED BY <1>7, <1>8, <1>13 DEF IndexInv

\* create_index() writes the header page, the one deserialize() will read.
LEMMA CreateHeaderInv ==
  ASSUME IndexInv, CreateHeader, NEW p \in Path, p = creating.path
  PROVE  IndexInv'
<1> DEFINE fd == path2fd[p]
           h == NewHeader(creating.cols)
<1>1. /\ creating.at = "header" /\ creating.at \in CreateSteps /\ "leaf_header" \in CreateSteps
      /\ IndexTypes
  BY Zenon DEF CreateHeader, CreateSteps, IndexInv
<1>2. p \in Path /\ creating # Idle /\ creating.cols \in Columns /\ \A q : Creating(q) <=> q = p
  BY <1>1, CreateStepFacts, Zenon
<1>3. fd # NoFd /\ p \in exists /\ handle[p] = None
  <2>1. creating.at # "open" BY <1>1, Zenon
  <2> QED BY <1>2, <2>1, Zenon DEF IndexInv, TablesInv
<1>4. fd \in Fd /\ fd2path[fd] = p
  BY <1>2, <1>3, DescriptorFacts, Zenon
<1>5. /\ exists' = exists /\ path2fd' = path2fd /\ fd2path' = fd2path /\ fd2pageno' = fd2pageno
      /\ handle' = handle /\ grown' = grown /\ served' = served /\ crashes' = crashes
  BY Zenon DEF CreateHeader, fileVars
<1>6. HeaderAt(p) /\ (crashes = 0 => RootAt(p) /\ NodesAt(p))
  BY <1>2, Zenon DEF IndexInv, FilesInv
<1>7. size[p] = 0 /\ (crashes = 0 => nodes[p] = {})
  BY <1>1, <1>2, <1>6, Zenon DEF HeaderAt, NodesAt
<1>8. CASE ColTotLen(creating.cols) > IX_MAX_COL_LEN
  <2>1. /\ creating' = Idle /\ size' = size /\ content' = content /\ closed' = closed
        /\ nodes' = nodes /\ saved' = saved
    BY <1>8, Zenon DEF CreateHeader, ioVars
  <2>2. \A q : ~Creating(q)'
    BY <2>1, Zenon DEF Creating
  <2>3. IndexTypes'
    BY <1>1, <1>5, <2>1, Zenon DEF IndexTypes
  <2>4. TablesInv'
    BY <1>5, <2>1, <2>2, Zenon DEF IndexInv, TablesInv, FdTablesInverse
  <2>5. ASSUME NEW q \in Path, q # p
        PROVE  HeaderAt(q)' /\ (crashes' = 0 => RootAt(q)' /\ NodesAt(q)')
    BY <1>2, <1>5, <2>1, <2>2, <2>5, OtherFile, Zenon
  <2>6. HeaderAt(p)' /\ RootAt(p)'
    BY <1>3, <1>5, <1>7, <2>1, <2>2, Zenon DEF HeaderAt, RootAt
  <2>7. crashes' = 0 => NodesAt(p)'
    BY <1>5, <1>6, <1>7, <2>1, <2>2, Zenon DEF NodesAt
  <2>8. FilesInv'
    BY <2>5, <2>6, <2>7, Zenon DEF FilesInv
  <2> QED BY <2>3, <2>4, <2>8 DEF IndexInv
<1>9. CASE ~(ColTotLen(creating.cols) > IX_MAX_COL_LEN)
  <2>1. /\ creating' = [creating EXCEPT !.at = "leaf_header"]
        /\ content' = [content EXCEPT ![fd2path[fd]][IX_FILE_HDR_PAGE] = Serialize(h)]
        /\ size' = size
        /\ closed' = [closed EXCEPT ![p] = h]
        /\ nodes' = [nodes EXCEPT ![p] = @ \union {IX_FILE_HDR_PAGE}]
        /\ saved' = [saved EXCEPT ![p] = @ \union {IX_FILE_HDR_PAGE}]
    BY <1>9, Zenon DEF CreateHeader, WritePart, PageWritten
  <2>2. /\ creating' # Idle /\ creating'.at = "leaf_header" /\ creating'.path = p
        /\ creating' \in [at : CreateSteps, path : Path, cols : Columns]
    BY <1>1, <2>1, CreateStepFacts, Zenon
  <2>3. \A q : Creating(q)' <=> q = p
    BY <2>2, Zenon DEF Creating
  <2>4. IsHeader(h)
    <3>1. ColTotLen(creating.cols) \in Nat
      BY <1>2, IndexAssumption, Zenon
    <3>2. ColTotLen(creating.cols) <= IX_MAX_COL_LEN
      BY <1>9, <3>1 DEF IX_MAX_COL_LEN
    <3> QED BY <1>2, <3>2, NewHeaderIs, Zenon
  <2> HIDE DEF h
  <2>5. IX_FILE_HDR_PAGE \in PageNo /\ IX_FILE_HDR_PAGE \in 0..MaxPage /\ IX_FILE_HDR_PAGE \in FixedPages
    BY PagesThere, Zenon DEF FixedPages
  <2>6. /\ DOMAIN content' = Path /\ \A q \in Path : DOMAIN (content'[q]) = PageNo
        /\ content'[p][IX_FILE_HDR_PAGE] = Serialize(h)
        /\ \A q \in Path : q # p => content'[q] = content[q]
    BY <1>1, <1>2, <1>4, <2>1, <2>5, Zenon DEF IndexTypes
  <2>7. /\ nodes' \in [Path -> SUBSET (0..MaxPage)] /\ saved' \in [Path -> SUBSET (0..MaxPage)]
        /\ nodes'[p] = nodes[p] \union {IX_FILE_HDR_PAGE}
        /\ saved'[p] = saved[p] \union {IX_FILE_HDR_PAGE}
        /\ DOMAIN closed' = Path /\ closed'[p] = h
        /\ \A q \in Path : q # p => /\ nodes'[q] = nodes[q] /\ saved'[q] = saved[q]
                                    /\ closed'[q] = closed[q]
    <3>1. /\ nodes \in [Path -> SUBSET (0..MaxPage)] /\ saved \in [Path -> SUBSET (0..MaxPage)]
          /\ DOMAIN closed = Path
      BY <1>1, Zenon DEF IndexTypes
    <3>2. nodes' \in [Path -> SUBSET (0..MaxPage)]
      BY <2>1, <2>5, <3>1, Zenon
    <3>3. saved' \in [Path -> SUBSET (0..MaxPage)]
      BY <2>1, <2>5, <3>1, Zenon
    <3>4. /\ nodes'[p] = nodes[p] \union {IX_FILE_HDR_PAGE}
          /\ saved'[p] = saved[p] \union {IX_FILE_HDR_PAGE}
          /\ DOMAIN closed' = Path /\ closed'[p] = h
      BY <1>2, <2>1, <3>1, Zenon
    <3> QED BY <2>1, <3>1, <3>2, <3>3, <3>4, Zenon
  <2>8. IndexTypes'
    BY <1>1, <1>5, <2>1, <2>2, <2>6, <2>7, Zenon DEF IndexTypes
  <2>9. TablesInv'
    <3>1. FdTablesInverse'
      BY <1>5, Zenon DEF IndexInv, TablesInv, FdTablesInverse
    <3> QED BY <1>2, <1>3, <1>5, <2>2, <2>3, <3>1, Zenon DEF IndexInv, TablesInv
  <2>10. ASSUME NEW q \in Path, q # p
         PROVE  HeaderAt(q)' /\ (crashes' = 0 => RootAt(q)' /\ NodesAt(q)')
    BY <1>2, <1>5, <2>1, <2>3, <2>6, <2>7, <2>10, OtherFile, Zenon
  <2>11. HeaderWritten(p)'
    BY <2>4, <2>6, <2>7, Zenon DEF HeaderWritten
  <2>12. HeaderAt(p)' /\ RootAt(p)'
    BY <1>3, <1>5, <2>2, <2>3, <2>11, Zenon DEF HeaderAt, RootAt
  <2>13. ASSUME crashes' = 0 PROVE NodesAt(p)'
    <3>1. nodes[p] = {} /\ NodesAt(p)
      BY <1>5, <1>6, <1>7, <2>13, Zenon
    <3>2. nodes'[p] \subseteq FixedPages
      BY <2>5, <2>7, <3>1, Zenon
    <3>3. path2fd'[p] # NoFd => p \in served'[path2fd'[p]]
      BY <1>5, <3>1, Zenon DEF NodesAt
    <3>4. p \in exists' /\ Creating(p)' /\ creating'.at = "leaf_header"
      BY <1>3, <1>5, <2>2, <2>3, Zenon
    <3>5. ~(\A g \in Fd : p \notin served'[g])
      BY <1>3, <1>4, <1>5, <3>3, Zenon
    <3> QED BY <3>2, <3>3, <3>4, <3>5, Zenon DEF NodesAt
  <2>14. FilesInv'
    BY <2>10, <2>12, <2>13, Zenon DEF FilesInv
  <2> QED BY <2>8, <2>9, <2>14 DEF IndexInv
<1> QED BY <1>8, <1>9

(* write_page() of a page of file p: the file is at least that long, and   *)
(* its other pages and the other files are as they were.                   *)
LEMMA WrittenFile ==
  ASSUME IndexTypes, NEW p \in Path, NEW fd, fd2path[fd] = p, NEW n \in PageNo, NEW d,
         WritePage(fd, n, d), PageWritten(p, n)
  PROVE  /\ DOMAIN content' = Path /\ \A q \in Path : DOMAIN (content'[q]) = PageNo
         /\ \A k \in PageNo : k # n => content'[p][k] = content[p][k]
         /\ size' \in [Path -> Nat] /\ size'[p] >= size[p] /\ size'[p] > n
         /\ nodes' \in [Path -> SUBSET (0..MaxPage)] /\ saved' \in [Path -> SUBSET (0..MaxPage)]
         /\ nodes'[p] = nodes[p] \union {n} /\ saved'[p] = saved[p] \union {n}
         /\ \A q \in Path : q # p =>
              /\ size'[q] = size[q] /\ content'[q] = content[q]
              /\ nodes'[q] = nodes[q] /\ saved'[q] = saved[q]
<1>1. /\ content' = [content EXCEPT ![p][n] = d]
      /\ size' = [size EXCEPT ![p] = IF n >= @ THEN n + 1 ELSE @]
      /\ nodes' = [nodes EXCEPT ![p] = @ \union {n}]
      /\ saved' = [saved EXCEPT ![p] = @ \union {n}]
  BY Zenon DEF WritePage, PageWritten
<1>2. n \in 0..MaxPage /\ n \in Nat
  BY DiskAssumption DEF PageNo
<1>3. size[p] \in Nat /\ size \in [Path -> Nat]
  BY Zenon DEF IndexTypes
<1>4. size'[p] = IF n >= size[p] THEN n + 1 ELSE size[p]
  BY <1>1, <1>3, Zenon
<1>5. size'[p] \in Nat /\ size'[p] >= size[p] /\ size'[p] > n
  BY <1>2, <1>3, <1>4
<1>6. size' \in [Path -> Nat] /\ \A q \in Path : q # p => size'[q] = size[q]
  BY <1>1, <1>3, <1>5, Zenon
<1>7. /\ DOMAIN content' = Path /\ \A q \in Path : DOMAIN (content'[q]) = PageNo
      /\ \A k \in PageNo : k # n => content'[p][k] = content[p][k]
      /\ \A q \in Path : q # p => content'[q] = content[q]
  BY <1>1, Zenon DEF IndexTypes
<1>8. /\ nodes' \in [Path -> SUBSET (0..MaxPage)] /\ saved' \in [Path -> SUBSET (0..MaxPage)]
      /\ nodes'[p] = nodes[p] \union {n} /\ saved'[p] = saved[p] \union {n}
      /\ \A q \in Path : q # p => nodes'[q] = nodes[q] /\ saved'[q] = saved[q]
  <2>1. nodes \in [Path -> SUBSET (0..MaxPage)] /\ saved \in [Path -> SUBSET (0..MaxPage)]
    BY Zenon DEF IndexTypes
  <2>2. nodes' \in [Path -> SUBSET (0..MaxPage)]
    BY <1>1, <1>2, <2>1, Zenon
  <2>3. saved' \in [Path -> SUBSET (0..MaxPage)]
    BY <1>1, <1>2, <2>1, Zenon
  <2>4. nodes'[p] = nodes[p] \union {n} /\ saved'[p] = saved[p] \union {n}
    BY <1>1, <2>1, Zenon
  <2> QED BY <1>1, <2>1, <2>2, <2>3, <2>4, Zenon
<1> QED BY <1>5, <1>6, <1>7, <1>8, Zenon

\* create_index() writes the page of the leaf list's header.
LEMMA CreateLeafHeaderInv ==
  ASSUME IndexInv, CreateLeafHeader, NEW p \in Path, p = creating.path
  PROVE  IndexInv'
<1>1. /\ creating.at = "leaf_header" /\ creating.at \in CreateSteps /\ "root" \in CreateSteps
      /\ IndexTypes
  BY Zenon DEF CreateLeafHeader, CreateSteps, IndexInv
<1>2. /\ creating' = [creating EXCEPT !.at = "root"]
      /\ creating # Idle /\ creating' # Idle /\ creating'.at = "root" /\ creating'.path = p
      /\ creating' \in [at : CreateSteps, path : Path, cols : Columns]
      /\ \A q : Creating(q) <=> q = p
  BY <1>1, CreateStepFacts, Zenon DEF CreateLeafHeader
<1>3. \A q : Creating(q)' <=> q = p
  BY <1>2, Zenon DEF Creating
<1>4. path2fd[p] # NoFd /\ p \in exists /\ handle[p] = None
  <2>1. creating.at # "open" BY <1>1, Zenon
  <2> QED BY <1>2, <2>1, Zenon DEF IndexInv, TablesInv
<1>5. PICK fd \in Fd : fd = path2fd[p] /\ fd2path[fd] = p
  BY <1>4, DescriptorFacts, Zenon
<1>6. /\ exists' = exists /\ path2fd' = path2fd /\ fd2path' = fd2path /\ fd2pageno' = fd2pageno
      /\ handle' = handle /\ closed' = closed /\ grown' = grown /\ served' = served
      /\ crashes' = crashes
  BY Zenon DEF CreateLeafHeader, fileVars
<1>7. IX_LEAF_HEADER_PAGE \in PageNo /\ IX_FILE_HDR_PAGE \in PageNo
      /\ IX_LEAF_HEADER_PAGE \in FixedPages /\ IX_FILE_HDR_PAGE # IX_LEAF_HEADER_PAGE
  <2>1. IX_FILE_HDR_PAGE # IX_LEAF_HEADER_PAGE
    BY DEF IX_FILE_HDR_PAGE, IX_LEAF_HEADER_PAGE
  <2> QED BY <2>1, PagesThere, Zenon DEF FixedPages
<1>8. WritePage(fd, IX_LEAF_HEADER_PAGE, LeafPage(IX_INIT_ROOT_PAGE, IX_INIT_ROOT_PAGE))
      /\ PageWritten(p, IX_LEAF_HEADER_PAGE)
  BY <1>5, Zenon DEF CreateLeafHeader
<1>9. /\ DOMAIN content' = Path /\ \A q \in Path : DOMAIN (content'[q]) = PageNo
      /\ content'[p][IX_FILE_HDR_PAGE] = content[p][IX_FILE_HDR_PAGE]
      /\ size' \in [Path -> Nat]
      /\ nodes' \in [Path -> SUBSET (0..MaxPage)] /\ saved' \in [Path -> SUBSET (0..MaxPage)]
      /\ nodes'[p] = nodes[p] \union {IX_LEAF_HEADER_PAGE}
      /\ saved'[p] = saved[p] \union {IX_LEAF_HEADER_PAGE}
      /\ \A q \in Path : q # p =>
           /\ size'[q] = size[q] /\ content'[q] = content[q]
           /\ nodes'[q] = nodes[q] /\ saved'[q] = saved[q]
  BY <1>1, <1>5, <1>7, <1>8, WrittenFile, Zenon
<1>10. IndexTypes'
  BY <1>1, <1>2, <1>6, <1>9, Zenon DEF IndexTypes
<1>11. TablesInv'
  <2>1. FdTablesInverse'
    BY <1>6, Zenon DEF IndexInv, TablesInv, FdTablesInverse
  <2> QED BY <1>2, <1>3, <1>4, <1>6, <2>1, Zenon DEF IndexInv, TablesInv
<1>12. ASSUME NEW q \in Path, q # p
       PROVE  HeaderAt(q)' /\ (crashes' = 0 => RootAt(q)' /\ NodesAt(q)')
  BY <1>2, <1>3, <1>6, <1>9, <1>12, OtherFile, Zenon
<1>13. HeaderAt(p) /\ (crashes = 0 => RootAt(p) /\ NodesAt(p))
  BY Zenon DEF IndexInv, FilesInv
<1>14. HeaderWritten(p)'
  <2>1. HeaderWritten(p)
    BY <1>1, <1>2, <1>13, Zenon DEF HeaderAt
  <2> QED BY <1>6, <1>9, <2>1, Zenon DEF HeaderWritten
<1>15. HeaderAt(p)' /\ RootAt(p)'
  BY <1>2, <1>3, <1>4, <1>6, <1>14, Zenon DEF HeaderAt, RootAt
<1>16. ASSUME crashes' = 0 PROVE NodesAt(p)'
  <2>1. NodesAt(p) /\ nodes[p] \subseteq FixedPages
    BY <1>2, <1>6, <1>13, <1>16, Zenon DEF NodesAt
  <2>2. nodes'[p] \subseteq FixedPages
    BY <1>7, <1>9, <2>1, Zenon
  <2>3. path2fd'[p] = fd /\ p \in served'[fd]
    BY <1>4, <1>5, <1>6, <2>1, Zenon DEF NodesAt
  <2> QED BY <1>2, <1>3, <1>4, <1>6, <2>2, <2>3, Zenon DEF NodesAt
<1>17. FilesInv'
  BY <1>12, <1>15, <1>16, Zenon DEF FilesInv
<1> QED BY <1>10, <1>11, <1>17 DEF IndexInv

\* create_index() writes the root: the file has all it needs to be opened.
LEMMA CreateRootInv ==
  ASSUME IndexInv, CreateRoot, NEW p \in Path, p = creating.path
  PROVE  IndexInv'
<1>1. /\ creating.at = "root" /\ creating.at \in CreateSteps /\ "close" \in CreateSteps
      /\ IndexTypes
  BY Zenon DEF CreateRoot, CreateSteps, IndexInv
<1>2. /\ creating' = [creating EXCEPT !.at = "close"]
      /\ creating # Idle /\ creating' # Idle /\ creating'.at = "close" /\ creating'.path = p
      /\ creating' \in [at : CreateSteps, path : Path, cols : Columns]
      /\ \A q : Creating(q) <=> q = p
  BY <1>1, CreateStepFacts, Zenon DEF CreateRoot
<1>3. \A q : Creating(q)' <=> q = p
  BY <1>2, Zenon DEF Creating
<1>4. path2fd[p] # NoFd /\ p \in exists /\ handle[p] = None
  <2>1. creating.at # "open" BY <1>1, Zenon
  <2> QED BY <1>2, <2>1, Zenon DEF IndexInv, TablesInv
<1>5. PICK fd \in Fd : fd = path2fd[p] /\ fd2path[fd] = p
  BY <1>4, DescriptorFacts, Zenon
<1>6. /\ exists' = exists /\ path2fd' = path2fd /\ fd2path' = fd2path
      /\ handle' = handle /\ closed' = closed /\ grown' = grown /\ served' = served
      /\ crashes' = crashes
      /\ fd2pageno' = [fd2pageno EXCEPT ![fd] = IX_INIT_NUM_PAGES - 1]
  BY <1>5, Zenon DEF CreateRoot, fileVars
<1>7. IX_INIT_ROOT_PAGE \in PageNo /\ IX_FILE_HDR_PAGE \in PageNo
      /\ IX_INIT_ROOT_PAGE \in FixedPages /\ IX_FILE_HDR_PAGE # IX_INIT_ROOT_PAGE
  <2>1. IX_FILE_HDR_PAGE # IX_INIT_ROOT_PAGE
    BY DEF IX_FILE_HDR_PAGE, IX_INIT_ROOT_PAGE
  <2> QED BY <2>1, PagesThere, Zenon DEF FixedPages
<1>8. IX_INIT_NUM_PAGES - 1 = IX_INIT_ROOT_PAGE /\ IX_INIT_ROOT_PAGE \in Nat
  BY DEF IX_INIT_NUM_PAGES, IX_INIT_ROOT_PAGE
<1>9. /\ fd2pageno' \in [Fd -> Nat] /\ fd2pageno'[fd] = IX_INIT_ROOT_PAGE
      /\ \A g \in Fd : g # fd => fd2pageno'[g] = fd2pageno[g]
  BY <1>1, <1>6, <1>8, Zenon DEF IndexTypes
<1>10. WritePage(fd, IX_INIT_ROOT_PAGE, LeafPage(IX_LEAF_HEADER_PAGE, IX_LEAF_HEADER_PAGE))
      /\ PageWritten(p, IX_INIT_ROOT_PAGE)
  BY <1>5, Zenon DEF CreateRoot
<1>11. /\ DOMAIN content' = Path /\ \A q \in Path : DOMAIN (content'[q]) = PageNo
       /\ content'[p][IX_FILE_HDR_PAGE] = content[p][IX_FILE_HDR_PAGE]
       /\ size' \in [Path -> Nat] /\ size'[p] > IX_INIT_ROOT_PAGE
       /\ nodes' \in [Path -> SUBSET (0..MaxPage)] /\ saved' \in [Path -> SUBSET (0..MaxPage)]
       /\ nodes'[p] = nodes[p] \union {IX_INIT_ROOT_PAGE}
       /\ saved'[p] = saved[p] \union {IX_INIT_ROOT_PAGE}
       /\ \A q \in Path : q # p =>
            /\ size'[q] = size[q] /\ content'[q] = content[q]
            /\ nodes'[q] = nodes[q] /\ saved'[q] = saved[q]
  BY <1>1, <1>5, <1>7, <1>10, WrittenFile, Zenon
<1>12. IndexTypes'
  BY <1>1, <1>2, <1>6, <1>9, <1>11, Zenon DEF IndexTypes
<1>13. TablesInv'
  <2>1. FdTablesInverse'
    BY <1>6, Zenon DEF IndexInv, TablesInv, FdTablesInverse
  <2> QED BY <1>2, <1>3, <1>4, <1>6, <2>1, Zenon DEF IndexInv, TablesInv
<1>14. HeaderAt(p) /\ (crashes = 0 => RootAt(p) /\ NodesAt(p) /\ p \in served[fd])
  BY <1>4, <1>5, Zenon DEF IndexInv, FilesInv, NodesAt
<1>15. ASSUME NEW q \in Path, q # p
       PROVE  HeaderAt(q)' /\ (crashes' = 0 => RootAt(q)' /\ NodesAt(q)')
  <2>1. crashes = 0 => \A g \in Fd : fd2pageno'[g] = fd2pageno[g] \/ p \in served'[g]
    BY <1>6, <1>9, <1>14, Zenon
  <2> QED BY <1>2, <1>3, <1>6, <1>11, <1>15, <2>1, OtherFile, Zenon
<1>16. HeaderWritten(p)'
  <2>1. HeaderWritten(p)
    BY <1>1, <1>2, <1>14, Zenon DEF HeaderAt
  <2> QED BY <1>6, <1>11, <2>1, Zenon DEF HeaderWritten
<1>17. HeaderAt(p)' /\ RootAt(p)'
  BY <1>2, <1>3, <1>4, <1>6, <1>11, <1>16, Zenon DEF HeaderAt, RootAt
<1>18. ASSUME crashes' = 0 PROVE NodesAt(p)'
  <2>1. NodesAt(p) /\ nodes[p] \subseteq FixedPages
    BY <1>2, <1>6, <1>14, <1>18, Zenon DEF NodesAt
  <2>2. nodes'[p] \subseteq FixedPages
    BY <1>7, <1>11, <2>1, Zenon
  <2>3. path2fd'[p] = fd /\ p \in served'[fd]
    BY <1>5, <1>6, <1>14, <1>18, Zenon
  <2> QED BY <1>2, <1>3, <1>4, <1>6, <1>9, <2>2, <2>3, Zenon DEF NodesAt
<1>19. FilesInv'
  BY <1>15, <1>17, <1>18, Zenon DEF FilesInv
<1> QED BY <1>12, <1>13, <1>19 DEF IndexInv

(* The descriptor of p is given back. *)
LEMMA ClosedOn ==
  ASSUME IndexInv, NEW p \in Path, NEW fd \in Fd, path2fd[p] = fd, exists' = exists,
         path2fd' = [path2fd EXCEPT ![p] = NoFd],
         fd2path' = [fd2path EXCEPT ![fd] = NoPath]
  PROVE  /\ path2fd' \in [Path -> Fd \union {NoFd}]
         /\ fd2path' \in [Fd -> Path \union {NoPath}]
         /\ FdTablesInverse'
         /\ path2fd'[p] = NoFd
         /\ \A q \in Path : q # p => path2fd'[q] = path2fd[q]
         /\ \A q \in Path : path2fd'[q] # NoFd => q \in exists'
<1>1. /\ path2fd \in [Path -> Fd \union {NoFd}] /\ fd2path \in [Fd -> Path \union {NoPath}]
      /\ FdTablesInverse /\ \A q \in Path : path2fd[q] # NoFd => q \in exists
  BY Zenon DEF IndexInv, IndexTypes, TablesInv
<1>2. NoFd \notin Fd /\ NoPath \notin Path
  BY DiskAssumption DEF NoFd, Fd
<1>3. /\ path2fd' \in [Path -> Fd \union {NoFd}] /\ fd2path' \in [Fd -> Path \union {NoPath}]
      /\ path2fd'[p] = NoFd /\ \A q \in Path : q # p => path2fd'[q] = path2fd[q]
      /\ fd2path'[fd] = NoPath /\ \A g \in Fd : g # fd => fd2path'[g] = fd2path[g]
  BY <1>1, Zenon
<1>4. fd2path[fd] = p
  BY <1>1, Zenon DEF FdTablesInverse
<1>5. FdTablesInverse'
  <2> SUFFICES ASSUME NEW q \in Path, NEW g \in Fd PROVE path2fd'[q] = g <=> fd2path'[g] = q
    BY Zenon DEF FdTablesInverse
  <2>1. path2fd[q] = g <=> fd2path[g] = q
    BY <1>1, Zenon DEF FdTablesInverse
  <2>2. fd2path[g] = p <=> g = fd
    BY <1>1, <1>4, Zenon DEF FdTablesInverse
  <2>3. q # NoPath /\ g # NoFd
    BY <1>2, Zenon
  <2>4. CASE q = p
    BY <1>3, <2>2, <2>3, <2>4, Zenon
  <2>5. CASE q # p
    BY <1>3, <1>4, <2>1, <2>3, <2>5, Zenon
  <2> QED BY <2>4, <2>5
<1> QED BY <1>1, <1>3, <1>5, Zenon

\* create_index() closes the file and lets go of the descriptor.
LEMMA CreateCloseInv ==
  ASSUME IndexInv, CreateClose, NEW p \in Path, p = creating.path
  PROVE  IndexInv'
<1>1. creating.at = "close" /\ creating.at \in CreateSteps /\ IndexTypes
  BY Zenon DEF CreateClose, CreateSteps, IndexInv
<1>2. creating # Idle /\ creating' = Idle /\ \A q : Creating(q) <=> q = p
  BY <1>1, CreateStepFacts, Zenon DEF CreateClose
<1>3. \A q : ~Creating(q)'
  BY <1>2, Zenon DEF Creating
<1>4. path2fd[p] # NoFd /\ p \in exists /\ handle[p] = None
  <2>1. creating.at # "open" BY <1>1, Zenon
  <2> QED BY <1>2, <2>1, Zenon DEF IndexInv, TablesInv
<1>5. PICK fd \in Fd : fd = path2fd[p] /\ fd2path[fd] = p
  BY <1>4, DescriptorFacts, Zenon
<1>6. /\ path2fd' = [path2fd EXCEPT ![p] = NoFd] /\ fd2path' = [fd2path EXCEPT ![fd] = NoPath]
      /\ exists' = exists /\ size' = size /\ content' = content /\ fd2pageno' = fd2pageno
      /\ handle' = handle /\ nodes' = nodes /\ saved' = saved /\ closed' = closed
      /\ grown' = grown /\ served' = served /\ crashes' = crashes
  BY <1>5, Zenon DEF CreateClose, CloseFile, ioVars
<1>7. /\ path2fd' \in [Path -> Fd \union {NoFd}] /\ fd2path' \in [Fd -> Path \union {NoPath}]
      /\ FdTablesInverse' /\ path2fd'[p] = NoFd
      /\ \A q \in Path : q # p => path2fd'[q] = path2fd[q]
      /\ \A q \in Path : path2fd'[q] # NoFd => q \in exists'
  BY <1>5, <1>6, ClosedOn, Zenon
<1>8. IndexTypes'
  BY <1>1, <1>2, <1>6, <1>7, Zenon DEF IndexTypes
<1>9. TablesInv'
  BY <1>2, <1>3, <1>4, <1>6, <1>7, Zenon DEF IndexInv, TablesInv
<1>10. ASSUME NEW q \in Path, q # p
       PROVE  HeaderAt(q)' /\ (crashes' = 0 => RootAt(q)' /\ NodesAt(q)')
  BY <1>2, <1>3, <1>6, <1>7, <1>10, OtherFile, Zenon
<1>11. HeaderAt(p) /\ (crashes = 0 => RootAt(p) /\ NodesAt(p))
  BY Zenon DEF IndexInv, FilesInv
<1>12. HeaderAt(p)'
  <2>1. HeaderWritten(p)
    BY <1>1, <1>2, <1>11, Zenon DEF HeaderAt
  <2>2. HeaderWritten(p)'
    BY <1>6, <2>1, Zenon DEF HeaderWritten
  <2> QED BY <1>3, <1>4, <1>6, <2>2, Zenon DEF HeaderAt
<1>13. ASSUME crashes' = 0 PROVE RootAt(p)' /\ NodesAt(p)'
  <2>1. /\ NodesAt(p) /\ RootAt(p) /\ nodes[p] \subseteq FixedPages /\ p \in served[fd]
        /\ fd2pageno[fd] = IX_INIT_ROOT_PAGE
    BY <1>1, <1>2, <1>4, <1>5, <1>6, <1>11, <1>13, Zenon DEF NodesAt
  <2>2. RootAt(p)'
    BY <1>1, <1>2, <1>3, <1>4, <1>6, <2>1, Zenon DEF RootAt
  <2>3. \A n \in nodes[p] : n <= IX_INIT_ROOT_PAGE
    BY <2>1 DEF FixedPages, IX_FILE_HDR_PAGE, IX_LEAF_HEADER_PAGE, IX_INIT_ROOT_PAGE
  <2>4. \A g \in Fd : OnlyOn(p, g)' => g = fd
    BY <1>6, <2>1, Zenon DEF OnlyOn
  <2>5. NodesAt(p)'
    BY <1>3, <1>4, <1>6, <1>7, <2>1, <2>3, <2>4, Zenon DEF NodesAt
  <2> QED BY <2>2, <2>5
<1>14. FilesInv'
  BY <1>10, <1>12, <1>13, Zenon DEF FilesInv
<1> QED BY <1>8, <1>9, <1>14 DEF IndexInv

(* A set of natural numbers that is not empty has a least element. *)
LEMMA LeastNatural ==
  ASSUME NEW T \in SUBSET Nat, T # {}
  PROVE  \E i \in T : \A j \in T : i <= j
<1> DEFINE less == {ss \in Nat \X Nat : ss[1] < ss[2]}
<1>1. less = OpToRel(<, Nat)
  BY Zenon DEF OpToRel
<1>2. IsWellFoundedOn(less, Nat)
  BY <1>1, NatLessThanWellFounded, Zenon
<1>3. PICK i \in T : \A j \in T : ~(<<j, i>> \in less)
  <2> HIDE DEF less
  <2> QED BY <1>2, WFMin, Zenon
<1>4. \A j \in T : ~(j < i)
  BY <1>3, Zenon
<1> QED BY <1>4

(* The largest page of an index. *)
LEMMA LargestPage ==
  ASSUME NEW S \in SUBSET (0..MaxPage), S # {}
  PROVE  \E n \in S : \A k \in S : k <= n
<1>1. MaxPage \in Nat
  BY DiskAssumption
<1> DEFINE T == {MaxPage - k : k \in S}
<1>2. T \in SUBSET Nat /\ T # {}
  <2>1. \A k \in S : MaxPage - k \in Nat
    BY <1>1
  <2> QED BY <2>1, Zenon
<1>3. PICK i \in T : \A j \in T : i <= j
  BY <1>2, LeastNatural, Zenon
<1>4. PICK n \in S : i = MaxPage - n
  BY <1>3, Zenon
<1>5. ASSUME NEW k \in S PROVE k <= n
  <2>1. MaxPage - n <= MaxPage - k
    BY <1>3, <1>4, Zenon
  <2> QED BY <2>1, <1>1
<1> QED BY <1>5

\* open_index() reads the header and sets the page counter past the pages the header
\* counts.
LEMMA OpenIndexInv ==
  ASSUME IndexInv, NEW p \in Path, OpenIndex(p)
  PROVE  IndexInv'
<1>1. /\ creating = Idle /\ creating' = creating /\ path2fd[p] = NoFd /\ p \in exists
      /\ exists' = exists /\ size' = size /\ content' = content /\ nodes' = nodes
      /\ saved' = saved /\ closed' = closed /\ crashes' = crashes /\ Serve(p)
      /\ grown' = [grown EXCEPT ![p] = 0] /\ IndexTypes
  BY Zenon DEF OpenIndex, ioVars, IndexInv
<1>2. \A q : ~Creating(q) /\ ~Creating(q)'
  BY <1>1, Zenon DEF Creating
<1>3. PICK fd \in Fd :
        /\ ~Open(fd)
        /\ path2fd' = [path2fd EXCEPT ![p] = fd]
        /\ fd2path' = [fd2path EXCEPT ![fd] = p]
        /\ IF size[p] = 0
             THEN handle' = handle /\ fd2pageno' = fd2pageno
             ELSE /\ handle' = [handle EXCEPT ![p] = Deserialize(content[p][IX_FILE_HDR_PAGE])]
                  /\ fd2pageno' = [fd2pageno EXCEPT ![fd] = @ + 1]
  BY Zenon DEF OpenIndex
<1>4. /\ path2fd' \in [Path -> Fd \union {NoFd}]
      /\ fd2path' \in [Fd -> Path \union {NoPath}]
      /\ served' \in [Fd -> SUBSET Path]
      /\ FdTablesInverse'
      /\ path2fd'[p] = fd /\ fd # NoFd
      /\ \A q \in Path : q # p => path2fd'[q] = path2fd[q]
      /\ \A q \in Path : path2fd'[q] # NoFd => q \in exists'
      /\ served'[fd] = served[fd] \union {p}
      /\ \A g \in Fd : g # fd => served'[g] = served[g]
  BY <1>1, <1>3, OpenedOn, Zenon
<1>5. HeaderAt(p) /\ (crashes = 0 => RootAt(p) /\ NodesAt(p)) /\ handle[p] = None
  BY <1>1, Zenon DEF IndexInv, FilesInv, TablesInv
<1>6. /\ grown' \in [Path -> Int] /\ grown'[p] = 0 /\ \A q \in Path : q # p => grown'[q] = grown[q]
  BY <1>1 DEF IndexTypes
<1>7. fd2pageno[fd] \in Nat /\ fd2pageno[fd] + 1 \in Nat
  <2>1. fd2pageno[fd] \in Nat
    BY <1>1, Zenon DEF IndexTypes
  <2> QED BY <2>1
<1>8. /\ fd2pageno' \in [Fd -> Nat] /\ DOMAIN handle' = Path
      /\ \A g \in Fd : g # fd => fd2pageno'[g] = fd2pageno[g]
      /\ \A q \in Path : q # p => handle'[q] = handle[q]
  <2>1. CASE size[p] = 0
    BY <1>1, <1>3, <2>1, Zenon DEF IndexTypes
  <2>2. CASE size[p] # 0
    BY <1>1, <1>3, <1>7, <2>2, Zenon DEF IndexTypes
  <2> QED BY <2>1, <2>2
<1>9. IndexTypes'
  BY <1>1, <1>4, <1>6, <1>8, Zenon DEF IndexTypes
<1>10. TablesInv'
  <2>1. ASSUME NEW q \in Path, handle'[q] # None PROVE path2fd'[q] # NoFd
    <3>1. CASE q = p
      BY <1>4, <3>1, Zenon
    <3>2. CASE q # p
      BY <1>4, <1>8, <2>1, <3>2, Zenon DEF IndexInv, TablesInv
    <3> QED BY <3>1, <3>2
  <2> QED BY <1>1, <1>2, <1>4, <2>1, Zenon DEF TablesInv
<1>11. ASSUME NEW q \in Path, q # p
       PROVE  HeaderAt(q)' /\ (crashes' = 0 => RootAt(q)' /\ NodesAt(q)')
  <2>1. \A g \in Fd : /\ served[g] \subseteq served'[g] /\ (q \in served'[g] => q \in served[g])
                      /\ fd2pageno'[g] = fd2pageno[g] \/ p \in served'[g]
    BY <1>4, <1>8, <1>11, Zenon
  <2> QED BY <1>1, <1>2, <1>4, <1>6, <1>8, <1>11, <2>1, OtherFile, Zenon
<1>12. HeaderAt(p)'
  <2>1. CASE size[p] = 0
    BY <1>1, <1>2, <1>3, <1>5, <2>1, Zenon DEF HeaderAt
  <2>2. CASE size[p] # 0
    <3>1. HeaderWritten(p)
      BY <1>1, <1>5, <2>2, Zenon DEF HeaderAt
    <3>2. HeaderWritten(p)'
      BY <1>1, <3>1, Zenon DEF HeaderWritten
    <3>3. handle'[p] = Deserialize(content[p][IX_FILE_HDR_PAGE])
      BY <1>1, <1>3, <2>2, Zenon DEF IndexTypes
    <3>4. handle'[p] = closed[p]
      BY <3>1, <3>3, HeaderRoundTrip, Zenon DEF HeaderWritten
    <3>5. [closed[p] EXCEPT !.num_pages = @ + 0] = closed[p]
      <4>1. 0 \in Int OBVIOUS
      <4> QED BY <3>1, <4>1, GrownHeader, Zenon DEF HeaderWritten
    <3> QED BY <1>1, <1>2, <1>6, <2>2, <3>2, <3>4, <3>5, Zenon DEF HeaderAt
  <2> QED BY <2>1, <2>2
<1>13. ASSUME crashes' = 0 PROVE RootAt(p)' /\ NodesAt(p)'
  <2>1. RootAt(p) /\ NodesAt(p)
    BY <1>1, <1>5, <1>13, Zenon
  <2>2. RootAt(p)'
    BY <1>1, <1>2, <2>1, Zenon DEF RootAt
  <2>3. ASSUME NEW g \in Fd, OnlyOn(p, g)', NEW n \in nodes[p]
        PROVE  n <= fd2pageno'[g] /\ (handle'[p] # None => n < fd2pageno'[g])
    <3>1. g = fd
      BY <1>4, <2>3, Zenon DEF OnlyOn
    <3>2. \E f \in Fd : p \in served[f]
      BY <2>1, <2>3, Zenon DEF NodesAt
    <3>3. p \in served[fd]
      <4>1. PICK f \in Fd : p \in served[f]
        BY <3>2, Zenon
      <4>2. p \in served'[f]
        BY <1>4, <4>1, Zenon
      <4>3. f = fd
        BY <2>3, <3>1, <4>2, Zenon DEF OnlyOn
      <4> QED BY <4>1, <4>3, Zenon
    <3>4. OnlyOn(p, fd)
      <4>1. served[fd] \subseteq {p}
        BY <1>4, <2>3, <3>1, Zenon DEF OnlyOn
      <4>2. \A f \in Fd : p \in served[f] => f = fd
        BY <1>4, <2>3, <3>1, Zenon DEF OnlyOn
      <4>3. served[fd] = {p}
        BY <3>3, <4>1, Zenon
      <4> QED BY <4>2, <4>3, Zenon DEF OnlyOn
    <3>5. n <= fd2pageno[fd] /\ n \in 0..MaxPage
      BY <1>1, <1>2, <2>1, <3>4, Zenon DEF NodesAt, IndexTypes
    <3>6. CASE size[p] = 0
      BY <1>3, <1>5, <3>1, <3>5, <3>6, Zenon
    <3>7. CASE size[p] # 0
      <4>1. fd2pageno'[fd] = fd2pageno[fd] + 1
        BY <1>1, <1>3, <3>7, Zenon DEF IndexTypes
      <4> QED BY <1>7, <3>1, <3>5, <4>1, DiskAssumption
    <3> QED BY <3>6, <3>7
  <2>4. (\A g \in Fd : p \notin served'[g]) => nodes'[p] = {}
    BY <1>4, Zenon
  <2>5. NodesAt(p)'
    BY <1>1, <1>2, <1>4, <2>3, <2>4, Zenon DEF NodesAt
  <2> QED BY <2>2, <2>5
<1>14. FilesInv'
  BY <1>11, <1>12, <1>13, Zenon DEF FilesInv
<1> QED BY <1>9, <1>10, <1>14 DEF IndexInv

(* What is known of an index that is open. *)
LEMMA OpenIndexFacts ==
  ASSUME IndexInv, NEW p \in Path, handle[p] # None
  PROVE  /\ path2fd[p] # NoFd /\ p \in exists /\ path2fd[p] \in Fd /\ size[p] # 0
         /\ HeaderWritten(p) /\ grown[p] \in Int
         /\ handle[p] = [closed[p] EXCEPT !.num_pages = @ + grown[p]]
         /\ IsHeader(handle[p])
<1>1. path2fd[p] # NoFd
  BY Zenon DEF IndexInv, TablesInv
<1>2. path2fd[p] \in Fd /\ p \in exists
  BY <1>1, DescriptorFacts, Zenon
<1>3. HeaderAt(p) /\ grown[p] \in Int
  BY Zenon DEF IndexInv, FilesInv, IndexTypes
<1>4. /\ size[p] # 0 /\ HeaderWritten(p)
      /\ handle[p] = [closed[p] EXCEPT !.num_pages = @ + grown[p]]
  BY <1>2, <1>3, Zenon DEF HeaderAt
<1>5. IsHeader(handle[p])
  <2>1. IsHeader(closed[p]) /\ grown[p] \in Int
    BY <1>3, <1>4, Zenon DEF HeaderWritten
  <2>2. IsHeader([closed[p] EXCEPT !.num_pages = @ + grown[p]])
    BY <2>1, GrownHeader, Zenon
  <2> QED BY <1>4, <2>2, Zenon
<1> QED BY <1>1, <1>2, <1>3, <1>4, <1>5, Zenon

\* create_node() takes the next page, which no node of the file has.
LEMMA CreateNodeInv ==
  ASSUME IndexInv, NEW p \in Path, CreateNode(p)
  PROVE  IndexInv'
<1>1. /\ creating = Idle /\ creating' = creating /\ handle[p] # None /\ IndexTypes
      /\ exists' = exists /\ path2fd' = path2fd /\ fd2path' = fd2path
      /\ size' = size /\ content' = content
      /\ saved' = saved /\ closed' = closed /\ served' = served /\ crashes' = crashes
      /\ handle' = [handle EXCEPT ![p].num_pages = @ + 1]
      /\ grown' = [grown EXCEPT ![p] = @ + 1]
  BY Zenon DEF CreateNode, fileVars, ioVars, IndexInv
<1>2. \A q : ~Creating(q) /\ ~Creating(q)'
  BY <1>1, Zenon DEF Creating
<1>3. /\ path2fd[p] # NoFd /\ p \in exists /\ path2fd[p] \in Fd /\ size[p] # 0
      /\ HeaderWritten(p) /\ grown[p] \in Int
      /\ handle[p] = [closed[p] EXCEPT !.num_pages = @ + grown[p]]
      /\ IsHeader(handle[p])
  BY <1>1, OpenIndexFacts, Zenon
<1>4. PICK fd \in Fd : fd = path2fd[p]
  BY <1>3, Zenon
<1>5. /\ nodes' = [nodes EXCEPT ![p] = @ \union {fd2pageno[fd]}]
      /\ fd2pageno[fd] < MaxPage
      /\ fd2pageno' = [fd2pageno EXCEPT ![fd] = @ + 1]
  BY <1>4, Zenon DEF CreateNode, AllocatePage
<1>6. fd2pageno[fd] \in Nat /\ fd2pageno[fd] \in 0..MaxPage /\ fd2pageno[fd] + 1 \in Nat
  <2>1. fd2pageno[fd] \in Nat
    BY <1>1, Zenon DEF IndexTypes
  <2> QED BY <2>1, <1>5, DiskAssumption
<1>7. /\ fd2pageno' \in [Fd -> Nat] /\ fd2pageno'[fd] = fd2pageno[fd] + 1
      /\ \A g \in Fd : g # fd => fd2pageno'[g] = fd2pageno[g]
  BY <1>1, <1>5, <1>6, Zenon DEF IndexTypes
<1>8. /\ nodes' \in [Path -> SUBSET (0..MaxPage)] /\ nodes'[p] = nodes[p] \union {fd2pageno[fd]}
      /\ \A q \in Path : q # p => nodes'[q] = nodes[q]
  BY <1>1, <1>5, <1>6, Zenon DEF IndexTypes
<1>9. /\ DOMAIN handle' = Path /\ \A q \in Path : q # p => handle'[q] = handle[q]
      /\ handle'[p] = [handle[p] EXCEPT !.num_pages = @ + 1]
  BY <1>1, Zenon DEF IndexTypes
<1>10. /\ grown' \in [Path -> Int] /\ grown'[p] = grown[p] + 1
       /\ \A q \in Path : q # p => grown'[q] = grown[q]
  BY <1>1 DEF IndexTypes
<1>11. IndexTypes'
  BY <1>1, <1>7, <1>8, <1>9, <1>10, Zenon DEF IndexTypes
<1>12. TablesInv'
  <2>1. FdTablesInverse'
    BY <1>1, Zenon DEF IndexInv, TablesInv, FdTablesInverse
  <2> QED BY <1>1, <1>2, <1>3, <1>9, <2>1, Zenon DEF IndexInv, TablesInv
<1>13. HeaderAt(p) /\ (crashes = 0 => RootAt(p) /\ NodesAt(p) /\ p \in served[fd])
  BY <1>3, <1>4, Zenon DEF IndexInv, FilesInv, NodesAt
<1>14. ASSUME NEW q \in Path, q # p
       PROVE  HeaderAt(q)' /\ (crashes' = 0 => RootAt(q)' /\ NodesAt(q)')
  <2>1. crashes = 0 => \A g \in Fd : fd2pageno'[g] = fd2pageno[g] \/ p \in served'[g]
    BY <1>1, <1>7, <1>13, Zenon
  <2> QED BY <1>1, <1>2, <1>8, <1>9, <1>10, <1>14, <2>1, OtherFile, Zenon
<1>15. HeaderAt(p)'
  <2>1. HeaderWritten(p)'
    BY <1>1, <1>3, <1>8, Zenon DEF HeaderWritten
  <2>2. handle'[p] = [closed'[p] EXCEPT !.num_pages = @ + grown'[p]]
    <3>1. IsHeader(closed[p]) /\ grown[p] \in Int
      BY <1>3, Zenon DEF HeaderWritten
    <3>2. [[closed[p] EXCEPT !.num_pages = @ + grown[p]] EXCEPT !.num_pages = @ + 1]
            = [closed[p] EXCEPT !.num_pages = @ + (grown[p] + 1)]
      BY <3>1, GrownHeader, Zenon
    <3> QED BY <1>1, <1>3, <1>9, <1>10, <3>2, Zenon
  <2> QED BY <1>1, <1>2, <1>3, <2>1, <2>2, Zenon DEF HeaderAt
<1>16. ASSUME crashes' = 0 PROVE RootAt(p)' /\ NodesAt(p)'
  <2>1. RootAt(p) /\ NodesAt(p) /\ p \in served[fd]
    BY <1>1, <1>13, <1>16, Zenon
  <2>2. RootAt(p)'
    BY <1>1, <1>2, <2>1, Zenon DEF RootAt
  <2>3. ASSUME NEW g \in Fd, OnlyOn(p, g)', NEW n \in nodes'[p]
        PROVE  n <= fd2pageno'[g] /\ n < fd2pageno'[g]
    <3>1. g = fd /\ OnlyOn(p, fd)
      BY <1>1, <2>1, <2>3, Zenon DEF OnlyOn
    <3>2. n = fd2pageno[fd] \/ (n \in nodes[p] /\ n < fd2pageno[fd])
      BY <1>1, <1>2, <1>8, <2>1, <2>3, <3>1, Zenon DEF NodesAt
    <3>3. n \in 0..MaxPage
      BY <1>8, <2>3, Zenon
    <3> QED BY <1>6, <1>7, <3>1, <3>2, <3>3, DiskAssumption
  <2>4. NodesAt(p)'
    BY <1>1, <1>2, <1>3, <1>4, <2>1, <2>3, Zenon DEF NodesAt
  <2> QED BY <2>2, <2>4
<1>17. FilesInv'
  BY <1>14, <1>15, <1>16, Zenon DEF FilesInv
<1> QED BY <1>11, <1>12, <1>17 DEF IndexInv

\* release_node_handle() counts a page less; the pages of the other nodes stay.
LEMMA ReleaseNodeInv ==
  ASSUME IndexInv, NEW p \in Path, ReleaseNode(p)
  PROVE  IndexInv'
<1>1. /\ creating = Idle /\ creating' = creating /\ handle[p] # None /\ IndexTypes
      /\ exists' = exists /\ path2fd' = path2fd /\ fd2path' = fd2path /\ fd2pageno' = fd2pageno
      /\ size' = size /\ content' = content
      /\ saved' = saved /\ closed' = closed /\ served' = served /\ crashes' = crashes
      /\ handle' = [handle EXCEPT ![p].num_pages = @ - 1]
      /\ grown' = [grown EXCEPT ![p] = @ - 1]
  BY Zenon DEF ReleaseNode, diskVars, fileVars, ioVars, IndexInv
<1>2. \A q : ~Creating(q) /\ ~Creating(q)'
  BY <1>1, Zenon DEF Creating
<1>3. /\ path2fd[p] # NoFd /\ p \in exists /\ path2fd[p] \in Fd /\ size[p] # 0
      /\ HeaderWritten(p) /\ grown[p] \in Int
      /\ handle[p] = [closed[p] EXCEPT !.num_pages = @ + grown[p]]
      /\ IsHeader(handle[p])
  BY <1>1, OpenIndexFacts, Zenon
<1>4. PICK m \in nodes[p] \ FixedPages : nodes' = [nodes EXCEPT ![p] = @ \ {m}]
  BY Zenon DEF ReleaseNode
<1>5. /\ nodes' \in [Path -> SUBSET (0..MaxPage)] /\ nodes'[p] = nodes[p] \ {m}
      /\ \A q \in Path : q # p => nodes'[q] = nodes[q]
  BY <1>1, <1>4, Zenon DEF IndexTypes
<1>6. /\ DOMAIN handle' = Path /\ \A q \in Path : q # p => handle'[q] = handle[q]
      /\ handle'[p] = [handle[p] EXCEPT !.num_pages = @ - 1]
  BY <1>1, Zenon DEF IndexTypes
<1>7. /\ grown' \in [Path -> Int] /\ grown'[p] = grown[p] - 1
      /\ \A q \in Path : q # p => grown'[q] = grown[q]
  BY <1>1 DEF IndexTypes
<1>8. IndexTypes'
  BY <1>1, <1>5, <1>6, <1>7, Zenon DEF IndexTypes
<1>9. TablesInv'
  <2>1. FdTablesInverse'
    BY <1>1, Zenon DEF IndexInv, TablesInv, FdTablesInverse
  <2> QED BY <1>1, <1>2, <1>3, <1>6, <2>1, Zenon DEF IndexInv, TablesInv
<1>10. HeaderAt(p) /\ (crashes = 0 => RootAt(p) /\ NodesAt(p))
  BY Zenon DEF IndexInv, FilesInv
<1>11. ASSUME NEW q \in Path, q # p
       PROVE  HeaderAt(q)' /\ (crashes' = 0 => RootAt(q)' /\ NodesAt(q)')
  BY <1>1, <1>2, <1>5, <1>6, <1>7, <1>11, OtherFile, Zenon
<1>12. HeaderAt(p)'
  <2>1. IX_FILE_HDR_PAGE \in FixedPages
    BY Zenon DEF FixedPages
  <2>2. HeaderWritten(p)'
    BY <1>1, <1>3, <1>4, <1>5, <2>1, Zenon DEF HeaderWritten
  <2>3. handle'[p] = [closed'[p] EXCEPT !.num_pages = @ + grown'[p]]
    <3>1. IsHeader(closed[p]) /\ grown[p] \in Int
      BY <1>3, Zenon DEF HeaderWritten
    <3>2. [[closed[p] EXCEPT !.num_pages = @ + grown[p]] EXCEPT !.num_pages = @ - 1]
            = [closed[p] EXCEPT !.num_pages = @ + (grown[p] - 1)]
      BY <3>1, GrownHeader, Zenon
    <3> QED BY <1>1, <1>3, <1>6, <1>7, <3>2, Zenon
  <2> QED BY <1>1, <1>2, <1>3, <2>2, <2>3, Zenon DEF HeaderAt
<1>13. ASSUME crashes' = 0 PROVE RootAt(p)' /\ NodesAt(p)'
  <2>1. RootAt(p) /\ NodesAt(p)
    BY <1>1, <1>10, <1>13, Zenon
  <2>2. RootAt(p)'
    BY <1>1, <1>2, <2>1, Zenon DEF RootAt
  <2>3. NodesAt(p)'
    BY <1>1, <1>2, <1>3, <1>5, <2>1, Zenon DEF NodesAt, OnlyOn
  <2> QED BY <2>2, <2>3
<1>14. FilesInv'
  BY <1>11, <1>12, <1>13, Zenon DEF FilesInv
<1> QED BY <1>8, <1>9, <1>14 DEF IndexInv

\* close_index() writes the header back and lets go of the descriptor.
LEMMA CloseIndexInv ==
  ASSUME IndexInv, NEW p \in Path, CloseIndex(p)
  PROVE  IndexInv'
<1>1. /\ creating = Idle /\ creating' = creating /\ handle[p] # None /\ IndexTypes
      /\ exists' = exists /\ fd2pageno' = fd2pageno /\ nodes' = nodes /\ grown' = grown
      /\ served' = served /\ crashes' = crashes
      /\ content' = [content EXCEPT ![p][IX_FILE_HDR_PAGE] = Serialize(handle[p])]
      /\ path2fd' = [path2fd EXCEPT ![p] = NoFd]
      /\ closed' = [closed EXCEPT ![p] = handle[p]]
      /\ saved' = [saved EXCEPT ![p] = nodes[p]]
      /\ handle' = [handle EXCEPT ![p] = None]
  BY Zenon DEF CloseIndex, IndexInv
<1>2. \A q : ~Creating(q) /\ ~Creating(q)'
  BY <1>1, Zenon DEF Creating
<1>3. /\ path2fd[p] # NoFd /\ p \in exists /\ path2fd[p] \in Fd /\ size[p] # 0
      /\ HeaderWritten(p) /\ IsHeader(handle[p])
  BY <1>1, OpenIndexFacts, Zenon
<1>4. PICK fd \in Fd : path2fd[p] = fd
  BY <1>3, Zenon
<1>5. PICK top \in nodes[p] :
        size' = [size EXCEPT ![p] = IF top >= @ THEN top + 1 ELSE @]
  <2> DEFINE t == CHOOSE n \in nodes[p] : \A k \in nodes[p] : k <= n
  <2>1. nodes[p] \in SUBSET (0..MaxPage) /\ nodes[p] # {}
    BY <1>1, <1>3, Zenon DEF IndexTypes, HeaderWritten
  <2>2. \E n \in nodes[p] : \A k \in nodes[p] : k <= n
    BY <2>1, LargestPage, Zenon
  <2>3. t \in nodes[p]
    BY <2>2, Zenon
  <2>4. size' = [size EXCEPT ![p] = IF t >= @ THEN t + 1 ELSE @]
    BY Zenon DEF CloseIndex
  <2> QED BY <2>3, <2>4, Zenon
<1>6. /\ size' \in [Path -> Nat] /\ size'[p] >= size[p]
      /\ \A q \in Path : q # p => size'[q] = size[q]
  <2>1. top \in 0..MaxPage
    BY <1>1, Zenon DEF IndexTypes
  <2>2. top \in Nat
    BY <2>1
  <2>3. size \in [Path -> Nat] /\ size[p] \in Nat
    BY <1>1, Zenon DEF IndexTypes
  <2>4. size'[p] = IF top >= size[p] THEN top + 1 ELSE size[p]
    BY <1>5, <2>3, Zenon
  <2>5. size'[p] \in Nat /\ size'[p] >= size[p]
    BY <2>2, <2>3, <2>4
  <2> QED BY <1>5, <2>3, <2>5, Zenon
<1>7. fd2path' = [fd2path EXCEPT ![fd] = NoPath]
  BY <1>4, Zenon DEF CloseIndex
<1>8. /\ path2fd' \in [Path -> Fd \union {NoFd}] /\ fd2path' \in [Fd -> Path \union {NoPath}]
      /\ FdTablesInverse' /\ path2fd'[p] = NoFd
      /\ \A q \in Path : q # p => path2fd'[q] = path2fd[q]
      /\ \A q \in Path : path2fd'[q] # NoFd => q \in exists'
  BY <1>1, <1>4, <1>7, ClosedOn, Zenon
<1>9. IX_FILE_HDR_PAGE \in PageNo
  BY PagesThere, Zenon
<1>10. /\ DOMAIN content' = Path /\ \A q \in Path : DOMAIN (content'[q]) = PageNo
       /\ content'[p][IX_FILE_HDR_PAGE] = Serialize(handle[p])
       /\ \A q \in Path : q # p => content'[q] = content[q]
  BY <1>1, <1>9, Zenon DEF IndexTypes
<1>11. /\ DOMAIN closed' = Path /\ closed'[p] = handle[p]
       /\ DOMAIN handle' = Path /\ handle'[p] = None
       /\ saved' \in [Path -> SUBSET (0..MaxPage)] /\ saved'[p] = nodes[p]
       /\ \A q \in Path : q # p => /\ closed'[q] = closed[q] /\ handle'[q] = handle[q]
                                   /\ saved'[q] = saved[q]
  BY <1>1, Zenon DEF IndexTypes
<1>12. IndexTypes'
  BY <1>1, <1>6, <1>8, <1>10, <1>11, Zenon DEF IndexTypes
<1>13. TablesInv'
  <2>1. ASSUME NEW q \in Path, handle'[q] # None PROVE path2fd'[q] # NoFd
    <3>1. q # p
      BY <1>11, <2>1, Zenon
    <3> QED BY <1>8, <1>11, <2>1, <3>1, Zenon DEF IndexInv, TablesInv
  <2> QED BY <1>1, <1>2, <1>8, <2>1, Zenon DEF TablesInv
<1>14. ASSUME NEW q \in Path, q # p
       PROVE  HeaderAt(q)' /\ (crashes' = 0 => RootAt(q)' /\ NodesAt(q)')
  BY <1>1, <1>2, <1>6, <1>8, <1>10, <1>11, <1>14, OtherFile, Zenon
<1>15. HeaderAt(p)'
  <2>1. HeaderWritten(p)'
    BY <1>1, <1>3, <1>10, <1>11, Zenon DEF HeaderWritten
  <2> QED BY <1>2, <1>11, <2>1, Zenon DEF HeaderAt
<1>16. ASSUME crashes' = 0 PROVE RootAt(p)' /\ NodesAt(p)'
  <2>1. RootAt(p) /\ NodesAt(p)
    BY <1>1, <1>16, Zenon DEF IndexInv, FilesInv
  <2>2. RootAt(p)'
    <3>1. size[p] > IX_INIT_ROOT_PAGE
      BY <1>2, <1>3, <2>1, Zenon DEF RootAt
    <3>2. size[p] \in Nat /\ size'[p] \in Nat
      BY <1>1, <1>6, Zenon DEF IndexTypes
    <3>3. size'[p] > IX_INIT_ROOT_PAGE
      BY <1>6, <3>1, <3>2 DEF IX_INIT_ROOT_PAGE
    <3> QED BY <1>2, <3>3, Zenon DEF RootAt
  <2>3. NodesAt(p)'
    BY <1>1, <1>2, <1>3, <1>8, <1>11, <2>1, Zenon DEF NodesAt, OnlyOn
  <2> QED BY <2>2, <2>3
<1>17. FilesInv'
  BY <1>14, <1>15, <1>16, Zenon DEF FilesInv
<1> QED BY <1>12, <1>13, <1>17 DEF IndexInv

\* destroy_index() removes a file that is not open.
LEMMA DestroyIndexInv ==
  ASSUME IndexInv, NEW p \in Path, DestroyIndex(p)
  PROVE  IndexInv'
<1>1. /\ creating = Idle /\ creating' = creating /\ path2fd[p] = NoFd /\ p \in exists /\ IndexTypes
      /\ exists' = exists \ {p} /\ path2fd' = path2fd /\ fd2path' = fd2path
      /\ size' = size /\ content' = content /\ fd2pageno' = fd2pageno
      /\ handle' = handle /\ grown' = grown /\ served' = served /\ crashes' = crashes
      /\ nodes' = [nodes EXCEPT ![p] = {}]
      /\ saved' = [saved EXCEPT ![p] = {}]
      /\ closed' = [closed EXCEPT ![p] = None]
  BY Zenon DEF DestroyIndex, DestroyFile, ioVars, IndexInv
<1>2. \A q : ~Creating(q) /\ ~Creating(q)'
  BY <1>1, Zenon DEF Creating
<1>3. handle[p] = None
  BY <1>1, Zenon DEF IndexInv, TablesInv
<1>4. /\ nodes' \in [Path -> SUBSET (0..MaxPage)] /\ saved' \in [Path -> SUBSET (0..MaxPage)]
      /\ DOMAIN closed' = Path /\ nodes'[p] = {}
      /\ \A q \in Path : q # p => /\ nodes'[q] = nodes[q] /\ saved'[q] = saved[q]
                                  /\ closed'[q] = closed[q]
  BY <1>1, Zenon DEF IndexTypes
<1>5. IndexTypes'
  BY <1>1, <1>4, Zenon DEF IndexTypes
<1>6. TablesInv'
  <2>1. FdTablesInverse'
    BY <1>1, Zenon DEF IndexInv, TablesInv, FdTablesInverse
  <2>2. \A q \in Path : path2fd'[q] # NoFd => q \in exists'
    BY <1>1, Zenon DEF IndexInv, TablesInv
  <2> QED BY <1>1, <1>2, <2>1, <2>2, Zenon DEF IndexInv, TablesInv
<1>7. ASSUME NEW q \in Path, q # p
      PROVE  HeaderAt(q)' /\ (crashes' = 0 => RootAt(q)' /\ NodesAt(q)')
  <2>1. q \in exists' <=> q \in exists
    BY <1>1, <1>7, Zenon
  <2> QED BY <1>1, <1>2, <1>4, <1>7, <2>1, OtherFile, Zenon
<1>8. p \notin exists'
  BY <1>1, Zenon
<1>9. HeaderAt(p)' /\ RootAt(p)' /\ NodesAt(p)'
  BY <1>1, <1>2, <1>3, <1>4, <1>8, Zenon DEF HeaderAt, RootAt, NodesAt
<1>10. FilesInv'
  BY <1>7, <1>9, Zenon DEF FilesInv
<1> QED BY <1>5, <1>6, <1>10 DEF IndexInv

\* The server is killed: the files stay, the tables of descriptors are gone.
LEMMA IndexCrashInv == ASSUME IndexInv, Crash PROVE IndexInv'
<1>1. /\ crashes' = crashes + 1 /\ creating' = Idle /\ handle' = [path \in Path |-> None]
      /\ nodes' = saved /\ served' = [fd \in Fd |-> {}]
      /\ path2fd' = [path \in Path |-> NoFd] /\ fd2path' = [fd \in Fd |-> NoPath]
      /\ fd2pageno' = [fd \in Fd |-> 0] /\ exists' = exists /\ size' = size /\ content' = content
      /\ saved' = saved /\ closed' = closed /\ grown' = grown /\ IndexTypes
  BY Zenon DEF Crash, ioVars, IndexInv
<1>2. \A q : ~Creating(q)'
  BY <1>1, Zenon DEF Creating
<1>3. crashes' \in Nat /\ crashes' # 0
  <2>1. crashes \in Nat
    BY <1>1, Zenon DEF IndexTypes
  <2> QED BY <1>1, <2>1
<1>4. fd2pageno' \in [Fd -> Nat]
  BY <1>1
<1>5. /\ path2fd' \in [Path -> Fd \union {NoFd}] /\ fd2path' \in [Fd -> Path \union {NoPath}]
      /\ served' \in [Fd -> SUBSET Path] /\ DOMAIN handle' = Path
  BY <1>1, Zenon
<1>6. IndexTypes'
  BY <1>1, <1>3, <1>4, <1>5, Zenon DEF IndexTypes
<1>7. TablesInv'
  <2>1. NoFd \notin Fd /\ NoPath \notin Path
    BY DiskAssumption DEF NoFd, Fd
  <2>2. FdTablesInverse'
    BY <1>1, <2>1, Zenon DEF FdTablesInverse
  <2> QED BY <1>1, <2>2, Zenon DEF TablesInv
<1>8. ASSUME NEW q \in Path PROVE HeaderAt(q)'
  <2>1. HeaderAt(q) /\ handle'[q] = None
    BY <1>1, <1>8, Zenon DEF IndexInv, FilesInv
  <2>2. HeaderWritten(q) => HeaderWritten(q)'
    BY <1>1, Zenon DEF HeaderWritten
  <2> QED BY <1>1, <1>2, <2>1, <2>2, Zenon DEF HeaderAt
<1>9. FilesInv'
  BY <1>3, <1>8, Zenon DEF FilesInv
<1> QED BY <1>6, <1>7, <1>9 DEF IndexInv

\* Nothing happens to the index files.
LEMMA IndexStutterInv == ASSUME IndexInv, UNCHANGED indexFileVars PROVE IndexInv'
<1>1. /\ exists' = exists /\ size' = size /\ content' = content /\ path2fd' = path2fd
      /\ fd2path' = fd2path /\ fd2pageno' = fd2pageno /\ creating' = creating
      /\ handle' = handle /\ nodes' = nodes /\ saved' = saved /\ closed' = closed
      /\ grown' = grown /\ served' = served /\ crashes' = crashes
  BY Zenon DEF indexFileVars, indexVars, diskVars, fileVars, ioVars
<1>2. \A q : Creating(q)' <=> Creating(q)
  BY <1>1, Zenon DEF Creating
<1>3. IndexTypes'
  BY <1>1, Zenon DEF IndexInv, IndexTypes
<1>4. TablesInv'
  BY <1>1, <1>2, Zenon DEF IndexInv, TablesInv, FdTablesInverse
<1>5. ASSUME NEW q \in Path PROVE HeaderAt(q)' /\ (crashes' = 0 => RootAt(q)' /\ NodesAt(q)')
  <2>1. HeaderAt(q) /\ (crashes = 0 => RootAt(q) /\ NodesAt(q))
    BY Zenon DEF IndexInv, FilesInv
  <2>2. HeaderAt(q)'
    BY <1>1, <1>2, <2>1, Zenon DEF HeaderAt, HeaderWritten
  <2>3. crashes' = 0 => RootAt(q)'
    BY <1>1, <1>2, <2>1, Zenon DEF RootAt
  <2>4. crashes' = 0 => NodesAt(q)'
    BY <1>1, <1>2, <2>1, Zenon DEF NodesAt, OnlyOn
  <2> QED BY <2>2, <2>3, <2>4
<1>6. FilesInv'
  BY <1>5, Zenon DEF FilesInv
<1> QED BY <1>3, <1>4, <1>6 DEF IndexInv

(* IndexInv holds whatever calls are made and wherever the process stops   *)
(* inside create_index() (ix_manager.h:48-169).                            *)
THEOREM IndexInvariant == IndexSpec => []IndexInv
<1>1. IndexInit => IndexInv
  BY IndexInitInv
<1>2. IndexInv /\ [IndexNext]_indexFileVars => IndexInv'
  <2> SUFFICES ASSUME IndexInv, [IndexNext]_indexFileVars PROVE IndexInv'
    OBVIOUS
  <2>1. ASSUME NEW x \in CreateSteps, creating.at = x PROVE creating.path \in Path
    <3>1. IndexTypes BY DEF IndexInv
    <3> QED BY <2>1, <3>1, CreateStepFacts, Zenon
  <2>2. ASSUME NEW path \in Path, NEW cols \in Columns, CreateBegin(path, cols) PROVE IndexInv'
    BY <2>2, CreateBeginInv
  <2>3. CASE CreateOpen
    <3>1. PICK p \in Path : p = creating.path
      BY <2>1, <2>3, Zenon DEF CreateOpen, CreateSteps
    <3> QED BY <2>3, <3>1, CreateOpenInv
  <2>4. CASE CreateHeader
    <3>1. PICK p \in Path : p = creating.path
      BY <2>1, <2>4, Zenon DEF CreateHeader, CreateSteps
    <3> QED BY <2>4, <3>1, CreateHeaderInv
  <2>5. CASE CreateLeafHeader
    <3>1. PICK p \in Path : p = creating.path
      BY <2>1, <2>5, Zenon DEF CreateLeafHeader, CreateSteps
    <3> QED BY <2>5, <3>1, CreateLeafHeaderInv
  <2>6. CASE CreateRoot
    <3>1. PICK p \in Path : p = creating.path
      BY <2>1, <2>6, Zenon DEF CreateRoot, CreateSteps
    <3> QED BY <2>6, <3>1, CreateRootInv
  <2>7. CASE CreateClose
    <3>1. PICK p \in Path : p = creating.path
      BY <2>1, <2>7, Zenon DEF CreateClose, CreateSteps
    <3> QED BY <2>7, <3>1, CreateCloseInv
  <2>8. ASSUME NEW path \in Path, OpenIndex(path) PROVE IndexInv'
    BY <2>8, OpenIndexInv
  <2>9. ASSUME NEW path \in Path, CloseIndex(path) PROVE IndexInv'
    BY <2>9, CloseIndexInv
  <2>10. ASSUME NEW path \in Path, DestroyIndex(path) PROVE IndexInv'
    BY <2>10, DestroyIndexInv
  <2>11. ASSUME NEW path \in Path, CreateNode(path) PROVE IndexInv'
    BY <2>11, CreateNodeInv
  <2>12. ASSUME NEW path \in Path, ReleaseNode(path) PROVE IndexInv'
    BY <2>12, ReleaseNodeInv
  <2>13. CASE Crash
    BY <2>13, IndexCrashInv
  <2>14. CASE UNCHANGED indexFileVars
    BY <2>14, IndexStutterInv
  <2> QED BY <2>2, <2>3, <2>4, <2>5, <2>6, <2>7, <2>8, <2>9, <2>10, <2>11, <2>12, <2>13, <2>14,
             Zenon DEF IndexNext
<1> QED BY <1>1, <1>2, PTL DEF IndexSpec

\* What IndexInv says of an index that open_index() opened.
LEMMA IndexInvUsable == IndexInv => OpenIndexUsable /\ NodeFits
<1> SUFFICES ASSUME IndexInv PROVE OpenIndexUsable /\ NodeFits
  OBVIOUS
<1>1. HeaderReadsBack
  <2> SUFFICES ASSUME NEW p \in Path, handle[p] # None
               PROVE  /\ handle[p] = [closed[p] EXCEPT !.num_pages = @ + grown[p]]
                      /\ EndOffset(handle[p]) = handle[p].tot_len
    BY Zenon DEF HeaderReadsBack
  <2>1. IsHeader(handle[p]) /\ handle[p] = [closed[p] EXCEPT !.num_pages = @ + grown[p]]
    BY OpenIndexFacts, Zenon
  <2> QED BY <2>1, HeaderRoundTrip, Zenon
<1>2. RootFetchable
  <2> SUFFICES ASSUME crashes = 0, NEW p \in Path, handle[p] # None
               PROVE  handle[p].root_page < size[p]
    BY Zenon DEF RootFetchable
  <2>1. p \in exists /\ size[p] # 0 /\ IsHeader(handle[p])
    BY OpenIndexFacts, Zenon
  <2>2. RootAt(p) /\ ~Creating(p)
    BY Zenon DEF IndexInv, FilesInv, TablesInv
  <2>3. size[p] > IX_INIT_ROOT_PAGE /\ size[p] \in Nat
    BY <2>1, <2>2, Zenon DEF RootAt, IndexInv, IndexTypes
  <2>4. handle[p].root_page = 2
    BY <2>1, HeaderFields, Zenon
  <2> QED BY <2>3, <2>4 DEF IX_INIT_ROOT_PAGE
<1>3. NodeFits
  <2> SUFFICES ASSUME NEW p \in Path, handle[p] # None
               PROVE  /\ KeyStart(handle[p], handle[p].btree_order + 1) <= RidStart(handle[p], 0)
                      /\ RidStart(handle[p], handle[p].btree_order + 1) <= PAGE_SIZE
                      /\ handle[p].btree_order > 2
    BY Zenon DEF NodeFits
  <2>1. IsHeader(handle[p])
    BY OpenIndexFacts, Zenon
  <2> QED BY <2>1, HeaderFits, Zenon
<1> QED BY <1>1, <1>2, <1>3 DEF OpenIndexUsable

(* open_index() gets the header last written, for any number and kind of   *)
(* columns and wherever an earlier process stopped; and while the process  *)
(* runs, the root of an open index is in its file                          *)
(* (ix_manager.h:60-169, ix_defs.h:58-127).                                *)
THEOREM IndexesUsable == IndexSpec => []OpenIndexUsable
<1>1. IndexInv => OpenIndexUsable
  BY IndexInvUsable
<1> QED BY <1>1, IndexInvariant, PTL

(* The keys and record identifiers of every node fit its page, for any     *)
(* columns create_index() accepts and any page size that has room for four *)
(* of the longest entries (ix_manager.h:65-78, ix_index_handle.h:64-68).   *)
THEOREM IndexNodesFit == IndexSpec => []NodeFits
<1>1. IndexInv => NodeFits
  BY IndexInvUsable
<1> QED BY <1>1, IndexInvariant, PTL

(* create_node() never numbers a node with a page of the index, for any    *)
(* number of files and descriptors, as long as the process runs and the    *)
(* file keeps its descriptor to itself (ix_index_handle.cpp:444-453).      *)
THEOREM IndexNodesFresh == IndexSpec => NodesFresh
<1> DEFINE Step == \A path \in Path :
             crashes = 0 /\ CreateNode(path) /\ OwnDescriptor(path)
               => fd2pageno[path2fd[path]] \notin nodes[path]
<1>1. IndexInv /\ [IndexNext]_indexFileVars => [Step]_indexFileVars
  <2> SUFFICES ASSUME IndexInv, NEW p \in Path, crashes = 0, handle[p] # None, OwnDescriptor(p),
                      fd2pageno[path2fd[p]] \in nodes[p]
               PROVE  FALSE
    BY Zenon DEF CreateNode
  <2>1. path2fd[p] # NoFd /\ path2fd[p] \in Fd
    BY OpenIndexFacts, Zenon
  <2>2. NodesAt(p) /\ ~Creating(p)
    BY Zenon DEF IndexInv, FilesInv, TablesInv
  <2>3. p \in served[path2fd[p]]
    BY <2>1, <2>2, Zenon DEF NodesAt
  <2>4. OnlyOn(p, path2fd[p])
    BY <2>1, <2>3, Zenon DEF OwnDescriptor, OnlyOn
  <2>5. fd2pageno[path2fd[p]] < fd2pageno[path2fd[p]]
    BY <2>1, <2>2, <2>4, Zenon DEF NodesAt
  <2>6. fd2pageno[path2fd[p]] \in Nat
    BY <2>1, Zenon DEF IndexInv, IndexTypes
  <2> QED BY <2>5, <2>6
<1> QED BY <1>1, IndexInvariant, PTL DEF IndexSpec, NodesFresh
=============================================================================
