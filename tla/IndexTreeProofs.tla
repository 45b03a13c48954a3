-------------------------- MODULE IndexTreeProofs ---------------------------
(***************************************************************************)
(* What is proved of the pages of a B+ tree, for a tree of any size and    *)
(* shape: the scan of its leaves (IndexScan) returns every entry once and  *)
(* in order, and the functions that repair the tree (IndexTree) leave it   *)
(* connected.                                                              *)
(***************************************************************************)
EXTENDS IndexTree, IndexScan, TLAPS

(***************************************************************************)
(* The scan of the leaves.  Up to the entry it stands at it has returned   *)
(* all entries, in order.                                                  *)
(***************************************************************************)
Here == <<iid.page_no, iid.slot_no>>
Returned == {rids[i] : i \in 1..Len(rids)}
InOrder == \A i, j \in 1..Len(rids) : i < j => Earlier(rids[i], rids[j])

LeafScanInv ==
  /\ sizes \in LeafSizes
  /\ rids \in Seq(Nat \X Nat)
  /\ InOrder
  /\ at = "begin" => rids = << >>
  /\ at \in {"test", "rid", "next"} =>
       /\ iid \in [page_no : 1..LastLeaf, slot_no : Nat]
       /\ end = Iid(LastLeaf, sizes[LastLeaf])
       /\ iid.slot_no <= sizes[iid.page_no]
       /\ iid.slot_no = sizes[iid.page_no] => iid.page_no = LastLeaf
  /\ at \in {"test", "rid"} => Returned = {e \in Entries : Earlier(e, Here)}
  /\ at = "next" =>
       /\ iid.slot_no < sizes[iid.page_no]
       /\ Returned = {e \in Entries : Earlier(e, Here)} \union {Here}
  /\ at = "done" => Returned = Entries

(* There is a leaf, and only the leaf of an empty index is empty. *)
LEMMA LeafSizesFacts ==
  ASSUME LeafScanInv
  PROVE  /\ sizes \in Seq(Nat) /\ LastLeaf \in Nat /\ LastLeaf >= 1
         /\ \A i \in 1..LastLeaf : sizes[i] \in Nat /\ (LastLeaf = 1 \/ sizes[i] >= 1)
BY ScanAssumption DEF LeafScanInv, LastLeaf

(* An entry is a leaf and a slot of it. *)
LEMMA EntryFacts ==
  ASSUME NEW e
  PROVE  e \in Entries <=> /\ e = <<e[1], e[2]>>
                           /\ e[1] \in 1..LastLeaf /\ e[2] \in 0..(sizes[e[1]] - 1)
BY DEF Entries

(* Returning an entry after all that were returned. *)
LEMMA AppendInOrder ==
  ASSUME rids \in Seq(Nat \X Nat), InOrder, NEW e \in Nat \X Nat,
         \A f \in Returned : Earlier(f, e), rids' = Append(rids, e)
  PROVE  /\ rids' \in Seq(Nat \X Nat)
         /\ InOrder'
         /\ Returned' = Returned \union {e}
<1>1. /\ rids' \in Seq(Nat \X Nat) /\ Len(rids') = Len(rids) + 1 /\ Len(rids) \in Nat
      /\ rids'[Len(rids) + 1] = e
      /\ \A i \in 1..Len(rids) : rids'[i] = rids[i]
  OBVIOUS
<1>2. Returned' = Returned \union {e}
  <2>1. ASSUME NEW i \in 1..Len(rids') PROVE rids'[i] \in Returned \union {e}
    <3>1. i \in 1..Len(rids) \/ i = Len(rids) + 1
      BY <1>1
    <3> QED BY <1>1, <3>1, Zenon DEF Returned
  <2>2. ASSUME NEW i \in 1..Len(rids) PROVE i \in 1..Len(rids') /\ rids'[i] = rids[i]
    BY <1>1
  <2>3. Len(rids) + 1 \in 1..Len(rids')
    BY <1>1
  <2>4. Returned' = {rids'[i] : i \in 1..Len(rids')}
    BY DEF Returned
  <2>5. Returned \union {e} \subseteq Returned'
    BY <1>1, <2>2, <2>3, <2>4, Zenon DEF Returned
  <2>6. Returned' \subseteq Returned \union {e}
    BY <2>1, <2>4, Zenon
  <2> QED BY <2>5, <2>6, Zenon
<1>3. ASSUME NEW i \in 1..Len(rids'), NEW j \in 1..Len(rids'), i < j
      PROVE  Earlier(rids'[i], rids'[j])
  <2>1. i \in 1..Len(rids) /\ rids'[i] = rids[i] /\ rids[i] \in Returned
    BY <1>1, <1>3 DEF Returned
  <2>2. CASE j = Len(rids) + 1
    BY <1>1, <2>1, <2>2
  <2>3. CASE j \in 1..Len(rids)
    BY <1>1, <1>3, <2>1, <2>3 DEF InOrder
  <2> QED BY <1>1, <2>2, <2>3
<1> QED BY <1>1, <1>2, <1>3, Zenon DEF InOrder

(* leaf_begin() and leaf_end(). *)
LEMMA BeginKeepsScan == LeafScanInv /\ Begin => LeafScanInv'
<1> SUFFICES ASSUME LeafScanInv, Begin PROVE LeafScanInv'
  OBVIOUS
<1>1. /\ at = "begin" /\ at' = "test" /\ sizes' = sizes /\ rids' = rids /\ rids = << >>
      /\ iid' = Iid(1, 0) /\ end' = Iid(LastLeaf, sizes[LastLeaf])
  BY DEF Begin, LeafScanInv
<1>2. LastLeaf' = LastLeaf /\ Entries' = Entries
  BY <1>1 DEF LastLeaf, Entries
<1>3. /\ iid' \in [page_no : 1..LastLeaf, slot_no : Nat]
      /\ iid'.slot_no <= sizes[iid'.page_no]
      /\ iid'.slot_no = sizes[iid'.page_no] => iid'.page_no = LastLeaf
  BY <1>1, LeafSizesFacts DEF Iid
<1>4. Here' = <<1, 0>>
  BY <1>1 DEF Here, Iid
<1>5. Returned' = {}
  BY <1>1 DEF Returned
<1>6. ASSUME NEW e \in Entries PROVE ~Earlier(e, <<1, 0>>)
  BY EntryFacts, LeafSizesFacts DEF Earlier
<1>7. Returned' = {e \in Entries' : Earlier(e, Here')}
  BY <1>2, <1>4, <1>5, <1>6
<1>8. InOrder'
  BY <1>1 DEF InOrder
<1> QED BY <1>1, <1>2, <1>3, <1>7, <1>8 DEF LeafScanInv

(* is_end(). *)
LEMMA TestKeepsScan == LeafScanInv /\ Test => LeafScanInv'
<1> SUFFICES ASSUME LeafScanInv, Test PROVE LeafScanInv'
  OBVIOUS
<1>1. /\ at = "test" /\ at' = IF IsEnd THEN "done" ELSE "rid"
      /\ UNCHANGED <<sizes, rids, iid, end>>
  BY DEF Test
<1>2. /\ LastLeaf' = LastLeaf /\ Entries' = Entries /\ Here' = Here
      /\ Returned' = Returned /\ (InOrder' <=> InOrder)
  BY <1>1 DEF LastLeaf, Entries, Here, Returned, InOrder
<1>3. CASE IsEnd
  <2>1. iid.page_no = LastLeaf /\ iid.slot_no = sizes[LastLeaf]
    BY <1>1, <1>3 DEF LeafScanInv, IsEnd, Iid
  <2>2. ASSUME NEW e \in Entries PROVE Earlier(e, Here)
    BY <2>1, EntryFacts, LeafSizesFacts DEF Earlier, Here
  <2>3. Returned = Entries
    BY <1>1, <2>2, Zenon DEF LeafScanInv
  <2> QED BY <1>1, <1>2, <1>3, <2>3 DEF LeafScanInv
<1>4. CASE ~IsEnd
  BY <1>1, <1>2, <1>4 DEF LeafScanInv
<1> QED BY <1>3, <1>4

(* rid(). *)
LEMMA RidKeepsScan == LeafScanInv /\ Rid => LeafScanInv'
<1> SUFFICES ASSUME LeafScanInv, Rid PROVE LeafScanInv'
  OBVIOUS
<1>1. at = "rid" /\ UNCHANGED <<sizes, iid, end>>
  BY DEF Rid
<1>2. LastLeaf' = LastLeaf /\ Entries' = Entries /\ Here' = Here
  BY <1>1 DEF LastLeaf, Entries, Here
<1>3. CASE at' \in {"crashed", "thrown"} /\ rids' = rids
  <2>1. Returned' = Returned /\ (InOrder' <=> InOrder)
    BY <1>3 DEF Returned, InOrder
  <2> QED BY <1>1, <1>3, <2>1 DEF LeafScanInv
<1>4. CASE /\ ~(iid.slot_no >= sizes[iid.page_no])
           /\ at' = "next" /\ rids' = Append(rids, Here)
  <2>1. iid \in [page_no : 1..LastLeaf, slot_no : Nat] /\ Here \in Nat \X Nat
    BY <1>1, LeafSizesFacts DEF LeafScanInv, Here
  <2>2. \A f \in Returned : Earlier(f, Here)
    BY <1>1 DEF LeafScanInv
  <2>3. rids' \in Seq(Nat \X Nat) /\ InOrder' /\ Returned' = Returned \union {Here}
    BY <1>4, <2>1, <2>2, AppendInOrder DEF LeafScanInv
  <2>4. iid.slot_no < sizes[iid.page_no]
    BY <1>4, <2>1, LeafSizesFacts
  <2> QED BY <1>1, <1>2, <1>4, <2>3, <2>4 DEF LeafScanInv
<1> QED BY <1>3, <1>4 DEF Rid, Here

(* next() (ix_scan.cpp:17-29): between an entry and the next there is no   *)
(* other, at the end of a leaf too.                                        *)
LEMMA NextEntryKeepsScan == LeafScanInv /\ NextEntry => LeafScanInv'
<1> SUFFICES ASSUME LeafScanInv, NextEntry PROVE LeafScanInv'
  OBVIOUS
<1> DEFINE p == iid.page_no
           s == iid.slot_no
<1>1. at = "next" /\ UNCHANGED <<sizes, end, rids>>
  BY DEF NextEntry
<1>2. /\ LastLeaf' = LastLeaf /\ Entries' = Entries
      /\ Returned' = Returned /\ (InOrder' <=> InOrder)
  BY <1>1 DEF LastLeaf, Entries, Returned, InOrder
<1>3. CASE at' = "crashed"
  BY <1>1, <1>2, <1>3 DEF LeafScanInv
<1>4. CASE /\ at' = "test"
           /\ iid' = IF p # LastLeaf /\ s + 1 = sizes[p] THEN Iid(p + 1, 0) ELSE Iid(p, s + 1)
  <2>1. /\ p \in 1..LastLeaf /\ s \in Nat /\ s < sizes[p] /\ sizes[p] \in Nat
        /\ LastLeaf \in Nat
        /\ end = Iid(LastLeaf, sizes[LastLeaf])
    BY <1>1, LeafSizesFacts DEF LeafScanInv
  <2>2. Returned = {e \in Entries : Earlier(e, <<p, s>>)} \union {<<p, s>>}
    BY <1>1 DEF LeafScanInv, Here
  <2>3. <<p, s>> \in Entries
    BY <2>1, EntryFacts
  <2>4. CASE p # LastLeaf /\ s + 1 = sizes[p]
    <3>1. iid' = Iid(p + 1, 0) /\ Here' = <<p + 1, 0>> /\ p + 1 \in 1..LastLeaf
      BY <1>4, <2>1, <2>4 DEF Here, Iid
    <3>2. ASSUME NEW e \in Entries
          PROVE  Earlier(e, <<p + 1, 0>>) <=> Earlier(e, <<p, s>>) \/ e = <<p, s>>
      <4>1. /\ e = <<e[1], e[2]>> /\ e[1] \in 1..LastLeaf /\ e[2] \in 0..(sizes[e[1]] - 1)
            /\ sizes[e[1]] \in Nat
        BY EntryFacts, LeafSizesFacts
      <4> QED BY <2>1, <2>4, <4>1 DEF Earlier
    <3>3. Returned = {e \in Entries : Earlier(e, Here')}
      BY <2>2, <2>3, <3>1, <3>2
    <3>4. sizes[p + 1] \in Nat /\ sizes[p + 1] >= 1
      <4>1. LastLeaf # 1
        BY <2>1, <2>4
      <4> QED BY <3>1, <4>1, LeafSizesFacts, Zenon
    <3>5. /\ iid' \in [page_no : 1..LastLeaf, slot_no : Nat]
          /\ iid'.slot_no <= sizes[iid'.page_no]
          /\ iid'.slot_no # sizes[iid'.page_no]
      BY <3>1, <3>4 DEF Iid
    <3> QED BY <1>1, <1>2, <1>4, <2>1, <3>3, <3>5 DEF LeafScanInv
  <2>5. CASE ~(p # LastLeaf /\ s + 1 = sizes[p])
    <3>1. iid' = Iid(p, s + 1) /\ Here' = <<p, s + 1>>
      BY <1>4, <2>5 DEF Here, Iid
    <3>2. ASSUME NEW e \in Entries
          PROVE  Earlier(e, <<p, s + 1>>) <=> Earlier(e, <<p, s>>) \/ e = <<p, s>>
      <4>1. /\ e = <<e[1], e[2]>> /\ e[1] \in 1..LastLeaf /\ e[2] \in 0..(sizes[e[1]] - 1)
            /\ sizes[e[1]] \in Nat
        BY EntryFacts, LeafSizesFacts
      <4> QED BY <2>1, <4>1 DEF Earlier
    <3>3. Returned = {e \in Entries : Earlier(e, Here')}
      BY <2>2, <2>3, <3>1, <3>2
    <3>4. /\ iid' \in [page_no : 1..LastLeaf, slot_no : Nat]
          /\ iid'.slot_no <= sizes[iid'.page_no]
          /\ iid'.slot_no = sizes[iid'.page_no] => iid'.page_no = LastLeaf
      BY <2>1, <2>5, <3>1 DEF Iid
    <3> QED BY <1>1, <1>2, <1>4, <2>1, <3>3, <3>4 DEF LeafScanInv
  <2> QED BY <2>4, <2>5
<1> QED BY <1>3, <1>4 DEF NextEntry

(* A scan of any leaves, for any pool, that gets to its end has returned   *)
(* every entry once and in order (ix_scan.cpp:17-29).                      *)
THEOREM LeafScanComplete == LeafScanSpec => []ScanReturnsEntries
<1>1. LeafScanInit => LeafScanInv
  BY DEF LeafScanInit, LeafScanInv, InOrder
<1>2. LeafScanInv /\ [LeafScanNext]_leafScanVars => LeafScanInv'
  <2> SUFFICES ASSUME LeafScanInv, [LeafScanNext]_leafScanVars PROVE LeafScanInv'
    OBVIOUS
  <2>1. ASSUME NEW leaf, NEW slot, GetRid(leaf, slot) PROVE LeafScanInv'
    <3>1. sizes' = sizes /\ rids' = rids /\ at' \in {"thrown", "found"}
      BY <2>1 DEF GetRid
    <3>2. InOrder' <=> InOrder
      BY <3>1 DEF InOrder
    <3> QED BY <3>1, <3>2 DEF LeafScanInv
  <2>2. CASE UNCHANGED leafScanVars
    <3>1. UNCHANGED <<sizes, rids, iid, end, at>>
      BY <2>2 DEF leafScanVars
    <3>2. /\ LastLeaf' = LastLeaf /\ Entries' = Entries /\ Here' = Here
          /\ Returned' = Returned /\ (InOrder' <=> InOrder)
      BY <3>1 DEF LastLeaf, Entries, Here, Returned, InOrder
    <3> QED BY <3>1, <3>2, Zenon DEF LeafScanInv
  <2> QED BY <2>1, <2>2, BeginKeepsScan, TestKeepsScan, RidKeepsScan, NextEntryKeepsScan
       DEF LeafScanNext
<1>3. LeafScanInv => ScanReturnsEntries
  BY DEF LeafScanInv, ScanReturnsEntries, Returned, InOrder
<1> QED BY <1>1, <1>2, <1>3, PTL DEF LeafScanSpec

-----------------------------------------------------------------------------
(***************************************************************************)
(* The tree.  While maintain_parent() climbs, the one entry that may have  *)
(* an old key is that of the node it has come to; while maintain_child()   *)
(* has still to run, the one node that may name an old parent is the child *)
(* that was moved.                                                         *)
(***************************************************************************)
Climbing(c) == op = MaintainParentOf(c)
Moved(q) == op = MaintainChildOf(q, 1)

(* What is where: every node but the header page has a key. *)
TreeTypes ==
  /\ node \in [Page -> NodeSet]
  /\ IX_LEAF_HEADER_PAGE \in Page /\ Leaf(IX_LEAF_HEADER_PAGE)
  /\ \A p \in Page : p # IX_LEAF_HEADER_PAGE => Len(node[p].keys) >= 1
  /\ \/ op = Idle
     \/ \E c \in Page : c # IX_LEAF_HEADER_PAGE /\ Climbing(c)
     \/ \E q \in Inner : Moved(q)

(* Every entry is right but the one a call in progress has still to see. *)
EntriesInv ==
  \A p \in Inner :
    /\ Len(node[p].keys) = Len(node[p].vals) /\ Len(node[p].vals) >= 1
    /\ \A i \in 1..Len(node[p].vals) :
         /\ node[p].vals[i] # p
         /\ (Moved(p) /\ i = 1) \/ node[node[p].vals[i]].parent = p
         /\ \/ Climbing(node[p].vals[i]) \/ Moved(node[p].vals[i])
            \/ node[p].keys[i] = node[node[p].vals[i]].keys[1]

(* No node is the child of two entries. *)
ChildrenApart ==
  \A p, q \in Inner : \A i \in 1..Len(node[p].vals), j \in 1..Len(node[q].vals) :
    node[p].vals[i] = node[q].vals[j] => p = q /\ i = j

IsChild(p, c) == \E i \in 1..Len(node[p].vals) : node[p].vals[i] = c

(* A node that names a parent is a child of it, or the child just moved. *)
ParentsInv ==
  \A c \in Page : node[c].parent # IX_NO_PAGE =>
    /\ node[c].parent \in Inner
    /\ IsChild(node[c].parent, c) \/ \E q \in Inner : Moved(q) /\ node[q].vals[1] = c

Ring == InList \union {IX_LEAF_HEADER_PAGE}
Rising(p) ==
  p # IX_LEAF_HEADER_PAGE /\ node[p].next # IX_LEAF_HEADER_PAGE =>
    node[p].keys[1] < node[node[p].next].keys[1]

(* The leaves that are left and the header page, in key order. *)
RingInv ==
  \A p \in Ring :
    /\ node[p].next \in Ring /\ node[node[p].next].prev = p
    /\ node[p].prev \in Ring /\ node[node[p].prev].next = p
    /\ Rising(p)

TreeInv == TreeTypes /\ EntriesInv /\ ChildrenApart /\ ParentsInv /\ RingInv

(* The calls are told apart by their names. *)
LEMMA OpFacts ==
  /\ \A c : Idle # MaintainParentOf(c)
  /\ \A q, i : Idle # MaintainChildOf(q, i)
  /\ \A c, q, i : MaintainParentOf(c) # MaintainChildOf(q, i)
  /\ \A b, c : MaintainParentOf(b) = MaintainParentOf(c) => b = c
  /\ \A p, q, i, j : MaintainChildOf(p, i) = MaintainChildOf(q, j) => p = q /\ i = j
<1>1. /\ Idle.name = "idle"
      /\ \A c : MaintainParentOf(c).name = "maintain_parent" /\ MaintainParentOf(c).curr = c
      /\ \A q, i : /\ MaintainChildOf(q, i).name = "maintain_child"
                   /\ MaintainChildOf(q, i).node = q /\ MaintainChildOf(q, i).child_idx = i
  BY DEF Idle, MaintainParentOf, MaintainChildOf
<1>2. \A c : Idle # MaintainParentOf(c)
  BY <1>1
<1>3. \A q, i : Idle # MaintainChildOf(q, i)
  BY <1>1
<1>4. \A c, q, i : MaintainParentOf(c) # MaintainChildOf(q, i)
  BY <1>1
<1>5. \A b, c : MaintainParentOf(b) = MaintainParentOf(c) => b = c
  BY <1>1
<1>6. \A p, q, i, j : MaintainChildOf(p, i) = MaintainChildOf(q, j) => p = q /\ i = j
  BY <1>1
<1> QED BY <1>2, <1>3, <1>4, <1>5, <1>6, Zenon

(* Which call is in progress, by its name. *)
LEMMA OpNames ==
  ASSUME TreeTypes
  PROVE  /\ op.name = "maintain_parent" =>
              /\ op = MaintainParentOf(op.curr)
              /\ op.curr \in Page /\ op.curr # IX_LEAF_HEADER_PAGE
         /\ op.name = "maintain_child" =>
              op = MaintainChildOf(op.node, 1) /\ op.node \in Inner /\ op.child_idx = 1
<1>1. CASE op = Idle
  BY <1>1 DEF Idle
<1>2. ASSUME NEW c \in Page, c # IX_LEAF_HEADER_PAGE, Climbing(c)
      PROVE  /\ op.name = "maintain_parent" /\ op = MaintainParentOf(op.curr)
             /\ op.curr \in Page /\ op.curr # IX_LEAF_HEADER_PAGE
  BY <1>2 DEF Climbing, MaintainParentOf
<1>3. ASSUME NEW q \in Inner, Moved(q)
      PROVE  /\ op.name = "maintain_child" /\ op = MaintainChildOf(op.node, 1)
             /\ op.node \in Inner /\ op.child_idx = 1
  BY <1>3 DEF Moved, MaintainChildOf
<1> QED BY <1>1, <1>2, <1>3 DEF TreeTypes

(* The fields of a node. *)
LEMMA NodeFacts ==
  ASSUME TreeTypes, NEW p \in Page
  PROVE  /\ node[p] \in NodeSet
         /\ node[p].is_leaf \in BOOLEAN /\ node[p].parent \in Page \union {IX_NO_PAGE}
         /\ node[p].prev \in Int /\ node[p].next \in Int
         /\ node[p].keys \in Seq(Int) /\ node[p].vals \in Seq(Page)
         /\ p \in Inner <=> ~node[p].is_leaf
BY Zenon DEF TreeTypes, NodeSet, Inner, Leaf

(* The keys of one node are replaced. *)
LEMMA KeysReplaced ==
  ASSUME TreeTypes, NEW g \in Page, NEW ks \in Seq(Int),
         node' = [node EXCEPT ![g].keys = ks]
  PROVE  /\ node' \in [Page -> NodeSet]
         /\ \A x \in Page : x # g => node'[x] = node[x]
         /\ node'[g].keys = ks /\ node'[g].vals = node[g].vals
         /\ node'[g].is_leaf = node[g].is_leaf /\ node'[g].parent = node[g].parent
         /\ node'[g].prev = node[g].prev /\ node'[g].next = node[g].next
<1>1. node \in [Page -> NodeSet] /\ node[g] \in NodeSet
  BY DEF TreeTypes
<1>2. [node[g] EXCEPT !.keys = ks] \in NodeSet
  BY <1>1, Zenon DEF NodeSet
<1>3. node' = [node EXCEPT ![g] = [node[g] EXCEPT !.keys = ks]]
  BY <1>1
<1> QED BY <1>1, <1>2, <1>3 DEF NodeSet

(* What no step but erase_leaf() changes. *)
LinksKept ==
  \A x \in Page : /\ node'[x].is_leaf = node[x].is_leaf
                  /\ node'[x].prev = node[x].prev /\ node'[x].next = node[x].next

(* So the inner nodes and the header page stay what they are. *)
LEMMA SameInner ==
  ASSUME LinksKept
  PROVE  Inner' = Inner /\ (IX_LEAF_HEADER_PAGE \in Page => (Leaf(IX_LEAF_HEADER_PAGE)' <=> Leaf(IX_LEAF_HEADER_PAGE)))
BY DEF LinksKept, Inner, Leaf

(* The ring of the leaves, when neither its links nor its keys change. *)
LEMMA RingKept ==
  ASSUME TreeTypes, RingInv, LinksKept, erased' = erased,
         \A x \in Page : node[x].is_leaf => node'[x].keys = node[x].keys
  PROVE  RingInv'
<1>1. InList' = InList /\ Ring' = Ring /\ InList \subseteq Page
  BY DEF LinksKept, InList, Ring, Leaf
<1>2. Ring \subseteq Page /\ \A x \in Ring : node[x].is_leaf
  BY DEF TreeTypes, Ring, InList, Leaf
<1> SUFFICES ASSUME NEW p \in Ring
             PROVE  /\ node'[p].next \in Ring /\ node'[node'[p].next].prev = p
                    /\ node'[p].prev \in Ring /\ node'[node'[p].prev].next = p
                    /\ Rising(p)'
  BY <1>1 DEF RingInv
<1>3. /\ node[p].next \in Ring /\ node[node[p].next].prev = p
      /\ node[p].prev \in Ring /\ node[node[p].prev].next = p
      /\ Rising(p)
  BY DEF RingInv
<1>4. node'[p].next = node[p].next /\ node'[p].prev = node[p].prev
  BY <1>2 DEF LinksKept
<1>5. /\ node'[node[p].next].prev = node[node[p].next].prev
      /\ node'[node[p].prev].next = node[node[p].prev].next
  BY <1>2, <1>3 DEF LinksKept
<1>6. node'[p].keys = node[p].keys /\ node'[node[p].next].keys = node[node[p].next].keys
  BY <1>2, <1>3
<1> QED BY <1>3, <1>4, <1>5, <1>6 DEF Rising

(* The children of the nodes, when none changes. *)
LEMMA ChildrenKept ==
  ASSUME ChildrenApart, Inner' = Inner, \A x \in Inner : node'[x].vals = node[x].vals
  PROVE  ChildrenApart'
<1> SUFFICES ASSUME NEW p \in Inner, NEW q \in Inner,
                    NEW i \in 1..Len(node'[p].vals), NEW j \in 1..Len(node'[q].vals),
                    node'[p].vals[i] = node'[q].vals[j]
             PROVE  p = q /\ i = j
  BY Zenon DEF ChildrenApart
<1>1. /\ i \in 1..Len(node[p].vals) /\ j \in 1..Len(node[q].vals)
      /\ node[p].vals[i] = node[q].vals[j]
  BY Zenon
<1> QED BY <1>1 DEF ChildrenApart

(* The entries after a step that moves no child. *)
LEMMA EntriesNow ==
  ASSUME Inner' = Inner,
         \A p \in Inner : /\ node'[p].vals = node[p].vals
                          /\ Len(node'[p].keys) = Len(node[p].vals) /\ Len(node[p].vals) >= 1,
         \A p \in Inner : \A i \in 1..Len(node[p].vals) :
           /\ node[p].vals[i] # p /\ node'[node[p].vals[i]].parent = p
           /\ \/ op' = MaintainParentOf(node[p].vals[i])
              \/ node'[p].keys[i] = node'[node[p].vals[i]].keys[1]
  PROVE  EntriesInv'
<1> SUFFICES ASSUME NEW p \in Inner
             PROVE  /\ Len(node'[p].keys) = Len(node'[p].vals) /\ Len(node'[p].vals) >= 1
                    /\ \A i \in 1..Len(node'[p].vals) :
                         /\ node'[p].vals[i] # p
                         /\ node'[node'[p].vals[i]].parent = p
                         /\ \/ op' = MaintainParentOf(node'[p].vals[i])
                            \/ node'[p].keys[i] = node'[node'[p].vals[i]].keys[1]
  BY DEF EntriesInv, Climbing
<1>1. node'[p].vals = node[p].vals
  OBVIOUS
<1> QED BY <1>1

(* ... and after a child was moved. *)
LEMMA EntriesMoved ==
  ASSUME Inner' = Inner,
         \A x \in Inner : Len(node'[x].keys) = Len(node'[x].vals) /\ Len(node'[x].vals) >= 1,
         \A x \in Inner : \A i \in 1..Len(node'[x].vals) :
           /\ node'[x].vals[i] # x
           /\ (op' = MaintainChildOf(x, 1) /\ i = 1) \/ node'[node'[x].vals[i]].parent = x
           /\ \/ op' = MaintainChildOf(node'[x].vals[i], 1)
              \/ node'[x].keys[i] = node'[node'[x].vals[i]].keys[1]
  PROVE  EntriesInv'
<1> SUFFICES ASSUME NEW x \in Inner
             PROVE  /\ Len(node'[x].keys) = Len(node'[x].vals) /\ Len(node'[x].vals) >= 1
                    /\ \A i \in 1..Len(node'[x].vals) :
                         /\ node'[x].vals[i] # x
                         /\ (Moved(x)' /\ i = 1) \/ node'[node'[x].vals[i]].parent = x
                         /\ \/ Moved(node[x].vals[i])'
                            \/ node'[x].keys[i] = node'[node'[x].vals[i]].keys[1]
  BY DEF EntriesInv
<1> QED BY DEF Moved

(* maintain_parent() (ix_index_handle.cpp:460-477) makes the entry of the  *)
(* node it has come to right, and leaves at most that of the parent.       *)
LEMMA MaintainParentKeepsTree == TreeInv /\ MaintainParent => TreeInv'
<1> SUFFICES ASSUME TreeInv, MaintainParent PROVE TreeInv'
  OBVIOUS
<1> USE DEF TreeInv
<1>1. PICK c \in Page : c = op.curr /\ c # IX_LEAF_HEADER_PAGE /\ Climbing(c)
  BY OpNames, Zenon DEF MaintainParent, Climbing
<1>2. PICK g \in Inner : g = node[c].parent /\ g \in Page
  <2>1. node[c].parent \in Inner
    BY <1>1, Zenon DEF MaintainParent, ParentsInv
  <2> QED BY <2>1, Zenon DEF Inner
<1>3. \A q : ~Moved(q)
  BY <1>1, OpFacts, Zenon DEF Climbing, Moved
<1>4. \A b : Climbing(b) => b = c
  BY <1>1, OpFacts, Zenon DEF Climbing
<1>5. IsChild(g, c)
  BY <1>1, <1>2, <1>3, Zenon DEF ParentsInv, MaintainParent
<1>6. PICK r \in 1..Len(node[g].vals) : r = FindChild(g, c) /\ node[g].vals[r] = c
  BY <1>5, Zenon DEF IsChild, FindChild
<1>7. \A p \in Inner : \A i \in 1..Len(node[p].vals) :
        node[p].vals[i] = c => p = g /\ i = r
  BY <1>2, <1>6 DEF ChildrenApart
<1>8. /\ Len(node[g].keys) = Len(node[g].vals) /\ g # c
  BY <1>2, <1>6 DEF EntriesInv
<1>9. PICK first \in Int : first = node[c].keys[1]
  <2>1. node[c].keys \in Seq(Int) /\ Len(node[c].keys) >= 1
    BY <1>1, NodeFacts DEF TreeTypes
  <2> QED BY <2>1
<1>10. CASE node[g].keys[r] = first /\ op' = Idle /\ UNCHANGED <<node, erased>>
  <2>1. \A x : ~Climbing(x)' /\ ~Moved(x)'
    BY <1>10, OpFacts, Zenon DEF Climbing, Moved
  <2>2. Inner' = Inner /\ InList' = InList
    BY <1>10, Zenon DEF Inner, Leaf, InList
  <2>3. TreeTypes'
    BY <1>10, Zenon DEF TreeTypes, Leaf
  <2>4. EntriesInv'
    <3>1. ASSUME NEW p \in Inner, NEW i \in 1..Len(node[p].vals)
          PROVE  /\ node[p].vals[i] # p /\ node'[node[p].vals[i]].parent = p
                 /\ node'[p].keys[i] = node'[node[p].vals[i]].keys[1]
      <4>1. node[p].vals[i] # p /\ node[node[p].vals[i]].parent = p
        BY <1>3 DEF EntriesInv
      <4>2. ASSUME node[p].vals[i] # c
            PROVE  node[p].keys[i] = node[node[p].vals[i]].keys[1]
        <5>1. ~Climbing(node[p].vals[i]) /\ ~Moved(node[p].vals[i])
          BY <1>3, <1>4, <4>2, Zenon
        <5> QED BY <5>1 DEF EntriesInv
      <4>3. node[p].vals[i] = c => node[p].keys[i] = node[c].keys[1]
        BY <1>7, <1>9, <1>10, Zenon
      <4> QED BY <1>10, <4>1, <4>2, <4>3, Zenon
    <3>2. \A p \in Inner : /\ node'[p].vals = node[p].vals
                           /\ Len(node'[p].keys) = Len(node[p].vals) /\ Len(node[p].vals) >= 1
      BY <1>10 DEF EntriesInv
    <3> QED BY <2>2, <3>1, <3>2, EntriesNow
  <2>5. ParentsInv'
    BY <1>3, <1>10, <2>2, Zenon DEF ParentsInv, IsChild
  <2>6. ChildrenApart' /\ RingInv'
    BY <1>10, <2>2 DEF ChildrenApart, RingInv, Ring, Rising
  <2> QED BY <2>3, <2>4, <2>5, <2>6
<1>11. CASE /\ node' = [node EXCEPT ![g].keys[r] = first]
            /\ op' = MaintainParentOf(g) /\ erased' = erased
  <2> DEFINE ks == [node[g].keys EXCEPT ![r] = first]
  <2>1. node[g].keys \in Seq(Int) /\ node[g] \in NodeSet
    BY <1>2, NodeFacts
  <2>2. /\ ks \in Seq(Int) /\ Len(ks) = Len(node[g].keys) /\ ks[r] = first
        /\ \A i \in 1..Len(node[g].keys) : i # r => ks[i] = node[g].keys[i]
    BY <1>6, <1>8, <2>1
  <2>3. node' = [node EXCEPT ![g].keys = ks]
    BY <1>11, <2>1, Zenon
  <2> HIDE DEF ks
  <2>4. /\ node' \in [Page -> NodeSet]
        /\ \A x \in Page : x # g => node'[x] = node[x]
        /\ node'[g].keys = ks /\ node'[g].vals = node[g].vals
        /\ node'[g].is_leaf = node[g].is_leaf /\ node'[g].parent = node[g].parent
        /\ node'[g].prev = node[g].prev /\ node'[g].next = node[g].next
    BY <1>2, <2>2, <2>3, KeysReplaced, Zenon
  <2>5. \A x \in Page : /\ node'[x].vals = node[x].vals /\ node'[x].parent = node[x].parent
                        /\ Len(node'[x].keys) = Len(node[x].keys)
    BY <2>2, <2>4, Zenon
  <2>6. LinksKept
    BY <2>4, Zenon DEF LinksKept
  <2>7. Inner' = Inner
    BY <2>6, SameInner, Zenon
  <2>8. Climbing(g)' /\ (\A x : Climbing(x)' => x = g) /\ (\A x : ~Moved(x)')
    BY <1>11, OpFacts, Zenon DEF Climbing, Moved
  <2>9. TreeTypes'
    <3>1. g # IX_LEAF_HEADER_PAGE
      BY <1>2 DEF TreeTypes, Inner
    <3>2. IX_LEAF_HEADER_PAGE \in Page /\ Leaf(IX_LEAF_HEADER_PAGE)'
      BY <2>6, SameInner, Zenon DEF TreeTypes
    <3>3. \A p \in Page : p # IX_LEAF_HEADER_PAGE => Len(node'[p].keys) >= 1
      BY <2>5, Zenon DEF TreeTypes
    <3> QED BY <1>2, <2>4, <2>8, <3>1, <3>2, <3>3, Zenon DEF TreeTypes
  <2>10. EntriesInv'
    <3> SUFFICES ASSUME NEW p \in Inner, NEW i \in 1..Len(node[p].vals)
                 PROVE  /\ Len(node'[p].keys) = Len(node[p].vals) /\ Len(node[p].vals) >= 1
                        /\ node[p].vals[i] # p /\ node'[node[p].vals[i]].parent = p
                        /\ \/ node[p].vals[i] = g
                           \/ node'[p].keys[i] = node'[node[p].vals[i]].keys[1]
      <4>1. \A p \in Inner : p \in Page /\ node'[p].vals = node[p].vals
        BY <2>5, Zenon DEF Inner
      <4>2. \A p \in Inner : /\ Len(node'[p].keys) = Len(node[p].vals)
                             /\ Len(node[p].vals) >= 1
        BY <2>5, <4>1, Zenon DEF EntriesInv
      <4> QED BY <1>11, <2>7, <4>1, <4>2, EntriesNow
    <3> DEFINE y == node[p].vals[i]
    <3>1. p \in Page /\ y \in Page
      BY NodeFacts DEF Inner
    <3>2. /\ Len(node'[p].keys) = Len(node[p].vals) /\ Len(node[p].vals) >= 1
          /\ y # p /\ node'[y].parent = p
      BY <1>3, <2>5, <3>1, Zenon DEF EntriesInv
    <3>3. ASSUME y # g, y # c PROVE node'[p].keys[i] = node'[y].keys[1]
      <4>1. node[p].keys[i] = node[y].keys[1]
        <5>1. ~Climbing(y) /\ ~Moved(y)
          BY <1>3, <1>4, <3>3, Zenon
        <5> QED BY <5>1 DEF EntriesInv
      <4>2. node'[y] = node[y]
        BY <2>4, <3>1, <3>3, Zenon
      <4>3. CASE p = g
        <5>1. i # r /\ i \in 1..Len(node[g].keys)
          BY <1>6, <1>8, <3>3, <4>3, Zenon
        <5> QED BY <2>2, <2>4, <4>1, <4>2, <4>3, <5>1, Zenon
      <4>4. CASE p # g
        BY <2>4, <3>1, <4>1, <4>2, <4>4, Zenon
      <4> QED BY <4>3, <4>4
    <3>4. ASSUME y = c PROVE node'[p].keys[i] = node'[y].keys[1]
      BY <1>7, <1>8, <1>9, <2>2, <2>4, <3>4, Zenon
    <3> QED BY <3>2, <3>3, <3>4
  <2>11. ChildrenApart'
    <3>1. \A p \in Inner : node'[p].vals = node[p].vals
      BY <2>5, Zenon DEF Inner
    <3> QED BY <2>7, <3>1, ChildrenKept, Zenon
  <2>12. ParentsInv'
    <3>1. \A p \in Inner : node'[p].vals = node[p].vals
      BY <2>5, Zenon DEF Inner
    <3>2. \A x \in Page : node[x].parent # IX_NO_PAGE =>
            node[x].parent \in Inner /\ IsChild(node[x].parent, x)
      BY <1>3, Zenon DEF ParentsInv
    <3> QED BY <2>5, <2>7, <3>1, <3>2 DEF ParentsInv, IsChild
  <2>13. RingInv'
    <3>1. ~node[g].is_leaf
      BY <1>2 DEF Inner, Leaf
    <3> QED BY <1>11, <2>4, <2>6, <3>1, RingKept, Zenon
  <2> QED BY <2>9, <2>10, <2>11, <2>12, <2>13
<1> QED BY <1>1, <1>2, <1>6, <1>9, <1>10, <1>11, Zenon DEF MaintainParent

(* At the root it stops: no entry is that of a node without a parent. *)
LEMMA MaintainParentEndKeepsTree == TreeInv /\ MaintainParentEnd => TreeInv'
<1> SUFFICES ASSUME TreeInv, MaintainParentEnd PROVE TreeInv'
  OBVIOUS
<1> USE DEF TreeInv
<1>1. PICK c \in Page : c = op.curr /\ Climbing(c) /\ node[c].parent = IX_NO_PAGE
  BY OpNames, Zenon DEF MaintainParentEnd, Climbing
<1>2. op' = Idle /\ UNCHANGED <<node, erased>>
  BY DEF MaintainParentEnd
<1>3. (\A q : ~Moved(q)) /\ (\A b : Climbing(b) => b = c)
  BY <1>1, OpFacts, Zenon DEF Climbing, Moved
<1>4. \A x : ~Climbing(x)' /\ ~Moved(x)'
  BY <1>2, OpFacts, Zenon DEF Climbing, Moved
<1>5. Inner' = Inner /\ InList' = InList
  BY <1>2, Zenon DEF Inner, Leaf, InList
<1>6. TreeTypes'
  BY <1>2, Zenon DEF TreeTypes, Leaf
<1>7. \A p \in Inner : p # IX_NO_PAGE
  BY TreeAssumption DEF Inner, IX_NO_PAGE
<1>8. EntriesInv'
  <2>1. ASSUME NEW p \in Inner, NEW i \in 1..Len(node[p].vals)
        PROVE  /\ node[p].vals[i] # p /\ node'[node[p].vals[i]].parent = p
               /\ node'[p].keys[i] = node'[node[p].vals[i]].keys[1]
    <3>1. node[p].vals[i] # p /\ node[node[p].vals[i]].parent = p
      BY <1>3 DEF EntriesInv
    <3>2. node[p].vals[i] # c
      BY <1>1, <1>7, <3>1, Zenon
    <3>3. node[p].keys[i] = node[node[p].vals[i]].keys[1]
      BY <1>3, <3>2 DEF EntriesInv
    <3> QED BY <1>2, <3>1, <3>3, Zenon
  <2>2. \A p \in Inner : /\ node'[p].vals = node[p].vals
                         /\ Len(node'[p].keys) = Len(node[p].vals) /\ Len(node[p].vals) >= 1
    BY <1>2 DEF EntriesInv
  <2> QED BY <1>5, <2>1, <2>2, EntriesNow
<1>9. ParentsInv'
  BY <1>2, <1>3, <1>5, Zenon DEF ParentsInv, IsChild
<1>10. ChildrenApart' /\ RingInv'
  BY <1>2, <1>5 DEF ChildrenApart, RingInv, Ring, Rising
<1> QED BY <1>6, <1>8, <1>9, <1>10

(* maintain_child() (ix_index_handle.cpp:508-516) rights the one parent    *)
(* the move left wrong.                                                    *)
LEMMA MaintainChildKeepsTree == TreeInv /\ MaintainChild => TreeInv'
<1> SUFFICES ASSUME TreeInv, MaintainChild PROVE TreeInv'
  OBVIOUS
<1> USE DEF TreeInv
<1>1. PICK q \in Inner : q = op.node /\ Moved(q) /\ op.child_idx = 1 /\ q \in Page
  <2>1. op.node \in Inner /\ Moved(op.node) /\ op.child_idx = 1
    BY OpNames, Zenon DEF MaintainChild, Moved
  <2> QED BY <2>1, Zenon DEF Inner
<1>2. (\A b : ~Climbing(b)) /\ (\A x : Moved(x) => x = q)
  <2>1. \A b : ~Climbing(b)
    BY <1>1, OpFacts, Zenon DEF Climbing, Moved
  <2>2. \A x : Moved(x) => x = q
    <3> SUFFICES ASSUME NEW x, Moved(x) PROVE x = q
      OBVIOUS
    <3>1. MaintainChildOf(x, 1) = MaintainChildOf(q, 1)
      BY <1>1, Zenon DEF Moved
    <3> QED BY <3>1, OpFacts, Zenon
  <2> QED BY <2>1, <2>2
<1>3. /\ node[q].vals \in Seq(Page) /\ Len(node[q].vals) >= 1
  BY <1>1, NodeFacts DEF EntriesInv
<1>4. PICK c \in Page : c = node[q].vals[1]
  BY <1>3
<1>5. op' = MaintainParentOf(q) /\ node' = [node EXCEPT ![c].parent = q] /\ erased' = erased
  BY <1>1, <1>4 DEF MaintainChild, Inner
<1>6. /\ node' \in [Page -> NodeSet]
      /\ \A x \in Page : x # c => node'[x] = node[x]
      /\ node'[c].parent = q
      /\ node'[c].keys = node[c].keys /\ node'[c].vals = node[c].vals
      /\ node'[c].is_leaf = node[c].is_leaf
      /\ node'[c].prev = node[c].prev /\ node'[c].next = node[c].next
  <2>1. node \in [Page -> NodeSet] /\ node[c] \in NodeSet
    BY DEF TreeTypes
  <2>2. [node[c] EXCEPT !.parent = q] \in NodeSet
    BY <1>1, <2>1 DEF NodeSet
  <2>3. node' = [node EXCEPT ![c] = [node[c] EXCEPT !.parent = q]]
    BY <1>5, <2>1
  <2> QED BY <2>1, <2>2, <2>3 DEF NodeSet
<1>7. \A x \in Page : node'[x].keys = node[x].keys /\ node'[x].vals = node[x].vals
  BY <1>6, Zenon
<1>8. LinksKept
  BY <1>6, Zenon DEF LinksKept
<1>9. Inner' = Inner
  BY <1>8, SameInner, Zenon
<1>10. Climbing(q)' /\ (\A x : Climbing(x)' => x = q) /\ (\A x : ~Moved(x)')
  BY <1>5, OpFacts, Zenon DEF Climbing, Moved
<1>11. TreeTypes'
  <2>1. q # IX_LEAF_HEADER_PAGE
    BY <1>1 DEF TreeTypes, Inner
  <2>2. IX_LEAF_HEADER_PAGE \in Page /\ Leaf(IX_LEAF_HEADER_PAGE)'
    BY <1>8, SameInner, Zenon DEF TreeTypes
  <2>3. \A p \in Page : p # IX_LEAF_HEADER_PAGE => Len(node'[p].keys) >= 1
    BY <1>7, Zenon DEF TreeTypes
  <2> QED BY <1>1, <1>6, <1>10, <2>1, <2>2, <2>3, Zenon DEF TreeTypes
<1>12. EntriesInv'
  <2>1. ASSUME NEW p \in Inner, NEW i \in 1..Len(node[p].vals)
        PROVE  /\ node[p].vals[i] # p /\ node'[node[p].vals[i]].parent = p
               /\ \/ node[p].vals[i] = q
                  \/ node[p].keys[i] = node'[node[p].vals[i]].keys[1]
    <3> DEFINE y == node[p].vals[i]
    <3>1. p \in Page /\ y \in Page
      BY NodeFacts DEF Inner
    <3>2. y # p /\ (y = q \/ node[p].keys[i] = node[y].keys[1])
      BY <1>2 DEF EntriesInv
    <3>3. ASSUME p = q, i = 1 PROVE node'[y].parent = p
      BY <1>4, <1>6, <3>3
    <3>4. ASSUME ~(p = q /\ i = 1) PROVE node'[y].parent = p
      <4>1. node[y].parent = p
        BY <1>2, <3>4 DEF EntriesInv
      <4>2. y # c
        BY <1>1, <1>3, <1>4, <3>4 DEF ChildrenApart
      <4> QED BY <1>6, <3>1, <3>2, <4>1, <4>2, Zenon
    <3>5. node'[y].parent = p
      BY <3>3, <3>4, Zenon
    <3> QED BY <1>7, <3>1, <3>2, <3>5, Zenon
  <2>2. \A p \in Inner : /\ node'[p].vals = node[p].vals /\ node'[p].keys = node[p].keys
                         /\ Len(node[p].keys) = Len(node[p].vals) /\ Len(node[p].vals) >= 1
    BY <1>7, Zenon DEF Inner, EntriesInv
  <2>3. ASSUME NEW x \in Inner, NEW i \in 1..Len(node[x].vals)
        PROVE  /\ node[x].vals[i] # x /\ node'[node[x].vals[i]].parent = x
               /\ \/ op' = MaintainParentOf(node[x].vals[i])
                  \/ node'[x].keys[i] = node'[node[x].vals[i]].keys[1]
    BY <1>5, <2>1, <2>2
  <2>4. \A x \in Inner : /\ node'[x].vals = node[x].vals
                         /\ Len(node'[x].keys) = Len(node[x].vals) /\ Len(node[x].vals) >= 1
    BY <2>2, Zenon
  <2> QED BY <1>9, <2>3, <2>4, EntriesNow
<1>13. ChildrenApart'
  <2>1. \A p \in Inner : node'[p].vals = node[p].vals
    BY <1>7, Zenon DEF Inner
  <2> QED BY <1>9, <2>1, ChildrenKept, Zenon
<1>14. ParentsInv'
  <2>1. ASSUME NEW x \in Page, node'[x].parent # IX_NO_PAGE
        PROVE  node'[x].parent \in Inner /\ IsChild(node'[x].parent, x)
    <3>1. CASE x = c
      <4>1. node'[x].parent = q /\ 1 \in 1..Len(node[q].vals) /\ node[q].vals[1] = x
        <5>1. 1 \in 1..Len(node[q].vals)
          <6>1. Len(node[q].vals) \in Nat
            BY <1>3
          <6> QED BY <1>3, <6>1
        <5> QED BY <1>4, <1>6, <3>1, <5>1, Zenon
      <4>2. IsChild(q, x)
        BY <4>1, Zenon DEF IsChild
      <4> QED BY <4>1, <4>2, Zenon
    <3>2. CASE x # c
      BY <1>2, <1>4, <1>6, <2>1, <3>2, Zenon DEF ParentsInv
    <3> QED BY <3>1, <3>2
  <2>2. \A p \in Inner : node'[p].vals = node[p].vals
    BY <1>7, Zenon DEF Inner
  <2> QED BY <1>9, <2>1, <2>2, Zenon DEF ParentsInv, IsChild
<1>15. RingInv'
  BY <1>5, <1>7, <1>8, RingKept, Zenon
<1> QED BY <1>11, <1>12, <1>13, <1>14, <1>15

(* The caller changes the first key of a leaf. *)
LEMMA ChangeFirstKeyKeepsTree ==
  ASSUME TreeInv, NEW p \in Page, NEW k \in Keys, ChangeFirstKey(p, k)
  PROVE  TreeInv'
<1> USE DEF TreeInv
<1> DEFINE ks == [node[p].keys EXCEPT ![1] = k]
<1>1. /\ op = Idle /\ p \in InList /\ k \in Int
      /\ node' = [node EXCEPT ![p].keys[1] = k]
      /\ op' = MaintainParentOf(p) /\ erased' = erased
  BY TreeAssumption DEF ChangeFirstKey
<1>2. /\ p # IX_LEAF_HEADER_PAGE /\ Leaf(p) /\ p \notin Inner
      /\ node[p].keys \in Seq(Int) /\ Len(node[p].keys) >= 1
  BY <1>1, NodeFacts DEF InList, TreeTypes, Inner
<1>3. ks \in Seq(Int) /\ Len(ks) = Len(node[p].keys) /\ ks[1] = k
  BY <1>1, <1>2
<1>4. node' = [node EXCEPT ![p].keys = ks]
  BY <1>1, Zenon DEF TreeTypes
<1> HIDE DEF ks
<1>5. /\ node' \in [Page -> NodeSet]
      /\ \A x \in Page : x # p => node'[x] = node[x]
      /\ node'[p].keys = ks /\ node'[p].vals = node[p].vals
      /\ node'[p].is_leaf = node[p].is_leaf /\ node'[p].parent = node[p].parent
      /\ node'[p].prev = node[p].prev /\ node'[p].next = node[p].next
  BY <1>3, <1>4, KeysReplaced, Zenon
<1>6. \A x \in Page : /\ node'[x].vals = node[x].vals /\ node'[x].parent = node[x].parent
                      /\ Len(node'[x].keys) = Len(node[x].keys)
  BY <1>3, <1>5, Zenon
<1>7. LinksKept
  BY <1>5, Zenon DEF LinksKept
<1>8. Inner' = Inner /\ InList' = InList
  BY <1>1, <1>7, SameInner DEF InList, LinksKept, Leaf
<1>9. Climbing(p)' /\ (\A x : Climbing(x)' => x = p) /\ (\A x : ~Moved(x)')
  BY <1>1, OpFacts, Zenon DEF Climbing, Moved
<1>10. \A x : ~Climbing(x) /\ ~Moved(x)
  BY <1>1, OpFacts, Zenon DEF Climbing, Moved
<1>11. TreeTypes'
  <2>1. IX_LEAF_HEADER_PAGE \in Page /\ Leaf(IX_LEAF_HEADER_PAGE)'
    BY <1>7, SameInner, Zenon DEF TreeTypes
  <2>2. \A x \in Page : x # IX_LEAF_HEADER_PAGE => Len(node'[x].keys) >= 1
    BY <1>6, Zenon DEF TreeTypes
  <2> QED BY <1>2, <1>5, <1>9, <2>1, <2>2, Zenon DEF TreeTypes
<1>12. EntriesInv'
  <2>1. ASSUME NEW x \in Inner, NEW i \in 1..Len(node[x].vals)
        PROVE  /\ node[x].vals[i] # x /\ node'[node[x].vals[i]].parent = x
               /\ \/ node[x].vals[i] = p
                  \/ node[x].keys[i] = node'[node[x].vals[i]].keys[1]
    <3> DEFINE y == node[x].vals[i]
    <3>1. y \in Page
      BY NodeFacts DEF Inner
    <3>2. y # x /\ node[y].parent = x /\ node[x].keys[i] = node[y].keys[1]
      BY <1>10 DEF EntriesInv
    <3> QED BY <1>5, <1>6, <3>1, <3>2, Zenon
  <2>2. \A x \in Inner : /\ node'[x].vals = node[x].vals /\ node'[x].keys = node[x].keys
                         /\ Len(node[x].keys) = Len(node[x].vals) /\ Len(node[x].vals) >= 1
    <3>1. \A x \in Inner : x \in Page /\ x # p
      BY <1>2, Zenon DEF Inner
    <3> QED BY <1>5, <3>1, Zenon DEF EntriesInv
  <2>3. ASSUME NEW x \in Inner, NEW i \in 1..Len(node[x].vals)
        PROVE  /\ node[x].vals[i] # x /\ node'[node[x].vals[i]].parent = x
               /\ \/ op' = MaintainParentOf(node[x].vals[i])
                  \/ node'[x].keys[i] = node'[node[x].vals[i]].keys[1]
    BY <1>1, <2>1, <2>2
  <2>4. \A x \in Inner : /\ node'[x].vals = node[x].vals
                         /\ Len(node'[x].keys) = Len(node[x].vals) /\ Len(node[x].vals) >= 1
    BY <2>2, Zenon
  <2> QED BY <1>8, <2>3, <2>4, EntriesNow
<1>13. ChildrenApart'
  <2>1. \A x \in Inner : node'[x].vals = node[x].vals
    BY <1>6, Zenon DEF Inner
  <2> QED BY <1>8, <2>1, ChildrenKept, Zenon
<1>14. ParentsInv'
  <2>1. \A x \in Inner : node'[x].vals = node[x].vals
    BY <1>6, Zenon DEF Inner
  <2>2. \A x \in Page : node[x].parent # IX_NO_PAGE =>
          node[x].parent \in Inner /\ IsChild(node[x].parent, x)
    BY <1>10, Zenon DEF ParentsInv
  <2> QED BY <1>6, <1>8, <2>1, <2>2 DEF ParentsInv, IsChild
<1>15. RingInv'
  <2>1. Ring' = Ring /\ Ring \subseteq Page
    BY <1>8 DEF Ring, InList, TreeTypes
  <2>2. ASSUME NEW x \in Ring
        PROVE  /\ node'[x].next \in Ring /\ node'[node'[x].next].prev = x
               /\ node'[x].prev \in Ring /\ node'[node'[x].prev].next = x
    <3>1. /\ node[x].next \in Ring /\ node[node[x].next].prev = x
          /\ node[x].prev \in Ring /\ node[node[x].prev].next = x
      BY DEF RingInv
    <3> QED BY <1>7, <2>1, <3>1 DEF LinksKept
  <2>3. ASSUME NEW x \in Ring, x # IX_LEAF_HEADER_PAGE,
               node[x].next # IX_LEAF_HEADER_PAGE
        PROVE  node'[x].keys[1] < node'[node[x].next].keys[1]
    <3>1. PICK y \in Page : y = node[x].next
      BY <2>1 DEF RingInv
    <3>2. x \in InList /\ y \in InList /\ x \in Page
      BY <2>1, <2>3, <3>1 DEF RingInv, Ring
    <3>3. node[x].keys[1] < node[y].keys[1]
      BY <2>3, <3>1 DEF RingInv, Rising
    <3>4. node[x].keys[1] \in Int /\ node[y].keys[1] \in Int
      BY <2>3, <3>1, <3>2, NodeFacts DEF TreeTypes
    <3>5. \A z \in InList : z # p =>
            ((node[z].keys[1] < node[p].keys[1]) <=> (node[z].keys[1] < k)) /\ node[z].keys[1] # k
      BY DEF ChangeFirstKey
    <3>6. ASSUME x = p PROVE node'[x].keys[1] < node'[y].keys[1]
      <4>1. y # p
        BY <3>3, <3>4, <3>6
      <4>2. node'[y] = node[y] /\ node'[x].keys[1] = k
        BY <1>3, <1>5, <3>6, <4>1, Zenon
      <4>3. ~(node[y].keys[1] < k) /\ node[y].keys[1] # k
        BY <3>2, <3>3, <3>4, <3>5, <3>6, <4>1
      <4>4. \A a, b \in Int : ~(a < b) /\ a # b => b < a
        OBVIOUS
      <4>5. k < node[y].keys[1]
        BY <1>1, <3>4, <4>3, <4>4, Zenon
      <4> QED BY <4>2, <4>5
    <3>7. ASSUME y = p, x # p PROVE node'[x].keys[1] < node'[y].keys[1]
      <4>1. node'[x] = node[x] /\ node'[y].keys[1] = k
        BY <1>3, <1>5, <3>2, <3>7, Zenon
      <4>2. node[x].keys[1] < k
        BY <3>2, <3>3, <3>5, <3>7
      <4> QED BY <4>1, <4>2
    <3>8. ASSUME x # p, y # p PROVE node'[x].keys[1] < node'[y].keys[1]
      <4>1. node'[x] = node[x] /\ node'[y] = node[y]
        BY <1>5, <3>2, <3>8, Zenon
      <4> QED BY <3>3, <4>1
    <3> QED BY <3>1, <3>6, <3>7, <3>8
  <2>4. \A x \in Ring : node'[x].next = node[x].next
    BY <1>7, <2>1 DEF LinksKept
  <2> QED BY <2>1, <2>2, <2>3, <2>4 DEF RingInv, Rising
<1> QED BY <1>11, <1>12, <1>13, <1>14, <1>15

(* erase_leaf() (ix_index_handle.cpp:484-494) links the neighbours of the  *)
(* leaf to each other; neither of them is the leaf itself.                 *)
LEMMA EraseLeafKeepsTree ==
  ASSUME TreeInv, NEW p \in Page, EraseLeaf(p)
  PROVE  TreeInv'
<1> USE DEF TreeInv
<1>1. op = Idle /\ op' = op /\ p \in InList /\ p \in Ring /\ erased' = erased \union {p}
  BY DEF EraseLeaf, Ring
<1>2. Ring \subseteq Page
  BY DEF Ring, InList, TreeTypes
<1>3. PICK a \in Ring, b \in Ring : a = node[p].prev /\ b = node[p].next
  BY <1>1 DEF RingInv
<1>4. node[a].next = p /\ node[b].prev = p /\ a \in Page /\ b \in Page
  BY <1>1, <1>2, <1>3 DEF RingInv
<1>5. p # IX_LEAF_HEADER_PAGE /\ node[p].keys[1] \in Int
  BY <1>1, NodeFacts DEF TreeTypes, InList
<1>6. a # p /\ b # p
  <2>1. node[p].next # p
    BY <1>1, <1>5 DEF RingInv, Rising
  <2> QED BY <1>3, <1>4, <2>1
<1>7. /\ node' \in [Page -> NodeSet]
      /\ \A x \in Page :
           /\ node'[x].is_leaf = node[x].is_leaf /\ node'[x].parent = node[x].parent
           /\ node'[x].keys = node[x].keys /\ node'[x].vals = node[x].vals
           /\ node'[x].next = IF x = a THEN b ELSE node[x].next
           /\ node'[x].prev = IF x = b THEN a ELSE node[x].prev
  <2> DEFINE forward == [node EXCEPT ![a].next = b]
  <2>1. node' = [forward EXCEPT ![forward[p].next].prev = forward[p].prev]
    BY <1>3, Zenon DEF EraseLeaf
  <2>2. node \in [Page -> NodeSet] /\ node[a] \in NodeSet /\ a \in Int /\ b \in Int
    BY <1>3, <1>4, NodeFacts DEF TreeTypes
  <2>3. forward = [node EXCEPT ![a] = [node[a] EXCEPT !.next = b]]
    BY <2>2
  <2>4. [node[a] EXCEPT !.next = b] \in NodeSet
    BY <2>2, Zenon DEF NodeSet
  <2>5. /\ forward \in [Page -> NodeSet]
        /\ \A x \in Page : /\ x # a => forward[x] = node[x]
                           /\ forward[a] = [node[a] EXCEPT !.next = b]
    BY <1>4, <2>2, <2>3, <2>4, Zenon
  <2>6. \A x \in Page :
           /\ forward[x].is_leaf = node[x].is_leaf /\ forward[x].parent = node[x].parent
           /\ forward[x].keys = node[x].keys /\ forward[x].vals = node[x].vals
           /\ forward[x].next = IF x = a THEN b ELSE node[x].next
           /\ forward[x].prev = node[x].prev
    BY <1>4, <2>2, <2>5, Zenon DEF NodeSet
  <2> HIDE DEF forward
  <2>7. node' = [forward EXCEPT ![b].prev = a]
    BY <1>3, <1>6, <2>1, <2>5, Zenon
  <2>8. node' = [forward EXCEPT ![b] = [forward[b] EXCEPT !.prev = a]]
    BY <1>4, <2>5, <2>7
  <2>9. forward[b] \in NodeSet /\ [forward[b] EXCEPT !.prev = a] \in NodeSet
    BY <1>4, <2>2, <2>5, Zenon DEF NodeSet
  <2>10. /\ node' \in [Page -> NodeSet]
         /\ \A x \in Page : x # b => node'[x] = forward[x]
         /\ node'[b] = [forward[b] EXCEPT !.prev = a]
    BY <1>4, <2>5, <2>8, <2>9, Zenon
  <2>11. \A x \in Page :
           /\ node'[x].is_leaf = forward[x].is_leaf /\ node'[x].parent = forward[x].parent
           /\ node'[x].keys = forward[x].keys /\ node'[x].vals = forward[x].vals
           /\ node'[x].next = forward[x].next
           /\ node'[x].prev = IF x = b THEN a ELSE forward[x].prev
    BY <1>4, <2>9, <2>10, Zenon DEF NodeSet
  <2> QED BY <2>6, <2>10, <2>11
<1>8. Inner' = Inner /\ (\A x \in Page : Leaf(x)' <=> Leaf(x))
  BY <1>7, Zenon DEF Inner, Leaf
<1>9. \A x : (Climbing(x)' <=> Climbing(x)) /\ (Moved(x)' <=> Moved(x))
  BY <1>1, Zenon DEF Climbing, Moved
<1>10. TreeTypes'
  BY <1>1, <1>7, <1>8, Zenon DEF TreeTypes
<1>11. Inner \subseteq Page
  BY DEF Inner
<1>12. EntriesInv'
  <2>1. \A x \in Inner : \A i \in 1..Len(node[x].vals) : node[x].vals[i] \in Page
    BY <1>11, NodeFacts
  <2>2. ASSUME NEW x \in Inner, NEW i \in 1..Len(node[x].vals)
        PROVE  /\ node'[node[x].vals[i]].parent = node[node[x].vals[i]].parent
               /\ node'[node[x].vals[i]].keys = node[node[x].vals[i]].keys
    BY <1>7, <2>1, Zenon
  <2>3. \A x \in Inner : node'[x].vals = node[x].vals /\ node'[x].keys = node[x].keys
    BY <1>7, <1>11, Zenon
  <2>4. \A x : ~Climbing(x) /\ ~Moved(x)
    BY <1>1, OpFacts, Zenon DEF Climbing, Moved
  <2>5. ASSUME NEW x \in Inner, NEW i \in 1..Len(node[x].vals)
        PROVE  /\ node[x].vals[i] # x /\ node'[node[x].vals[i]].parent = x
               /\ node'[x].keys[i] = node'[node[x].vals[i]].keys[1]
    <3>1. /\ node[x].vals[i] # x /\ node[node[x].vals[i]].parent = x
          /\ node[x].keys[i] = node[node[x].vals[i]].keys[1]
      BY <2>4 DEF EntriesInv
    <3> QED BY <2>2, <2>3, <3>1, Zenon
  <2>6. \A x \in Inner : /\ node'[x].vals = node[x].vals
                         /\ Len(node'[x].keys) = Len(node[x].vals) /\ Len(node[x].vals) >= 1
    BY <2>3 DEF EntriesInv
  <2> QED BY <1>8, <2>5, <2>6, EntriesNow
<1>13. ChildrenApart'
  <2>1. \A x \in Inner : node'[x].vals = node[x].vals
    BY <1>7, <1>11, Zenon
  <2> QED BY <1>8, <2>1, ChildrenKept, Zenon
<1>14. ParentsInv'
  <2>1. \A x \in Inner : node'[x].vals = node[x].vals
    BY <1>7, <1>11, Zenon
  <2>2. \A x \in Page : node'[x].parent = node[x].parent
    BY <1>7, Zenon
  <2> QED BY <1>8, <1>9, <2>1, <2>2 DEF ParentsInv, IsChild
<1>15. RingInv'
  <2>1. Ring' = Ring \ {p}
    BY <1>1, <1>5, <1>8, Zenon DEF Ring, InList
  <2>2. ASSUME NEW x \in Ring, x # p
        PROVE  /\ node'[x].next \in Ring /\ node'[x].next # p
               /\ node'[node'[x].next].prev = x
    <3>1. x \in Page /\ node[x].next \in Ring /\ node[node[x].next].prev = x
      BY <1>2 DEF RingInv
    <3>2. CASE x = a
      BY <1>3, <1>4, <1>6, <1>7, <3>1, <3>2, Zenon
    <3>3. CASE x # a
      BY <1>2, <1>3, <1>4, <1>6, <1>7, <2>2, <3>1, <3>3
    <3> QED BY <3>2, <3>3
  <2>3. ASSUME NEW x \in Ring, x # p
        PROVE  /\ node'[x].prev \in Ring /\ node'[x].prev # p
               /\ node'[node'[x].prev].next = x
    <3>1. x \in Page /\ node[x].prev \in Ring /\ node[node[x].prev].next = x
      BY <1>2 DEF RingInv
    <3>2. CASE x = b
      BY <1>3, <1>4, <1>6, <1>7, <3>1, <3>2, Zenon
    <3>3. CASE x # b
      BY <1>2, <1>3, <1>4, <1>6, <1>7, <2>3, <3>1, <3>3
    <3> QED BY <3>2, <3>3
  <2>4. ASSUME NEW x \in Ring, x # p, x # IX_LEAF_HEADER_PAGE,
               node'[x].next # IX_LEAF_HEADER_PAGE
        PROVE  node'[x].keys[1] < node'[node'[x].next].keys[1]
    <3>1. x \in Page /\ node[x].next \in Ring /\ node[x].next \in Page
      BY <1>2 DEF RingInv
    <3>2. node'[x].keys = node[x].keys /\ node'[node'[x].next].keys = node[node'[x].next].keys
      BY <1>2, <1>7, <2>2, <2>4
    <3>3. CASE x = a
      <4>1. node'[x].next = b /\ b # IX_LEAF_HEADER_PAGE
        BY <1>7, <2>4, <3>1, <3>3
      <4>2. node[a].keys[1] < node[p].keys[1] /\ node[p].keys[1] < node[b].keys[1]
        BY <1>1, <1>3, <1>4, <1>5, <2>4, <3>3, <4>1 DEF RingInv, Rising
      <4>3. node[a].keys[1] \in Int /\ node[b].keys[1] \in Int
        BY <1>4, <2>4, <3>3, <4>1, NodeFacts DEF TreeTypes
      <4>4. node[a].keys[1] < node[b].keys[1]
        BY <1>5, <4>2, <4>3
      <4> QED BY <3>2, <3>3, <4>1, <4>4
    <3>4. CASE x # a
      BY <1>7, <2>4, <3>1, <3>2, <3>4 DEF RingInv, Rising
    <3> QED BY <3>3, <3>4
  <2> QED BY <2>1, <2>2, <2>3, <2>4 DEF RingInv, Rising
<1> QED BY <1>10, <1>12, <1>13, <1>14, <1>15

(* An entry in front of a sequence. *)
LEMMA Prepended ==
  ASSUME NEW S, NEW s \in Seq(S), NEW e \in S
  PROVE  /\ <<e>> \o s \in Seq(S) /\ Len(<<e>> \o s) = Len(s) + 1 /\ (<<e>> \o s)[1] = e
         /\ \A i \in 1..Len(s) : (<<e>> \o s)[i + 1] = s[i]
<1>1. <<e>> \o s \in Seq(S) /\ Len(<<e>> \o s) = Len(s) + 1
  OBVIOUS
<1>2. (<<e>> \o s)[1] = e
  OBVIOUS
<1>3. ASSUME NEW i \in 1..Len(s) PROVE (<<e>> \o s)[i + 1] = s[i]
  OBVIOUS
<1> QED BY <1>1, <1>2, <1>3

(* What the move of the last child of p to the front of q changes. *)
LEMMA ChildMoves ==
  ASSUME TreeInv, NEW p \in Inner, NEW q \in Inner, MoveChild(p, q),
         NEW n \in Nat, n = Len(node[p].vals)
  PROVE  /\ node' \in [Page -> NodeSet]
         /\ \A x \in Page :
              /\ x # p /\ x # q => node'[x] = node[x]
              /\ node'[x].is_leaf = node[x].is_leaf /\ node'[x].parent = node[x].parent
              /\ node'[x].prev = node[x].prev /\ node'[x].next = node[x].next
         /\ Len(node'[p].keys) = n - 1 /\ Len(node'[p].vals) = n - 1
         /\ \A i \in 1..(n - 1) : /\ node'[p].keys[i] = node[p].keys[i]
                                  /\ node'[p].vals[i] = node[p].vals[i]
         /\ Len(node'[q].keys) = Len(node[q].keys) + 1
         /\ Len(node'[q].vals) = Len(node[q].vals) + 1
         /\ node'[q].keys[1] = node[p].keys[n] /\ node'[q].vals[1] = node[p].vals[n]
         /\ \A i \in 1..Len(node[q].vals) : /\ node'[q].keys[i + 1] = node[q].keys[i]
                                            /\ node'[q].vals[i + 1] = node[q].vals[i]
<1> USE DEF TreeInv
<1>1. p \in Page /\ q \in Page /\ p # q /\ n > 1 /\ Len(node[p].keys) = n
  BY Zenon DEF Inner, MoveChild, EntriesInv
<1>2. /\ node[p].keys \in Seq(Int) /\ node[p].vals \in Seq(Page)
      /\ node[q].keys \in Seq(Int) /\ node[q].vals \in Seq(Page)
      /\ Len(node[q].keys) = Len(node[q].vals)
  BY <1>1, NodeFacts DEF EntriesInv
<1> DEFINE kp == SubSeq(node[p].keys, 1, n - 1)
           vp == SubSeq(node[p].vals, 1, n - 1)
           kq == <<node[p].keys[n]>> \o node[q].keys
           vq == <<node[p].vals[n]>> \o node[q].vals
<1>3. /\ kp \in Seq(Int) /\ Len(kp) = n - 1 /\ \A i \in 1..(n - 1) : kp[i] = node[p].keys[i]
      /\ vp \in Seq(Page) /\ Len(vp) = n - 1 /\ \A i \in 1..(n - 1) : vp[i] = node[p].vals[i]
  <2>1. kp \in Seq(Int) /\ Len(kp) = n - 1 /\ \A i \in 1..(n - 1) : kp[i] = node[p].keys[i]
    BY <1>1, <1>2
  <2>2. vp \in Seq(Page) /\ Len(vp) = n - 1 /\ \A i \in 1..(n - 1) : vp[i] = node[p].vals[i]
    BY <1>1, <1>2
  <2> QED BY <2>1, <2>2
<1>4. /\ kq \in Seq(Int) /\ Len(kq) = Len(node[q].keys) + 1 /\ kq[1] = node[p].keys[n]
      /\ \A i \in 1..Len(node[q].keys) : kq[i + 1] = node[q].keys[i]
  <2>1. PICK e \in Int : e = node[p].keys[n]
    BY <1>1, <1>2
  <2>2. PICK s \in Seq(Int) : s = node[q].keys
    BY <1>2
  <2>3. /\ <<e>> \o s \in Seq(Int) /\ Len(<<e>> \o s) = Len(s) + 1 /\ (<<e>> \o s)[1] = e
        /\ \A i \in 1..Len(s) : (<<e>> \o s)[i + 1] = s[i]
    BY Prepended
  <2> QED BY <2>1, <2>2, <2>3, Zenon
<1>5. /\ vq \in Seq(Page) /\ Len(vq) = Len(node[q].vals) + 1 /\ vq[1] = node[p].vals[n]
      /\ \A i \in 1..Len(node[q].vals) : vq[i + 1] = node[q].vals[i]
  <2>1. PICK e \in Page : e = node[p].vals[n]
    BY <1>1, <1>2
  <2>2. PICK s \in Seq(Page) : s = node[q].vals
    BY <1>2
  <2>3. /\ <<e>> \o s \in Seq(Page) /\ Len(<<e>> \o s) = Len(s) + 1 /\ (<<e>> \o s)[1] = e
        /\ \A i \in 1..Len(s) : (<<e>> \o s)[i + 1] = s[i]
    BY Prepended
  <2> QED BY <2>1, <2>2, <2>3, Zenon
<1>6. node \in [Page -> NodeSet] /\ node[p] \in NodeSet /\ node[q] \in NodeSet
  BY <1>1 DEF TreeTypes
<1>7. node' = [node EXCEPT ![p] = [node[p] EXCEPT !.keys = kp, !.vals = vp],
                           ![q] = [node[q] EXCEPT !.keys = kq, !.vals = vq]]
  BY <1>1, <1>6, Zenon DEF MoveChild
<1> HIDE DEF kp, vp, kq, vq
<1>8. /\ [node[p] EXCEPT !.keys = kp, !.vals = vp] \in NodeSet
      /\ [node[q] EXCEPT !.keys = kq, !.vals = vq] \in NodeSet
  BY <1>3, <1>4, <1>5, <1>6, Zenon DEF NodeSet
<1>9. /\ node' \in [Page -> NodeSet]
      /\ \A x \in Page : x # p /\ x # q => node'[x] = node[x]
      /\ node'[p] = [node[p] EXCEPT !.keys = kp, !.vals = vp]
      /\ node'[q] = [node[q] EXCEPT !.keys = kq, !.vals = vq]
  BY <1>1, <1>6, <1>7, <1>8
<1>10. /\ node'[p].keys = kp /\ node'[p].vals = vp
       /\ node'[q].keys = kq /\ node'[q].vals = vq
  BY <1>6, <1>9 DEF NodeSet
<1>11. /\ node'[p].is_leaf = node[p].is_leaf /\ node'[p].parent = node[p].parent
       /\ node'[p].prev = node[p].prev /\ node'[p].next = node[p].next
       /\ node'[q].is_leaf = node[q].is_leaf /\ node'[q].parent = node[q].parent
       /\ node'[q].prev = node[q].prev /\ node'[q].next = node[q].next
  BY <1>6, <1>9, Zenon DEF NodeSet
<1>12. \A x \in Page :
         /\ node'[x].is_leaf = node[x].is_leaf /\ node'[x].parent = node[x].parent
         /\ node'[x].prev = node[x].prev /\ node'[x].next = node[x].next
  BY <1>9, <1>11, Zenon
<1> QED BY <1>2, <1>3, <1>4, <1>5, <1>9, <1>10, <1>12

(* The caller moves a child to the next node. *)
LEMMA MoveChildKeepsTree ==
  ASSUME TreeInv, NEW p \in Inner, NEW q \in Inner, MoveChild(p, q)
  PROVE  TreeInv'
<1> USE DEF TreeInv
<1>1. PICK n \in Nat : n = Len(node[p].vals)
  BY NodeFacts DEF Inner
<1>2. /\ p \in Page /\ q \in Page /\ p # q /\ n > 1 /\ Len(node[p].keys) = n
      /\ op = Idle /\ op' = MaintainChildOf(q, 1) /\ erased' = erased
      /\ Inner \subseteq Page
  BY <1>1, Zenon DEF Inner, MoveChild, EntriesInv
<1>3. \A x : ~Climbing(x) /\ ~Moved(x)
  BY <1>2, OpFacts, Zenon DEF Climbing, Moved
<1>4. Moved(q)' /\ \A x : ~Climbing(x)' /\ (Moved(x)' => x = q)
  BY <1>2, OpFacts, Zenon DEF Climbing, Moved
<1>5. /\ node[p].vals \in Seq(Page) /\ node[q].vals \in Seq(Page)
      /\ Len(node[q].keys) = Len(node[q].vals) /\ Len(node[q].vals) \in Nat
      /\ Len(node[q].vals) >= 1
  BY <1>2, NodeFacts DEF EntriesInv
<1>6. PICK c \in Page : c = node[p].vals[n]
  BY <1>1, <1>2, <1>5
<1>7. /\ node' \in [Page -> NodeSet]
      /\ \A x \in Page : /\ x # p /\ x # q => node'[x] = node[x]
                         /\ node'[x].parent = node[x].parent
      /\ LinksKept
  BY <1>1, ChildMoves DEF LinksKept
<1>8. /\ Len(node'[p].keys) = n - 1 /\ Len(node'[p].vals) = n - 1
      /\ \A i \in 1..(n - 1) : /\ node'[p].keys[i] = node[p].keys[i]
                               /\ node'[p].vals[i] = node[p].vals[i]
  BY <1>1, ChildMoves
<1>9. /\ Len(node'[q].keys) = Len(node[q].vals) + 1
      /\ Len(node'[q].vals) = Len(node[q].vals) + 1
      /\ node'[q].keys[1] = node[p].keys[n] /\ node'[q].vals[1] = c
      /\ \A i \in 1..Len(node[q].vals) : /\ node'[q].keys[i + 1] = node[q].keys[i]
                                         /\ node'[q].vals[i + 1] = node[q].vals[i]
  <2>1. /\ Len(node'[q].keys) = Len(node[q].keys) + 1
        /\ Len(node'[q].vals) = Len(node[q].vals) + 1
        /\ node'[q].keys[1] = node[p].keys[n] /\ node'[q].vals[1] = node[p].vals[n]
        /\ \A i \in 1..Len(node[q].vals) : /\ node'[q].keys[i + 1] = node[q].keys[i]
                                           /\ node'[q].vals[i + 1] = node[q].vals[i]
    BY <1>1, ChildMoves
  <2> QED BY <1>5, <1>6, <2>1, Zenon
<1>10. Inner' = Inner
  BY <1>7, SameInner, Zenon
<1>11. TreeTypes'
  <2>1. IX_LEAF_HEADER_PAGE \in Page /\ Leaf(IX_LEAF_HEADER_PAGE)'
    BY <1>7, SameInner, Zenon DEF TreeTypes
  <2>2. \A x \in Page : x # IX_LEAF_HEADER_PAGE => Len(node'[x].keys) >= 1
    <3>1. Len(node'[p].keys) >= 1 /\ Len(node'[q].keys) >= 1
      BY <1>2, <1>5, <1>8, <1>9
    <3> QED BY <1>7, <3>1, Zenon DEF TreeTypes
  <2> QED BY <1>4, <1>7, <1>10, <2>1, <2>2, Zenon DEF TreeTypes
(* Where an entry comes from. *)
<1> DEFINE
      NewEntry(x, i) ==
        x = q /\ i = 1 /\ node'[x].vals[i] = c /\ node'[x].keys[i] = node[p].keys[n]
      LaterEntry(x, i) ==
        /\ x = q /\ i > 1 /\ i - 1 \in 1..Len(node[q].vals)
        /\ node'[x].vals[i] = node[q].vals[i - 1] /\ node'[x].keys[i] = node[q].keys[i - 1]
      SameEntry(x, i) ==
        /\ x # q /\ i \in 1..Len(node[x].vals) /\ (x = p => i < n)
        /\ node'[x].vals[i] = node[x].vals[i] /\ node'[x].keys[i] = node[x].keys[i]
<1>12. ASSUME NEW x \in Inner, NEW i \in 1..Len(node'[x].vals)
       PROVE  NewEntry(x, i) \/ LaterEntry(x, i) \/ SameEntry(x, i)
  <2>1. CASE x = q
    <3>1. i \in 1..(Len(node[q].vals) + 1)
      BY <1>9, <2>1
    <3>2. i = 1 \/ (i > 1 /\ i - 1 \in 1..Len(node[q].vals) /\ i = (i - 1) + 1)
      BY <1>5, <3>1
    <3>3. ASSUME i > 1, i - 1 \in 1..Len(node[q].vals), i = (i - 1) + 1
          PROVE  node'[q].vals[i] = node[q].vals[i - 1] /\ node'[q].keys[i] = node[q].keys[i - 1]
      <4>1. PICK j \in 1..Len(node[q].vals) : j = i - 1 /\ i = j + 1
        BY <3>3
      <4> QED BY <1>9, <4>1, Zenon
    <3> QED BY <1>9, <2>1, <3>2, <3>3, Zenon
  <2>2. CASE x = p
    BY <1>1, <1>2, <1>8, <2>2
  <2>3. CASE x # p /\ x # q
    BY <1>2, <1>7, <2>3, Zenon
  <2> QED BY <2>1, <2>2, <2>3, Zenon
<1>13. \A x \in Inner : \A i \in 1..Len(node[x].vals) :
         /\ node[x].vals[i] \in Page /\ node[x].vals[i] # x
         /\ node[node[x].vals[i]].parent = x
         /\ node[x].keys[i] = node[node[x].vals[i]].keys[1]
  <2>1. \A x \in Inner : \A i \in 1..Len(node[x].vals) : node[x].vals[i] \in Page
    BY <1>2, NodeFacts
  <2> SUFFICES ASSUME NEW x \in Inner, NEW i \in 1..Len(node[x].vals)
               PROVE  /\ node[x].vals[i] # x /\ node[node[x].vals[i]].parent = x
                      /\ node[x].keys[i] = node[node[x].vals[i]].keys[1]
    BY <2>1
  <2> QED BY <1>3 DEF EntriesInv
<1>14. n \in 1..Len(node[p].vals)
  BY <1>1, <1>2
<1>15. c # p /\ node[c].parent = p /\ node[p].keys[n] = node[c].keys[1]
  BY <1>6, <1>13, <1>14
<1>16. c # q
  <2>1. ASSUME c = q PROVE FALSE
    <3>1. node[q].parent = p /\ node[p].parent = p
      BY <1>15, <2>1, Zenon DEF MoveChild
    <3>2. node[p].parent # IX_NO_PAGE
      BY Zenon DEF MoveChild
    <3>3. IsChild(p, p)
      BY <1>2, <1>3, <3>1, <3>2, Zenon DEF ParentsInv
    <3> QED BY <1>13, <3>3 DEF IsChild
  <2> QED BY <2>1
<1>17. \A y \in Page : y # q => node'[y].keys[1] = node[y].keys[1]
  <2>1. node'[p].keys[1] = node[p].keys[1]
    BY <1>2, <1>8
  <2> QED BY <1>7, <2>1, Zenon
<1>18. EntriesInv'
  <2>1. ASSUME NEW x \in Inner, NEW i \in 1..Len(node'[x].vals)
        PROVE  /\ node'[x].vals[i] # x
               /\ (x = q /\ i = 1) \/ node'[node'[x].vals[i]].parent = x
               /\ node'[x].vals[i] = q \/ node'[x].keys[i] = node'[node'[x].vals[i]].keys[1]
    <3>1. ASSUME NEW z \in Inner, NEW j \in 1..Len(node[z].vals)
          PROVE  /\ node'[node[z].vals[j]].parent = z /\ node[z].vals[j] # z
                 /\ node[z].vals[j] = q \/ node[z].keys[j] = node'[node[z].vals[j]].keys[1]
      <4>1. PICK y \in Page : y = node[z].vals[j]
        BY <1>13
      <4>2. y # z /\ node[y].parent = z /\ node[z].keys[j] = node[y].keys[1]
        <5>1. /\ node[z].vals[j] # z /\ node[node[z].vals[j]].parent = z
              /\ node[z].keys[j] = node[node[z].vals[j]].keys[1]
          BY <1>13
        <5> QED BY <4>1, <5>1, Zenon
      <4> QED BY <1>7, <1>17, <4>1, <4>2, Zenon
    <3>2. CASE NewEntry(x, i)
      BY <1>4, <1>15, <1>16, <1>17, <3>2, Zenon
    <3>3. CASE LaterEntry(x, i)
      BY <3>1, <3>3
    <3>4. CASE SameEntry(x, i)
      BY <3>1, <3>4
    <3> HIDE DEF NewEntry, LaterEntry, SameEntry
    <3> QED BY <1>12, <3>2, <3>3, <3>4, Zenon
  <2>2. ASSUME NEW x \in Inner
        PROVE  Len(node'[x].keys) = Len(node'[x].vals) /\ Len(node'[x].vals) >= 1
    <3>1. CASE x = p
      BY <1>2, <1>8, <3>1
    <3>2. CASE x = q
      BY <1>5, <1>9, <3>2
    <3>3. CASE x # p /\ x # q
      BY <1>2, <1>7, <3>3, Zenon DEF EntriesInv
    <3> QED BY <3>1, <3>2, <3>3
  <2>3. \A x \in Inner : \A i \in 1..Len(node'[x].vals) :
          /\ node'[x].vals[i] # x
          /\ (op' = MaintainChildOf(x, 1) /\ i = 1) \/ node'[node'[x].vals[i]].parent = x
          /\ \/ op' = MaintainChildOf(node'[x].vals[i], 1)
             \/ node'[x].keys[i] = node'[node'[x].vals[i]].keys[1]
    <3> SUFFICES ASSUME NEW x \in Inner, NEW i \in 1..Len(node'[x].vals)
                 PROVE  /\ node'[x].vals[i] # x
                        /\ \/ op' = MaintainChildOf(x, 1) /\ i = 1
                           \/ node'[node'[x].vals[i]].parent = x
                        /\ \/ op' = MaintainChildOf(node'[x].vals[i], 1)
                           \/ node'[x].keys[i] = node'[node'[x].vals[i]].keys[1]
      BY Zenon
    <3>1. op' = MaintainChildOf(q, 1)
      BY <1>2
    <3>2. x = q => op' = MaintainChildOf(x, 1)
      BY <3>1, Zenon
    <3>3. node'[x].vals[i] = q => op' = MaintainChildOf(node'[x].vals[i], 1)
      BY <3>1, Zenon
    <3>4. /\ node'[x].vals[i] # x
          /\ (x = q /\ i = 1) \/ node'[node'[x].vals[i]].parent = x
          /\ node'[x].vals[i] = q \/ node'[x].keys[i] = node'[node'[x].vals[i]].keys[1]
      BY <2>1
    <3> QED BY <3>2, <3>3, <3>4, Zenon
  <2> QED BY <1>10, <2>2, <2>3, EntriesMoved, Zenon
<1>19. ChildrenApart'
  <2> SUFFICES ASSUME NEW x \in Inner, NEW y \in Inner,
                      NEW i \in 1..Len(node'[x].vals), NEW j \in 1..Len(node'[y].vals),
                      node'[x].vals[i] = node'[y].vals[j]
               PROVE  x = y /\ i = j
    BY <1>10, Zenon DEF ChildrenApart
  <2> DEFINE Origin(z, k, o, m) ==
        \/ z = q /\ k = 1 /\ o = p /\ m = n
        \/ z = q /\ k > 1 /\ o = q /\ m = k - 1
        \/ z # q /\ o = z /\ m = k /\ (z = p => k < n)
  <2>1. ASSUME NEW z \in Inner, NEW k \in 1..Len(node'[z].vals)
        PROVE  \E o \in Inner : \E m \in 1..Len(node[o].vals) :
                 Origin(z, k, o, m) /\ node'[z].vals[k] = node[o].vals[m]
    BY <1>6, <1>12, <1>14, Zenon
  <2>2. PICK a \in Inner : \E m \in 1..Len(node[a].vals) :
          Origin(x, i, a, m) /\ node'[x].vals[i] = node[a].vals[m]
    BY <2>1, Zenon
  <2>3. PICK k \in 1..Len(node[a].vals) : Origin(x, i, a, k) /\ node'[x].vals[i] = node[a].vals[k]
    BY <2>2, Zenon
  <2>4. PICK b \in Inner : \E m \in 1..Len(node[b].vals) :
          Origin(y, j, b, m) /\ node'[y].vals[j] = node[b].vals[m]
    BY <2>1, Zenon
  <2>5. PICK m \in 1..Len(node[b].vals) : Origin(y, j, b, m) /\ node'[y].vals[j] = node[b].vals[m]
    BY <2>4, Zenon
  <2>6. a = b /\ k = m
    <3>1. node[a].vals[k] = node[b].vals[m]
      BY <2>3, <2>5, Zenon
    <3> QED BY <3>1 DEF ChildrenApart
  <2>7. i \in Int /\ j \in Int
    OBVIOUS
  <2> QED BY <1>2, <2>3, <2>5, <2>6, <2>7
<1>20. ParentsInv'
  <2> SUFFICES ASSUME NEW y \in Page, node'[y].parent # IX_NO_PAGE
               PROVE  /\ node'[y].parent \in Inner
                      /\ \/ \E i \in 1..Len(node'[node'[y].parent].vals) :
                              node'[node'[y].parent].vals[i] = y
                         \/ node'[q].vals[1] = y
    BY <1>4, <1>10, Zenon DEF ParentsInv, IsChild
  <2>1. PICK z \in Inner : z = node[y].parent /\ z = node'[y].parent /\ IsChild(z, y)
    BY <1>3, <1>7, Zenon DEF ParentsInv
  <2>2. PICK i \in 1..Len(node[z].vals) : node[z].vals[i] = y
    BY <2>1, Zenon DEF IsChild
  <2>3. ASSUME y # c PROVE \E j \in 1..Len(node'[z].vals) : node'[z].vals[j] = y
    <3>1. CASE z = p
      <4>1. i \in 1..(n - 1)
        BY <1>1, <1>2, <1>6, <2>2, <2>3, <3>1
      <4> QED BY <1>8, <2>2, <3>1, <4>1
    <3>2. CASE z = q
      <4>1. i + 1 \in 1..Len(node'[q].vals)
        BY <1>5, <1>9, <3>2
      <4>2. node'[q].vals[i + 1] = y
        BY <1>9, <2>2, <3>2, Zenon
      <4> QED BY <3>2, <4>1, <4>2, Zenon
    <3>3. CASE z # p /\ z # q
      BY <1>2, <1>7, <2>2, <3>3, Zenon
    <3> QED BY <3>1, <3>2, <3>3
  <2> QED BY <1>9, <2>1, <2>3
<1>21. RingInv'
  <2>1. \A x \in Page : node[x].is_leaf => node'[x].keys = node[x].keys
    BY <1>7, Zenon DEF Inner, Leaf
  <2> QED BY <1>2, <1>7, <2>1, RingKept, Zenon
<1> QED BY <1>11, <1>18, <1>19, <1>20, <1>21

(* TreeConnected (IndexTree): maintain_parent(), maintain_child() and      *)
(* erase_leaf() leave a tree of any size and shape connected.              *)
THEOREM TreeStaysConnected == TreeSpec => []TreeConnected
<1>1. TreeInit => TreeInv
  <2> SUFFICES ASSUME TreeInit PROVE TreeInv
    OBVIOUS
  <2>1. node = Tree /\ op = Idle /\ erased = {} /\ DOMAIN node = Page
    BY TreeAssumption DEF TreeInit
  <2>2. Inner = {p \in Page : ~node[p].is_leaf} /\ Ring = {p \in Page : node[p].is_leaf}
    BY <2>1, TreeAssumption DEF Inner, Leaf, Ring, InList, LeavesLinked
  <2>3. EntriesInv
    <3>1. ASSUME NEW p \in Inner
          PROVE  /\ Len(node[p].keys) = Len(node[p].vals) /\ Len(node[p].vals) >= 1
                 /\ \A i \in 1..Len(node[p].vals) :
                      /\ node[p].vals[i] # p /\ node[node[p].vals[i]].parent = p
                      /\ node[p].keys[i] = node[node[p].vals[i]].keys[1]
      BY <2>1, <2>2, TreeAssumption DEF EntriesAgree
    <3> QED BY <3>1 DEF EntriesInv
  <2>4. ChildrenApart
    <3> SUFFICES ASSUME NEW p \in Inner, NEW q \in Inner,
                        NEW i \in 1..Len(node[p].vals), NEW j \in 1..Len(node[q].vals),
                        node[p].vals[i] = node[q].vals[j]
                 PROVE  p = q /\ i = j
      BY Zenon DEF ChildrenApart
    <3>1. ASSUME NEW r \in Inner, NEW k \in 1..Len(node[r].vals)
          PROVE  /\ node[node[r].vals[k]].parent = r
                 /\ \A m \in 1..Len(node[r].vals) : node[r].vals[m] = node[r].vals[k] => m = k
      BY <2>1, <2>2, TreeAssumption DEF EntriesAgree
    <3>2. node[node[p].vals[i]].parent = p /\ node[node[q].vals[j]].parent = q
      BY <3>1, Zenon
    <3>3. p = q
      BY <3>2, Zenon
    <3> QED BY <3>1, <3>3, Zenon
  <2>5. ParentsInv
    BY <2>1, <2>2, TreeAssumption DEF ParentsAgree, ParentsInv, IsChild, NodeSet
  <2>6. RingInv
    BY <2>1, <2>2, TreeAssumption DEF LeavesLinked, RingInv, Rising
  <2>7. TreeTypes
    <3>1. node \in [Page -> NodeSet]
      BY <2>1, TreeAssumption
    <3>2. IX_LEAF_HEADER_PAGE \in Page /\ Leaf(IX_LEAF_HEADER_PAGE)
      BY <2>1, TreeAssumption DEF LeavesLinked, Leaf
    <3>3. \A p \in Page : p # IX_LEAF_HEADER_PAGE => Len(node[p].keys) >= 1
      <4>1. \A p \in Inner : Len(node[p].keys) >= 1
        BY <2>3 DEF EntriesInv
      <4>2. \A p \in Page : node[p].is_leaf /\ p # IX_LEAF_HEADER_PAGE => Len(node[p].keys) >= 1
        BY <2>1, TreeAssumption DEF LeavesLinked
      <4> QED BY <2>2, <4>1, <4>2, Zenon
    <3> QED BY <2>1, <3>1, <3>2, <3>3, Zenon DEF TreeTypes
  <2> QED BY <2>3, <2>4, <2>5, <2>6, <2>7 DEF TreeInv
<1>2. TreeInv /\ [TreeNext]_treeVars => TreeInv'
  <2> SUFFICES ASSUME TreeInv, [TreeNext]_treeVars PROVE TreeInv'
    OBVIOUS
  <2>1. CASE UNCHANGED treeVars
    <3>1. node' = node /\ op' = op /\ erased' = erased
      BY <2>1 DEF treeVars
    <3>2. Inner' = Inner /\ Ring' = Ring /\ TreeTypes' = TreeTypes
      BY <3>1, Zenon DEF Inner, Leaf, Ring, InList, TreeTypes, Climbing, Moved
    <3>3. EntriesInv' = EntriesInv
      BY <3>1, <3>2 DEF EntriesInv, Climbing, Moved
    <3>4. ParentsInv' = ParentsInv /\ RingInv' = RingInv
      BY <3>1, <3>2, Zenon DEF ParentsInv, RingInv, Rising, IsChild, Moved
    <3>5. ChildrenApart'
      BY <3>1, <3>2, ChildrenKept DEF TreeInv
    <3> QED BY <3>2, <3>3, <3>4, <3>5, Zenon DEF TreeInv
  <2> QED BY <2>1, MaintainParentKeepsTree, MaintainParentEndKeepsTree, MaintainChildKeepsTree,
             EraseLeafKeepsTree, ChangeFirstKeyKeepsTree, MoveChildKeepsTree DEF TreeNext
<1>3. TreeInv => TreeConnected
  <2> SUFFICES ASSUME TreeInv PROVE TreeConnected
    OBVIOUS
  <2>1. op = Idle => \A x : ~Climbing(x) /\ ~Moved(x)
    BY OpFacts, Zenon DEF Climbing, Moved
  <2>2. KeysMatchChildren /\ ParentsMatchChildren
    BY <2>1 DEF TreeInv, EntriesInv, KeysMatchChildren, ParentsMatchChildren
  <2>3. LeafRing
    BY DEF TreeInv, RingInv, Ring, Rising, LeafRing
  <2> QED BY <2>2, <2>3 DEF TreeConnected
<1> QED BY <1>1, <1>2, <1>3, PTL DEF TreeSpec
=============================================================================
