----------------------------- MODULE IndexTree ------------------------------
(***************************************************************************)
(* What keeps the pages of a B+ tree consistent (index/ix_index_handle):   *)
(* maintain_parent() after the first key of a node has changed,            *)
(* maintain_child() after a child has moved to another node, and           *)
(* erase_leaf() before a leaf leaves the tree.                             *)
(*                                                                         *)
(* The functions that would call them (insert_entry, split,                *)
(* coalesce_or_redistribute) are empty in the code.  The environment       *)
(* stands for such a caller: it changes one node of a consistent tree and  *)
(* calls the function that restores consistency.                           *)
(***************************************************************************)
EXTENDS Integers, Sequences, FiniteSets

CONSTANTS
  Keys,        \* the keys
  Tree         \* page -> node: the tree before the first change

IX_NO_PAGE == -1
IX_LEAF_HEADER_PAGE == 1

Page == DOMAIN Tree

NodeSet ==
  [ is_leaf : BOOLEAN, parent : Page \union {IX_NO_PAGE}, prev : Int, next : Int,
    keys : Seq(Int), vals : Seq(Page) ]

(* An entry of an inner node has the first key of its child, which names   *)
(* the node as its parent and is the child of no other entry.              *)
EntriesAgree(tree) ==
  \A p \in DOMAIN tree : ~tree[p].is_leaf =>
    /\ Len(tree[p].keys) = Len(tree[p].vals) /\ Len(tree[p].vals) >= 1
    /\ \A i \in 1..Len(tree[p].vals) :
         LET child == tree[p].vals[i] IN
           /\ child # p
           /\ tree[child].parent = p
           /\ tree[p].keys[i] = tree[child].keys[1]
           /\ \A j \in 1..Len(tree[p].vals) : tree[p].vals[j] = child => j = i

(* A node that names a parent is one of its children. *)
ParentsAgree(tree) ==
  \A c \in DOMAIN tree : tree[c].parent # IX_NO_PAGE =>
    /\ ~tree[tree[c].parent].is_leaf
    /\ \E i \in 1..Len(tree[tree[c].parent].vals) : tree[tree[c].parent].vals[i] = c

(* The leaves and the header page are a ring, with rising keys. *)
LeavesLinked(tree) ==
  LET ring == {p \in DOMAIN tree : tree[p].is_leaf} IN
    /\ IX_LEAF_HEADER_PAGE \in ring
    /\ \A p \in ring :
         /\ tree[p].next \in ring /\ tree[tree[p].next].prev = p
         /\ tree[p].prev \in ring /\ tree[tree[p].prev].next = p
         /\ p # IX_LEAF_HEADER_PAGE => Len(tree[p].keys) >= 1
         /\ p # IX_LEAF_HEADER_PAGE /\ tree[p].next # IX_LEAF_HEADER_PAGE
              => tree[p].keys[1] < tree[tree[p].next].keys[1]

ASSUME TreeAssumption ==
  /\ Keys \subseteq Int /\ Page \subseteq Nat
  /\ Tree \in [Page -> NodeSet]
  /\ EntriesAgree(Tree) /\ ParentsAgree(Tree) /\ LeavesLinked(Tree)

VARIABLES
  node,        \* page -> its header, keys and children
  op,          \* the call in progress
  erased       \* leaves taken out of the list (history)

treeVars == <<node, op, erased>>

Idle == [name |-> "idle"]
MaintainParentOf(p) == [name |-> "maintain_parent", curr |-> p]
MaintainChildOf(p, i) == [name |-> "maintain_child", node |-> p, child_idx |-> i]

Leaf(p) == node[p].is_leaf
Inner == {p \in Page : ~Leaf(p)}
InList == {p \in Page : Leaf(p)} \ (erased \union {IX_LEAF_HEADER_PAGE})

-----------------------------------------------------------------------------
(* find_child(): the position of a child in its parent, which asserts      *)
(* that there is one.                                                      *)
FindChild(parent, p) == CHOOSE i \in 1..Len(node[parent].vals) : node[parent].vals[i] = p

(* One turn of the loop of maintain_parent(): the entry of curr in its     *)
(* parent gets the first key of curr, or has it already and the loop ends. *)
MaintainParentOnce ==
  /\ op.name = "maintain_parent"
  /\ node[op.curr].parent # IX_NO_PAGE
  /\ LET parent == node[op.curr].parent
         rank == FindChild(parent, op.curr)
         first == node[op.curr].keys[1] IN
       node' = [node EXCEPT ![parent].keys[rank] = first]
  /\ op' = Idle
  /\ UNCHANGED erased

MaintainParent ==
  /\ op.name = "maintain_parent"
  /\ node[op.curr].parent # IX_NO_PAGE
  /\ LET parent == node[op.curr].parent
         rank == FindChild(parent, op.curr)
         first == node[op.curr].keys[1] IN
     IF node[parent].keys[rank] = first
       THEN op' = Idle /\ UNCHANGED node
       ELSE /\ node' = [node EXCEPT ![parent].keys[rank] = first]
            /\ op' = MaintainParentOf(parent)
  /\ UNCHANGED erased

MaintainParentEnd ==
  /\ op.name = "maintain_parent"
  /\ node[op.curr].parent = IX_NO_PAGE
  /\ op' = Idle
  /\ UNCHANGED <<node, erased>>

(* maintain_child(), on an inner node; the caller goes on with the first   *)
(* key of the node.                                                        *)
MaintainChildOldParent ==
  /\ op.name = "maintain_child"
  /\ op' = MaintainParentOf(op.node)
  /\ UNCHANGED <<node, erased>>

MaintainChild ==
  /\ op.name = "maintain_child"
  /\ IF Leaf(op.node)
       THEN UNCHANGED node
       ELSE LET child == node[op.node].vals[op.child_idx] IN
              node' = [node EXCEPT ![child].parent = op.node]
  /\ op' = MaintainParentOf(op.node)
  /\ UNCHANGED erased

(* erase_leaf(): the neighbours of the leaf are linked to each other. *)
EraseLeafForward(p) ==
  /\ op = Idle
  /\ p \in InList
  /\ Cardinality(InList) > 1
  /\ node' = [node EXCEPT ![node[p].prev].next = node[p].next]
  /\ erased' = erased \union {p}
  /\ UNCHANGED op

EraseLeaf(p) ==
  /\ op = Idle
  /\ p \in InList
  /\ Cardinality(InList) > 1
  /\ node' = LET forward == [node EXCEPT ![node[p].prev].next = node[p].next] IN
               [forward EXCEPT ![forward[p].next].prev = forward[p].prev]
  /\ erased' = erased \union {p}
  /\ UNCHANGED op

-----------------------------------------------------------------------------
(* The environment.  A key enters or leaves a leaf at its first position,  *)
(* between the keys around it.                                             *)
ChangeFirstKey(p, k) ==
  /\ op = Idle
  /\ p \in InList
  /\ k # node[p].keys[1]
  /\ \A q \in InList \ {p} :
       /\ node[q].keys[1] # k
       /\ (node[q].keys[1] < node[p].keys[1]) = (node[q].keys[1] < k)
  /\ node' = [node EXCEPT ![p].keys[1] = k]
  /\ op' = MaintainParentOf(p)
  /\ UNCHANGED erased

(* The last child of an inner node moves to the front of the next one. *)
MoveChild(p, q) ==
  /\ op = Idle
  /\ p # q
  /\ node[p].parent = node[q].parent
  /\ node[p].parent # IX_NO_PAGE
  /\ FindChild(node[p].parent, q) = FindChild(node[p].parent, p) + 1
  /\ Len(node[p].vals) > 1
  /\ node' = [node EXCEPT
       ![p].keys = SubSeq(@, 1, Len(@) - 1), ![p].vals = SubSeq(@, 1, Len(@) - 1),
       ![q].keys = <<node[p].keys[Len(node[p].keys)]>> \o @,
       ![q].vals = <<node[p].vals[Len(node[p].vals)]>> \o @]
  /\ op' = MaintainChildOf(q, 1)
  /\ UNCHANGED erased

-----------------------------------------------------------------------------
TreeInit ==
  /\ node = Tree
  /\ op = Idle
  /\ erased = {}

TreeNext ==
  \/ MaintainParent \/ MaintainParentEnd \/ MaintainChild
  \/ \E p \in Page : EraseLeaf(p)
  \/ \E p \in Page, k \in Keys : ChangeFirstKey(p, k)
  \/ \E p, q \in Inner : MoveChild(p, q)

TreeSpec == TreeInit /\ [][TreeNext]_treeVars

-----------------------------------------------------------------------------
(* What is checked. *)

(* When no call is in progress, every entry of an inner node has the first *)
(* key of the child it points to: maintain_parent() may stop at the first  *)
(* ancestor that is right, and climbs past every one that is not           *)
(* (ix_index_handle.cpp:460-477).                                          *)
KeysMatchChildren ==
  op = Idle =>
    \A p \in Inner : \A i \in 1..Len(node[p].vals) :
      node[p].keys[i] = node[node[p].vals[i]].keys[1]

(* When no call is in progress, a node and its parent name each other:     *)
(* maintain_child() corrects the one pointer a move makes stale, so a      *)
(* later maintain_parent() climbs to the node that holds the entry         *)
(* (ix_index_handle.cpp:508-516).                                          *)
ParentsMatchChildren ==
  op = Idle =>
    \A p \in Inner : \A i \in 1..Len(node[p].vals) : node[node[p].vals[i]].parent = p

(* After any leaves are erased, in any order, the leaves left and the      *)
(* header page are one ring, the same in both directions                   *)
(* (ix_index_handle.cpp:484-494, ix_manager.h:98-128).                     *)
LeafRing ==
  LET ring == InList \union {IX_LEAF_HEADER_PAGE} IN
    \A p \in ring :
      /\ node[p].next \in ring
      /\ node[node[p].next].prev = p
      /\ p # IX_LEAF_HEADER_PAGE /\ node[p].next # IX_LEAF_HEADER_PAGE
           => node[p].keys[1] < node[node[p].next].keys[1]

(* The helpers of the tree leave it connected: keys and parents agree with *)
(* the children, and the leaves are one ring.                              *)
TreeConnected == KeysMatchChildren /\ ParentsMatchChildren /\ LeafRing
=============================================================================
