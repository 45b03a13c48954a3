----------------------------- MODULE IndexScan ------------------------------
(***************************************************************************)
(* IxScan (index/ix_scan) over the leaves of an index, with the functions  *)
(* of IxIndexHandle it calls: leaf_begin(), leaf_end(), get_rid() and      *)
(* fetch_node().                                                           *)
(*                                                                         *)
(* The pool is its pin counts: fetch_page() finds a frame for a page that  *)
(* is in the pool or when some frame has no pins, and returns nullptr      *)
(* otherwise, which the constructor of IxNodeHandle dereferences.          *)
(* Lookups are get_rid() calls with an identifier whose entry may be gone. *)
(***************************************************************************)
EXTENDS Integers, Sequences, FiniteSets

CONSTANTS
  LeafSizes,    \* the leaves an index may have: their sizes, in list order
  PoolFrames,   \* frames of the pool
  Lookups       \* whether get_rid() is called with stale identifiers

(* An index has a leaf, and a leaf that is not the root has an entry.      *)
ASSUME ScanAssumption ==
  \A s \in LeafSizes :
    /\ s \in Seq(Nat) /\ Len(s) >= 1
    /\ Len(s) = 1 \/ \A i \in 1..Len(s) : s[i] >= 1

VARIABLES
  sizes,       \* the sizes of the leaves; leaf i is the i-th of the list
  pins,        \* leaf -> pin count of its page
  iid,         \* IxScan::iid_
  end,         \* IxScan::end_
  at,          \* what the caller does next
  rids         \* the record identifiers the scan has returned

leafScanVars == <<sizes, pins, iid, end, at, rids>>

Iid(leaf, slot) == [page_no |-> leaf, slot_no |-> slot]
LastLeaf == Len(sizes)
IsEnd == iid = end

(* fetch_page() finds a frame. *)
Fetchable(leaf) ==
  pins[leaf] > 0 \/ Cardinality({p \in DOMAIN pins : pins[p] > 0}) < PoolFrames

PinLeaf(leaf) == pins' = [pins EXCEPT ![leaf] = @ + 1]

-----------------------------------------------------------------------------
(* leaf_begin(), leaf_end() and the constructor of IxScan. *)
Begin ==
  /\ at = "begin"
  /\ iid' = Iid(1, 0)
  /\ end' = Iid(LastLeaf, sizes[LastLeaf])
  /\ at' = "test"
  /\ UNCHANGED <<sizes, pins, rids>>

(* is_end(), the condition of the caller's loop. *)
Test ==
  /\ at = "test"
  /\ at' = IF IsEnd THEN "done" ELSE "rid"
  /\ UNCHANGED <<sizes, pins, iid, end, rids>>

(* rid(): get_rid() fetches the node, throws when the entry is not there,  *)
(* and unpins the node before it reads the entry.                          *)
Rid ==
  /\ at = "rid"
  /\ IF ~Fetchable(iid.page_no)
       THEN at' = "crashed" /\ UNCHANGED <<pins, rids>>
     ELSE IF iid.slot_no >= sizes[iid.page_no]
       THEN at' = "thrown" /\ PinLeaf(iid.page_no) /\ UNCHANGED rids
     ELSE /\ at' = "next"
          /\ rids' = Append(rids, <<iid.page_no, iid.slot_no>>)
          /\ UNCHANGED pins
  /\ UNCHANGED <<sizes, iid, end>>

(* next(): the node is fetched and not unpinned; a failed assertion stops  *)
(* the process.                                                            *)
NextEveryLeaf ==
  /\ at = "next"
  /\ PinLeaf(iid.page_no)
  /\ at' = "test"
  /\ iid' = IF iid.slot_no + 1 >= sizes[iid.page_no] - 1 /\ iid.page_no # LastLeaf
              THEN Iid(iid.page_no + 1, 0)
              ELSE Iid(iid.page_no, iid.slot_no + 1)
  /\ UNCHANGED <<sizes, end, rids>>

NextEntry ==
  /\ at = "next"
  /\ IF IsEnd \/ ~Fetchable(iid.page_no) \/ iid.slot_no >= sizes[iid.page_no]
       THEN at' = "crashed" /\ UNCHANGED <<pins, iid>>
       ELSE /\ PinLeaf(iid.page_no)
            /\ at' = "test"
            /\ iid' = IF iid.page_no # LastLeaf /\ iid.slot_no + 1 = sizes[iid.page_no]
                        THEN Iid(iid.page_no + 1, 0)
                        ELSE Iid(iid.page_no, iid.slot_no + 1)
  /\ UNCHANGED <<sizes, end, rids>>

(* get_rid() of an identifier: an entry that is not there throws           *)
(* IndexEntryNotFoundError with the page still pinned.                     *)
GetRid(leaf, slot) ==
  /\ Lookups
  /\ at = "begin"
  /\ Fetchable(leaf)
  /\ IF slot >= sizes[leaf]
       THEN at' = "thrown" /\ PinLeaf(leaf)
       ELSE at' = "found" /\ UNCHANGED pins
  /\ UNCHANGED <<sizes, iid, end, rids>>

-----------------------------------------------------------------------------
LeafScanInit ==
  /\ sizes \in LeafSizes
  /\ pins = [leaf \in 1..Len(sizes) |-> 0]
  /\ iid = Iid(0, 0)
  /\ end = Iid(0, 0)
  /\ at = "begin"
  /\ rids = << >>

LeafScanNext ==
  \/ Begin \/ Test \/ Rid \/ NextEntry
  \/ \E leaf \in DOMAIN sizes : \E slot \in 0..sizes[leaf] : GetRid(leaf, slot)

LeafScanSpec == LeafScanInit /\ [][LeafScanNext]_leafScanVars

-----------------------------------------------------------------------------
(* What is checked. *)

Entries == UNION {{leaf} \X (0..(sizes[leaf] - 1)) : leaf \in 1..LastLeaf}
Earlier(a, b) == a[1] < b[1] \/ (a[1] = b[1] /\ a[2] < b[2])

(* A scan from leaf_begin() to leaf_end() over a pool with enough frames   *)
(* returns every entry of every leaf once, in the order of the list, and   *)
(* no other; an index whose only leaf is empty gives none                  *)
(* (ix_scan.cpp:17-29, ix_index_handle.cpp:402-418).                       *)
ScanReturnsEntries ==
  at = "done" =>
    /\ {rids[i] : i \in 1..Len(rids)} = Entries
    /\ \A i, j \in 1..Len(rids) : i < j => Earlier(rids[i], rids[j])

(* When a scan or a lookup is over, it has unpinned every page it fetched: *)
(* "pin the page, remember to unpin it outside!"                           *)
(* (ix_index_handle.cpp:425).                                              *)
PinsReleased ==
  at \in {"done", "found", "thrown"} => \A leaf \in DOMAIN pins : pins[leaf] = 0
=============================================================================
