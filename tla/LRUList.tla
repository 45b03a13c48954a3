------------------------------ MODULE LRUList ------------------------------
(***************************************************************************)
(* The data structure of LRUReplacer (src/replacer): the frames that may   *)
(* be evicted, most recently unpinned first.  LRUlist_ is the sequence     *)
(* `list'; LRUhash_ maps a frame to its place in the list, and is modelled *)
(* by the set `hash' of its keys, the iterator it stores being the index   *)
(* of the frame in `list'.                                                 *)
(***************************************************************************)
EXTENDS Integers, Sequences, Functions

CONSTANT PoolSize  \* max_size_: the number of frames of the pool

ASSUME PoolSizeAssumption == PoolSize \in Nat \ {0}

Frame == 0..(PoolSize - 1)
NoFrame == -1

EmptyLRU == [list |-> << >>, hash |-> {}]

(* back(), what pop_back() leaves, and erase() of std::list. *)
Last(s) == s[Len(s)]
Front(s) == SubSeq(s, 1, Len(s) - 1)
RemoveAt(s, i) == SubSeq(s, 1, i - 1) \o SubSeq(s, i + 1, Len(s))

(* victim(): the frame at the back of the list is taken out. *)
VictimOf(r) == Last(r.list)

VictimFront(r) == [list |-> Tail(r.list), hash |-> r.hash \ {VictimOf(r)}]

Victim(r) == [list |-> Front(r.list), hash |-> r.hash \ {VictimOf(r)}]

(* pin(): erase the frame through the iterator the hash holds for it. *)
PinNothing(r, f) == r

Pin(r, f) ==
  IF f \in r.hash
  THEN [list |-> RemoveAt(r.list, CHOOSE i \in DOMAIN r.list : r.list[i] = f),
        hash |-> r.hash \ {f}]
  ELSE r

(* unpin(): a frame not yet listed goes to the front. *)
UnpinNothing(r, f) == r

UnpinBack(r, f) ==
  IF f \in r.hash THEN r
  ELSE [list |-> Append(r.list, f), hash |-> r.hash \union {f}]

Unpin(r, f) ==
  IF f \in r.hash THEN r
  ELSE [list |-> <<f>> \o r.list, hash |-> r.hash \union {f}]

-----------------------------------------------------------------------------
(* The list and the hash describe the same set of frames and the list has  *)
(* no frame twice: the iterator that pin() erases through is the only      *)
(* occurrence of the frame (lru_replacer.cpp:55-60, 93-95).                *)
WellFormed(r) ==
  /\ r = [list |-> r.list, hash |-> r.hash]
  /\ r.list \in Seq(Frame)
  /\ r.hash = Range(r.list)
  /\ IsInjective(r.list)
=============================================================================
