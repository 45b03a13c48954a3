---------------------------- MODULE LRUReplacer ----------------------------
(***************************************************************************)
(* LRUReplacer (src/replacer/lru_replacer.cpp) called in any order.  Every *)
(* operation runs under the replacer's latch_, hence is one step.          *)
(***************************************************************************)
EXTENDS LRUList

VARIABLES
  replacer,   \* LRUlist_ and LRUhash_
  out         \* what the last call gave: the frame of a victim(), or NoFrame

lruVars == <<replacer, out>>

LRUInit == replacer = EmptyLRU /\ out = NoFrame

(* victim() on an empty list returns false and changes nothing. *)
VictimStep ==
  /\ replacer.list # << >>
  /\ out' = VictimOf(replacer)
  /\ replacer' = Victim(replacer)

PinStep(f) == replacer' = Pin(replacer, f) /\ out' = NoFrame

UnpinStep(f) == replacer' = Unpin(replacer, f) /\ out' = NoFrame

LRUNext ==
  \/ VictimStep
  \/ \E f \in Frame : PinStep(f)
  \/ \E f \in Frame : UnpinStep(f)

LRUSpec == LRUInit /\ [][LRUNext]_lruVars

-----------------------------------------------------------------------------
(* WellFormed holds of the replacer in every state: pin() erases through   *)
(* an iterator that is valid and is the frame's only one, whatever calls   *)
(* came before.                                                            *)
LRUWellFormed == WellFormed(replacer)

(* Frame f was unpinned before frame g: it is further back in the list. *)
ListedAfter(f, g) ==
  \E i, j \in DOMAIN replacer.list : i < j /\ replacer.list[i] = g /\ replacer.list[j] = f

Policy == INSTANCE Recency WITH
  evictable <- replacer.hash,
  older <- {fg \in Frame \X Frame : ListedAfter(fg[1], fg[2])},
  evicted <- out

(* The replacer implements the policy of Recency: the frame that victim()  *)
(* returns is the one that has gone longest without being pinned, and a    *)
(* repeated unpin() of a listed frame does not make it younger.            *)
RefinesRecency == Policy!Spec
=============================================================================
