------------------------------ MODULE Recency ------------------------------
(***************************************************************************)
(* What a least-recently-used replacer promises, without lists or hashes:  *)
(* a set of evictable frames and the order in which they became evictable. *)
(* The frame given up is the one that is older than every other.           *)
(***************************************************************************)
CONSTANTS Frame, NoFrame

VARIABLES
  evictable,  \* the frames that may be evicted
  older,      \* the pairs <<f, g>> where f became evictable before g
  evicted     \* the frame the last operation gave up, or NoFrame

vars == <<evictable, older, evicted>>

Init == evictable = {} /\ older = {} /\ evicted = NoFrame

Forget(f) ==
  /\ evictable' = evictable \ {f}
  /\ older' = {fg \in older : f \notin {fg[1], fg[2]}}

(* A frame is given up: the oldest one. *)
Evict(f) ==
  /\ f \in evictable
  /\ \A g \in evictable \ {f} : <<f, g>> \in older
  /\ evicted' = f
  /\ Forget(f)

(* A frame comes into use, and is no longer evictable. *)
Use(f) == Forget(f) /\ evicted' = NoFrame

(* A frame goes out of use: it is younger than every other evictable one;  *)
(* one that already was evictable keeps its age.                           *)
Release(f) ==
  /\ evictable' = evictable \union {f}
  /\ older' = older \union IF f \in evictable THEN {}
                           ELSE {<<g, f>> : g \in evictable}
  /\ evicted' = NoFrame

Next == \E f \in Frame : Evict(f) \/ Use(f) \/ Release(f)

Spec == Init /\ [][Next]_vars
=============================================================================
