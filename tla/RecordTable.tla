---------------------------- MODULE RecordTable ----------------------------
(***************************************************************************)
(* What a table file promises its callers: a partial map from record       *)
(* numbers to records.  A call leaves in `ret' what it returned, together  *)
(* with the record number it was about, so that a wrong answer shows.      *)
(***************************************************************************)
CONSTANTS
  Rid,      \* the places a file can have
  Arg,      \* the record numbers callers may pass, valid or not
  Record    \* the contents of a record

VARIABLES
  table,    \* the records there are, by record number
  ret       \* the last call: operation, record number, result

tableVars == <<table, ret>>

Done == "done"
NotFound == "no such record"
Refused == "refused"

With(rid, d) ==
  [r \in DOMAIN table \union {rid} |-> IF r = rid THEN d ELSE table[r]]

Without(rid) == [r \in DOMAIN table \ {rid} |-> table[r]]

Returns(op, rid, res) == ret' = [op |-> op, rid |-> rid, res |-> res]

Init == DOMAIN table = {} /\ ret = [op |-> "open", rid |-> << >>, res |-> Done]

(* A record goes to a place that had none, and the caller is told where.   *)
Insert(d) ==
  \E rid \in Rid :
    Returns("insert", rid, Done) /\ rid \notin DOMAIN table /\ table' = With(rid, d)

(* An insertion may fail once its record is in place: the caller is not    *)
(* told where.                                                             *)
InsertUntold(d) ==
  \E rid \in Rid :
    /\ Returns("insert", << >>, Refused)
    /\ rid \notin DOMAIN table /\ table' = With(rid, d)

InsertAt(rid, d) ==
  Returns("insert_at", rid, Done) /\ rid \in Rid /\ table' = With(rid, d)

Get(rid) ==
  \E d \in Record :
    Returns("get", rid, d) /\ rid \in DOMAIN table /\ d = table[rid] /\ UNCHANGED table

Update(rid, d) ==
  Returns("update", rid, Done) /\ rid \in DOMAIN table /\ table' = With(rid, d)

Delete(rid) ==
  Returns("delete", rid, Done) /\ rid \in DOMAIN table /\ table' = Without(rid)

(* Only a record number that has no record is said to have none. *)
Miss(rid) ==
  Returns("miss", rid, NotFound) /\ rid \notin DOMAIN table /\ UNCHANGED table

(* A call that gets no page from the buffer pool changes nothing; nor does *)
(* an insertion into a page that turns out to be full.                     *)
Refuse == Returns("refuse", << >>, Refused) /\ UNCHANGED table

(* Closing and opening the file keeps every record. *)
Reopen == Returns("open", << >>, Done) /\ UNCHANGED table

Next ==
  \/ \E d \in Record : Insert(d) \/ InsertUntold(d)
  \/ \E rid \in Arg, d \in Record : InsertAt(rid, d) \/ Update(rid, d)
  \/ \E rid \in Arg : Get(rid) \/ Delete(rid) \/ Miss(rid)
  \/ Refuse
  \/ Reopen

Spec == Init /\ [][Next]_tableVars
=============================================================================
