----------------------------- MODULE RecordScan -----------------------------
(***************************************************************************)
(* RmScan (src/record/rm_scan.cpp) over a table file that is written       *)
(* between one next() and another, as executors do that scan a table and   *)
(* change it.  next() reads the header afresh on every call.               *)
(***************************************************************************)
EXTENDS RecordFile

VARIABLES
  rid_,    \* RmScan::rid_
  seen,    \* the records this scan has stopped at
  stayed   \* the records there when it started and never deleted since

scanVars == <<rid_, seen, stayed>>

(* rid_ at the end, and before the first record. *)
End == [page_no |-> RM_NO_PAGE, slot_no |-> -1]
Start == [page_no |-> 1, slot_no |-> -1]

(* One round of the loop of next(), on page n of a scan that is at pos:    *)
(* where it resumes in the page, and the slot it finds.                    *)
FoundSkipFirst(pos, n) ==
  NextBit(TRUE, pages[n].bitmap, IF n = pos.page_no THEN pos.slot_no ELSE 0)

Found(pos, n) ==
  NextBit(TRUE, pages[n].bitmap, IF n = pos.page_no THEN pos.slot_no ELSE -1)

(* The pages the loop comes to, up to the first where it finds a record.   *)
Visited(pos) ==
  {n \in DataPage :
     /\ pos.page_no <= n /\ n < num_pages
     /\ \A m \in DataPage : pos.page_no <= m /\ m < n => Found(pos, m) = NumRecords}

(* Where next() leaves rid_: at the first record after pos, or the end. *)
After(pos) ==
  LET hits == {n \in Visited(pos) : Found(pos, n) < NumRecords} IN
    IF hits = {} THEN End
    ELSE LET n == CHOOSE n \in hits : TRUE IN [page_no |-> n, slot_no |-> Found(pos, n)]

Stop(rid) == IF rid = End THEN {} ELSE {rid}

(* The constructor calls next() itself. *)
StartScan ==
  /\ opened /\ rid_ = End
  /\ rid_' = After(Start)
  /\ seen' = Stop(rid_')
  /\ stayed' = DOMAIN Records
  /\ UNCHANGED recordVars

NextStep ==
  /\ opened /\ rid_ # End
  /\ rid_' = After(rid_)
  /\ seen' = seen \union Stop(rid_')
  /\ UNCHANGED <<stayed, recordVars>>

(* next() throws when the buffer pool does not give it a page: rid_ has    *)
(* come as far as the start of that page.                                  *)
NextThrows ==
  /\ opened /\ rid_ # End
  /\ \E n \in Visited(rid_) \ {rid_.page_no} : rid_' = [page_no |-> n, slot_no |-> -1]
  /\ UNCHANGED <<seen, stayed, recordVars>>

(* The table changes under the scan. *)
Change ==
  /\ \/ Insert
     \/ \E rid \in Arg, d \in Record : InsertAt(rid, d)
     \/ \E rid \in Arg : DeleteRecord(rid)
  /\ stayed' = stayed \intersect (DOMAIN Records)'
  /\ UNCHANGED <<rid_, seen>>

ScanInit == RecordInit /\ rid_ = End /\ seen = {} /\ stayed = {}

ScanNext == StartScan \/ NextStep \/ NextThrows \/ Change

ScanSpec == ScanInit /\ [][ScanNext]_<<scanVars, recordVars>>

-----------------------------------------------------------------------------
(* A position the scan has gone past. *)
Behind(rid) ==
  \/ rid_ = End
  \/ rid.page_no < rid_.page_no
  \/ rid.page_no = rid_.page_no /\ rid.slot_no <= rid_.slot_no

(* A scan misses no record that is in the table from its start to its end, *)
(* whatever is inserted and deleted meanwhile and whichever calls of       *)
(* next() throw: behind rid_ the scan has stopped at all of them.          *)
ScanMissesNothing == \A rid \in stayed : Behind(rid) => rid \in seen
=============================================================================
