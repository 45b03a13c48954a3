----------------------------- MODULE MCRecords ------------------------------
(***************************************************************************)
(* Files of tables and of indexes for TLC: the record file alone and under *)
(* a scan; an index file opened and closed again and again, and one on     *)
(* columns of many lengths.  A behaviour is of one of them (part).         *)
(***************************************************************************)
EXTENDS RecordScan, IndexFile, TLC

VARIABLE part      \* which of them this is

(* Index files: one file opened, grown, closed and destroyed again and     *)
(* again, and the process stopped once; and an index on columns of many    *)
(* lengths, up to the longest and past it.                                 *)
SomeColumns ==
  { << Column(0, 4) >>, << Column(0, 4), Column(2, 20) >>, << Column(2, 513) >> }
ManyLengths == { << Column(2, n) >> :
  n \in (1..12) \union {50, 64, 100, 127, 128, 204, 255, 256, 331, 400} \union (500..514) }
MCColumns == SomeColumns \union ManyLengths

(* Every place the file can have, those of pages it does not have yet      *)
(* among them, the header page, and slot numbers just out of range.        *)
MCArg == Rid \union {[page_no |-> 0, slot_no |-> 0], [page_no |-> 1, slot_no |-> -1],
                     [page_no |-> 1, slot_no |-> NumRecords]}

(* No definition tells one record's contents from another's. *)
Symmetry == Permutations(Record)

(* What the last call returned is part of the step that ImplementsTable    *)
(* is about and has no bearing on later ones: states that differ in it     *)
(* only are the same.                                                      *)
View == <<part, num_pages, first_free_page_no, hdr, opened, next_pageno, pages,
          scanVars, indexFileVars>>

(* A scan reads the bitmaps and not the records: under it all records of   *)
(* the file have the same contents.                                        *)
OneContents ==
  \E d \in Record : \A n \in DataPage, s \in Slot : pages[n].slots[s] \in {d, NoRecord}

Calls == part = "calls" /\ RecordNext /\ UNCHANGED <<part, scanVars, indexFileVars>>
Scanned == part = "scan" /\ ScanNext /\ OneContents' /\ UNCHANGED <<part, indexFileVars>>

(* The index in progress, if there is one, is on one of these columns. *)
CreatingOn(columns) == creating # Idle => creating.cols \in columns

Live ==
  /\ part = "index" /\ IndexNext /\ CreatingOn(SomeColumns)'
  /\ UNCHANGED <<part, scanVars, recordVars>>
Measure ==
  /\ part = "lengths" /\ IndexNext /\ CreatingOn(ManyLengths)'
  /\ created' <= 1 /\ crashes' = 0
  /\ UNCHANGED <<part, scanVars, recordVars>>

vars == <<part, recordVars, scanVars, indexFileVars>>

Init ==
  /\ part \in {"calls", "scan", "index", "lengths"}
  /\ ScanInit /\ IndexInit

Next == Calls \/ Scanned \/ Live \/ Measure

Spec == Init /\ [][Next]_vars
=============================================================================
