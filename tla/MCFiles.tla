------------------------------ MODULE MCFiles -------------------------------
(***************************************************************************)
(* What lies below tables and indexes, for TLC: the replacer, the disk     *)
(* manager, its system calls, its log file, the pool across open and close *)
(* of files, threads that insert records at once, the bytes of a page of   *)
(* records, and the pages and scans of an index.                           *)
(*                                                                         *)
(* The parts do not touch each other's state.  A behaviour runs one of     *)
(* them, `part`, and the others stay as they are, so one state graph holds *)
(* the graph of every part, side by side.                                  *)
(***************************************************************************)
EXTENDS LRUReplacer, DiskManager, DiskOffset, PoolFiles, RecordThreads, RecordPage,
        LogRecords, IndexTree, IndexScan, TLC

VARIABLE part

-----------------------------------------------------------------------------
(* A tree of three levels: root 2, inner nodes 3 and 4, leaves 5 to 7. *)
NoPage == -1
LeafNode(parent, prev, next, keys) ==
  [is_leaf |-> TRUE, parent |-> parent, prev |-> prev, next |-> next,
   keys |-> keys, vals |-> << >>]
InnerNode(parent, keys, vals) ==
  [is_leaf |-> FALSE, parent |-> parent, prev |-> NoPage, next |-> NoPage,
   keys |-> keys, vals |-> vals]
ThreeLevels ==
  1 :> LeafNode(NoPage, 7, 5, << >>) @@
  2 :> InnerNode(NoPage, <<2, 5>>, <<3, 4>>) @@
  3 :> InnerNode(2, <<2, 3>>, <<5, 6>>) @@
  4 :> InnerNode(2, <<5>>, <<7>>) @@
  5 :> LeafNode(3, 1, 6, <<2>>) @@
  6 :> LeafNode(3, 5, 7, <<3>>) @@
  7 :> LeafNode(4, 6, 1, <<5>>)

(* Up to four leaves of up to three entries; only a single leaf, which is  *)
(* the root, may be empty.                                                 *)
SmallIndexes == { <<0>> } \union UNION { [1..n -> 1..3] : n \in 1..4 }

-----------------------------------------------------------------------------
vars == <<part, lruVars, diskVars, offsetVars, poolFilesVars, insertVars, recordPageVars, logVars,
          treeVars, leafScanVars>>

(* While another part runs, the log has no memory. *)
IdleLog ==
  /\ buffer = << >> /\ offset_ = 0 /\ file = << >> /\ log = << >> /\ starts = << >>
  /\ flushed = 0 /\ whole = 0 /\ faults = 0

Init ==
  /\ part \in {"replacer", "disk", "calls", "reopened", "inserts", "bytes", "log",
              "tree", "scan"}
  /\ LRUInit /\ DiskInit /\ OffsetInit /\ PoolFilesInit /\ InsertInit
  /\ RecordPageInit /\ (part # "bytes" => slot_size = RM_MAX_RECORD_SIZE)
  /\ TreeInit /\ LeafScanInit /\ (part # "scan" => sizes = <<0>>)
  /\ IF part = "log" THEN LogInit ELSE IdleLog

Replace ==
  /\ part = "replacer"
  /\ LRUNext
  /\ UNCHANGED <<part, diskVars, offsetVars, poolFilesVars, insertVars, recordPageVars, logVars,
                 treeVars, leafScanVars>>

Manage ==
  /\ part = "disk"
  /\ DiskNext
  /\ UNCHANGED <<part, lruVars, offsetVars, poolFilesVars, insertVars, recordPageVars, logVars,
                 treeVars, leafScanVars>>

MovePages ==
  /\ part = "calls"
  /\ OffsetNext
  /\ UNCHANGED <<part, lruVars, diskVars, poolFilesVars, insertVars, recordPageVars, logVars,
                 treeVars, leafScanVars>>

Reopen ==
  /\ part = "reopened"
  /\ PoolFilesNext
  /\ UNCHANGED <<part, lruVars, diskVars, offsetVars, insertVars, recordPageVars, logVars,
                 treeVars, leafScanVars>>

InsertRecords ==
  /\ part = "inserts"
  /\ InsertNext
  /\ UNCHANGED <<part, lruVars, diskVars, offsetVars, poolFilesVars, recordPageVars, logVars,
                 treeVars, leafScanVars>>

FillPage ==
  /\ part = "bytes"
  /\ RecordPageNext
  /\ UNCHANGED <<part, lruVars, diskVars, offsetVars, poolFilesVars, insertVars, logVars,
                 treeVars, leafScanVars>>

AppendLog ==
  /\ part = "log"
  /\ LogNext
  /\ UNCHANGED <<part, lruVars, diskVars, offsetVars, poolFilesVars, insertVars,
                 recordPageVars, treeVars, leafScanVars>>

Repair ==
  /\ part = "tree"
  /\ TreeNext
  /\ UNCHANGED <<part, lruVars, diskVars, offsetVars, poolFilesVars, insertVars, recordPageVars, logVars,
                 leafScanVars>>

Walk ==
  /\ part = "scan"
  /\ LeafScanNext
  /\ UNCHANGED <<part, lruVars, diskVars, offsetVars, poolFilesVars, insertVars, recordPageVars, logVars,
                 treeVars>>

Next ==
  \/ Replace \/ Manage \/ MovePages \/ Reopen \/ InsertRecords \/ FillPage
  \/ AppendLog \/ Repair \/ Walk

Spec == Init /\ [][Next]_vars
=============================================================================
