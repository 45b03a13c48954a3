---------------------------- MODULE MCCatalogue ----------------------------
(***************************************************************************)
(* Tables for TLC: the catalogue, under two statements at a time, the text *)
(* it is saved as, the layout of records, and the printing of results.     *)
(* They share no state; a behaviour is of one of them (part), and the      *)
(* others stay as they start.                                              *)
(***************************************************************************)
EXTENDS TableLayout, ResultPrinter, Catalogue

VARIABLES
  part,
  db, file, back, turn     \* DbMeta

metaVars == <<db, file, back, turn>>
vars == <<part, catalogueVars, metaVars, layoutVars, printerVars>>

-----------------------------------------------------------------------------
(* Column lists of which one is larger than a record may be. *)
SmallDefs == {<<1>>, <<1, 2>>, <<2, 2>>}

(* Its text: at most two tables, with at most two columns each and at most *)
(* two indexes over them.                                                  *)
Column(tab, name, off) ==
  [tab_name : {tab}, name : {name}, type : {0, 2}, len : {4}, offset : {off}, index : {0}]
ColumnLists(tab) ==
  {<<>>} \cup {<<a>> : a \in Column(tab, "k", 0)}
         \cup {<<a, b>> : a \in Column(tab, "k", 0), b \in Column(tab, "v", 4)}
IndexOver(tab, columns) ==
  [tab_name |-> tab, col_tot_len |-> 4 * Len(columns), col_num |-> Len(columns),
   cols |-> columns]
IndexLists(tab, columns) ==
  LET some == {IndexOver(tab, SubSeq(columns, i, Len(columns))) : i \in 1 .. Len(columns)}
  IN {<<>>} \cup {<<x>> : x \in some} \cup {<<x, y>> : x \in some, y \in some}
TablesNamed(tab) ==
  UNION {{[name |-> tab, cols |-> columns, indexes |-> ix] : ix \in IndexLists(tab, columns)}
           : columns \in ColumnLists(tab)}
TabLists ==
  {<<>>} \cup {<<a>> : a \in TablesNamed("a")}
         \cup {<<a, b>> : a \in TablesNamed("a"), b \in TablesNamed("b")}

Text == INSTANCE DbMeta WITH
  Catalogues <- [name : {"db"}, tabs : TabLists], at <- turn

(* Column lengths that add up to every kind of record size, and over it.   *)
ManyLens == {1, 2, 3, 4, 8, 37, 100, 255, 256, 511, 512, 513}

-----------------------------------------------------------------------------
(* A component that is not the one the behaviour is of.  A value of 0 is   *)
(* small to store.                                                         *)
IdleText == db = 0 /\ file = 0 /\ back = 0 /\ turn = "idle"
IdlePrinter == num_cols = 1 /\ ~counted

Init ==
  /\ part \in {"catalogue", "text", "layout", "printer"}
  /\ CatalogueInit
  /\ IF part = "text" THEN Text!Init ELSE IdleText
  /\ LayoutInit
  /\ PrinterInit /\ (part # "printer" => IdlePrinter)

Statements ==
  /\ part = "catalogue" /\ CatalogueNext
  /\ UNCHANGED <<part, metaVars, layoutVars, printerVars>>
Save ==
  /\ part = "text" /\ Text!Next
  /\ UNCHANGED <<part, catalogueVars, layoutVars, printerVars>>
LayOut ==
  /\ part = "layout" /\ LayoutNext
  /\ UNCHANGED <<part, catalogueVars, metaVars, printerVars>>
Output ==
  /\ part = "printer" /\ PrinterNext
  /\ UNCHANGED <<part, catalogueVars, metaVars, layoutVars>>

Next == Statements \/ Save \/ LayOut \/ Output

Spec == Init /\ [][Next]_vars

-----------------------------------------------------------------------------
(* The property of the component that is an instance; those of the others *)
(* are checked under their own names.                                     *)

(* DbMeta!ReadsBack: operator >> reads what operator << wrote. *)
ReadsBack == part = "text" => Text!ReadsBack
=============================================================================
