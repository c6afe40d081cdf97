----------------------------- MODULE MCAdxSink -----------------------------
(***************************************************************************)
(* Two openings of one image name, the first of which finds the name free  *)
(* or taken; two CSVs of one table that disagree on the type of a column,  *)
(* and one without rows of another table.                                  *)
(***************************************************************************)
EXTENDS AdxSink

Typed(name, type) == [name |-> name, type |-> type]

MCCsv ==
  {[table |-> "printkey", columns |-> {Typed("Key", "string"), Typed("Value", "long")}, rows |-> TRUE],
   [table |-> "printkey", columns |-> {Typed("Value", "string")}, rows |-> TRUE],
   [table |-> "empty", columns |-> {Typed("Key", "string")}, rows |-> FALSE]}
=============================================================================
