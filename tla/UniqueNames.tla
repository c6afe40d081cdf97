---------------------------- MODULE UniqueNames ----------------------------
(***************************************************************************)
(* The two places that make the names of a list unique by counting: the    *)
(* columns of a CSV (naming.py, Identifiers.columns) and the printkey      *)
(* tables of a hive list (tasks.py, HiveListTask.followups).               *)
(* A name is what the character filters leave of a header or a path:       *)
(* [word, upper, number, tail], its letters without case, whether they are *)
(* capitals, the position it is called after (0 for none), and the numbers *)
(* behind it, which a header may bring along.  The prefix of a name that   *)
(* begins with a digit belongs to the word.                                *)
(***************************************************************************)
EXTENDS Integers, Sequences, FiniteSets

\* A header nothing is left of.
Empty == [word |-> "", upper |-> FALSE, number |-> 0, tail |-> <<>>]

\* How often the i-th key was seen before.
Seen(keys, i) == Cardinality({j \in DOMAIN keys : j < i /\ keys[j] = keys[i]})

(* Definitions named <definition>_<bug> are the mutated forms the properties  *)
(* are tested against; no behaviour of the specifications uses them.         *)

\* name_k
Tagged(name, k) == [name EXCEPT !.tail = Append(@, k)]

\* The first of its kind keeps its name, the n-th gets the number n.
Numbered(name, count) == IF count = 0 THEN name ELSE Tagged(name, count + 1)

Unique(names, keys) == [i \in DOMAIN names |-> Numbered(names[i], Seen(keys, i))]

Lower_KeepsCase(name) == name

Lower(name) == [name EXCEPT !.upper = FALSE]

\* An empty header is called after its position: Column1, Column2, ...
Called(header, i) ==
  IF header = Empty
  THEN [word |-> "column", upper |-> FALSE, number |-> i, tail |-> <<>>]
  ELSE header

\* What the headers are counted as.
Keys(headers) == [i \in DOMAIN headers |-> Lower(Called(headers[i], i))]

\* Columns are counted without case and keep theirs.
Columns(headers) == Unique([i \in DOMAIN headers |-> Called(headers[i], i)], Keys(headers))

\* The suffixes of the rows of a hive list that have an offset.
HiveTables(suffixes) == Unique(suffixes, suffixes)
=============================================================================
