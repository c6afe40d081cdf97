-------------------------- MODULE MCCsvNormalizer --------------------------
(***************************************************************************)
(* Small files for TLC: every file of two rows under a header of two       *)
(* columns, with cells missing and cells too many; three rows of fewer     *)
(* kinds; lines before the header, as many as are looked at and more; and  *)
(* headers of up to four names, repeated, in mixed case, empty, called     *)
(* like a position, and with a number that counting gives too.             *)
(***************************************************************************)
EXTENDS CsvNormalizer

Word(w, u) == [word |-> w, upper |-> u, number |-> 0, tail |-> <<>>]
File(banner, header, rows) == [banner |-> banner, header |-> header, rows |-> rows]

UpTo(n, S) == UNION {[1..m -> S] : m \in 0..n}

Header == <<Word("treedepth", FALSE), Word("pid", TRUE)>>
name == Word("name", FALSE)
Name == Word("name", TRUE)
name_2 == Tagged(name, 2)
Column3 == Called(Empty, 3)
Headers == {<<Word("treedepth", FALSE)>> \o h :
              h \in UpTo(3, {Empty, name, Name, name_2, Tagged(Name, 3), Column3, Word("pid", FALSE)})}

\* Why ColumnsDistinct leaves such pairs out: naming.py promises "unique ADX
\* column names", and gives the headers name, name, name_2, in either order, the
\* name name_2 twice.
ASSUME NumberedHeadersClash ==
  /\ Columns(<<name, name, name_2>>) = <<name, name_2, name_2>>
  /\ Columns(<<name_2, name, name>>) = <<name_2, name, name_2>>

Rows == UpTo(2, Kind) \cup {Append(row, "long") : row \in [1..2 -> Kind]}
TwoRows == {File(<<>>, Header, rows) : rows \in UpTo(2, Rows)}
ThreeRows == {File(<<>>, Header, rows) : rows \in [1..3 -> [1..2 -> {"null", "long", "text"}]]}
Prefaced == {File(banner, Header, rows) : banner \in UpTo(2, {<<>>, <<"text">>, <<"text", "null", "text">>}),
                                          rows \in UpTo(2, {<<>>, <<"long", "text">>})}
Named == {File(<<>>, header, <<>>) : header \in Headers}

MCSource == TwoRows \cup ThreeRows \cup Prefaced \cup Named \cup {File(<<>>, <<>>, <<>>)}

Ragged == {File(<<>>, Header, <<row>>) : row \in UpTo(3, Kind)}
=============================================================================
