--------------------------- MODULE CsvNormalizer ---------------------------
(***************************************************************************)
(* csvnorm.py, CsvNormalizer.normalize: find the header of a CSV, infer    *)
(* the type of each column in a first pass over the rows, write converted  *)
(* rows to chunks of bounded size in a second one.                         *)
(* A cell is what its text looks like: a null token, an integer of 64 bits,*)
(* a number with a fraction, a time stamp, any other text.                 *)
(***************************************************************************)
EXTENDS UniqueNames, SequencesExt

CONSTANTS
  Source,           \* the files: lines before the header, header, rows
  HeaderScanLines,  \* HEADER_SCAN_LINES
  ChunkSize         \* chunk_bytes

Kind == {"null", "long", "real", "datetime", "text"}
Line == Seq(Kind)                  \* <<>> is a blank line
NarrowType == {"long", "real", "datetime"}
ColumnType == NarrowType \cup {"string"}

ASSUME NormalizerAssumption ==
  /\ \A f \in Source : /\ f.banner \in Seq(Line)
                       /\ f.header \in Seq([word : STRING, upper : BOOLEAN, number : Nat, tail : Seq(Nat)])
                       /\ f.rows \in Seq(Line)
  /\ HeaderScanLines \in Nat
  /\ ChunkSize \in Nat \ {0}

VARIABLES
  pc,          \* position in normalize()
  source,      \* the file
  headerAt,    \* the line taken for the header
  names,       \* the columns' names
  at,          \* the next line of the pass
  candidates,  \* types each column may still have
  sawValue,    \* the columns with a value that is not a null token
  types,       \* the columns' types
  chunks,      \* the rows of each chunk file
  size         \* of the last chunk

vars == <<pc, source, headerAt, names, at, candidates, sawValue, types, chunks, size>>

Lines == source.banner \o <<[i \in DOMAIN source.header |-> "text"]>> \o source.rows
TreeDepthAt == Len(source.banner) + 1
Width == Len(names)
Column == 1..Width

Init ==
  /\ source \in Source
  /\ pc = "open" /\ headerAt = 0 /\ names = <<>> /\ at = 0
  /\ candidates = <<>> /\ sawValue = <<>> /\ types = <<>> /\ chunks = <<>> /\ size = 0

(* Definitions named <definition>_<bug> are the mutated forms the properties  *)
(* are tested against; no behaviour of the specification uses them.          *)

-----------------------------------------------------------------------------
(* _find_header. *)

\* The lines looked at that are not blank.
Scanned == {i \in DOMAIN Lines : i <= HeaderScanLines /\ Lines[i] # <<>>}

NoHeader ==
  /\ pc = "open"
  /\ Scanned = {}
  /\ pc' = "nothing"
  /\ UNCHANGED <<source, headerAt, names, at, candidates, sawValue, types, chunks, size>>

\* The text of a cell that is no header.  Cells of a kind read alike, and of a
\* null token no character is left.
TextOf(kind) ==
  IF kind = "null" THEN Empty ELSE [word |-> kind, upper |-> FALSE, number |-> 0, tail |-> <<>>]

\* The texts of a line.
Texts(i) ==
  IF i = TreeDepthAt THEN source.header ELSE [c \in DOMAIN Lines[i] |-> TextOf(Lines[i][c])]

\* The line that begins with TreeDepth, or else the first one, maybe a banner.
HeaderFound ==
  /\ pc = "open"
  /\ Scanned # {}
  /\ headerAt' = IF TreeDepthAt \in Scanned THEN TreeDepthAt ELSE Min(Scanned)
  /\ names' = Columns(Texts(headerAt'))
  /\ candidates' = [c \in DOMAIN names' |-> NarrowType]
  /\ sawValue' = [c \in DOMAIN names' |-> FALSE]
  /\ at' = headerAt' + 1
  /\ pc' = "infer"
  /\ UNCHANGED <<source, types, chunks, size>>

-----------------------------------------------------------------------------
(* First pass: _ColumnTypeInferrer. *)

Accepts(type, value) ==
  \/ type = "string"
  \/ type = value
  \/ type = "real" /\ value = "long"

Narrowed_CountsNulls(possible, value) == {t \in possible : Accepts(t, value)}

\* observe: null tokens tell nothing.
Narrowed(possible, value) ==
  IF value = "null" THEN possible ELSE {t \in possible : Accepts(t, value)}

\* Cells beyond the last column are not observed, absent ones neither.
Infer ==
  /\ pc = "infer"
  /\ at <= Len(Lines)
  /\ LET row == Lines[at]
     IN /\ candidates' = [c \in Column |-> IF c \in DOMAIN row THEN Narrowed(candidates[c], row[c])
                                           ELSE candidates[c]]
        /\ sawValue' = [c \in Column |-> sawValue[c] \/ (c \in DOMAIN row /\ row[c] # "null")]
  /\ at' = at + 1
  /\ UNCHANGED <<pc, source, headerAt, names, types, chunks, size>>

Preferred(possible) ==
  CASE "long" \in possible -> "long"
    [] "long" \notin possible /\ "real" \in possible -> "real"
    [] possible = {"datetime"} -> "datetime"
    [] possible = {} -> "string"

Inferred_FromHeader ==
  /\ pc = "infer"
  /\ at > Len(Lines)
  /\ types' = [c \in Column |-> IF sawValue[c] THEN Preferred(candidates[c]) ELSE "string"]
  /\ at' = headerAt
  /\ pc' = "write"
  /\ UNCHANGED <<source, headerAt, names, candidates, sawValue, chunks, size>>

Inferred ==
  /\ pc = "infer"
  /\ at > Len(Lines)
  /\ types' = [c \in Column |-> IF sawValue[c] THEN Preferred(candidates[c]) ELSE "string"]
  /\ at' = headerAt + 1
  /\ pc' = "write"
  /\ UNCHANGED <<source, headerAt, names, candidates, sawValue, chunks, size>>

-----------------------------------------------------------------------------
(* Second pass: _convert and _ChunkWriter. *)

Converted_KeepsNulls(value, type) ==
  IF type = "datetime" /\ value = "datetime" THEN "iso" ELSE value

\* A string keeps its text; null tokens become empty, time stamps ISO 8601.
Converted(value, type) ==
  CASE type = "string" -> value
    [] type # "string" /\ value = "null" -> "empty"
    [] type = "datetime" /\ value # "null" -> "iso"
    [] type \in {"long", "real"} /\ value # "null" -> value

Row_Longer(row) ==
  [c \in Column \cup DOMAIN row |->
     CASE c > Len(row) -> "empty"
       [] c > Width -> row[c]
       [] OTHER -> Converted(row[c], types[c])]

\* Missing cells are empty text, and too many are joined into the last column.
Row(row) ==
  [c \in Column |->
     CASE c > Len(row) -> "empty"
       [] c = Width /\ Len(row) > Width -> "joined"
       [] OTHER -> Converted(row[c], types[c])]

\* The length of a written row: a separator each, and the cells that are not empty.
RowSize(row) == Len(row) + Cardinality({c \in DOMAIN row : row[c] # "empty"})

Full_Over(bytes) == bytes > ChunkSize

\* _rotate: a chunk takes rows until it has chunk_bytes.
Full(bytes) == bytes >= ChunkSize

Written(row) ==
  IF chunks = <<>> \/ Full(size)
  THEN /\ chunks' = Append(chunks, <<row>>)
       /\ size' = RowSize(row)
  ELSE /\ chunks' = [chunks EXCEPT ![Len(chunks)] = Append(@, row)]
       /\ size' = size + RowSize(row)

Write ==
  /\ pc = "write"
  /\ at <= Len(Lines)
  /\ IF Lines[at] = <<>> THEN UNCHANGED <<chunks, size>> ELSE Written(Row(Lines[at]))
  /\ at' = at + 1
  /\ UNCHANGED <<pc, source, headerAt, names, candidates, sawValue, types>>

\* A full disk: the writer is closed, nothing is returned.
WriteRaises ==
  /\ pc = "write"
  /\ at <= Len(Lines)
  /\ pc' = "raised"
  /\ UNCHANGED <<source, headerAt, names, at, candidates, sawValue, types, chunks, size>>

Normalized ==
  /\ pc = "write"
  /\ at > Len(Lines)
  /\ pc' = "normalized"
  /\ UNCHANGED <<source, headerAt, names, at, candidates, sawValue, types, chunks, size>>

Next == NoHeader \/ HeaderFound \/ Infer \/ Inferred \/ Write \/ WriteRaises \/ Normalized

Spec == Init /\ [][Next]_vars

-----------------------------------------------------------------------------
Cell == Kind \cup {"empty", "iso", "joined"}

TypeOK ==
  /\ Lines \in Seq(Line)
  /\ pc \in {"open", "nothing", "infer", "write", "normalized", "raised"}
  /\ headerAt \in 0..Len(Lines) /\ at \in 0..(Len(Lines) + 1)
  /\ pc \notin {"open", "nothing"} => headerAt > 0
  /\ candidates \in [Column -> SUBSET NarrowType]
  /\ sawValue \in [Column -> BOOLEAN]
  /\ types \in [DOMAIN types -> ColumnType]
  /\ pc \in {"write", "normalized", "raised"} => DOMAIN types = Column
  /\ chunks \in Seq(Seq([Column -> Cell])) /\ size \in Nat

\* The rows the file holds, and the values of a column that say something.
NotBlank(lines) ==
  FlattenSeq([i \in DOMAIN lines |-> IF lines[i] = <<>> THEN <<>> ELSE <<lines[i]>>])
DataRows == NotBlank(SubSeq(Lines, headerAt + 1, Len(Lines)))
Values(c) == {Lines[i][c] : i \in {j \in DOMAIN Lines : headerAt < j /\ c \in DOMAIN Lines[j]}} \ {"null"}

\* The types are those of the whole column, in whatever order its values come:
\* numbers with and without fractions are numbers, any other mixture is text.
TypesAreExact ==
  pc \in {"write", "normalized"} => \A c \in Column :
    /\ types[c] = "long" <=> Values(c) = {"long"}
    /\ types[c] = "real" <=> Values(c) \in {{"real"}, {"long", "real"}}
    /\ types[c] = "datetime" <=> Values(c) = {"datetime"}

\* What a column of each type can hold; anything else is null once ingested.
Storable ==
  [string |-> Cell, long |-> {"long", "empty"}, real |-> {"long", "real", "empty"},
   datetime |-> {"iso", "empty"}]

Stored(row, c) == row[c] \in Storable[types[c]]

\* No value is written to a column whose type cannot hold it, except where the
\* cells beyond the last column were joined into it.
CellsFitTheirColumn ==
  \A k \in DOMAIN chunks : \A i \in DOMAIN chunks[k], c \in Column :
    chunks[k][i][c] # "joined" => Stored(chunks[k][i], c)

\* "ragged row: keep the overflow in the last column rather than dropping it"
OverflowKept ==
  \A k \in DOMAIN chunks : \A i \in DOMAIN chunks[k] :
    chunks[k][i][Width] = "joined" => Stored(chunks[k][i], Width)

\* "a changed column order can never shift data into the wrong column": the
\* chunks hold the file's rows in order, as many cells each as there are
\* columns, and every value under its own header.
NothingLostOrShifted ==
  pc = "normalized" =>
    LET written == FlattenSeq(chunks)
    IN /\ Len(written) = Len(DataRows)
       /\ \A i \in DOMAIN written :
            /\ Len(written[i]) = Width
            /\ \A c \in Column \cap DOMAIN DataRows[i] :
                 \/ DataRows[i][c] = "null"
                 \/ DataRows[i][c] = "datetime" /\ written[i][c] = "iso"
                 \/ written[i][c] \in {DataRows[i][c], "joined"}

Bytes(chunk) == FoldLeft(+, 0, [i \in DOMAIN chunk |-> RowSize(chunk[i])])

\* A chunk is over its bound by less than its last row, and only the last
\* chunk is below it; none is empty.
ChunksBounded ==
  \A k \in DOMAIN chunks :
    /\ chunks[k] # <<>>
    /\ Bytes(Front(chunks[k])) < ChunkSize
    /\ k < Len(chunks) => Bytes(chunks[k]) >= ChunkSize

\* One of two headers is the other with a number behind it that counting could
\* have put there: name, name_2.
Numbers(keys, i, j) ==
  \E k \in 2..Len(keys) : keys[i] = Tagged(keys[j], k) \/ keys[j] = Tagged(keys[i], k)

\* The columns' names are distinct even without case, by which ADX and the
\* analysts' queries tell them apart: headers that differ in case, are repeated,
\* empty or called like a position get names of their own.  Two columns may
\* share a name only where one header is the other with a number behind it.
ColumnsDistinct ==
  \A i, j \in DOMAIN names : i # j =>
    \/ names[i].word # names[j].word
    \/ names[i].number # names[j].number
    \/ names[i].tail # names[j].tail
    \/ Numbers(Keys(Texts(headerAt)), i, j)
=============================================================================
