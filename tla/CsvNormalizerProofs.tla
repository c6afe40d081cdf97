------------------------ MODULE CsvNormalizerProofs ------------------------
(***************************************************************************)
(* Theorems about CsvNormalizer, for files of any length and width and any *)
(* chunk size.                                                             *)
(***************************************************************************)
EXTENDS CsvNormalizer, SequenceFacts, FiniteSetTheorems, TLAPS

(* The inductive invariant, in named parts. *)

\* What each position in normalize() knows.
Position ==
  /\ source \in Source
  /\ Width \in Nat /\ DOMAIN names = Column
  /\ pc \in {"infer", "write"} => at > headerAt
  /\ pc \in {"open", "nothing", "infer"} => chunks = <<>>

\* A value that is no null token, read as a value of this type.
Fits(value, type) == value = "null" \/ Accepts(type, value)

\* The candidates that are left accept every value seen so far.
Observed ==
  pc = "infer" =>
    \A i \in DOMAIN Lines : headerAt < i /\ i < at =>
      \A c \in Column \cap DOMAIN Lines[i] :
        /\ Lines[i][c] = "null" \/ sawValue[c]
        /\ \A type \in candidates[c] : Fits(Lines[i][c], type)

\* The types accept every value of the file.
Settled ==
  pc \in {"write", "normalized", "raised"} =>
    \A i \in DOMAIN Lines : headerAt < i =>
      \A c \in Column \cap DOMAIN Lines[i] : Fits(Lines[i][c], types[c])

Inv == TypeOK /\ Position /\ Observed /\ Settled /\ CellsFitTheirColumn

-----------------------------------------------------------------------------

\* The lines of a file, the header among them.
LEMMA LinesType ==
  ASSUME source \in Source
  PROVE  /\ Lines \in Seq(Line) /\ Len(Lines) \in Nat /\ DOMAIN Lines = 1..Len(Lines)
         /\ TreeDepthAt \in DOMAIN Lines
         /\ \A i \in DOMAIN Lines : Lines[i] \in Seq(Kind)
<1>1. source.banner \in Seq(Line) /\ source.rows \in Seq(Line)
  BY NormalizerAssumption DEF NormalizerAssumption
<1>2. DOMAIN source.header = 1..Len(source.header) /\ Len(source.header) \in Nat
  BY NormalizerAssumption, LenProperties DEF NormalizerAssumption
<1> DEFINE header == [i \in DOMAIN source.header |-> "text"]
<1>3. header \in Seq(Kind)
  BY <1>2, SeqDef DEF Kind
<1>4. header \in Line
  BY <1>3 DEF Line
<1> HIDE DEF header
<1>5. <<header>> \in Seq(Line) /\ Len(<<header>>) = 1
  BY <1>4
<1>6. /\ source.banner \o <<header>> \in Seq(Line)
      /\ Len(source.banner \o <<header>>) = Len(source.banner) + 1
  BY <1>1, <1>5, ConcatProperties
<1>7. Lines = source.banner \o <<header>> \o source.rows
  BY DEF Lines, header
<1>8. Lines \in Seq(Line) /\ Len(Lines) = Len(source.banner) + 1 + Len(source.rows)
  BY <1>1, <1>6, <1>7, ConcatProperties
<1>9. Len(Lines) \in Nat /\ DOMAIN Lines = 1..Len(Lines)
  BY <1>8, LenProperties
<1>10. TreeDepthAt \in DOMAIN Lines
  <2>1. Len(source.banner) \in Nat /\ Len(source.rows) \in Nat
    BY <1>1, LenProperties
  <2>2. TreeDepthAt \in 1..Len(Lines)
    <3> HIDE DEF Lines
    <3>1. Len(Lines) = TreeDepthAt + Len(source.rows)
      BY <1>8 DEF TreeDepthAt
    <3>2. TreeDepthAt \in Nat \ {0}
      BY <2>1 DEF TreeDepthAt
    <3>3. QED
      BY <2>1, <3>1, <3>2
  <2>3. QED
    BY <2>2, <1>9
<1>11. \A i \in DOMAIN Lines : Lines[i] \in Seq(Kind)
  BY <1>8, <1>9, ElementOfSeq DEF Line
<1>12. QED
  BY <1>8, <1>9, <1>10, <1>11

\* Every row of the chunks after is the row r or in its place among those before.
Adds(r, cs, after) ==
  \A k \in DOMAIN after : \A i \in DOMAIN after[k] :
    \/ k \in DOMAIN cs /\ i \in DOMAIN cs[k] /\ after[k][i] = cs[k][i]
    \/ after[k][i] = r

\* A row added to the last chunk, or to a chunk of its own, disturbs no other.
LEMMA RowAppended ==
  ASSUME NEW R, NEW cs \in Seq(Seq(R)), NEW r \in R, NEW after,
         \/ after = Append(cs, <<r>>)
         \/ cs # <<>> /\ after = [cs EXCEPT ![Len(cs)] = Append(@, r)]
  PROVE  after \in Seq(Seq(R)) /\ Adds(r, cs, after)
<1>0. Len(cs) \in Nat /\ DOMAIN cs = 1..Len(cs)
  BY LenProperties
<1>1. CASE after = Append(cs, <<r>>)
  <2>1. <<r>> \in Seq(R) /\ Len(<<r>>) = 1 /\ <<r>>[1] = r /\ DOMAIN <<r>> = 1..1
    OBVIOUS
  <2>2. /\ after \in Seq(Seq(R)) /\ Len(after) = Len(cs) + 1
        /\ \A k \in 1..Len(cs) : after[k] = cs[k]
        /\ after[Len(cs) + 1] = <<r>>
    BY <1>1, <2>1, AppendProperties
  <2>3. DOMAIN after = 1..(Len(cs) + 1)
    BY <2>2, LenProperties
  <2>4. ASSUME NEW k \in DOMAIN after, NEW i \in DOMAIN after[k]
        PROVE  \/ k \in DOMAIN cs /\ i \in DOMAIN cs[k] /\ after[k][i] = cs[k][i]
               \/ after[k][i] = r
    <3>1. CASE k \in 1..Len(cs)
      BY <1>0, <2>2, <2>4, <3>1
    <3>2. CASE k = Len(cs) + 1
      <4>1. after[k] = <<r>>
        BY <2>2, <3>2
      <4>2. i = 1
        BY <2>1, <2>4, <4>1
      <4>3. QED
        BY <2>1, <4>1, <4>2
    <3>3. k \in 1..(Len(cs) + 1)
      BY <2>3, <2>4
    <3>4. k \in 1..Len(cs) \/ k = Len(cs) + 1
      BY ONLY <3>3, <1>0
    <3>5. QED
      BY <3>1, <3>2, <3>4
  <2>5. QED
    BY <2>2, <2>4 DEF Adds
<1>2. CASE cs # <<>> /\ after = [cs EXCEPT ![Len(cs)] = Append(@, r)]
  <2> DEFINE last == cs[Len(cs)]
             longer == Append(last, r)
  <2>0. Len(cs) # 0
    BY <1>2, EmptySeq, Zenon
  <2>1. Len(cs) \in 1..Len(cs)
    BY <1>0, <2>0
  <2>2. last \in Seq(R)
    BY <2>1, ElementOfSeq
  <2>3. Len(last) \in Nat /\ DOMAIN last = 1..Len(last)
    BY <2>2, LenProperties
  <2>4. /\ longer \in Seq(R) /\ Len(longer) = Len(last) + 1
        /\ \A i \in 1..Len(last) : longer[i] = last[i]
        /\ longer[Len(last) + 1] = r
    BY <2>2, AppendProperties
  <2>5. DOMAIN longer = 1..(Len(last) + 1)
    BY <2>4, LenProperties
  <2>6. after = [cs EXCEPT ![Len(cs)] = longer]
    BY <1>2
  <2> HIDE DEF longer, last
  <2>7. /\ after \in Seq(Seq(R)) /\ Len(after) = Len(cs)
        /\ \A k \in 1..Len(cs) : after[k] = IF k = Len(cs) THEN longer ELSE cs[k]
    BY <2>1, <2>4, <2>6, ExceptSeq
  <2>8. DOMAIN after = 1..Len(cs)
    BY <2>7, LenProperties
  <2>9. ASSUME NEW k \in DOMAIN after, NEW i \in DOMAIN after[k]
        PROVE  \/ k \in DOMAIN cs /\ i \in DOMAIN cs[k] /\ after[k][i] = cs[k][i]
               \/ after[k][i] = r
    <3>1. CASE k # Len(cs)
      BY <1>0, <2>7, <2>8, <2>9, <3>1
    <3>2. CASE k = Len(cs)
      <4>1. after[k] = longer /\ cs[k] = last
        BY <2>1, <2>7, <3>2 DEF last
      <4>2. i \in 1..Len(last) \/ i = Len(last) + 1
        BY <2>3, <2>5, <2>9, <4>1
      <4>3. QED
        BY <1>0, <2>1, <2>3, <2>4, <3>2, <4>1, <4>2
    <3>3. QED
      BY <3>1, <3>2
  <2>10. QED
    BY <2>7, <2>9 DEF Adds
<1>3. QED
  BY <1>1, <1>2

Word == STRING \cup Kind \cup {"column", ""}
Header == [word : Word, upper : BOOLEAN, number : Nat, tail : Seq(Nat)]

\* The line taken for the header is a list of texts, of a banner too.
LEMMA TextsType ==
  ASSUME source \in Source, NEW line \in DOMAIN Lines
  PROVE  \E n \in Nat : Texts(line) \in [1..n -> Header]
<1>1. CASE line = TreeDepthAt
  <2> DEFINE Raw == [word : STRING, upper : BOOLEAN, number : Nat, tail : Seq(Nat)]
  <2>1. source.header \in Seq(Raw)
    BY NormalizerAssumption DEF NormalizerAssumption
  <2>2. Raw \subseteq Header
    BY DEF Header, Word
  <2> HIDE DEF Raw
  <2>3. PICK n \in Nat : source.header \in [1..n -> Raw]
    BY <2>1, SeqDef
  <2>4. source.header \in [1..n -> Header]
    BY <2>2, <2>3
  <2>5. QED
    BY <1>1, <2>4 DEF Texts
<1>2. CASE line # TreeDepthAt
  <2>1. Lines[line] \in Seq(Kind)
    BY LinesType
  <2>2. PICK n \in Nat : Lines[line] \in [1..n -> Kind]
    BY <2>1, SeqDef
  <2>3. <<>> \in Seq(Nat) /\ "" \in Word /\ Kind \subseteq Word
    BY EmptySeq DEF Word
  <2>4. \A kind \in Kind : TextOf(kind) \in Header
    <3>1. Empty \in Header
      BY <2>3 DEF Empty, Header
    <3>2. \A kind \in Kind : [word |-> kind, upper |-> FALSE, number |-> 0, tail |-> <<>>] \in Header
      BY <2>3 DEF Header
    <3>3. QED
      BY <3>1, <3>2 DEF TextOf
  <2>5. Texts(line) = [c \in 1..n |-> TextOf(Lines[line][c])]
    BY <1>2, <2>2 DEF Texts
  <2>6. Texts(line) \in [1..n -> Header]
    BY <2>2, <2>4, <2>5
  <2>7. QED
    BY <2>6
<1>3. QED
  BY <1>1, <1>2

\* As many names come out as headers go in.
LEMMA ColumnsDomain ==
  ASSUME NEW headers, NEW n \in Nat, DOMAIN headers = 1..n
  PROVE  Len(Columns(headers)) = n /\ DOMAIN Columns(headers) = 1..n
<1> DEFINE names_ == Columns(headers)
           S == {names_[i] : i \in 1..n}
<1>1. DOMAIN names_ = 1..n
  BY DEF Columns, Unique
<1>2. names_ = [i \in 1..n |-> names_[i]]
  BY <1>1 DEF Columns, Unique
<1> HIDE DEF names_
<1>3. names_ \in [1..n -> S]
  BY <1>2
<1>4. names_ \in Seq(S)
  BY <1>3, SeqDef
<1>5. Len(names_) \in Nat /\ DOMAIN names_ = 1..Len(names_)
  BY <1>4, LenProperties
<1>6. Len(names_) = n
  BY <1>1, <1>5
<1>7. QED
  BY <1>1, <1>6 DEF names_

\* What a column of each type can hold.
LEMMA StorableValues ==
  /\ Storable["string"] = Cell /\ Storable["long"] = {"long", "empty"}
  /\ Storable["real"] = {"long", "real", "empty"} /\ Storable["datetime"] = {"iso", "empty"}
  BY DEF Storable

\* A value the column's type accepts is written as one it can hold.
LEMMA ConvertedFits ==
  ASSUME NEW value \in Kind, NEW type \in ColumnType, Fits(value, type)
  PROVE  Converted(value, type) \in Cell /\ Converted(value, type) \in Storable[type]
<1>1. CASE type = "string"
  BY <1>1, StorableValues DEF Converted, Cell
<1>2. CASE type # "string" /\ value = "null"
  BY <1>2, StorableValues DEF Converted, Cell, ColumnType, NarrowType
<1>3. CASE type = "long" /\ value # "null"
  BY <1>3, StorableValues DEF Converted, Fits, Accepts, Cell
<1>4. CASE type = "real" /\ value # "null"
  BY <1>4, StorableValues DEF Converted, Fits, Accepts, Cell
<1>5. CASE type = "datetime" /\ value # "null"
  BY <1>5, StorableValues DEF Converted, Fits, Accepts, Cell
<1>6. QED
  BY <1>1, <1>2, <1>3, <1>4, <1>5 DEF ColumnType, NarrowType

\* So a row whose values the types accept is written without a misfit.
LEMMA RowFits ==
  ASSUME Width \in Nat, types \in [Column -> ColumnType], NEW row \in Seq(Kind),
         \A c \in Column \cap DOMAIN row : Fits(row[c], types[c])
  PROVE  /\ Row(row) \in [Column -> Cell]
         /\ \A c \in Column : Row(row)[c] # "joined" => Stored(Row(row), c)
<1>1. Len(row) \in Nat /\ DOMAIN row = 1..Len(row)
  BY LenProperties
<1>2. ASSUME NEW c \in Column
      PROVE  Row(row)[c] \in Cell /\ (Row(row)[c] # "joined" => Row(row)[c] \in Storable[types[c]])
  <2>0. types[c] \in ColumnType /\ c \in Nat /\ c >= 1
    BY DEF Column
  <2>1. CASE c > Len(row)
    <3>1. Row(row)[c] = "empty"
      BY <2>1 DEF Row
    <3>2. QED
      BY <3>1, <2>0, StorableValues DEF Cell, ColumnType, NarrowType
  <2>2. CASE c <= Len(row) /\ c = Width /\ Len(row) > Width
    <3>1. Row(row)[c] = "joined"
      BY <2>2, <1>1, <2>0 DEF Row
    <3>2. QED
      BY <3>1 DEF Cell
  <2>3. CASE c <= Len(row) /\ ~(c = Width /\ Len(row) > Width)
    <3>1. Row(row)[c] = Converted(row[c], types[c])
      BY <2>3, <1>1, <2>0 DEF Row
    <3>2. row[c] \in Kind /\ Fits(row[c], types[c])
      BY <2>3, <1>1, <2>0, ElementOfSeq
    <3>3. QED
      BY <2>0, <3>1, <3>2, ConvertedFits
  <2>4. QED
    BY <2>1, <2>2, <2>3, <1>1, <2>0
<1>3. Row(row) \in [Column -> Cell]
  BY <1>2 DEF Row
<1>4. QED
  BY <1>2, <1>3 DEF Stored

\* The size of a row is a number.
LEMMA RowSizeType ==
  ASSUME Width \in Nat, NEW row \in [Column -> Cell]
  PROVE  RowSize(row) \in Nat
<1>1. row \in Seq(Cell)
  BY SeqDef DEF Column
<1>2. Len(row) \in Nat
  BY <1>1, LenProperties
<1>3. IsFiniteSet(Column)
  BY FS_Interval DEF Column
<1>4. Cardinality({c \in DOMAIN row : row[c] # "empty"}) \in Nat
  <2>1. {c \in DOMAIN row : row[c] # "empty"} \in SUBSET Column
    OBVIOUS
  <2>2. QED
    BY <1>3, <2>1, FS_Subset, FS_CardinalityType
<1>5. QED
  BY <1>2, <1>4 DEF RowSize

\* The chosen type is a candidate that is left, or text.
LEMMA PreferredType ==
  ASSUME NEW possible \in SUBSET NarrowType
  PROVE  Preferred(possible) \in possible \cup {"string"} /\ Preferred(possible) \in ColumnType
<1>1. CASE "long" \in possible
  BY <1>1 DEF Preferred, ColumnType, NarrowType
<1>2. CASE "long" \notin possible /\ "real" \in possible
  BY <1>2 DEF Preferred, ColumnType, NarrowType
<1>3. CASE "long" \notin possible /\ "real" \notin possible
  <2>1. possible = {} \/ possible = {"datetime"}
    BY <1>3 DEF NarrowType
  <2>2. QED
    BY <1>3, <2>1 DEF Preferred, ColumnType, NarrowType
<1>4. QED
  BY <1>1, <1>2, <1>3

\* The invariant holds at first.
LEMMA InvInit == Init => Inv
<1> SUFFICES ASSUME Init PROVE Inv
  OBVIOUS
<1> USE DEF Init
<1>1. Width = 0 /\ Column = {}
  BY DEF Width, Column
<1>2. Lines \in Seq(Line) /\ Len(Lines) \in Nat
  BY LinesType
<1>3. TypeOK
  BY <1>1, <1>2 DEF TypeOK
<1>4. Position
  BY <1>1 DEF Position
<1>5. Observed /\ Settled
  BY DEF Observed, Settled
<1>6. CellsFitTheirColumn
  BY DEF CellsFitTheirColumn
<1>7. QED
  BY <1>3, <1>4, <1>5, <1>6 DEF Inv

\* Where the file and the names stay, so do the lines and the columns.
LEMMA Fixed ==
  ASSUME UNCHANGED <<source, names>>
  PROVE  UNCHANGED <<Lines, Width, Column>>
  BY DEF Lines, Width, Column

\* Every step keeps the invariant.
LEMMA InvNext == Inv /\ [Next]_vars => Inv'
<1> SUFFICES ASSUME Inv, [Next]_vars PROVE Inv'
  OBVIOUS
<1> USE DEF Inv
<1>1. /\ Lines \in Seq(Line) /\ Len(Lines) \in Nat /\ DOMAIN Lines = 1..Len(Lines)
      /\ TreeDepthAt \in DOMAIN Lines
      /\ \A i \in DOMAIN Lines : Lines[i] \in Seq(Kind)
  BY LinesType DEF Position
<1>2. CASE NoHeader
  <2> USE <1>2, Fixed DEF NoHeader
  <2>1. TypeOK'
    BY DEF TypeOK
  <2>2. Position'
    BY DEF Position
  <2>3. Observed' /\ Settled'
    BY DEF Observed, Settled
  <2>4. CellsFitTheirColumn'
    BY DEF Position, CellsFitTheirColumn
  <2>5. QED
    BY <2>1, <2>2, <2>3, <2>4
<1>3. CASE HeaderFound
  <2> USE <1>3
  <2>1. headerAt' \in DOMAIN Lines /\ Lines' = Lines
    <3>1. Scanned \subseteq DOMAIN Lines /\ Scanned # {}
      BY DEF HeaderFound, Scanned
    <3>2. DOMAIN Lines \subseteq Nat
      BY <1>1, LenProperties DEF TypeOK
    <3>3. Min(Scanned) \in Scanned
      BY <3>1, <3>2, MinIsIn
    <3>4. QED
      BY <1>1, <3>1, <3>3 DEF HeaderFound, Lines
  <2>2. Width' \in Nat /\ DOMAIN names' = Column'
    <3>1. PICK n \in Nat : Texts(headerAt') \in [1..n -> Header]
      BY <2>1, TextsType DEF Position
    <3>2. names' = Columns(Texts(headerAt')) /\ DOMAIN Texts(headerAt') = 1..n
      BY <3>1 DEF HeaderFound
    <3>3. QED
      BY <3>1, <3>2, ColumnsDomain DEF Width, Column
  <2>3. TypeOK'
    <3>1. headerAt' \in 1..Len(Lines) /\ at' \in 0..(Len(Lines) + 1)
      BY <1>1, <2>1 DEF HeaderFound
    <3>2. candidates' \in [Column' -> SUBSET NarrowType] /\ sawValue' \in [Column' -> BOOLEAN]
      BY <2>2 DEF HeaderFound
    <3>3. pc' = "infer" /\ chunks' = <<>> /\ size' = size /\ types' = types
      BY DEF HeaderFound, Position
    <3>4. QED
      BY <1>1, <2>1, <3>1, <3>2, <3>3 DEF TypeOK
  <2>4. Position'
    BY <1>1, <2>1, <2>2 DEF Position, HeaderFound
  <2>5. Observed' /\ Settled'
    BY <1>1, <2>1 DEF Observed, Settled, HeaderFound
  <2>6. CellsFitTheirColumn'
    BY DEF Position, CellsFitTheirColumn, HeaderFound
  <2>7. QED
    BY <2>3, <2>4, <2>5, <2>6
<1>4. CASE Infer
  <2> USE <1>4, Fixed DEF Infer
  <2> DEFINE row == Lines[at]
  <2>1. at \in DOMAIN Lines /\ row \in Seq(Kind) /\ at \in Nat /\ headerAt \in Nat
    BY <1>1 DEF TypeOK, Position
  <2>2. DOMAIN row = 1..Len(row) /\ \A c \in DOMAIN row : row[c] \in Kind
    BY <2>1, LenProperties, ElementOfSeq
  <2>3. UNCHANGED <<Lines, Width, Column>>
    OBVIOUS
  <2>4. candidates' = [c \in Column |-> IF c \in DOMAIN row THEN Narrowed(candidates[c], row[c])
                                        ELSE candidates[c]]
    OBVIOUS
  <2>5. sawValue' = [c \in Column |-> sawValue[c] \/ (c \in DOMAIN row /\ row[c] # "null")]
    OBVIOUS
  <2>6. \A c \in Column : candidates'[c] \subseteq candidates[c] /\ (sawValue[c] => sawValue'[c])
    BY <2>4, <2>5 DEF Narrowed
  <2>7. candidates' \in [Column -> SUBSET NarrowType] /\ sawValue' \in [Column -> BOOLEAN]
    BY <2>4, <2>5, <2>6 DEF TypeOK
  <2>8. TypeOK'
    BY <1>1, <2>1, <2>3, <2>7 DEF TypeOK
  <2>9. Position'
    BY <2>1, <2>3 DEF Position
  <2>10. Observed'
    <3> SUFFICES ASSUME NEW i \in DOMAIN Lines, headerAt < i, i < at + 1,
                        NEW c \in Column \cap DOMAIN Lines[i]
                 PROVE  /\ Lines[i][c] = "null" \/ sawValue'[c]
                        /\ \A type \in candidates'[c] : Fits(Lines[i][c], type)
      BY <2>3 DEF Observed
    <3>1. CASE i < at
      BY <3>1, <2>6 DEF Observed
    <3>2. CASE i = at
      BY <3>2, <2>4, <2>5 DEF Narrowed, Fits
    <3>3. QED
      BY <1>1, <2>1, <3>1, <3>2
  <2>11. Settled'
    BY DEF Settled
  <2>12. CellsFitTheirColumn'
    BY DEF Position, CellsFitTheirColumn
  <2>13. QED
    BY <2>8, <2>9, <2>10, <2>11, <2>12
<1>5. CASE Inferred
  <2> USE <1>5, Fixed DEF Inferred
  <2>1. UNCHANGED <<Lines, Width, Column>>
    OBVIOUS
  <2>2. types' = [c \in Column |-> IF sawValue[c] THEN Preferred(candidates[c]) ELSE "string"]
    OBVIOUS
  <2>3. \A c \in Column : types'[c] \in ColumnType
    BY <2>2, PreferredType DEF TypeOK, ColumnType
  <2>4. TypeOK'
    <3>1. types' \in [Column -> ColumnType] /\ DOMAIN types' = Column
      BY <2>2, <2>3
    <3>2. headerAt \in 1..Len(Lines) /\ at' = headerAt + 1
      BY <1>1 DEF TypeOK
    <3>3. QED
      BY <1>1, <2>1, <3>1, <3>2 DEF TypeOK
  <2>5. Position'
    BY <2>1 DEF Position, TypeOK
  <2>6. Observed'
    BY DEF Observed
  <2>7. Settled'
    <3> SUFFICES ASSUME NEW i \in DOMAIN Lines, headerAt < i, NEW c \in Column \cap DOMAIN Lines[i]
                 PROVE  Fits(Lines[i][c], types'[c])
      BY <2>1 DEF Settled
    <3>1. i < at
      BY <1>1 DEF TypeOK
    <3>2. /\ Lines[i][c] = "null" \/ sawValue[c]
          /\ \A type \in candidates[c] : Fits(Lines[i][c], type)
      BY <3>1 DEF Observed
    <3>3. CASE ~sawValue[c]
      BY <3>2, <3>3 DEF Fits
    <3>4. CASE sawValue[c]
      <4>1. types'[c] \in candidates[c] \cup {"string"}
        BY <2>2, <3>4, PreferredType DEF TypeOK
      <4>2. QED
        BY <3>2, <4>1 DEF Fits, Accepts
    <3>5. QED
      BY <3>3, <3>4
  <2>8. CellsFitTheirColumn'
    BY DEF Position, CellsFitTheirColumn
  <2>9. QED
    BY <2>4, <2>5, <2>6, <2>7, <2>8
<1>6. CASE Write
  <2> USE <1>6, Fixed DEF Write
  <2>1. UNCHANGED <<Lines, Width, Column, types, headerAt>> /\ pc = "write" /\ pc' = "write"
    OBVIOUS
  <2>2. at \in DOMAIN Lines /\ Lines[at] \in Seq(Kind) /\ headerAt < at /\ at \in Nat
    BY <1>1 DEF TypeOK, Position
  <2> DEFINE row == Row(Lines[at])
  <2>3. row \in [Column -> Cell] /\ \A c \in Column : row[c] # "joined" => Stored(row, c)
    <3>1. types \in [Column -> ColumnType] /\ Width \in Nat
      BY <2>1 DEF TypeOK, Position
    <3>2. \A c \in Column \cap DOMAIN Lines[at] : Fits(Lines[at][c], types[c])
      BY <2>1, <2>2 DEF Settled
    <3>3. QED
      BY <2>2, <3>1, <3>2, RowFits
  <2>4. RowSize(row) \in Nat
    BY <2>3, RowSizeType DEF Position
  <2>5. CASE Lines[at] = <<>>
    <3>1. UNCHANGED <<chunks, size>> /\ at' = at + 1
      BY <2>5
    <3>2. QED
      BY <1>1, <2>1, <2>2, <3>1 DEF TypeOK, Position, Observed, Settled, CellsFitTheirColumn, Stored
  <2>6. CASE Lines[at] # <<>>
    <3>1. Written(row) /\ at' = at + 1
      BY <2>6
    <3> HIDE DEF row
    <3>2. \/ chunks' = Append(chunks, <<row>>) /\ size' = RowSize(row)
          \/ /\ chunks # <<>> /\ size' = size + RowSize(row)
             /\ chunks' = [chunks EXCEPT ![Len(chunks)] = Append(@, row)]
      BY <3>1 DEF Written
    <3>3. chunks' \in Seq(Seq([Column -> Cell])) /\ Adds(row, chunks, chunks')
      <4>1. chunks \in Seq(Seq([Column -> Cell])) /\ row \in [Column -> Cell]
        BY <1>1, <2>3 DEF TypeOK
      <4>2. QED
        BY ONLY <4>1, <3>2, RowAppended
    <3>5. size' \in Nat
      <4>1. size \in Nat
        BY <1>1 DEF TypeOK
      <4>2. QED
        BY <4>1, <2>4, <3>2
    <3>4. TypeOK' /\ Position' /\ Observed' /\ Settled'
      BY <1>1, <2>1, <2>2, <3>1, <3>3, <3>5 DEF TypeOK, Position, Observed, Settled
    <3>6. CellsFitTheirColumn'
      BY <2>1, <2>3, <3>3 DEF CellsFitTheirColumn, Stored, Adds
    <3>7. QED
      BY <3>4, <3>6
  <2>7. QED
    BY <2>5, <2>6
<1>7. CASE WriteRaises \/ Normalized
  BY <1>1, <1>7, Fixed
     DEF WriteRaises, Normalized, TypeOK, Position, Observed, Settled, CellsFitTheirColumn, Stored
<1>8. CASE UNCHANGED vars
  BY <1>1, <1>8, Fixed
     DEF vars, TypeOK, Position, Observed, Settled, CellsFitTheirColumn, Stored
<1>9. QED
  BY <1>2, <1>3, <1>4, <1>5, <1>6, <1>7, <1>8 DEF Next

\* The invariant holds in every state.
LEMMA InvAlways == Spec => []Inv
  BY InvInit, InvNext, PTL DEF Spec

-----------------------------------------------------------------------------

\* Every variable keeps its type: each chunk holds rows with a cell for every
\* column and no other.
THEOREM NormalizerTypeCorrect == Spec => []TypeOK
<1>1. Inv => TypeOK
  BY DEF Inv
<1>2. QED
  BY <1>1, InvAlways, PTL

\* No value is written to a column whose type cannot hold it, except the
\* joined overflow of a ragged row.
THEOREM CellsFit == Spec => []CellsFitTheirColumn
<1>1. Inv => CellsFitTheirColumn
  BY DEF Inv
<1>2. QED
  BY <1>1, InvAlways, PTL

-----------------------------------------------------------------------------
(* The types are exact. *)

\* What a column holds before the n-th line, null tokens apart.
Told(c, n) ==
  {Lines[i][c] : i \in {j \in DOMAIN Lines : headerAt < j /\ j < n /\ c \in DOMAIN Lines[j]}} \ {"null"}

IsExact(type, values) ==
  /\ type = "long" <=> values = {"long"}
  /\ type = "real" <=> values \in {{"real"}, {"long", "real"}}
  /\ type = "datetime" <=> values = {"datetime"}

\* The candidates are the types that accept every value seen so far, no fewer.
Exactly ==
  /\ pc = "infer" => \A c \in Column :
       /\ candidates[c] = {t \in NarrowType : \A v \in Told(c, at) : Accepts(t, v)}
       /\ sawValue[c] <=> Told(c, at) # {}
  /\ pc \in {"write", "normalized"} => \A c \in Column : IsExact(types[c], Values(c))

\* The type preferred among those that accept every value is the exact one.
LEMMA PreferredIsExact ==
  ASSUME NEW values \in SUBSET (Kind \ {"null"})
  PROVE  IsExact(IF values # {} THEN Preferred({t \in NarrowType : \A v \in values : Accepts(t, v)})
                 ELSE "string", values)
<1> DEFINE possible == {t \in NarrowType : \A v \in values : Accepts(t, v)}
<1>1. "long" \in possible <=> values \subseteq {"long"}
  BY DEF NarrowType, Accepts
<1>2. "real" \in possible <=> values \subseteq {"long", "real"}
  BY DEF NarrowType, Accepts
<1>3. "datetime" \in possible <=> values \subseteq {"datetime"}
  BY DEF NarrowType, Accepts
<1>4. possible \subseteq {"long", "real", "datetime"}
  BY DEF NarrowType
<1> HIDE DEF possible
<1>5. CASE values = {}
  BY <1>5 DEF IsExact
<1>6. CASE values # {} /\ "long" \in possible
  <2>1. Preferred(possible) = "long" /\ values = {"long"}
    BY <1>1, <1>6 DEF Preferred
  <2>2. QED
    BY <1>6, <2>1 DEF IsExact, possible
<1>7. CASE values # {} /\ "long" \notin possible /\ "real" \in possible
  <2>1. Preferred(possible) = "real"
    BY <1>7 DEF Preferred
  <2>2. values # {"long"} /\ values \in {{"real"}, {"long", "real"}} /\ values # {"datetime"}
    BY <1>1, <1>2, <1>7
  <2>3. QED
    BY <1>7, <2>1, <2>2 DEF IsExact, possible
<1>8. CASE values # {} /\ "long" \notin possible /\ "real" \notin possible
  <2>1. values # {"long"} /\ values \notin {{"real"}, {"long", "real"}}
    BY <1>1, <1>2, <1>8
  <2>2. possible = {} \/ possible = {"datetime"}
    BY <1>4, <1>8
  <2>3. possible = {"datetime"} <=> values = {"datetime"}
    BY <1>3, <1>8, <2>2
  <2>4. Preferred(possible) = IF values = {"datetime"} THEN "datetime" ELSE "string"
    BY <1>8, <2>2, <2>3 DEF Preferred
  <2>5. QED
    BY <1>8, <2>1, <2>4 DEF IsExact, possible
<1>9. QED
  BY <1>5, <1>6, <1>7, <1>8

\* No column is told anything before the first pass.
LEMMA ExactlyInit == Init => Exactly
  BY DEF Init, Exactly

\* Each row of the first pass rules out the types its values do not have, and
\* no other; the choice among those left is the exact type.
LEMMA ExactlyNext == Inv /\ Exactly /\ [Next]_vars => Exactly'
<1> SUFFICES ASSUME Inv, Exactly, [Next]_vars PROVE Exactly'
  OBVIOUS
<1>1. /\ Len(Lines) \in Nat /\ DOMAIN Lines = 1..Len(Lines)
      /\ \A i \in DOMAIN Lines : Lines[i] \in Seq(Kind)
      /\ headerAt \in Nat /\ at \in Nat
  <2>1. headerAt \in Nat /\ at \in Nat
    BY LinesType DEF Inv, Position, TypeOK
  <2>2. QED
    BY <2>1, LinesType DEF Inv, Position
<1>2. CASE NoHeader
  BY <1>2 DEF NoHeader, Exactly
<1>3. CASE HeaderFound
  <2>1. /\ pc' = "infer" /\ Lines' = Lines /\ headerAt' \in Nat /\ at' = headerAt' + 1
        /\ candidates' = [c \in DOMAIN names' |-> NarrowType]
        /\ sawValue' = [c \in DOMAIN names' |-> FALSE]
    <3>1. Inv'
      BY InvNext
    <3>2. source' \in Source /\ headerAt' \in 0..Len(Lines')
      BY <3>1 DEF Inv, Position, TypeOK
    <3>3. QED
      BY <1>1, <1>3, <3>2 DEF HeaderFound, Lines
  <2>2. Column' = DOMAIN names'
    <3>1. Inv'
      BY InvNext
    <3>2. QED
      BY <3>1 DEF Inv, Position
  <2>3. \A c : Told(c, at)' = {}
    BY <1>1, <2>1 DEF Told
  <2>4. QED
    BY <2>1, <2>2, <2>3 DEF Exactly
<1>4. CASE Infer
  <2> DEFINE row == Lines[at]
  <2>1. UNCHANGED <<Lines, Width, Column, headerAt>> /\ pc = "infer" /\ pc' = "infer" /\ at' = at + 1
    BY <1>4, Fixed DEF Infer
  <2>2. at \in DOMAIN Lines /\ headerAt < at
    BY <1>1, <1>4 DEF Infer, Inv, Position
  <2>3. ASSUME NEW c \in Column
        PROVE  /\ candidates'[c] = {t \in NarrowType : \A v \in Told(c, at)' : Accepts(t, v)}
               /\ sawValue'[c] <=> Told(c, at)' # {}
    <3>1. Told(c, at)' = Told(c, at) \cup
            (IF c \in DOMAIN row /\ row[c] # "null" THEN {row[c]} ELSE {})
      <4>1. Told(c, at)' = {Lines[i][c] : i \in {j \in DOMAIN Lines :
              headerAt < j /\ j < at + 1 /\ c \in DOMAIN Lines[j]}} \ {"null"}
        BY <2>1 DEF Told
      <4>2. \A j \in DOMAIN Lines : j < at + 1 <=> j < at \/ j = at
        BY <1>1
      <4>3. QED
        BY <2>2, <4>1, <4>2 DEF Told
    <3>2. candidates'[c] = IF c \in DOMAIN row THEN Narrowed(candidates[c], row[c])
                           ELSE candidates[c]
      BY <1>4 DEF Infer
    <3>3. sawValue'[c] = (sawValue[c] \/ (c \in DOMAIN row /\ row[c] # "null"))
      BY <1>4 DEF Infer
    <3>4. /\ candidates[c] = {t \in NarrowType : \A v \in Told(c, at) : Accepts(t, v)}
          /\ sawValue[c] <=> Told(c, at) # {}
      BY <2>1 DEF Exactly
    <3>5. candidates'[c] = {t \in NarrowType : \A v \in Told(c, at)' : Accepts(t, v)}
      <4>1. CASE c \in DOMAIN row /\ row[c] # "null"
        BY <3>1, <3>2, <3>4, <4>1 DEF Narrowed
      <4>2. CASE ~(c \in DOMAIN row /\ row[c] # "null")
        BY <3>1, <3>2, <3>4, <4>2 DEF Narrowed
      <4>3. QED
        BY <4>1, <4>2
    <3>6. QED
      BY <3>1, <3>3, <3>4, <3>5
  <2>4. QED
    BY <2>1, <2>3 DEF Exactly
<1>5. CASE Inferred
  <2>1. UNCHANGED <<Lines, Width, Column>> /\ pc = "infer" /\ pc' = "write" /\ at > Len(Lines)
    BY <1>5, Fixed DEF Inferred
  <2>2. ASSUME NEW c \in Column
        PROVE  IsExact(types'[c], Values(c)')
    <3>1. Values(c) = Told(c, at)
      BY <1>1, <2>1 DEF Values, Told
    <3>2. Values(c)' = Values(c)
      BY <1>5, <2>1 DEF Inferred, Values
    <3>3. Values(c) \subseteq Kind \ {"null"}
      <4>1. ASSUME NEW i \in DOMAIN Lines, c \in DOMAIN Lines[i]
            PROVE  Lines[i][c] \in Kind
        BY <1>1, <4>1, LenProperties, ElementOfSeq
      <4>2. QED
        BY <4>1 DEF Values
    <3>4. types'[c] = IF sawValue[c] THEN Preferred(candidates[c]) ELSE "string"
      BY <1>5 DEF Inferred
    <3>5. /\ candidates[c] = {t \in NarrowType : \A v \in Values(c) : Accepts(t, v)}
          /\ sawValue[c] <=> Values(c) # {}
      BY <2>1, <3>1 DEF Exactly
    <3>6. QED
      BY <3>2, <3>3, <3>4, <3>5, PreferredIsExact
  <2>3. QED
    BY <2>1, <2>2 DEF Exactly
<1>6. CASE Write \/ WriteRaises \/ Normalized
  <2>1. UNCHANGED <<Lines, Column, types, headerAt>> /\ pc = "write" /\ pc' # "infer"
    BY <1>6, Fixed DEF Write, WriteRaises, Normalized
  <2>2. \A c : Values(c)' = Values(c)
    BY <2>1 DEF Values
  <2>3. QED
    BY <2>1, <2>2 DEF Exactly
<1>7. CASE UNCHANGED vars
  <2>1. UNCHANGED <<Lines, Column, types, headerAt, at, pc, candidates, sawValue>>
    BY <1>7, Fixed DEF vars
  <2>2. \A c : Values(c)' = Values(c) /\ Told(c, at)' = Told(c, at)
    BY <2>1 DEF Values, Told
  <2>3. QED
    BY <2>1, <2>2 DEF Exactly
<1>8. QED
  BY <1>2, <1>3, <1>4, <1>5, <1>6, <1>7 DEF Next

\* A column's type is the one its values ask for, in whatever order they come.
THEOREM TypesCorrect == Spec => []TypesAreExact
<1>1. Exactly => TypesAreExact
  BY DEF Exactly, TypesAreExact, IsExact
<1>2. QED
  BY <1>1, InvInit, InvNext, ExactlyInit, ExactlyNext, PTL DEF Spec

-----------------------------------------------------------------------------
(* The columns' names are distinct, unless one header is the other with a     *)
(* number behind it.                                                         *)

\* Of two equal keys the later one was seen more often before.
LEMMA SeenGrows ==
  ASSUME NEW n \in Nat, NEW keys, DOMAIN keys = 1..n,
         NEW i \in 1..n, NEW j \in 1..n, i < j, keys[i] = keys[j]
  PROVE  Seen(keys, i) # Seen(keys, j)
<1> DEFINE S == {k \in DOMAIN keys : k < i /\ keys[k] = keys[i]}
           T == {k \in DOMAIN keys : k < j /\ keys[k] = keys[j]}
<1>1. IsFiniteSet(1..n)
  BY FS_Interval
<1>2. T \subseteq 1..n
  OBVIOUS
<1>3. S \subseteq T /\ i \in T /\ i \notin S
  OBVIOUS
<1> HIDE DEF S, T
<1>4. IsFiniteSet(T) /\ IsFiniteSet(S)
  BY <1>1, <1>2, <1>3, FS_Subset
<1>5. Cardinality(S) # Cardinality(T)
  BY <1>3, <1>4, FS_Subset
<1>6. QED
  BY <1>5 DEF Seen, S, T

\* No key is seen more often before than there are others.
LEMMA SeenType ==
  ASSUME NEW n \in Nat, NEW keys, DOMAIN keys = 1..n, NEW i \in 1..n
  PROVE  Seen(keys, i) \in 0..(n - 1)
<1> DEFINE S == {k \in DOMAIN keys : k < i /\ keys[k] = keys[i]}
<1>1. IsFiniteSet(1..n) /\ Cardinality(1..n) = n
  BY FS_Interval
<1>2. S \subseteq 1..n /\ i \notin S
  OBVIOUS
<1> HIDE DEF S
<1>3. Cardinality(S) \in Nat /\ Cardinality(S) <= n /\ Cardinality(S) # n
  <2>1. IsFiniteSet(S) /\ Cardinality(S) <= n /\ (Cardinality(S) = n => S = 1..n)
    BY <1>1, <1>2, FS_Subset
  <2>2. S # 1..n
    BY <1>2
  <2>3. QED
    BY <2>1, <2>2, FS_CardinalityType
<1>4. QED
  BY <1>3 DEF Seen, S

\* Headers are the same that have the same parts.
LEMMA SameHeader ==
  ASSUME NEW x \in Header, NEW y \in Header,
         x.word = y.word, x.upper = y.upper, x.number = y.number, x.tail = y.tail
  PROVE  x = y
<1>1. \A z \in Header : z = [word |-> z.word, upper |-> z.upper, number |-> z.number, tail |-> z.tail]
  BY DEF Header
<1>2. QED
  BY <1>1

\* Sequences of numbers that end alike or differently.
LEMMA AppendApart ==
  ASSUME NEW s \in Seq(Nat), NEW t \in Seq(Nat), NEW a \in Nat, NEW b \in Nat
  PROVE  /\ Append(s, a) # s
         /\ Append(s, a) = Append(t, b) => s = t /\ a = b
<1>1. Len(Append(s, a)) = Len(s) + 1 /\ Len(s) \in Nat
  OBVIOUS
<1>2. Append(s, a) # s
  BY <1>1
<1>3. ASSUME Append(s, a) = Append(t, b) PROVE s = t /\ a = b
  <2>1. Len(s) = Len(t) /\ DOMAIN s = 1..Len(s) /\ DOMAIN t = 1..Len(t)
    <3>1. Len(Append(t, b)) = Len(t) + 1 /\ Len(t) \in Nat
      OBVIOUS
    <3>2. QED
      BY <1>1, <1>3, <3>1, LenProperties
  <2>2. \A k \in 1..Len(s) : s[k] = Append(s, a)[k] /\ t[k] = Append(t, b)[k]
    BY <2>1
  <2>3. a = Append(s, a)[Len(s) + 1] /\ b = Append(t, b)[Len(t) + 1]
    OBVIOUS
  <2>4. \A k \in 1..Len(s) : s[k] = t[k]
    BY <1>3, <2>1, <2>2
  <2>5. s = t
    BY <2>1, <2>4, SeqEqual
  <2>6. QED
    BY <1>3, <2>1, <2>3, <2>5
<1>4. QED
  BY <1>2, <1>3

\* What numbering does to a name.
LEMMA NumberedParts ==
  ASSUME NEW name \in Header, NEW count \in Nat
  PROVE  LET numbered == Numbered(name, count)
         IN /\ numbered \in Header
            /\ numbered.word = name.word /\ numbered.upper = name.upper /\ numbered.number = name.number
            /\ count = 0 => numbered = name
            /\ count # 0 => numbered.tail = Append(name.tail, count + 1) /\ numbered = Tagged(name, count + 1)
<1>1. name.tail \in Seq(Nat)
  BY DEF Header
<1>2. Append(name.tail, count + 1) \in Seq(Nat)
  BY <1>1, AppendProperties
<1>3. CASE count = 0
  BY <1>3 DEF Numbered
<1>4. CASE count # 0
  <2>1. Numbered(name, count) = [name EXCEPT !.tail = Append(name.tail, count + 1)]
    BY <1>4 DEF Numbered, Tagged
  <2> DEFINE tail == Append(name.tail, count + 1)
  <2> HIDE DEF tail
  <2>2. Numbered(name, count) = [name EXCEPT !.tail = tail] /\ tail \in Seq(Nat)
    BY <1>2, <2>1 DEF tail
  <2>3. /\ Numbered(name, count) \in Header /\ Numbered(name, count).tail = tail
        /\ Numbered(name, count).word = name.word /\ Numbered(name, count).upper = name.upper
        /\ Numbered(name, count).number = name.number
    BY <2>2 DEF Header
  <2>4. QED
    BY <1>4, <2>1, <2>3 DEF tail, Tagged
<1>5. QED
  BY <1>3, <1>4

\* Two counted names are distinct, if neither is the other with a number behind it.
LEMMA CountedApart ==
  ASSUME NEW n \in Nat, NEW keys \in [1..n -> Header],
         NEW i \in 1..n, NEW j \in 1..n, i < j, ~Numbers(keys, i, j)
  PROVE  Numbered(keys[i], Seen(keys, i)) # Numbered(keys[j], Seen(keys, j))
<1> DEFINE a == Seen(keys, i)
           b == Seen(keys, j)
<1>1. a \in 0..(n - 1) /\ b \in 0..(n - 1)
  BY SeenType
<1>2. keys[i] = keys[j] => a # b
  BY SeenGrows
<1>3. Len(keys) = n
  BY LenProperties, SeqDef
<1>4. \A k \in 2..n : keys[j] # Tagged(keys[i], k) /\ keys[i] # Tagged(keys[j], k)
  BY <1>3 DEF Numbers
<1> HIDE DEF a, b
<1> DEFINE first == Numbered(keys[i], a)
           second == Numbered(keys[j], b)
<1>5. a \in Nat /\ b \in Nat /\ keys[i] \in Header /\ keys[j] \in Header
  BY <1>1
<1>6. /\ first.word = keys[i].word /\ first.upper = keys[i].upper /\ first.number = keys[i].number
      /\ a = 0 => first = keys[i]
      /\ a # 0 => first.tail = Append(keys[i].tail, a + 1) /\ first = Tagged(keys[i], a + 1)
  BY <1>5, NumberedParts
<1>7. /\ second.word = keys[j].word /\ second.upper = keys[j].upper /\ second.number = keys[j].number
      /\ b = 0 => second = keys[j]
      /\ b # 0 => second.tail = Append(keys[j].tail, b + 1) /\ second = Tagged(keys[j], b + 1)
  BY <1>5, NumberedParts
<1> HIDE DEF first, second
<1>8. SUFFICES ASSUME first = second PROVE FALSE
  BY DEF first, second, a, b
<1>9. CASE a = 0 /\ b = 0
  BY <1>2, <1>6, <1>7, <1>8, <1>9
<1>10. CASE a # 0 /\ b = 0
  <2>1. a + 1 \in 2..n
    BY <1>1, <1>10
  <2>2. QED
    BY <1>4, <1>6, <1>7, <1>8, <1>10, <2>1
<1>11. CASE a = 0 /\ b # 0
  <2>1. b + 1 \in 2..n
    BY <1>1, <1>11
  <2>2. QED
    BY <1>4, <1>6, <1>7, <1>8, <1>11, <2>1
<1>12. CASE a # 0 /\ b # 0
  <2>1. keys[i].tail \in Seq(Nat) /\ keys[j].tail \in Seq(Nat) /\ a + 1 \in Nat /\ b + 1 \in Nat
    BY <1>5 DEF Header
  <2>2. Append(keys[i].tail, a + 1) = Append(keys[j].tail, b + 1)
    BY <1>6, <1>7, <1>8, <1>12
  <2>3. keys[i].tail = keys[j].tail /\ a + 1 = b + 1
    <3> DEFINE s == keys[i].tail
               t == keys[j].tail
               x == a + 1
               y == b + 1
    <3>1. s \in Seq(Nat) /\ t \in Seq(Nat) /\ x \in Nat /\ y \in Nat /\ Append(s, x) = Append(t, y)
      BY <2>1, <2>2
    <3> HIDE DEF s, t, x, y
    <3>2. s = t /\ x = y
      BY <3>1, AppendApart
    <3>3. QED
      BY <3>2 DEF s, t, x, y
  <2>4. keys[i].word = keys[j].word /\ keys[i].upper = keys[j].upper /\ keys[i].number = keys[j].number
    BY <1>6, <1>7, <1>8
  <2>5. keys[i] = keys[j]
    BY <1>5, <2>3, <2>4, SameHeader
  <2>6. QED
    BY <1>2, <1>5, <2>3, <2>5
<1>13. QED
  BY <1>9, <1>10, <1>11, <1>12

\* What a header is called.
LEMMA CalledType ==
  ASSUME NEW header \in Header, NEW i \in Nat
  PROVE  Called(header, i) \in Header /\ Lower(Called(header, i)) \in Header
<1>1. "column" \in Word /\ <<>> \in Seq(Nat)
  BY EmptySeq DEF Word
<1>2. [word |-> "column", upper |-> FALSE, number |-> i, tail |-> <<>>] \in Header
  BY <1>1 DEF Header
<1>3. Called(header, i) \in Header
  BY <1>2 DEF Called
<1>4. QED
  BY <1>3 DEF Lower, Header

\* The names of two headers differ in a letter or in a number.
LEMMA ColumnsAreDistinct ==
  ASSUME NEW n \in Nat, NEW headers \in [1..n -> Header],
         NEW i \in 1..n, NEW j \in 1..n, i < j, ~Numbers(Keys(headers), i, j)
  PROVE  LET names_ == Columns(headers)
         IN \/ names_[i].word # names_[j].word
            \/ names_[i].number # names_[j].number
            \/ names_[i].tail # names_[j].tail
<1> DEFINE called == [k \in 1..n |-> Called(headers[k], k)]
           keys == [k \in 1..n |-> Lower(called[k])]
<1>1. Columns(headers) = [k \in 1..n |-> Numbered(called[k], Seen(keys, k))] /\ Keys(headers) = keys
  BY DEF Columns, Unique, Keys
<1>2. called \in [1..n -> Header] /\ keys \in [1..n -> Header]
  BY CalledType
<1>3. \A k \in 1..n : keys[k] = [called[k] EXCEPT !.upper = FALSE]
  BY DEF Lower
<1> HIDE DEF called, keys
<1>4. DOMAIN keys = 1..n
  BY <1>2
<1>5. Numbered(keys[i], Seen(keys, i)) # Numbered(keys[j], Seen(keys, j))
  BY <1>1, <1>2, CountedApart
<1>6. ASSUME NEW k \in 1..n
      PROVE  LET name == Columns(headers)[k]
                 numbered == Numbered(keys[k], Seen(keys, k))
             IN /\ numbered \in Header /\ numbered.upper = FALSE
                /\ numbered.word = name.word /\ numbered.number = name.number /\ numbered.tail = name.tail
  <2> DEFINE count == Seen(keys, k)
             name == Numbered(called[k], count)
             numbered == Numbered(keys[k], count)
  <2>1. count \in Nat
    BY <1>4, SeenType
  <2>2. Columns(headers)[k] = name
    BY <1>1
  <2> HIDE DEF count
  <2>3. called[k] \in Header /\ keys[k] \in Header
    BY <1>2
  <2>4. /\ keys[k].upper = FALSE /\ keys[k].word = called[k].word
        /\ keys[k].number = called[k].number /\ keys[k].tail = called[k].tail
    BY <1>3, <2>3 DEF Header
  <2>5. /\ name.word = called[k].word /\ name.number = called[k].number
        /\ count = 0 => name = called[k]
        /\ count # 0 => name.tail = Append(called[k].tail, count + 1)
    BY <2>1, <2>3, NumberedParts
  <2>6. /\ numbered \in Header
        /\ numbered.word = keys[k].word /\ numbered.upper = keys[k].upper /\ numbered.number = keys[k].number
        /\ count = 0 => numbered = keys[k]
        /\ count # 0 => numbered.tail = Append(keys[k].tail, count + 1)
    BY <2>1, <2>3, NumberedParts
  <2> HIDE DEF name, numbered
  <2>7. numbered.tail = name.tail
    BY <2>4, <2>5, <2>6
  <2>8. numbered.word = name.word /\ numbered.number = name.number /\ numbered.upper = FALSE
    BY <2>4, <2>5, <2>6
  <2>9. QED
    BY <2>2, <2>6, <2>7, <2>8 DEF numbered, count
<1>7. QED
  <2> DEFINE p == Numbered(keys[i], Seen(keys, i))
             q == Numbered(keys[j], Seen(keys, j))
             names_ == Columns(headers)
  <2>1. /\ p \in Header /\ p.upper = FALSE
        /\ p.word = names_[i].word /\ p.number = names_[i].number /\ p.tail = names_[i].tail
    BY <1>6
  <2>2. /\ q \in Header /\ q.upper = FALSE
        /\ q.word = names_[j].word /\ q.number = names_[j].number /\ q.tail = names_[j].tail
    BY <1>6
  <2>3. p # q
    BY <1>5
  <2> HIDE DEF p, q, names_
  <2>4. p.word # q.word \/ p.number # q.number \/ p.tail # q.tail
    BY <2>1, <2>2, <2>3, SameHeader
  <2>5. \/ names_[i].word # names_[j].word
        \/ names_[i].number # names_[j].number
        \/ names_[i].tail # names_[j].tail
    BY <2>1, <2>2, <2>4
  <2>6. QED
    BY <2>5 DEF names_

\* There are no names before the header is found.
LEMMA NamesInit == Init => ColumnsDistinct
  BY DEF Init, ColumnsDistinct

\* The names are given once, when the header is found.
LEMMA NamesNext == Inv /\ ColumnsDistinct /\ [Next]_vars => ColumnsDistinct'
<1> SUFFICES ASSUME Inv, ColumnsDistinct, [Next]_vars PROVE ColumnsDistinct'
  OBVIOUS
<1>1. CASE HeaderFound
  <2>1. headerAt' \in DOMAIN Lines /\ source' = source
    <3>1. Scanned \subseteq DOMAIN Lines /\ Scanned # {} /\ DOMAIN Lines \subseteq Nat /\ TreeDepthAt \in DOMAIN Lines
      BY <1>1, LinesType DEF HeaderFound, Scanned, Inv, Position
    <3>2. QED
      BY <1>1, <3>1, MinIsIn DEF HeaderFound
  <2> DEFINE headers == Texts(headerAt')
  <2>2. PICK n \in Nat : headers \in [1..n -> Header]
    BY <2>1, TextsType DEF Inv, Position
  <2>3. names' = Columns(headers)
    BY <1>1 DEF HeaderFound
  <2>4. Texts(headerAt)' = headers
    BY <2>1 DEF Texts, Lines, TreeDepthAt
  <2> HIDE DEF headers
  <2>5. DOMAIN names' = 1..n
    BY <2>2, <2>3 DEF Columns, Unique
  <2>6. ASSUME NEW i \in 1..n, NEW j \in 1..n, i # j, ~Numbers(Keys(headers), i, j)
        PROVE  \/ names'[i].word # names'[j].word
               \/ names'[i].number # names'[j].number
               \/ names'[i].tail # names'[j].tail
    <3>1. CASE i < j
      BY <2>2, <2>3, <2>6, <3>1, ColumnsAreDistinct
    <3>2. CASE j < i
      <4>1. ~Numbers(Keys(headers), j, i)
        BY <2>6 DEF Numbers
      <4>2. QED
        BY <2>2, <2>3, <3>2, <4>1, ColumnsAreDistinct
    <3>3. QED
      BY <2>6, <3>1, <3>2
  <2>7. QED
    BY <2>4, <2>5, <2>6 DEF ColumnsDistinct
<1>2. CASE ~HeaderFound
  <2>1. UNCHANGED <<names, headerAt, source>>
    BY <1>2 DEF Next, NoHeader, Infer, Inferred, Write, WriteRaises, Normalized, vars
  <2>2. Texts(headerAt)' = Texts(headerAt)
    BY <2>1 DEF Texts, Lines, TreeDepthAt
  <2>3. QED
    BY <2>1, <2>2 DEF ColumnsDistinct
<1>3. QED
  BY <1>1, <1>2

\* Column names are unique even without case, for headers of any number and
\* order, however often one is repeated or missing: only a header that is another
\* with a number behind it may share that one's numbered name.
THEOREM NamesUnique == Spec => []ColumnsDistinct
<1>1. Inv /\ ColumnsDistinct /\ [Next]_vars => ColumnsDistinct'
  BY NamesNext
<1>2. QED
  BY <1>1, InvInit, InvNext, NamesInit, PTL DEF Spec

-----------------------------------------------------------------------------
(* Chunks are bounded. *)

\* The size kept of the last chunk is its length.
Bounded == ChunksBounded /\ (chunks # <<>> => size = Bytes(Last(chunks)))

\* A row makes a chunk longer by its own length.
LEMMA BytesOfRow ==
  ASSUME NEW R, \A r \in R : RowSize(r) \in Nat, NEW chunk \in Seq(R), NEW row \in R
  PROVE  Bytes(<<>>) = 0 /\ Bytes(Append(chunk, row)) = Bytes(chunk) + RowSize(row)
<1> DEFINE w == [i \in DOMAIN chunk |-> RowSize(chunk[i])]
           longer == Append(chunk, row)
           v == [i \in DOMAIN longer |-> RowSize(longer[i])]
<1>1. /\ Len(chunk) \in Nat /\ DOMAIN chunk = 1..Len(chunk)
      /\ \A i \in 1..Len(chunk) : chunk[i] \in R
  BY LenProperties, ElementOfSeq
<1>2. /\ longer \in Seq(R) /\ Len(longer) = Len(chunk) + 1 /\ DOMAIN longer = 1..(Len(chunk) + 1)
      /\ \A i \in 1..Len(chunk) : longer[i] = chunk[i]
      /\ longer[Len(chunk) + 1] = row
  BY AppendProperties, LenProperties
<1> HIDE DEF longer
<1>3. w \in Seq(Nat) /\ Len(w) = Len(chunk)
  <2>1. w \in [1..Len(chunk) -> Nat]
    BY <1>1
  <2> HIDE DEF w
  <2>2. w \in Seq(Nat)
    BY <1>1, <2>1, SeqDef
  <2>3. QED
    BY <1>1, <2>1, <2>2, LenProperties
<1>4. v = Append(w, RowSize(row))
  <2> DEFINE u == Append(w, RowSize(row))
  <2>1. /\ u \in Seq(Nat) /\ Len(u) = Len(chunk) + 1
        /\ \A i \in 1..Len(chunk) : u[i] = w[i]
        /\ u[Len(chunk) + 1] = RowSize(row)
    BY <1>3, AppendProperties
  <2>2. \A i \in 1..Len(chunk) : w[i] = RowSize(chunk[i])
    BY <1>1
  <2>3. DOMAIN v = 1..(Len(chunk) + 1) /\ \A i \in 1..(Len(chunk) + 1) : v[i] = RowSize(longer[i])
    BY <1>2
  <2>4. v \in Seq(Nat) /\ Len(v) = Len(chunk) + 1
    <3>1. \A i \in 1..(Len(chunk) + 1) : longer[i] \in R
      BY <1>2, ElementOfSeq
    <3>2. v \in [1..(Len(chunk) + 1) -> Nat] /\ Len(chunk) + 1 \in Nat
      BY <1>1, <1>2, <3>1
    <3> HIDE DEF v
    <3>3. v \in Seq(Nat)
      BY <3>2, SeqDef
    <3>4. QED
      BY <3>2, <3>3, LenProperties
  <2> HIDE DEF u, v, w
  <2>5. \A i \in 1..(Len(chunk) + 1) : v[i] = u[i]
    <3> TAKE i \in 1..(Len(chunk) + 1)
    <3>1. i \in 1..Len(chunk) \/ i = Len(chunk) + 1
      BY <1>1
    <3>2. QED
      BY <1>2, <2>1, <2>2, <2>3, <3>1
  <2>6. v = u
    BY <2>1, <2>4, <2>5, SeqEqual
  <2>7. QED
    BY <2>6 DEF u
<1>5. Sum(<<>>) = 0 /\ Sum(Append(w, RowSize(row))) = Sum(w) + RowSize(row)
  <2> HIDE DEF w
  <2>1. RowSize(row) \in Nat
    OBVIOUS
  <2>2. QED
    BY <1>3, <2>1, SumLast
<1>6. Bytes(chunk) = Sum(w) /\ Bytes(longer) = Sum(v)
  BY DEF Bytes, Sum
<1>7. Bytes(<<>>) = Sum(<<>>)
  <2>1. [i \in DOMAIN <<>> |-> RowSize(<<>>[i])] = <<>>
    OBVIOUS
  <2>2. QED
    BY <2>1 DEF Bytes, Sum
<1>8. QED
  BY <1>4, <1>5, <1>6, <1>7 DEF longer

\* There are no chunks at first.
LEMMA BoundedInit == Init => Bounded
  BY DEF Init, Bounded, ChunksBounded

\* What Write does to the chunks, for a row that is not blank.
LEMMA WriteStep ==
  ASSUME Inv, Write, Lines[at] # <<>>
  PROVE  LET row == Row(Lines[at])
         IN /\ chunks \in Seq(Seq([Column -> Cell])) /\ row \in [Column -> Cell]
            /\ \A r \in [Column -> Cell] : RowSize(r) \in Nat
            /\ \/ /\ chunks = <<>> \/ Full(size)
                  /\ chunks' = Append(chunks, <<row>>) /\ size' = RowSize(row)
               \/ /\ chunks # <<>> /\ ~Full(size)
                  /\ chunks' = [chunks EXCEPT ![Len(chunks)] = Append(@, row)]
                  /\ size' = size + RowSize(row)
<1> DEFINE row == Row(Lines[at])
<1>1. at \in DOMAIN Lines /\ Lines[at] \in Seq(Kind)
  BY LinesType DEF Inv, Write, TypeOK, Position
<1>2. row \in [Column -> Cell]
  <2>1. types \in [Column -> ColumnType] /\ Width \in Nat
    BY DEF Inv, TypeOK, Position, Write
  <2>2. \A c \in Column \cap DOMAIN Lines[at] : Fits(Lines[at][c], types[c])
    BY <1>1, LinesType DEF Inv, Settled, Position, Write
  <2>3. QED
    BY <1>1, <2>1, <2>2, RowFits
<1>3. \A r \in [Column -> Cell] : RowSize(r) \in Nat
  BY RowSizeType DEF Inv, Position
<1> HIDE DEF row
<1>4. Written(row)
  BY DEF Write, row
<1>5. chunks \in Seq(Seq([Column -> Cell]))
  BY DEF Inv, TypeOK
<1>6. QED
  BY <1>2, <1>3, <1>4, <1>5 DEF Written, row

\* A row goes to a chunk that is not full yet, or to one of its own.
LEMMA BoundedNext == Inv /\ Bounded /\ [Next]_vars => Bounded'
<1> SUFFICES ASSUME Inv, Bounded, [Next]_vars PROVE Bounded'
  OBVIOUS
<1>1. CASE Write /\ Lines[at] # <<>>
  <2> DEFINE R == [Column -> Cell]
             row == Row(Lines[at])
             n == Len(chunks)
  <2>1. /\ chunks \in Seq(Seq(R)) /\ row \in R
        /\ \A r \in R : RowSize(r) \in Nat
        /\ \/ /\ chunks = <<>> \/ Full(size)
              /\ chunks' = Append(chunks, <<row>>) /\ size' = RowSize(row)
           \/ /\ chunks # <<>> /\ ~Full(size)
              /\ chunks' = [chunks EXCEPT ![n] = Append(@, row)]
              /\ size' = size + RowSize(row)
    BY <1>1, WriteStep
  <2>2. ChunkSize \in Nat \ {0} /\ size \in Nat
    BY NormalizerAssumption DEF NormalizerAssumption, Inv, TypeOK
  <2> HIDE DEF R, row
  <2>3. n \in Nat /\ DOMAIN chunks = 1..n /\ (chunks # <<>> => n \in 1..n)
    BY <2>1, LenProperties, EmptySeq
  <2>4. RowSize(row) \in Nat
    BY <2>1
  <2>5. CASE /\ chunks = <<>> \/ Full(size)
             /\ chunks' = Append(chunks, <<row>>) /\ size' = RowSize(row)
    <3>1. <<row>> \in Seq(R) /\ <<row>> = Append(<<>>, row) /\ <<>> \in Seq(R)
      BY <2>1
    <3>2. /\ chunks' \in Seq(Seq(R)) /\ Len(chunks') = n + 1 /\ chunks'[n + 1] = <<row>>
          /\ \A k \in 1..n : chunks'[k] = chunks[k]
      BY <2>1, <2>5, <3>1, AppendProperties
    <3>3. DOMAIN chunks' = 1..(n + 1)
      BY <3>2, LenProperties
    <3>4. Last(chunks') = <<row>>
      BY <3>2 DEF Last
    <3>5. Bytes(<<row>>) = RowSize(row) /\ Bytes(<<>>) = 0
      <4>1. Bytes(<<>>) = 0 /\ Bytes(Append(<<>>, row)) = Bytes(<<>>) + RowSize(row)
        BY <2>1, <3>1, BytesOfRow
      <4>2. Bytes(<<row>>) = Bytes(<<>>) + RowSize(row)
        BY <3>1, <4>1
      <4>3. QED
        BY ONLY <2>4, <4>1, <4>2
    <3>6. Front(<<row>>) = <<>>
      BY <2>1, <3>1, FrontOfAppend
    <3>7. ASSUME NEW k \in 1..n
          PROVE  /\ chunks[k] # <<>> /\ Bytes(Front(chunks[k])) < ChunkSize
                 /\ Bytes(chunks[k]) >= ChunkSize
      <4>1. chunks[k] # <<>> /\ Bytes(Front(chunks[k])) < ChunkSize
        BY <2>3 DEF Bounded, ChunksBounded
      <4>2. CASE k < n
        BY <2>3, <4>1, <4>2 DEF Bounded, ChunksBounded
      <4>3. CASE k = n
        <5>1. chunks # <<>>
          BY <2>3, <3>7, EmptySeq
        <5>2. size = Bytes(chunks[n])
          BY <5>1 DEF Bounded, Last
        <5>3. size >= ChunkSize
          BY <2>5, <5>1 DEF Full
        <5>4. QED
          BY <4>1, <4>3, <5>2, <5>3
      <4>4. k < n \/ k = n
        <5> HIDE DEF n
        <5>1. QED
          BY <2>3
      <4>5. QED
        BY <4>1, <4>2, <4>3, <4>4
    <3>8. ASSUME NEW k \in DOMAIN chunks'
          PROVE  /\ chunks'[k] # <<>> /\ Bytes(Front(chunks'[k])) < ChunkSize
                 /\ k < Len(chunks') => Bytes(chunks'[k]) >= ChunkSize
      <4>1. k \in 1..n \/ k = n + 1
        BY <2>3, <3>3
      <4>2. CASE k \in 1..n
        BY <3>2, <3>7, <4>2
      <4>3. CASE k = n + 1
        <5>1. chunks'[k] = <<row>> /\ ~(k < Len(chunks')) /\ <<row>> # <<>>
          BY <2>3, <3>2, <4>3
        <5>2. QED
          BY <2>2, <3>5, <3>6, <5>1
      <4>4. QED
        BY <4>1, <4>2, <4>3
    <3>9. QED
      BY <2>5, <3>4, <3>5, <3>8 DEF Bounded, ChunksBounded
  <2>6. CASE /\ chunks # <<>> /\ ~Full(size)
             /\ chunks' = [chunks EXCEPT ![n] = Append(@, row)]
             /\ size' = size + RowSize(row)
    <3> DEFINE last == chunks[n]
               longer == Append(last, row)
    <3>1. last \in Seq(R)
      BY <2>1, <2>3, <2>6, ElementOfSeq
    <3>2. longer \in Seq(R) /\ longer # <<>>
      <4> HIDE DEF last
      <4>1. QED
        BY <2>1, <3>1, AppendProperties
    <3>3. Front(longer) = last
      BY <2>1, <3>1, FrontOfAppend
    <3>4. Bytes(longer) = Bytes(last) + RowSize(row)
      BY <2>1, <3>1, BytesOfRow
    <3>5. size = Bytes(last) /\ size < ChunkSize
      BY <2>2, <2>6 DEF Bounded, Last, Full
    <3>6. chunks' = [chunks EXCEPT ![n] = longer]
      BY <2>6
    <3> HIDE DEF longer, last
    <3>7. /\ chunks' \in Seq(Seq(R)) /\ Len(chunks') = n
          /\ \A k \in 1..n : chunks'[k] = IF k = n THEN longer ELSE chunks[k]
      <4>1. n \in 1..Len(chunks)
        BY <2>3, <2>6
      <4> DEFINE SR == Seq(R)
      <4>2. chunks \in Seq(SR) /\ longer \in SR
        BY <2>1, <3>2
      <4> HIDE DEF SR
      <4>3. /\ [chunks EXCEPT ![n] = longer] \in Seq(SR)
            /\ Len([chunks EXCEPT ![n] = longer]) = Len(chunks)
            /\ \A k \in 1..Len(chunks) :
                 [chunks EXCEPT ![n] = longer][k] = IF k = n THEN longer ELSE chunks[k]
        BY ONLY <4>1, <4>2, ExceptSeq
      <4>4. QED
        BY <3>6, <4>3 DEF SR
    <3>8. DOMAIN chunks' = 1..n
      BY <3>7, LenProperties
    <3>9. ASSUME NEW k \in DOMAIN chunks'
          PROVE  /\ chunks'[k] # <<>> /\ Bytes(Front(chunks'[k])) < ChunkSize
                 /\ k < Len(chunks') => Bytes(chunks'[k]) >= ChunkSize
      <4>1. k \in 1..n
        BY <3>8
      <4>2. CASE k = n
        <5>1. chunks'[k] = longer
          BY <3>7, <4>1, <4>2
        <5>2. ~(k < Len(chunks'))
          <6> HIDE DEF n
          <6>1. QED
            BY ONLY <2>3, <3>7, <4>2
        <5>3. QED
          BY <3>2, <3>3, <3>5, <5>1, <5>2
      <4>3. CASE k # n
        <5>1. chunks'[k] = chunks[k]
          BY <3>7, <4>1, <4>3
        <5>2. QED
          BY <2>3, <3>7, <4>1, <5>1 DEF Bounded, ChunksBounded
      <4>4. QED
        BY <4>2, <4>3
    <3>10. Last(chunks') = longer
      BY <2>3, <2>6, <3>7 DEF Last
    <3>11. QED
      BY <2>6, <3>4, <3>5, <3>9, <3>10 DEF Bounded, ChunksBounded
  <2>7. QED
    BY <2>1, <2>5, <2>6
<1>2. CASE ~(Write /\ Lines[at] # <<>>)
  <2>1. UNCHANGED <<chunks, size>>
    BY <1>2 DEF Next, NoHeader, HeaderFound, Infer, Inferred, Write, WriteRaises, Normalized, vars
  <2>2. chunks' = chunks /\ size' = size
    BY <2>1
  <2>3. \A k \in DOMAIN chunks' :
          /\ chunks'[k] # <<>> /\ Bytes(Front(chunks'[k])) < ChunkSize
          /\ k < Len(chunks') => Bytes(chunks'[k]) >= ChunkSize
    BY <2>2 DEF Bounded, ChunksBounded
  <2>4. chunks' # <<>> => size' = Bytes(Last(chunks'))
    BY <2>2 DEF Bounded
  <2>5. QED
    BY <2>3, <2>4 DEF Bounded, ChunksBounded
<1>3. QED
  BY <1>1, <1>2

\* A chunk is over its bound by less than its last row, whatever the rows.
THEOREM ChunksStayBounded == Spec => []ChunksBounded
<1>1. Bounded => ChunksBounded
  BY DEF Bounded
<1>2. QED
  BY <1>1, InvInit, InvNext, BoundedInit, BoundedNext, PTL DEF Spec

-----------------------------------------------------------------------------
(* No row is lost and no value shifted. *)

\* The rows of the file before the n-th line, and what is written for them.
Taken(n) == NotBlank(SubSeq(Lines, headerAt + 1, n - 1))
RowsOf(lines) == [i \in DOMAIN lines |-> Row(lines[i])]

\* The chunks, one after the other, are the rows the second pass has taken.
Copying ==
  /\ pc \in {"write", "normalized"} => FlattenSeq(chunks) = RowsOf(Taken(at))
  /\ pc = "normalized" => at = Len(Lines) + 1

\* Leaving out the blank lines keeps the others, and only them.
LEMMA NotBlankType ==
  ASSUME NEW R, NEW lines \in Seq(R)
  PROVE  NotBlank(lines) \in Seq(R)
<1> DEFINE kept == [i \in DOMAIN lines |-> IF lines[i] = <<>> THEN <<>> ELSE <<lines[i]>>]
<1>1. /\ Len(lines) \in Nat /\ DOMAIN lines = 1..Len(lines)
      /\ \A i \in 1..Len(lines) : lines[i] \in R
  BY LenProperties, ElementOfSeq
<1>2. <<>> \in Seq(R) /\ \A x \in R : <<x>> \in Seq(R)
  OBVIOUS
<1>3. kept \in [1..Len(lines) -> Seq(R)]
  BY <1>1, <1>2
<1> HIDE DEF kept
<1>4. kept \in Seq(Seq(R))
  BY <1>1, <1>3, SeqDef
<1>5. FlattenSeq(kept) \in Seq(R)
  BY <1>4, FlattenType
<1>6. QED
  BY <1>5 DEF NotBlank, kept

\* One line more is one row more, unless it is blank.
LEMMA NotBlankLast ==
  ASSUME NEW R, NEW lines \in Seq(R), NEW x \in R
  PROVE  /\ NotBlank(<<>>) = <<>>
         /\ NotBlank(Append(lines, x)) = IF x = <<>> THEN NotBlank(lines) ELSE Append(NotBlank(lines), x)
<1> DEFINE Kept(l) == IF l = <<>> THEN <<>> ELSE <<l>>
           kept == [i \in DOMAIN lines |-> Kept(lines[i])]
           longer == Append(lines, x)
           all == [i \in DOMAIN longer |-> Kept(longer[i])]
           n == Len(lines)
<1>1. n \in Nat /\ DOMAIN lines = 1..n /\ \A i \in 1..n : lines[i] \in R
  BY LenProperties, ElementOfSeq
<1>2. /\ DOMAIN longer = 1..(n + 1) /\ longer[n + 1] = x
      /\ \A i \in 1..n : longer[i] = lines[i]
  BY AppendProperties, LenProperties
<1>3. \A l \in R : Kept(l) \in Seq(R)
  OBVIOUS
<1> HIDE DEF longer, Kept, n
<1>4. kept \in [1..n -> Seq(R)]
  BY <1>1, <1>3
<1>5. all \in [1..(n + 1) -> Seq(R)]
  <2>1. \A i \in 1..(n + 1) : i \in 1..n \/ i = n + 1
    BY <1>1
  <2>2. \A i \in 1..(n + 1) : longer[i] \in R
    BY <1>1, <1>2, <2>1
  <2>3. QED
    BY <1>2, <1>3, <2>2
<1>6. /\ \A i \in 1..n : all[i] = kept[i]
      /\ all[n + 1] = Kept(x)
  BY <1>1, <1>2
<1> HIDE DEF kept, all
<1>7. kept \in Seq(Seq(R)) /\ all \in Seq(Seq(R)) /\ Len(kept) = n /\ Len(all) = n + 1
  <2>1. n \in Nat /\ n + 1 \in Nat
    BY <1>1
  <2>2. QED
    BY <1>4, <1>5, <2>1, LengthIs
<1>8. all = Append(kept, Kept(x))
  <2> DEFINE t == Append(kept, Kept(x))
  <2>1. /\ t \in Seq(Seq(R)) /\ Len(t) = n + 1
        /\ \A i \in 1..n : t[i] = kept[i]
        /\ t[n + 1] = Kept(x)
    BY <1>3, <1>7, AppendProperties
  <2> HIDE DEF t
  <2>2. \A i \in 1..(n + 1) : i \in 1..n \/ i = n + 1
    BY <1>1
  <2>3. \A i \in 1..(n + 1) : all[i] = t[i]
    BY <1>6, <2>1, <2>2
  <2>4. all = t
    BY <1>7, <2>1, <2>3, SeqEqual
  <2>5. QED
    BY <2>4 DEF t
<1>9. FlattenSeq(all) = FlattenSeq(kept) \o Kept(x) /\ FlattenSeq(kept) \in Seq(R)
  BY <1>3, <1>7, <1>8, FlattenLast, FlattenType
<1>10. NotBlank(lines) = FlattenSeq(kept) /\ NotBlank(longer) = FlattenSeq(all)
  BY DEF NotBlank, kept, all, Kept
<1>11. NotBlank(<<>>) = <<>>
  <2>1. [i \in DOMAIN <<>> |-> IF <<>>[i] = <<>> THEN <<>> ELSE <<<<>>[i]>>] = <<>>
    OBVIOUS
  <2>2. FlattenSeq(<<>>) = <<>>
    BY EmptySeq DEF FlattenSeq
  <2>3. QED
    BY <2>1, <2>2 DEF NotBlank
<1>12. CASE x = <<>>
  <2>1. Kept(x) = <<>>
    BY <1>12 DEF Kept
  <2>2. FlattenSeq(all) = FlattenSeq(kept)
    BY <1>9, <2>1, ConcatEmptySeq
  <2>3. QED
    BY <1>10, <1>11, <1>12, <2>2 DEF longer
<1>13. CASE x # <<>>
  <2>1. Kept(x) = <<x>>
    BY <1>13 DEF Kept
  <2>2. FlattenSeq(all) = Append(FlattenSeq(kept), x)
    BY <1>9, <2>1, AppendIsConcat
  <2>3. QED
    BY <1>10, <1>11, <1>13, <2>2 DEF longer
<1>14. QED
  BY <1>12, <1>13

\* What is written for one row more.
LEMMA RowsOfLast ==
  ASSUME NEW R, NEW lines \in Seq(R), NEW x \in R
  PROVE  /\ RowsOf(<<>>) = <<>>
         /\ RowsOf(Append(lines, x)) = Append(RowsOf(lines), Row(x))
<1> DEFINE n == Len(lines)
           S == {Row(l) : l \in R}
           longer == Append(lines, x)
           u == RowsOf(longer)
           v == RowsOf(lines)
<1>1. n \in Nat /\ n + 1 \in Nat /\ DOMAIN lines = 1..n /\ \A i \in 1..n : lines[i] \in R
  BY LenProperties, ElementOfSeq
<1>2. /\ DOMAIN longer = 1..(n + 1) /\ longer[n + 1] = x
      /\ \A i \in 1..n : longer[i] = lines[i]
  BY AppendProperties, LenProperties
<1>3. \A i \in 1..(n + 1) : i \in 1..n \/ i = n + 1
  BY <1>1
<1> HIDE DEF longer, n
<1>4. u = [i \in 1..(n + 1) |-> Row(longer[i])] /\ v = [i \in 1..n |-> Row(lines[i])]
  BY <1>1, <1>2 DEF RowsOf
<1> HIDE DEF u, v
<1>5. u \in [1..(n + 1) -> S] /\ v \in [1..n -> S]
  BY <1>1, <1>2, <1>3, <1>4
<1>6. /\ \A i \in 1..n : u[i] = v[i]
      /\ u[n + 1] = Row(x)
  BY <1>1, <1>2, <1>4
<1>7. Row(x) \in S
  OBVIOUS
<1> HIDE DEF S
<1>8. u \in Seq(S) /\ v \in Seq(S) /\ Len(u) = n + 1 /\ Len(v) = n
  BY <1>1, <1>5, LengthIs
<1> DEFINE t == Append(v, Row(x))
<1>9. /\ t \in Seq(S) /\ Len(t) = n + 1
      /\ \A i \in 1..n : t[i] = v[i]
      /\ t[n + 1] = Row(x)
  BY <1>7, <1>8, AppendProperties
<1> HIDE DEF t
<1>10. \A i \in 1..(n + 1) : u[i] = t[i]
  BY <1>3, <1>6, <1>9
<1>11. u = t
  BY <1>8, <1>9, <1>10, SeqEqual
<1>12. RowsOf(<<>>) = <<>>
  BY DEF RowsOf
<1>13. QED
  BY <1>11, <1>12 DEF u, t, v, longer

\* One line more is taken, unless it is blank.
LEMMA TakenStep ==
  ASSUME NEW R, Lines \in Seq(R), at \in 1..Len(Lines), headerAt \in Nat, headerAt < at
  PROVE  /\ Taken(at) \in Seq(R)
         /\ Taken(at + 1) = IF Lines[at] = <<>> THEN Taken(at) ELSE Append(Taken(at), Lines[at])
<1> DEFINE before == SubSeq(Lines, headerAt + 1, at - 1)
<1>0. Len(Lines) \in Nat /\ \A i \in 1..Len(Lines) : Lines[i] \in R
  BY LenProperties, ElementOfSeq
<1>1. before \in Seq(R)
  <2>1. headerAt + 1 \in Int /\ at - 1 \in Int
    BY <1>0
  <2>2. \A i \in (headerAt + 1)..(at - 1) : i \in 1..Len(Lines)
    BY <1>0
  <2>3. \A i \in (headerAt + 1)..(at - 1) : Lines[i] \in R
    BY <1>0, <2>2
  <2>4. QED
    BY <2>1, <2>3, SubSeqProperties
<1>2. Lines[at] \in R
  BY <1>0
<1>3. SubSeq(Lines, headerAt + 1, at) = Append(before, Lines[at])
  <2>1. headerAt + 1 \in 1..Len(Lines) /\ at \in (headerAt + 1)..Len(Lines)
    BY <1>0
  <2>2. SubSeq(Lines, headerAt + 1, at) = before \o <<Lines[at]>>
    BY <2>1, SubSeqRecursiveSecond
  <2> HIDE DEF before
  <2>3. QED
    BY <1>1, <1>2, <2>2, AppendIsConcat
<1>4. (at + 1) - 1 = at
  BY <1>0
<1>5. Taken(at) = NotBlank(before) /\ Taken(at + 1) = NotBlank(Append(before, Lines[at]))
  BY <1>3, <1>4 DEF Taken
<1> HIDE DEF before
<1>6. QED
  BY <1>1, <1>2, <1>5, NotBlankType, NotBlankLast

\* A row written comes after those of all chunks.
LEMMA WrittenLast ==
  ASSUME Inv, Write, Lines[at] # <<>>
  PROVE  FlattenSeq(chunks') = Append(FlattenSeq(chunks), Row(Lines[at]))
<1> DEFINE R == [Column -> Cell]
           row == Row(Lines[at])
<1>1. /\ chunks \in Seq(Seq(R)) /\ row \in R
      /\ \/ chunks' = Append(chunks, <<row>>)
         \/ chunks # <<>> /\ chunks' = [chunks EXCEPT ![Len(chunks)] = Append(@, row)]
  BY WriteStep
<1> HIDE DEF R, row
<1>2. FlattenSeq(chunks) \in Seq(R) /\ <<row>> \in Seq(R)
  BY <1>1, FlattenType
<1>3. Append(FlattenSeq(chunks), row) = FlattenSeq(chunks) \o <<row>>
  BY <1>1, <1>2, AppendIsConcat
<1>4. CASE chunks' = Append(chunks, <<row>>)
  <2>1. FlattenSeq(Append(chunks, <<row>>)) = FlattenSeq(chunks) \o <<row>>
    BY <1>1, <1>2, FlattenLast
  <2>2. QED
    BY <1>3, <1>4, <2>1 DEF row
<1>5. CASE chunks # <<>> /\ chunks' = [chunks EXCEPT ![Len(chunks)] = Append(@, row)]
  <2> DEFINE SR == Seq(R)
             f == Front(chunks)
             l == Last(chunks)
             longer == Append(l, row)
  <2>1. chunks \in Seq(SR)
    BY <1>1
  <2> HIDE DEF SR
  <2>2. /\ f \in Seq(SR) /\ l \in SR /\ chunks = Append(f, l)
        /\ \A e \in SR : [chunks EXCEPT ![Len(chunks)] = e] = Append(f, e)
    BY <1>5, <2>1, FrontAndLast
  <2> HIDE DEF f
  <2>3. chunks' = [chunks EXCEPT ![Len(chunks)] = longer]
    BY <1>5 DEF Last
  <2> HIDE DEF l
  <2>4. longer \in SR /\ longer = l \o <<row>>
    BY <1>1, <2>2, AppendProperties, AppendIsConcat DEF SR
  <2> HIDE DEF longer
  <2>5. chunks' = Append(f, longer)
    BY <2>2, <2>3, <2>4
  <2>6. f \in Seq(Seq(R)) /\ l \in Seq(R) /\ longer \in Seq(R)
    BY <2>2, <2>4 DEF SR
  <2>7. FlattenSeq(f) \in Seq(R)
    BY <2>6, FlattenType
  <2>8. FlattenSeq(chunks') = FlattenSeq(f) \o longer
    BY <2>5, <2>6, FlattenLast
  <2>9. FlattenSeq(chunks) = FlattenSeq(f) \o l
    BY <2>2, <2>6, FlattenLast
  <2>10. (FlattenSeq(f) \o l) \o <<row>> = FlattenSeq(f) \o (l \o <<row>>)
    <3> DEFINE ff == FlattenSeq(f)
               rr == <<row>>
    <3>1. ff \in Seq(R) /\ l \in Seq(R) /\ rr \in Seq(R)
      BY <1>2, <2>6, <2>7
    <3> HIDE DEF ff, rr
    <3>2. (ff \o l) \o rr = ff \o (l \o rr)
      BY ONLY <3>1, ConcatAssociative
    <3>3. QED
      BY <3>2 DEF ff, rr
  <2>11. QED
    BY <1>3, <2>4, <2>8, <2>9, <2>10 DEF row
<1>6. QED
  BY <1>1, <1>4, <1>5

\* Nothing is written before the second pass.
LEMMA CopyingInit == Init => Copying
  BY DEF Init, Copying

\* Each line of the second pass is copied, or blank.
LEMMA CopyingNext == Inv /\ Copying /\ [Next]_vars => Copying'
<1> SUFFICES ASSUME Inv, Copying, [Next]_vars PROVE Copying'
  OBVIOUS
<1>1. /\ Lines \in Seq(Line) /\ Len(Lines) \in Nat /\ headerAt \in Nat
      /\ at \in 0..(Len(Lines) + 1)
  <2>1. Lines \in Seq(Line) /\ Len(Lines) \in Nat
    BY LinesType DEF Inv, Position
  <2>2. QED
    BY <2>1 DEF Inv, TypeOK
<1>2. CASE NoHeader
  BY <1>2 DEF NoHeader, Copying
<1>3. CASE HeaderFound
  BY <1>3 DEF HeaderFound, Copying
<1>4. CASE Infer
  BY <1>4 DEF Infer, Copying
<1>5. CASE Inferred
  <2>1. /\ chunks' = <<>> /\ at' = headerAt + 1 /\ headerAt' = headerAt /\ Lines' = Lines
        /\ pc' = "write"
    BY <1>5, Fixed DEF Inferred, Inv, Position
  <2>2. SubSeq(Lines, headerAt + 1, (headerAt + 1) - 1) = <<>>
    <3>1. headerAt + 1 \in Int /\ (headerAt + 1) - 1 \in Int /\ (headerAt + 1) - 1 < headerAt + 1
      BY <1>1
    <3>2. QED
      BY <3>1, SubSeqEmpty
  <2>3. NotBlank(<<>>) = <<>>
    <3>1. <<>> \in Seq({0})
      OBVIOUS
    <3>2. QED
      BY <3>1, NotBlankLast
  <2>4. Taken(at)' = <<>>
    BY <2>1, <2>2, <2>3 DEF Taken
  <2>5. RowsOf(Taken(at))' = <<>>
    BY <2>4 DEF RowsOf
  <2>6. FlattenSeq(<<>>) = <<>>
    BY EmptySeq DEF FlattenSeq
  <2>7. QED
    BY <2>1, <2>5, <2>6 DEF Copying
<1>6. CASE Write
  <2>1. /\ pc = "write" /\ pc' = "write" /\ at \in 1..Len(Lines) /\ headerAt < at
        /\ at' = at + 1 /\ headerAt' = headerAt /\ types' = types /\ Lines' = Lines
        /\ UNCHANGED <<Width, Column>>
    BY <1>1, <1>6, Fixed DEF Write, Inv, Position
  <2>2. FlattenSeq(chunks) = RowsOf(Taken(at))
    BY <2>1 DEF Copying
  <2>3. /\ Taken(at) \in Seq(Line)
        /\ Taken(at + 1) = IF Lines[at] = <<>> THEN Taken(at) ELSE Append(Taken(at), Lines[at])
    BY <1>1, <2>1, TakenStep
  <2>4. Lines[at] \in Line
    BY <1>1, <2>1, ElementOfSeq
  <2>5. RowsOf(Taken(at))' = RowsOf(Taken(at + 1))
    BY <2>1 DEF RowsOf, Taken, Row
  <2>6. CASE Lines[at] = <<>>
    <3>1. chunks' = chunks
      BY <1>6, <2>6 DEF Write
    <3>2. RowsOf(Taken(at + 1)) = RowsOf(Taken(at))
      BY <2>3, <2>6
    <3>3. QED
      BY <2>1, <2>2, <2>5, <3>1, <3>2 DEF Copying
  <2>7. CASE Lines[at] # <<>>
    <3>1. FlattenSeq(chunks') = Append(FlattenSeq(chunks), Row(Lines[at]))
      BY <1>6, <2>7, WrittenLast
    <3>2. RowsOf(Taken(at + 1)) = RowsOf(Append(Taken(at), Lines[at]))
      BY <2>3, <2>7
    <3>3. RowsOf(Append(Taken(at), Lines[at])) = Append(RowsOf(Taken(at)), Row(Lines[at]))
      BY <2>3, <2>4, RowsOfLast
    <3>4. FlattenSeq(chunks') = RowsOf(Taken(at))'
      BY <2>2, <2>5, <3>1, <3>2, <3>3
    <3>5. QED
      BY <2>1, <3>4 DEF Copying
  <2>8. QED
    BY <2>6, <2>7
<1>7. CASE WriteRaises
  BY <1>7 DEF WriteRaises, Copying
<1>8. CASE Normalized
  <2>1. /\ pc = "write" /\ UNCHANGED <<source, headerAt, names, at, types, chunks>>
        /\ at = Len(Lines) + 1
    BY <1>1, <1>8 DEF Normalized
  <2>2. UNCHANGED <<Lines, Width, Column>>
    BY <2>1, Fixed
  <2>3. RowsOf(Taken(at))' = RowsOf(Taken(at))
    BY <2>1, <2>2 DEF RowsOf, Taken, Row
  <2>4. QED
    BY <2>1, <2>2, <2>3 DEF Copying
<1>9. CASE UNCHANGED vars
  <2>1. UNCHANGED <<pc, source, headerAt, names, at, types, chunks>>
    BY <1>9 DEF vars
  <2>2. UNCHANGED <<Lines, Width, Column>>
    BY <2>1, Fixed
  <2>3. RowsOf(Taken(at))' = RowsOf(Taken(at))
    BY <2>1, <2>2 DEF RowsOf, Taken, Row
  <2>4. QED
    BY <2>1, <2>2, <2>3 DEF Copying
<1>10. QED
  BY <1>2, <1>3, <1>4, <1>5, <1>6, <1>7, <1>8, <1>9 DEF Next

\* A row has a cell for every column, and each value under its own header.
LEMMA RowKeeps ==
  ASSUME Width \in Nat, types \in [Column -> ColumnType], NEW line \in Seq(Kind),
         \A c \in Column \cap DOMAIN line : Fits(line[c], types[c])
  PROVE  /\ Len(Row(line)) = Width
         /\ \A c \in Column \cap DOMAIN line :
              \/ line[c] = "null"
              \/ line[c] = "datetime" /\ Row(line)[c] = "iso"
              \/ Row(line)[c] \in {line[c], "joined"}
<1>1. Len(Row(line)) = Width
  <2>1. Row(line) \in [1..Width -> Cell]
    BY RowFits DEF Column
  <2>2. QED
    BY <2>1, LengthIs
<1>2. ASSUME NEW c \in Column \cap DOMAIN line, line[c] # "null"
      PROVE  \/ line[c] = "datetime" /\ Row(line)[c] = "iso"
             \/ Row(line)[c] \in {line[c], "joined"}
  <2>1. c \in Nat /\ c <= Len(line) /\ Len(line) \in Nat
    BY LenProperties DEF Column
  <2>2. Row(line)[c] = "joined" \/ Row(line)[c] = Converted(line[c], types[c])
    <3>1. c \in Column /\ ~(c > Len(line))
      BY <2>1
    <3>2. CASE c = Width /\ Len(line) > Width
      BY <3>1, <3>2 DEF Row
    <3>3. CASE ~(c = Width /\ Len(line) > Width)
      BY <3>1, <3>3 DEF Row
    <3>4. QED
      BY <3>2, <3>3
  <2>3. types[c] \in {"long", "real", "datetime", "string"} /\ Accepts(line[c], line[c])
    BY DEF ColumnType, NarrowType, Accepts
  <2>4. Fits(line[c], types[c])
    OBVIOUS
  <2>5. CASE types[c] = "datetime"
    <3>1. line[c] = "datetime"
      BY <1>2, <2>4, <2>5 DEF Fits, Accepts
    <3>2. Converted(line[c], types[c]) = "iso"
      BY <1>2, <2>5 DEF Converted
    <3>3. QED
      BY <2>2, <3>1, <3>2
  <2>6. CASE types[c] # "datetime"
    <3>1. Converted(line[c], types[c]) = line[c]
      BY <1>2, <2>3, <2>6 DEF Converted
    <3>2. QED
      BY <2>2, <3>1
  <2>7. QED
    BY <2>5, <2>6
<1>3. QED
  BY <1>1, <1>2

\* What the copy says once the file is finished.
LEMMA CopiedKeeps == Inv /\ Copying => NothingLostOrShifted
<1> SUFFICES ASSUME Inv, Copying, pc = "normalized"
             PROVE  LET written == FlattenSeq(chunks)
                    IN /\ Len(written) = Len(DataRows)
                       /\ \A i \in DOMAIN written :
                            /\ Len(written[i]) = Width
                            /\ \A c \in Column \cap DOMAIN DataRows[i] :
                                 \/ DataRows[i][c] = "null"
                                 \/ DataRows[i][c] = "datetime" /\ written[i][c] = "iso"
                                 \/ written[i][c] \in {DataRows[i][c], "joined"}
  BY DEF NothingLostOrShifted
<1> DEFINE R == {Lines[j] : j \in {k \in DOMAIN Lines : headerAt < k}}
           rows == DataRows
           written == FlattenSeq(chunks)
<1>1. /\ Len(Lines) \in Nat /\ DOMAIN Lines = 1..Len(Lines) /\ headerAt \in Nat
      /\ \A i \in DOMAIN Lines : Lines[i] \in Seq(Kind)
  <2>1. /\ Len(Lines) \in Nat /\ DOMAIN Lines = 1..Len(Lines)
        /\ \A i \in DOMAIN Lines : Lines[i] \in Seq(Kind)
    BY LinesType DEF Inv, Position
  <2>2. QED
    BY <2>1 DEF Inv, TypeOK
<1>2. written = RowsOf(rows)
  <2>1. at - 1 = Len(Lines) /\ written = RowsOf(Taken(at))
    BY <1>1 DEF Copying
  <2>2. QED
    BY <2>1 DEF Taken, DataRows
<1>3. rows \in Seq(R)
  <2> DEFINE after == SubSeq(Lines, headerAt + 1, Len(Lines))
  <2>1. headerAt + 1 \in Int /\ Len(Lines) \in Int
    BY <1>1
  <2>2. \A i \in (headerAt + 1)..Len(Lines) : Lines[i] \in R
    BY <1>1
  <2> HIDE DEF R
  <2>3. after \in Seq(R)
    BY <2>1, <2>2, SubSeqProperties
  <2> HIDE DEF after
  <2>4. NotBlank(after) \in Seq(R)
    BY <2>3, NotBlankType
  <2>5. QED
    BY <2>4 DEF DataRows, after
<1>4. Width \in Nat /\ types \in [Column -> ColumnType]
  BY DEF Inv, TypeOK, Position
<1>5. ASSUME NEW line \in R
      PROVE  /\ Len(Row(line)) = Width
             /\ \A c \in Column \cap DOMAIN line :
                  \/ line[c] = "null"
                  \/ line[c] = "datetime" /\ Row(line)[c] = "iso"
                  \/ Row(line)[c] \in {line[c], "joined"}
  <2>1. PICK j \in DOMAIN Lines : headerAt < j /\ line = Lines[j]
    OBVIOUS
  <2>2. line \in Seq(Kind)
    BY <1>1, <2>1
  <2>3. \A c \in Column \cap DOMAIN line : Fits(line[c], types[c])
    BY <2>1 DEF Inv, Settled
  <2>4. QED
    BY <1>4, <2>2, <2>3, RowKeeps
<1> HIDE DEF R, rows, written
<1>6. /\ Len(rows) \in Nat /\ DOMAIN rows = 1..Len(rows)
      /\ \A i \in DOMAIN rows : rows[i] \in R
  BY <1>3, LenProperties, ElementOfSeq
<1>7. DOMAIN written = DOMAIN rows /\ \A i \in DOMAIN rows : written[i] = Row(rows[i])
  BY <1>2 DEF RowsOf
<1>8. Len(written) = Len(rows)
  <2> DEFINE S == {Row(l) : l \in R}
  <2>1. written = [i \in 1..Len(rows) |-> Row(rows[i])]
    BY <1>2, <1>6 DEF RowsOf
  <2>2. written \in [1..Len(rows) -> S]
    BY <1>6, <2>1
  <2> HIDE DEF S
  <2>3. QED
    BY <1>6, <2>2, LengthIs
<1>9. QED
  BY <1>5, <1>6, <1>7, <1>8 DEF rows, written

\* "a changed column order can never shift data into the wrong column": once
\* a file is normalized, its chunks hold its rows in order, as many cells each
\* as there are columns, and every value under its own header.
THEOREM RowsKept == Spec => []NothingLostOrShifted
  BY InvInit, InvNext, CopyingInit, CopyingNext, CopiedKeeps, PTL DEF Spec
=============================================================================
