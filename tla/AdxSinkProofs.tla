---------------------------- MODULE AdxSinkProofs ----------------------------
(***************************************************************************)
(* Theorems about AdxSink, for any set of image names, CSVs and threads    *)
(* and any number of openings.                                             *)
(***************************************************************************)
EXTENDS AdxSink, TLAPS

(* The inductive invariant, in named parts. *)

\* No table was created and no row queued in the database of this name.
Unused(n) == schema[n] = Nothing /\ \A q \in queued : q.to # n

\* A name given to a new database was never used: used ones exist, and bear
\* no second or one that is over.
Freshness ==
  /\ \A n \in Name : Unused(n) \/ (n \in databases /\ n.at < clock)
  /\ opening.pc = "create" => opening.name.at <= clock
  /\ opening.pc \in {"create", "policy"} => Unused(opening.name)
  /\ opening.pc \in {"policy", "open"} => database \in databases /\ database.at < clock

\* Each call of open() takes a second at most once and counts one image at
\* most; CSVs wait only while an image is open.
Counting ==
  /\ clock <= attempts + 1
  /\ opening.pc = "create" => clock <= attempts
  /\ opening.pc \in {"create", "policy"} => opened < attempts
  /\ opening.pc = "open" => opened >= 1
  /\ todo # {} => opening.pc = "open"

\* What the threads know of their table is what the cache and ADX know.
Knowledge ==
  \A t \in Thread :
    /\ job[t].pc = "locked" => job[t].existing = tables[job[t].csv.table]
    /\ job[t].pc = "mapped" =>
         /\ job[t].columns \subseteq schema[database][job[t].csv.table]
         /\ Called(job[t].columns) = Called(job[t].csv.columns)

Inv == TypeOK /\ Freshness /\ Counting /\ CacheIsAdx /\ Knowledge /\ RowsMatchTheirTable

-----------------------------------------------------------------------------

\* A CSV of an image has a table, and columns with names.
LEMMA CsvType ==
  ASSUME NEW csv \in Csv
  PROVE  csv.table \in Table /\ csv.columns \in SUBSET Column
  BY DEF Table, Column

\* A command adds columns to one table of one database.
LEMMA ColumnsAdded ==
  ASSUME NEW f \in [Name -> [Table -> SUBSET Column]], NEW n \in Name, NEW table \in Table,
         NEW columns \in SUBSET Column
  PROVE  /\ [f EXCEPT ![n][table] = @ \cup columns] \in [Name -> [Table -> SUBSET Column]]
         /\ [f EXCEPT ![n][table] = @ \cup columns][n][table] = f[n][table] \cup columns
         /\ \A a \in Table : f[n][a] \subseteq [f EXCEPT ![n][table] = @ \cup columns][n][a]
<1>1. [f[n] EXCEPT ![table] = @ \cup columns] \in [Table -> SUBSET Column]
  OBVIOUS
<1>2. QED
  BY <1>1

\* The invariant holds at first, whatever databases an earlier process left.
LEMMA InvInit == Init => Inv
<1> SUFFICES ASSUME Init PROVE Inv
  OBVIOUS
<1> USE SinkAssumption, NoDatabaseAssumption DEF Init
<1>1. TypeOK
  BY DEF TypeOK, Idle, Busy, Nothing, Name, Job
<1>2. Freshness
  BY DEF Freshness, Unused, Idle
<1>3. Counting
  BY DEF Counting, Idle
<1>4. CacheIsAdx
  BY DEF CacheIsAdx
<1>5. Knowledge
  BY DEF Knowledge, Idle
<1>6. RowsMatchTheirTable
  BY DEF RowsMatchTheirTable
<1>7. QED
  BY <1>1, <1>2, <1>3, <1>4, <1>5, <1>6 DEF Inv

\* Every step keeps the invariant.
LEMMA InvNext == Inv /\ [Next]_vars => Inv'
<1> SUFFICES ASSUME Inv, [Next]_vars PROVE Inv'
  OBVIOUS
<1> USE SinkAssumption, NoDatabaseAssumption DEF Inv, Idle
<1>1. ASSUME NEW base \in Base, LookUp(base) PROVE Inv'
  <2> USE <1>1, CsvType DEF LookUp, UnusedName, adx
  <2>1. TypeOK'
    BY DEF TypeOK, Job, Busy, Counting, Name, Nothing
  <2>2. Freshness'
    <3>1. UnusedName(base) \in Name /\ UnusedName(base).at <= clock
      BY DEF TypeOK, Name
    <3>2. Unused(UnusedName(base))
      <4>1. CASE [base |-> base, at |-> 0] \in databases
        <5>1. UnusedName(base).at = clock
          BY <4>1
        <5>2. Unused(UnusedName(base)) \/ UnusedName(base).at < clock
          BY <3>1 DEF Freshness
        <5>3. QED
          BY <5>1, <5>2 DEF TypeOK
      <4>2. CASE [base |-> base, at |-> 0] \notin databases
        <5>1. UnusedName(base) \notin databases
          BY <4>2
        <5>2. QED
          BY <3>1, <5>1 DEF Freshness
      <4>3. QED
        BY <4>1, <4>2
    <3>3. \A n \in Name : Unused(n)' <=> Unused(n)
      BY DEF Unused
    <3>4. opening'.pc = "create" /\ opening'.name = UnusedName(base) /\ clock' = clock /\ databases' = databases
      OBVIOUS
    <3>5. QED
      BY <3>1, <3>2, <3>3, <3>4 DEF Freshness, Unused
  <2>3. Counting'
    BY DEF TypeOK, Counting
  <2>4. CacheIsAdx'
    BY DEF TypeOK, CacheIsAdx, Freshness, Unused, Knowledge, Job, Nothing
  <2>5. Knowledge'
    BY DEF TypeOK, Knowledge, CacheIsAdx, Job, Busy, Called
  <2>6. RowsMatchTheirTable'
    BY DEF TypeOK, RowsMatchTheirTable, Knowledge, Job
  <2>7. QED
    BY <2>1, <2>2, <2>3, <2>4, <2>5, <2>6
<1>2. CASE CreateDatabase
  <2> USE <1>2, CsvType DEF CreateDatabase
  <2>1. TypeOK'
    BY DEF TypeOK, Job, Busy, Counting, Name, Nothing
  <2>2. Freshness'
    <3>1. opening' = [pc |-> "policy", name |-> opening.name] /\ opening.name \in Name
      BY DEF TypeOK
    <3>2. \A n \in Name : Unused(n)' <=> Unused(n)
      BY DEF Unused
    <3>3. \A n \in Name : Unused(n)' \/ (n \in databases' /\ n.at < clock')
      BY <3>2 DEF Freshness, TypeOK, Name
    <3>4. Unused(opening.name) /\ opening.name.at <= clock
      BY DEF Freshness
    <3>5. QED
      BY <3>1, <3>2, <3>3, <3>4 DEF Freshness, Unused, TypeOK, Name
  <2>3. Counting'
    BY DEF TypeOK, Counting
  <2>4. CacheIsAdx'
    BY DEF TypeOK, CacheIsAdx, Freshness, Unused, Knowledge, Job, Nothing
  <2>5. Knowledge'
    BY DEF TypeOK, Knowledge, CacheIsAdx, Job, Busy, Called
  <2>6. RowsMatchTheirTable'
    BY DEF TypeOK, RowsMatchTheirTable, Knowledge, Job
  <2>7. QED
    BY <2>1, <2>2, <2>3, <2>4, <2>5, <2>6
<1>3. CASE CreateRaises
  <2> USE <1>3, CsvType DEF CreateRaises, adx
  <2>1. TypeOK'
    BY DEF TypeOK, Job, Busy, Counting, Name, Nothing
  <2>2. Freshness'
    <3>1. \A n \in Name : Unused(n)' <=> Unused(n)
      BY DEF Unused
    <3>2. \A n \in Name : Unused(n)' \/ (n \in databases' /\ n.at < clock')
      BY <3>1 DEF Freshness, TypeOK, Name
    <3>3. opening'.pc = "idle"
      OBVIOUS
    <3>4. QED
      BY <3>2, <3>3 DEF Freshness
  <2>3. Counting'
    BY DEF TypeOK, Counting
  <2>4. CacheIsAdx'
    BY DEF TypeOK, CacheIsAdx, Freshness, Unused, Knowledge, Job, Nothing
  <2>5. Knowledge'
    BY DEF TypeOK, Knowledge, CacheIsAdx, Job, Busy, Called
  <2>6. RowsMatchTheirTable'
    BY DEF TypeOK, RowsMatchTheirTable, Knowledge, Job
  <2>7. QED
    BY <2>1, <2>2, <2>3, <2>4, <2>5, <2>6
<1>4. CASE SetPolicy
  <2> USE <1>4, CsvType DEF SetPolicy, adx
  <2>1. TypeOK'
    BY DEF TypeOK, Job, Busy, Counting, Name, Nothing
  <2>2. Freshness'
    BY DEF TypeOK, Freshness, Unused, Name, Nothing
  <2>3. Counting'
    BY DEF TypeOK, Counting
  <2>4. CacheIsAdx'
    BY DEF TypeOK, CacheIsAdx, Freshness, Unused, Knowledge, Job, Nothing
  <2>5. Knowledge'
    BY DEF TypeOK, Knowledge, CacheIsAdx, Job, Busy, Called
  <2>6. RowsMatchTheirTable'
    BY DEF TypeOK, RowsMatchTheirTable, Knowledge, Job
  <2>7. QED
    BY <2>1, <2>2, <2>3, <2>4, <2>5, <2>6
<1>5. CASE PolicyRaises
  <2> USE <1>5, CsvType DEF PolicyRaises, adx
  <2>1. TypeOK'
    BY DEF TypeOK, Job, Busy, Counting, Name, Nothing
  <2>2. Freshness'
    BY DEF TypeOK, Freshness, Unused, Name, Nothing
  <2>3. Counting'
    BY DEF TypeOK, Counting
  <2>4. CacheIsAdx'
    BY DEF TypeOK, CacheIsAdx, Freshness, Unused, Knowledge, Job, Nothing
  <2>5. Knowledge'
    BY DEF TypeOK, Knowledge, CacheIsAdx, Job, Busy, Called
  <2>6. RowsMatchTheirTable'
    BY DEF TypeOK, RowsMatchTheirTable, Knowledge, Job
  <2>7. QED
    BY <2>1, <2>2, <2>3, <2>4, <2>5, <2>6
<1>6. CASE Close
  <2> USE <1>6, CsvType DEF Close, Busy, adx
  <2>1. TypeOK'
    BY DEF TypeOK, Job, Busy, Counting, Name, Nothing
  <2>2. Freshness'
    BY DEF TypeOK, Freshness, Unused, Name, Nothing
  <2>3. Counting'
    BY DEF TypeOK, Counting
  <2>4. CacheIsAdx'
    BY DEF TypeOK, CacheIsAdx, Freshness, Unused, Knowledge, Job, Nothing
  <2>5. Knowledge'
    BY DEF TypeOK, Knowledge, CacheIsAdx, Job, Busy, Called
  <2>6. RowsMatchTheirTable'
    BY DEF TypeOK, RowsMatchTheirTable, Knowledge, Job
  <2>7. QED
    BY <2>1, <2>2, <2>3, <2>4, <2>5, <2>6
<1>7. ASSUME NEW t \in Thread, NEW csv \in Csv, Ingest(t, csv) PROVE Inv'
  <2> USE <1>7, CsvType DEF Ingest, Busy, arm, adx
  <2>1. TypeOK'
    <3>1. [pc |-> "ensure", csv |-> csv] \in Job
      BY DEF Job
    <3>2. job'[t] = [pc |-> "ensure", csv |-> csv]
      BY DEF TypeOK
    <3>3. job' \in [Thread -> Job]
      BY <3>1 DEF TypeOK
    <3>4. \A u \in Thread : /\ job'[u] # Idle => opening.pc = "open"
                            /\ lock' = u <=> job'[u].pc = "locked"
      <4>1. opening.pc = "open" /\ lock' = lock /\ job[t].pc = "idle"
        BY DEF Counting, Busy
      <4>2. \A u \in Thread : u # t => job'[u] = job[u]
        BY DEF TypeOK
      <4>3. QED
        BY <3>2, <4>1, <4>2 DEF TypeOK, Busy
    <3>5. QED
      BY <3>3, <3>4 DEF TypeOK, Busy
  <2>2. Freshness'
    BY DEF TypeOK, Freshness, Unused, Name, Nothing
  <2>3. Counting'
    BY DEF TypeOK, Counting
  <2>4. CacheIsAdx'
    BY DEF TypeOK, CacheIsAdx, Freshness, Unused, Knowledge, Job, Nothing
  <2>5. Knowledge'
    BY DEF TypeOK, Knowledge, CacheIsAdx, Job, Busy, Called
  <2>6. RowsMatchTheirTable'
    BY DEF TypeOK, RowsMatchTheirTable, Knowledge, Job
  <2>7. QED
    BY <2>1, <2>2, <2>3, <2>4, <2>5, <2>6
<1>8. ASSUME NEW t \in Thread, Acquire(t) PROVE Inv'
  <2> USE <1>8, CsvType DEF Acquire, arm, adx
  <2>1. TypeOK'
    BY DEF TypeOK, Job, Busy, Counting, Name, Nothing
  <2>2. Freshness'
    BY DEF TypeOK, Freshness, Unused, Name, Nothing
  <2>3. Counting'
    BY DEF TypeOK, Counting
  <2>4. CacheIsAdx'
    BY DEF TypeOK, CacheIsAdx, Freshness, Unused, Knowledge, Job, Nothing
  <2>5. Knowledge'
    BY DEF TypeOK, Knowledge, CacheIsAdx, Job, Busy, Called
  <2>6. RowsMatchTheirTable'
    BY DEF TypeOK, RowsMatchTheirTable, Knowledge, Job
  <2>7. QED
    BY <2>1, <2>2, <2>3, <2>4, <2>5, <2>6
<1>9. ASSUME NEW t \in Thread, Known(t) PROVE Inv'
  <2> USE <1>9, CsvType DEF Known, Mapped, Mapping, Missing, arm, adx
  <2>1. TypeOK'
    BY DEF TypeOK, Job, Busy, Counting, Name, Nothing
  <2>2. Freshness'
    BY DEF TypeOK, Freshness, Unused, Name, Nothing
  <2>3. Counting'
    BY DEF TypeOK, Counting
  <2>4. CacheIsAdx'
    BY DEF TypeOK, CacheIsAdx, Freshness, Unused, Knowledge, Job, Nothing
  <2>5. Knowledge'
    <3>1. job[t] \in [pc : {"locked"}, csv : Csv, existing : SUBSET Column]
      BY DEF TypeOK, Job
    <3> DEFINE columns == {c \in job[t].existing : c.name \in Called(job[t].csv.columns)}
    <3>2. job' = [job EXCEPT ![t] = [pc |-> "mapped", csv |-> job[t].csv, columns |-> columns]]
      OBVIOUS
    <3>3. columns \subseteq schema[database][job[t].csv.table]
      BY <3>1 DEF TypeOK, Knowledge, CacheIsAdx, Busy
    <3>4. Called(columns) = Called(job[t].csv.columns)
      BY <3>1 DEF Called
    <3> HIDE DEF columns
    <3>5. \A u \in Thread : u # t => job'[u] = job[u]
      BY <3>2 DEF TypeOK
    <3>6. job'[t] = [pc |-> "mapped", csv |-> job[t].csv, columns |-> columns]
      BY <3>2 DEF TypeOK
    <3>7. schema' = schema /\ tables' = tables /\ database' = database
      OBVIOUS
    <3> HIDE <1>9 DEF Known, Mapped, Mapping, Missing
    <3>8. ASSUME NEW u \in Thread
           PROVE  /\ job'[u].pc = "locked" => job'[u].existing = tables'[job'[u].csv.table]
                  /\ job'[u].pc = "mapped" =>
                       /\ job'[u].columns \subseteq schema'[database'][job'[u].csv.table]
                       /\ Called(job'[u].columns) = Called(job'[u].csv.columns)
      <4>1. CASE u = t
        BY <4>1, <3>3, <3>4, <3>6, <3>7
      <4>2. CASE u # t
        BY <4>2, <3>5, <3>7 DEF Knowledge
      <4>3. QED
        BY <4>1, <4>2
    <3>9. QED
      BY <3>8 DEF Knowledge
  <2>6. RowsMatchTheirTable'
    BY DEF TypeOK, RowsMatchTheirTable, Knowledge, Job
  <2>7. QED
    BY <2>1, <2>2, <2>3, <2>4, <2>5, <2>6
<1>10. ASSUME NEW t \in Thread, Altered(t) PROVE Inv'
  <2> USE <1>10, CsvType DEF Altered, Command, Executed, Mapped, Mapping, Missing, Merges, arm, adx
  <2>1. TypeOK'
    <3>1. job[t] \in [pc : {"locked"}, csv : Csv, existing : SUBSET Column]
      BY DEF TypeOK, Job
    <3>2. Missing(t) \in SUBSET Column
      BY <3>1
    <3>3. job'[t] \in [pc : {"mapped"}, csv : Csv, columns : SUBSET Column]
      BY <3>1, <3>2 DEF TypeOK
    <3>4. job' \in [Thread -> Job]
      BY <3>3 DEF TypeOK, Job
    <3>5. tables' \in [Table -> SUBSET Column] /\ schema' \in [Name -> [Table -> SUBSET Column]]
      BY <3>1, <3>2, ColumnsAdded DEF TypeOK, Freshness, Busy
    <3>6. \A u \in Thread : /\ job'[u] # Idle => opening.pc = "open"
                            /\ lock' = u <=> job'[u].pc = "locked"
      BY <3>3 DEF TypeOK, Busy
    <3>7. QED
      BY <3>4, <3>5, <3>6 DEF TypeOK, Busy
  <2>2. Freshness'
    <3>1. database \in databases /\ database.at < clock /\ opening.pc = "open"
      BY DEF TypeOK, Freshness, Busy
    <3>2. \A n \in Name : n # database => (Unused(n)' <=> Unused(n))
      BY DEF Unused, TypeOK
    <3>3. QED
      BY <3>1, <3>2 DEF Freshness
  <2>3. Counting'
    BY DEF TypeOK, Counting
  <2>4. CacheIsAdx'
    <3>1. job[t] \in [pc : {"locked"}, csv : Csv, existing : SUBSET Column]
      BY DEF TypeOK, Job
    <3>2. job[t].csv.table \in Table /\ job[t].existing = tables[job[t].csv.table]
      BY <3>1 DEF Knowledge
    <3>3. database \in Name
      BY DEF TypeOK, Busy, Freshness
    <3>4. schema'[database] = [schema[database] EXCEPT ![job[t].csv.table] = @ \cup Missing(t)]
      BY <3>3 DEF TypeOK
    <3> DEFINE known == job[t].existing \cup Missing(t)
    <3>5. tables' = [tables EXCEPT ![job[t].csv.table] = known] /\ database' = database /\ lost' = lost
      OBVIOUS
    <3>6. schema'[database][job[t].csv.table] = schema[database][job[t].csv.table] \cup Missing(t)
      BY <3>2, <3>3, <3>4 DEF TypeOK
    <3>7. \A a \in Table : a # job[t].csv.table => schema'[database][a] = schema[database][a]
      BY <3>4, <3>3 DEF TypeOK
    <3>8. tables'[job[t].csv.table] = known
      BY <3>2, <3>5 DEF TypeOK
    <3>9. \A a \in Table : a # job[t].csv.table => tables'[a] = tables[a]
      BY <3>5 DEF TypeOK
    <3>10. database # None
      BY <3>3
    <3>11. known \subseteq schema'[database][job[t].csv.table]
      BY <3>2, <3>6, <3>10 DEF CacheIsAdx
    <3>12. job[t].csv.table \notin lost => known = schema'[database][job[t].csv.table]
      BY <3>2, <3>6, <3>10 DEF CacheIsAdx
    <3> HIDE <1>10 DEF known, Altered, Command, Executed, Mapped, Mapping, Missing, Merges
    <3>13. QED
      BY <3>2, <3>5, <3>7, <3>8, <3>9, <3>10, <3>11, <3>12 DEF CacheIsAdx
  <2>5. Knowledge'
    <3>1. job[t] \in [pc : {"locked"}, csv : Csv, existing : SUBSET Column]
      BY DEF TypeOK, Job
    <3> DEFINE table == job[t].csv.table
               known == job[t].existing \cup Missing(t)
               columns == {c \in known : c.name \in Called(job[t].csv.columns)}
    <3>2. job' = [job EXCEPT ![t] = [pc |-> "mapped", csv |-> job[t].csv, columns |-> columns]]
      OBVIOUS
    <3>3. database \in Name /\ database # None
      BY DEF TypeOK, Busy, Freshness
    <3>4. table \in Table /\ job[t].existing \subseteq schema[database][table]
      BY <3>1, <3>3 DEF CacheIsAdx, Knowledge
    <3>5. known \subseteq schema'[database][table]
      BY <3>3, <3>4 DEF TypeOK
    <3>6. Called(columns) = Called(job[t].csv.columns)
      BY <3>1 DEF Called
    <3>7. \A a \in Table : schema[database][a] \subseteq schema'[database][a]
      BY <3>3, <3>4 DEF TypeOK
    <3>8. \A u \in Thread : u # t => job[u].pc # "locked"
      BY DEF TypeOK
    <3>9. \A u \in Thread : job[u].pc = "mapped" => job[u].csv.table \in Table
      BY DEF TypeOK, Job
    <3>10. columns \subseteq known /\ database' = database
      OBVIOUS
    <3>11. job'[t] = [pc |-> "mapped", csv |-> job[t].csv, columns |-> columns]
      BY <3>2 DEF TypeOK
    <3>12. \A u \in Thread : u # t => job'[u] = job[u]
      BY <3>2 DEF TypeOK
    <3>13. \A a \in Table : a # table => tables'[a] = tables[a]
      BY DEF TypeOK
    <3> HIDE <1>10 DEF known, columns, Altered, Command, Executed, Mapped, Mapping, Missing, Merges
    <3>14. ASSUME NEW u \in Thread
           PROVE  /\ job'[u].pc = "locked" => job'[u].existing = tables'[job'[u].csv.table]
                  /\ job'[u].pc = "mapped" =>
                       /\ job'[u].columns \subseteq schema'[database'][job'[u].csv.table]
                       /\ Called(job'[u].columns) = Called(job'[u].csv.columns)
      <4>1. CASE u = t
        BY <4>1, <3>5, <3>6, <3>10, <3>11
      <4>2. CASE u # t
        BY <4>2, <3>7, <3>8, <3>9, <3>10, <3>12 DEF Knowledge
      <4>3. QED
        BY <4>1, <4>2
    <3>15. QED
      BY <3>14 DEF Knowledge
  <2>6. RowsMatchTheirTable'
    BY DEF TypeOK, RowsMatchTheirTable, Knowledge, Job
  <2>7. QED
    BY <2>1, <2>2, <2>3, <2>4, <2>5, <2>6
<1>11. ASSUME NEW t \in Thread, CommandRaises(t) PROVE Inv'
  <2> USE <1>11, CsvType DEF CommandRaises, Command, Raised, arm, adx
  <2>1. TypeOK'
    BY DEF TypeOK, Job, Busy, Counting, Name, Nothing
  <2>2. Freshness'
    BY DEF TypeOK, Freshness, Unused, Name, Nothing
  <2>3. Counting'
    BY DEF TypeOK, Counting
  <2>4. CacheIsAdx'
    BY DEF TypeOK, CacheIsAdx, Freshness, Unused, Knowledge, Job, Nothing
  <2>5. Knowledge'
    BY DEF TypeOK, Knowledge, CacheIsAdx, Job, Busy, Called
  <2>6. RowsMatchTheirTable'
    BY DEF TypeOK, RowsMatchTheirTable, Knowledge, Job
  <2>7. QED
    BY <2>1, <2>2, <2>3, <2>4, <2>5, <2>6
<1>12. ASSUME NEW t \in Thread, AnswerLost(t) PROVE Inv'
  <2> USE <1>12, CsvType DEF AnswerLost, Command, Executed, Raised, Missing, Merges, arm, adx
  <2>1. TypeOK'
    <3>1. job[t] \in [pc : {"locked"}, csv : Csv, existing : SUBSET Column]
      BY DEF TypeOK, Job
    <3>2. Missing(t) \in SUBSET Column /\ job[t].csv.table \in Table
      BY <3>1
    <3>3. schema' \in [Name -> [Table -> SUBSET Column]]
      BY <3>2, ColumnsAdded DEF TypeOK, Freshness, Busy
    <3>4. job' \in [Thread -> Job]
      BY DEF TypeOK, Job
    <3>5. \A u \in Thread : /\ job'[u] # Idle => opening.pc = "open"
                            /\ lock' = u <=> job'[u].pc = "locked"
      BY DEF TypeOK, Busy
    <3>6. QED
      BY <3>2, <3>3, <3>4, <3>5 DEF TypeOK, Busy
  <2>2. Freshness'
    <3>1. database \in databases /\ database.at < clock /\ opening.pc = "open"
      BY DEF TypeOK, Freshness, Busy
    <3>2. \A n \in Name : n # database => (Unused(n)' <=> Unused(n))
      BY DEF Unused, TypeOK
    <3>3. QED
      BY <3>1, <3>2 DEF Freshness
  <2>3. Counting'
    BY DEF TypeOK, Counting
  <2>4. CacheIsAdx'
    BY DEF TypeOK, CacheIsAdx, Freshness, Unused, Knowledge, Job, Nothing
  <2>5. Knowledge'
    <3>1. database \in Name /\ database' = database
      BY DEF TypeOK, Busy, Freshness
    <3>2. \A a \in Table : schema[database][a] \subseteq schema'[database][a]
      BY <3>1 DEF TypeOK
    <3>3. \A u \in Thread : job[u].pc = "mapped" => job[u].csv.table \in Table
      BY DEF TypeOK, Job
    <3>4. \A u \in Thread : u # t => job[u].pc # "locked"
      BY DEF TypeOK
    <3>5. QED
      BY <3>1, <3>2, <3>3, <3>4 DEF TypeOK, Knowledge
  <2>6. RowsMatchTheirTable'
    BY DEF TypeOK, RowsMatchTheirTable, Knowledge, Job
  <2>7. QED
    BY <2>1, <2>2, <2>3, <2>4, <2>5, <2>6
<1>13. ASSUME NEW t \in Thread, Send(t) PROVE Inv'
  <2> USE <1>13, CsvType DEF Send, Queued, arm, adx
  <2>1. TypeOK'
    BY DEF TypeOK, Job, Busy, Counting, Name, Nothing
  <2>2. Freshness'
    <3>1. database \in databases /\ database.at < clock /\ opening.pc = "open"
      BY DEF TypeOK, Freshness, Busy
    <3>2. \A n \in Name : n # database => (Unused(n)' <=> Unused(n))
      BY DEF Unused, TypeOK
    <3>3. QED
      BY <3>1, <3>2 DEF Freshness
  <2>3. Counting'
    BY DEF TypeOK, Counting
  <2>4. CacheIsAdx'
    BY DEF TypeOK, CacheIsAdx, Freshness, Unused, Knowledge, Job, Nothing
  <2>5. Knowledge'
    BY DEF TypeOK, Knowledge, CacheIsAdx, Job, Busy, Called
  <2>6. RowsMatchTheirTable'
    BY DEF TypeOK, RowsMatchTheirTable, Knowledge, Job
  <2>7. QED
    BY <2>1, <2>2, <2>3, <2>4, <2>5, <2>6
<1>14. CASE Restart
  <2> USE <1>14, CsvType DEF Restart
  <2>1. TypeOK'
    BY DEF TypeOK, Job, Busy, Counting, Name, Nothing
  <2>2. Freshness'
    BY DEF TypeOK, Freshness, Unused, Name, Nothing
  <2>3. Counting'
    BY DEF TypeOK, Counting
  <2>4. CacheIsAdx'
    BY DEF TypeOK, CacheIsAdx, Freshness, Unused, Knowledge, Job, Nothing
  <2>5. Knowledge'
    BY DEF TypeOK, Knowledge, CacheIsAdx, Job, Busy, Called
  <2>6. RowsMatchTheirTable'
    BY DEF TypeOK, RowsMatchTheirTable, Knowledge, Job
  <2>7. QED
    BY <2>1, <2>2, <2>3, <2>4, <2>5, <2>6
<1>15. CASE UNCHANGED vars
  BY <1>15 DEF vars, TypeOK, Busy, Freshness, Unused, Counting, CacheIsAdx, Knowledge, RowsMatchTheirTable
<1>16. QED
  BY <1>1, <1>2, <1>3, <1>4, <1>5, <1>6, <1>7, <1>8, <1>9, <1>10, <1>11, <1>12, <1>13, <1>14, <1>15 DEF Next, Open, PoolStep, Ensure

\* The invariant holds in every state.
LEMMA InvAlways == Spec => []Inv
  BY InvInit, InvNext, PTL DEF Spec

-----------------------------------------------------------------------------

\* Every variable keeps its type; threads work only while an image is open, and
\* the lock is held by the one thread inside it.
THEOREM SinkTypeCorrect == Spec => []TypeOK
<1>1. Inv => TypeOK
  BY DEF Inv
<1>2. QED
  BY <1>1, InvAlways, PTL

\* The table cache is what ADX has, and all of it unless the answer to a
\* command was lost, whatever fails and however the threads interleave.
THEOREM CacheKept == Spec => []CacheIsAdx
<1>1. Inv => CacheIsAdx
  BY DEF Inv
<1>2. QED
  BY <1>1, InvAlways, PTL

\* Rows are queued under a column for each of the CSV's, typed as in the table.
THEOREM RowsMatch == Spec => []RowsMatchTheirTable
<1>1. Inv => RowsMatchTheirTable
  BY DEF Inv
<1>2. QED
  BY <1>1, InvAlways, PTL

-----------------------------------------------------------------------------

\* The database of the image in process and the rows that were queued, as
\* ResultSink has them.
Destination == IF opening.pc = "open" THEN database ELSE None
Delivered == {[to |-> q.to, image |-> q.image, table |-> q.csv.table] : q \in queued}

\* Nothing is open and nothing delivered at first.
LEMMA SinkInitialised == Init => Sink!SinkInit
  BY DEF Init, Idle, Sink!SinkInit

\* SetPolicy opens a database that no row was queued in, Send delivers a table
\* or nothing, Close and Restart leave, and nothing else shows.
LEMMA SinkStep == Inv /\ [Next]_vars => [Sink!SinkNext]_Sink!sinkVars
<1> SUFFICES ASSUME Inv, [Next]_vars PROVE [Sink!SinkNext]_Sink!sinkVars
  OBVIOUS
<1>1. CASE /\ UNCHANGED <<opened, queued>>
           /\ Destination' = Destination
  BY <1>1 DEF Destination, Sink!sinkVars
<1>2. CASE /\ UNCHANGED <<opened, queued>>
           /\ Destination' = None
  BY <1>2 DEF Destination, Sink!SinkNext, Sink!Leave
<1>3. CASE SetPolicy
  <2>1. /\ opening'.pc = "open" /\ opening.pc = "policy"
        /\ UNCHANGED <<database, queued>> /\ opened' = opened + 1
    BY <1>3 DEF SetPolicy, Inv, TypeOK, Idle
  <2>2. database \in Name /\ \A q \in queued : q.to # database
    BY <2>1 DEF Inv, TypeOK, Freshness, Unused
  <2>3. Sink!OpenFor(database)
    BY <2>1, <2>2 DEF Sink!OpenFor
  <2>4. QED
    BY <2>2, <2>3 DEF Sink!SinkNext
<1>4. ASSUME NEW t \in Thread, Send(t) PROVE [Sink!SinkNext]_Sink!sinkVars
  <2>1. UNCHANGED <<opened, database, opening>>
    BY <1>4 DEF Send, arm
  <2>2. CASE queued' = queued
    BY <2>1, <2>2 DEF Sink!sinkVars
  <2>3. CASE queued' = queued \cup {Queued(t)}
    <3>1. job[t].csv \in Csv /\ opening.pc = "open" /\ database # None
      BY <1>4, NoDatabaseAssumption DEF Send, Inv, TypeOK, Freshness, Busy, Idle, Job
    <3> DEFINE rows(q) == [to |-> q.to, image |-> q.image, table |-> q.csv.table]
    <3>2. Delivered' = Delivered \cup {[to |-> database, image |-> opened, table |-> job[t].csv.table]}
      <4>1. Delivered = {rows(q) : q \in queued} /\ Delivered' = {rows(q) : q \in queued'}
        BY DEF Delivered
      <4>2. rows(Queued(t)) = [to |-> database, image |-> opened, table |-> job[t].csv.table]
        BY DEF Queued
      <4> HIDE DEF rows
      <4>3. QED
        BY <2>3, <4>1, <4>2
    <3>3. PICK table \in Table : table = job[t].csv.table
      BY <3>1, CsvType
    <3>4. Sink!Deliver(table)
      BY <2>1, <3>1, <3>2, <3>3 DEF Sink!Deliver, Delivered
    <3>5. QED
      BY <3>4 DEF Sink!SinkNext
  <2>4. QED
    BY <1>4, <2>2, <2>3 DEF Send
<1>5. ASSUME NEW base \in Base, LookUp(base) PROVE [Sink!SinkNext]_Sink!sinkVars
  BY <1>1, <1>5 DEF LookUp, Destination, Idle
<1>6. CASE CreateDatabase
  BY <1>1, <1>6 DEF CreateDatabase, Destination, Inv, TypeOK, Idle
<1>7. CASE CreateRaises \/ PolicyRaises
  BY <1>1, <1>7 DEF CreateRaises, PolicyRaises, Destination, Idle
<1>8. CASE Close \/ Restart
  BY <1>2, <1>8 DEF Close, Restart, Destination, Idle
<1>9. ASSUME NEW t \in Thread, (\E csv \in Csv : Ingest(t, csv)) \/ Ensure(t)
      PROVE  [Sink!SinkNext]_Sink!sinkVars
  <2>1. UNCHANGED <<opened, queued, opening, database>>
    BY <1>9 DEF Ingest, Ensure, Acquire, Known, Altered, CommandRaises, AnswerLost, Command, arm
  <2>2. QED
    BY <1>1, <2>1 DEF Destination
<1>10. CASE UNCHANGED vars
  BY <1>1, <1>10 DEF vars, Destination
<1>11. QED
  BY <1>3, <1>4, <1>5, <1>6, <1>7, <1>8, <1>9, <1>10 DEF Next, Open, PoolStep

\* Every image gets a database that never held a row, of this process or an
\* earlier one, and its rows go nowhere else.
THEOREM SinkRefinement == Spec => ImplementsSink
<1>1. Spec => Sink!SinkSpec
  BY SinkInitialised, SinkStep, InvAlways, PTL DEF Spec, Sink!SinkSpec
<1>2. QED
  BY <1>1 DEF ImplementsSink

-----------------------------------------------------------------------------
(* What ResultSink's steps amount to. *)

\* Where the image in process goes, only its own rows are.
Alone ==
  /\ Sink!NoMixing
  /\ Destination # None => \A r \in Delivered : r.to = Destination => r.image = opened

\* Nothing is delivered at first.
LEMMA AloneInit == Sink!SinkInit => Alone
  BY DEF Alone, Delivered, Destination, Sink!SinkInit, Sink!NoMixing

\* A destination is opened where no rows are, and takes the rows of one image
\* until it is left.
LEMMA AloneNext == Alone /\ [Sink!SinkNext]_Sink!sinkVars => Alone'
<1> SUFFICES ASSUME Alone, [Sink!SinkNext]_Sink!sinkVars PROVE Alone'
  OBVIOUS
<1> USE DEF Alone, Sink!NoMixing
<1>1. ASSUME NEW d \in Name, Sink!OpenFor(d) PROVE Alone'
  <2>1. Delivered' = Delivered /\ Destination' = d /\ \A r \in Delivered : r.to # d
    BY <1>1 DEF Sink!OpenFor, Delivered, Destination
  <2>2. QED
    BY <2>1 DEF Delivered
<1>2. ASSUME NEW table \in Table, Sink!Deliver(table) PROVE Alone'
  <2> DEFINE rows == [to |-> Destination, image |-> opened, table |-> table]
  <2>1. Delivered' = Delivered \cup {rows} /\ Destination' = Destination /\ opened' = opened /\ Destination # None
    BY <1>2 DEF Sink!Deliver, Delivered, Destination
  <2>2. rows.to = Destination /\ rows.image = opened
    OBVIOUS
  <2>3. \A r, s \in Delivered : r.to = s.to => r.image = s.image
    BY DEF Delivered
  <2> HIDE DEF rows
  <2>4. \A r, s \in Delivered' : r.to = s.to => r.image = s.image
    BY <2>1, <2>2, <2>3
  <2>5. \A r \in Delivered' : r.to = Destination' => r.image = opened'
    BY <2>1, <2>2
  <2>6. QED
    BY <2>4, <2>5 DEF Delivered
<1>3. CASE Sink!Leave
  <2>1. Delivered' = Delivered /\ Destination' = None
    BY <1>3 DEF Sink!Leave, Delivered, Destination
  <2>2. QED
    BY <2>1 DEF Delivered
<1>4. CASE UNCHANGED Sink!sinkVars
  <2>1. Delivered' = Delivered /\ Destination' = Destination /\ opened' = opened
    BY <1>4 DEF Sink!sinkVars, Delivered, Destination
  <2>2. QED
    BY <2>1 DEF Delivered
<1>5. QED
  BY <1>1, <1>2, <1>3, <1>4 DEF Sink!SinkNext

\* No database ever holds the rows of two images, whatever names are taken,
\* commands fail and services restart.
THEOREM OneImagePerDatabase == Spec => []Sink!NoMixing
<1>1. Spec => Sink!SinkSpec
  BY SinkRefinement DEF ImplementsSink
<1>2. Sink!SinkSpec => []Alone
  BY AloneInit, AloneNext, PTL DEF Sink!SinkSpec
<1>3. Alone => Sink!NoMixing
  BY DEF Alone
<1>4. QED
  BY <1>1, <1>2, <1>3, PTL
=============================================================================
