------------------------------ MODULE AdxSink ------------------------------
(***************************************************************************)
(* adx.py, AdxSink: a database of its own for each image, named after the  *)
(* file and, if that name is taken, after the second; tables created from  *)
(* the columns of the CSVs by several threads under one lock, with a cache *)
(* of what they look like; rows queued under an explicit column mapping.   *)
(* ARM and ADX commands may fail, or succeed without the answer arriving.  *)
(***************************************************************************)
EXTENDS Integers, FiniteSets

CONSTANTS
  Base,      \* the images' database names
  Csv,       \* the normalised CSVs of each image: [table, columns, rows]
  Thread,    \* of the ingestion pool
  MaxOpens,  \* bound on the images opened
  None       \* no database, no thread

Column == UNION {csv.columns : csv \in Csv}
Table == {csv.table : csv \in Csv}
Called(columns) == {c.name : c \in columns}

\* The columns of a CSV have distinct names, and there is one at least.
ASSUME SinkAssumption ==
  /\ MaxOpens \in Nat
  /\ \A csv \in Csv : csv.columns # {} /\ csv.rows \in BOOLEAN
  /\ \A csv \in Csv : \A c, d \in csv.columns : c.name = d.name => c = d
  /\ None \notin Thread

\* A database is called after the image alone or also after a second; a new
\* one starts no later than the clock may run.
Name == [base : Base, at : 0..(MaxOpens + 1)]
ASSUME NoDatabaseAssumption == None \notin Name

VARIABLES
  clock,      \* the second
  attempts,   \* calls of open() so far, bounded by MaxOpens
  opened,     \* those that returned
  databases,  \* the databases of the cluster
  schema,     \* the columns of their tables, none for a table that does not exist
  opening,    \* position of the main thread, and the name it creates
  database,   \* self.database
  tables,     \* self._tables: the columns of the tables it knows, none for the others
  lock,       \* the thread that holds self._lock
  todo,       \* CSVs of the image not yet taken by a thread
  job,        \* each thread's position, CSV and columns
  lost,       \* history: tables of the database with a command whose answer was lost
  queued      \* history: what was queued, [to, image, csv, columns]

arm == <<clock, attempts, opened, databases, opening>>
adx == <<schema, tables, lost>>
vars == <<clock, attempts, opened, databases, schema, opening, database, tables, lock, todo, job, lost, queued>>

Idle == [pc |-> "idle"]
Busy(t) == job[t] # Idle
Nothing == [t \in Table |-> {}]

Init ==
  /\ clock = 1 /\ attempts = 0 /\ opened = 0
  /\ databases \in SUBSET {[base |-> b, at |-> 0] : b \in Base}   \* of earlier years
  /\ schema = [n \in Name |-> Nothing]
  /\ opening = Idle /\ database = None /\ tables = Nothing /\ lock = None
  /\ todo = {} /\ job = [t \in Thread |-> Idle] /\ lost = {} /\ queued = {}

(* Definitions named <definition>_<bug> are the mutated forms the properties  *)
(* are tested against; no behaviour of the specification uses them.          *)

-----------------------------------------------------------------------------
(* open. *)

UnusedName_Coarse(base) ==
  IF [base |-> base, at |-> 0] \in databases THEN [base |-> base, at |-> (clock + 1) \div 2]
  ELSE [base |-> base, at |-> 0]

UnusedName(base) ==
  IF [base |-> base, at |-> 0] \in databases THEN [base |-> base, at |-> clock]
  ELSE [base |-> base, at |-> 0]

\* A lookup that raises anything but "not found" changes nothing.
LookUp(base) ==
  /\ opening = Idle
  /\ attempts < MaxOpens
  /\ attempts' = attempts + 1
  /\ opening' = [pc |-> "create", name |-> UnusedName(base)]
  /\ UNCHANGED <<clock, opened, databases, database, lock, todo, job, queued, adx>>

CreateDatabase_KeepsTables ==
  /\ opening.pc = "create"
  /\ databases' = databases \cup {opening.name}
  /\ database' = opening.name
  /\ clock' = clock + 1
  /\ opening' = [opening EXCEPT !.pc = "policy"]
  /\ lost' = {}
  /\ UNCHANGED <<attempts, opened, schema, tables, lock, todo, job, queued>>

\* ARM takes longer than a second to create a database.
CreateDatabase ==
  /\ opening.pc = "create"
  /\ databases' = databases \cup {opening.name}
  /\ database' = opening.name
  /\ tables' = Nothing
  /\ clock' = clock + 1
  /\ opening' = [opening EXCEPT !.pc = "policy"]
  /\ lost' = {}
  /\ UNCHANGED <<attempts, opened, schema, lock, todo, job, queued>>

CreateRaises ==
  /\ opening.pc = "create"
  /\ databases' \in {databases, databases \cup {opening.name}}
  /\ clock' \in {clock, clock + 1}
  /\ opening' = Idle
  /\ UNCHANGED <<attempts, opened, database, lock, todo, job, queued, adx>>

SetPolicy ==
  /\ opening.pc = "policy"
  /\ opening' = [opening EXCEPT !.pc = "open"]
  /\ opened' = opened + 1
  /\ todo' = Csv
  /\ UNCHANGED <<clock, attempts, databases, database, lock, job, queued, adx>>

PolicyRaises ==
  /\ opening.pc = "policy"
  /\ opening' = Idle
  /\ UNCHANGED <<clock, attempts, opened, databases, database, lock, todo, job, queued, adx>>

Close_NoWait ==
  /\ opening.pc = "open"
  /\ opening' = Idle
  /\ todo' = {}
  /\ UNCHANGED <<clock, attempts, opened, databases, database, lock, job, queued, adx>>

\* The image leaves the pipeline, which closes its queue and waits for it.
Close ==
  /\ opening.pc = "open"
  /\ \A t \in Thread : ~Busy(t)
  /\ opening' = Idle
  /\ todo' = {}
  /\ UNCHANGED <<clock, attempts, opened, databases, database, lock, job, queued, adx>>

-----------------------------------------------------------------------------
(* ingest and _ensure_table, on a thread of the pool. *)

Ingest(t, csv) ==
  /\ ~Busy(t)
  /\ csv \in todo
  /\ todo' = todo \ {csv}
  /\ job' = [job EXCEPT ![t] = [pc |-> "ensure", csv |-> csv]]
  /\ UNCHANGED <<database, lock, queued, arm, adx>>

Acquire(t) ==
  /\ job[t].pc = "ensure"
  /\ lock = None
  /\ lock' = t
  /\ job' = [job EXCEPT ![t] = [pc |-> "locked", csv |-> @.csv, existing |-> tables[@.csv.table]]]
  /\ UNCHANGED <<database, todo, queued, arm, adx>>

Missing(t) == {c \in job[t].csv.columns : c.name \notin Called(job[t].existing)}

\* .create-merge and .alter-merge refuse to change the type of a column.
Merges(columns, existing) ==
  \A c \in columns, d \in existing : c.name = d.name => c = d

\* The table's columns of these names, as ADX has them.
Mapping_AsInferred(columns, existing) == columns

Mapping(columns, existing) == {c \in existing : c.name \in Called(columns)}

\* Leaving the lock with the columns to queue under, or by an exception.
Mapped(t, existing) ==
  /\ lock' = None
  /\ job' = [job EXCEPT ![t] = [pc |-> "mapped", csv |-> @.csv,
                                columns |-> Mapping(@.csv.columns, existing)]]

Raised(t) ==
  /\ lock' = None
  /\ job' = [job EXCEPT ![t] = Idle]

Known(t) ==
  /\ job[t].pc = "locked"
  /\ Missing(t) = {}
  /\ Mapped(t, job[t].existing)
  /\ UNCHANGED <<database, todo, queued, arm, adx>>

Command(t) ==
  /\ job[t].pc = "locked"
  /\ Missing(t) # {}
  /\ UNCHANGED <<database, todo, queued, arm>>

Executed(t) ==
  LET table == job[t].csv.table
  IN /\ Merges(Missing(t), schema[database][table])
     /\ schema' = [schema EXCEPT ![database][table] = @ \cup Missing(t)]

Altered(t) ==
  /\ Command(t)
  /\ Executed(t)
  /\ tables' = [tables EXCEPT ![job[t].csv.table] = job[t].existing \cup Missing(t)]
  /\ Mapped(t, job[t].existing \cup Missing(t))
  /\ UNCHANGED lost

CommandRaises_KeepsLock(t) ==
  /\ Command(t)
  /\ job' = [job EXCEPT ![t] = Idle]
  /\ UNCHANGED <<lock, adx>>

\* Refused, or never arrived.
CommandRaises(t) ==
  /\ Command(t)
  /\ Raised(t)
  /\ UNCHANGED adx

AnswerLost(t) ==
  /\ Command(t)
  /\ Executed(t)
  /\ Raised(t)
  /\ lost' = lost \cup {job[t].csv.table}
  /\ UNCHANGED tables

\* The columns are a set: the ordinals of the mapping, the order of the CSV's
\* columns, are left out.
Queued(t) ==
  [to |-> database, image |-> opened, csv |-> job[t].csv, columns |-> job[t].columns]

\* The chunks are queued one by one: an exception may come before the first
\* one or later, and a CSV without rows has none.
Send(t) ==
  /\ job[t].pc = "mapped"
  /\ \/ queued' = queued
     \/ job[t].csv.rows /\ queued' = queued \cup {Queued(t)}
  /\ job' = [job EXCEPT ![t] = Idle]
  /\ UNCHANGED <<database, lock, todo, arm, adx>>

-----------------------------------------------------------------------------
\* A crash, and a new process: ARM may still finish what it was asked for.
Restart ==
  /\ \/ databases' = databases
     \/ opening.pc = "create" /\ databases' = databases \cup {opening.name}
  /\ opening' = Idle /\ database' = None /\ tables' = Nothing /\ lock' = None
  /\ todo' = {} /\ job' = [t \in Thread |-> Idle] /\ lost' = {}
  /\ UNCHANGED <<clock, attempts, opened, schema, queued>>

Open ==
  \/ \E base \in Base : LookUp(base)
  \/ CreateDatabase \/ CreateRaises \/ SetPolicy \/ PolicyRaises \/ Close

Ensure(t) == Acquire(t) \/ Known(t) \/ Altered(t) \/ CommandRaises(t) \/ AnswerLost(t)

PoolStep(t) == (\E csv \in Csv : Ingest(t, csv)) \/ Ensure(t) \/ Send(t)

Next == Open \/ (\E t \in Thread : PoolStep(t)) \/ Restart

\* A thread of the pool goes on: the SDK's calls return or raise.
Spec == Init /\ [][Next]_vars /\ \A t \in Thread : WF_vars(Ensure(t) \/ Send(t))
-----------------------------------------------------------------------------
Job ==
  {Idle} \cup [pc : {"ensure"}, csv : Csv]
         \cup [pc : {"locked"}, csv : Csv, existing : SUBSET Column]
         \cup [pc : {"mapped"}, csv : Csv, columns : SUBSET Column]

\* Every variable has its type; threads work only while an image is open, and
\* the lock is held by the one thread inside it.
TypeOK ==
  /\ clock \in 1..(MaxOpens + 1) /\ attempts \in 0..MaxOpens /\ opened \in 0..attempts
  /\ databases \in SUBSET Name /\ database \in databases \cup {None}
  /\ schema \in [Name -> [Table -> SUBSET Column]] /\ tables \in [Table -> SUBSET Column]
  /\ opening \in {Idle} \cup [pc : {"create", "policy", "open"}, name : Name]
  /\ opening.pc \in {"policy", "open"} => database = opening.name
  /\ lock \in Thread \cup {None} /\ todo \in SUBSET Csv /\ lost \in SUBSET Table
  /\ job \in [Thread -> Job]
  /\ \A t \in Thread : /\ Busy(t) => opening.pc = "open"
                       /\ lock = t <=> job[t].pc = "locked"
  /\ queued \in SUBSET [to : Name, image : 1..opened, csv : Csv, columns : SUBSET Column]

\* "Create the table or add missing columns": what the cache knows of a table
\* is what ADX has, and all it has unless the answer to a command was lost.
CacheIsAdx ==
  database # None => \A table \in Table :
    /\ tables[table] \subseteq schema[database][table]
    /\ table \notin lost => tables[table] = schema[database][table]

\* "Returns the columns typed as they exist in ADX": rows are queued under a
\* column for each of the CSV's, which the table has with that very type.
RowsMatchTheirTable ==
  \A q \in queued :
    /\ q.columns \subseteq schema[q.to][q.csv.table]
    /\ Called(q.columns) = Called(q.csv.columns)

Sink == INSTANCE ResultSink
  WITH SinkTable <- Table, Destination <- Name, NoDestination <- None, image <- opened,
       destination <- IF opening.pc = "open" THEN database ELSE None,
       delivered <- {[to |-> q.to, image |-> q.image, table |-> q.csv.table] : q \in queued}

\* "Re-uploading an image with the same name gets a fresh database instead of
\* duplicate rows": the sink keeps the promise of ResultSink.
ImplementsSink == Sink!SinkSpec

\* Whatever a command or a send does, the thread comes back for the next CSV:
\* the lock is never left behind.
EveryIngestEnds == \A t \in Thread : Busy(t) ~> ~Busy(t)
=============================================================================
