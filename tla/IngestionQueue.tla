--------------------------- MODULE IngestionQueue ---------------------------
(***************************************************************************)
(* pipeline.py, IngestionQueue: the CSVs of one image are normalised into  *)
(* a staging directory and sent to the sink by a pool of threads while the *)
(* image is still being analysed.  An artifact is <<image, name>>; one     *)
(* queue is built per image, the sink is shared by all.                    *)
(***************************************************************************)
EXTENDS Integers, Sequences, FiniteSets, SequencesExt

CONSTANTS
  Images,      \* images are processed in the order 1..Images
  Name,        \* what the artifacts of an image are called
  TableOf,     \* the table of each name: also its staging directory
  PoolSize,    \* workers of one queue
  NoOne        \* an empty directory, or a closed sink

ASSUME QueueAssumption ==
  /\ Images \in Nat \ {0}
  /\ PoolSize \in Nat \ {0}
  /\ DOMAIN TableOf = Name

VARIABLES
  futures,   \* artifacts submitted and not joined, in order
  work,      \* how far each artifact is
  staged,    \* whose chunks lie in each staging directory
  database,  \* the image whose database the sink has open
  stored,    \* history: rows handed to ADX for this image
  outcome    \* what join() has returned so far: table -> "ok" or "failed"

queueVars == <<futures, work, staged, database, stored, outcome>>

Artifact == (1..Images) \X Name
ImageOf(a) == a[1]
Table(a) == TableOf[a[2]]
Directory == (1..Images) \X {TableOf[n] : n \in Name}
Staging(a) == <<ImageOf(a), Table(a)>>

Active == {"queued", "normalizing", "sending", "sent", "unsent"}
Finished == {"stored", "empty", "failed"}

Busy(i) == {a \in Artifact : ImageOf(a) = i /\ work[a] \in Active \ {"queued"}}

QueueInit ==
  /\ futures = <<>>
  /\ work = [a \in Artifact |-> "new"]
  /\ staged = [d \in Directory |-> NoOne]
  /\ database = NoOne
  /\ stored = {}
  /\ outcome = <<>>

(* Definitions named <definition>_<bug> are the mutated forms the properties  *)
(* are tested against; no behaviour of the specification uses them.          *)

Submit_NotStarted(artifacts) ==
  /\ futures' = futures \o artifacts
  /\ UNCHANGED work

\* submit: one future per artifact.
Submit(artifacts) ==
  /\ futures' = futures \o artifacts
  /\ work' = [a \in Artifact |-> IF a \in Range(artifacts) THEN "queued" ELSE work[a]]

-----------------------------------------------------------------------------
(* _ingest, on a thread of the pool. *)

\* The pool is a FIFO.
Begin(a) ==
  /\ work[a] = "queued"
  /\ Cardinality(Busy(ImageOf(a))) < PoolSize
  /\ \A i, j \in DOMAIN futures : i < j /\ futures[j] = a => work[futures[i]] # "queued"
  /\ work' = [work EXCEPT ![a] = "normalizing"]
  /\ UNCHANGED <<futures, staged, database, stored, outcome>>

\* normalize finds no header or no row, raises (chunks may be left behind), or
\* writes the chunks over whatever the directory holds.
Normalize(a) ==
  /\ work[a] = "normalizing"
  /\ \/ /\ work' = [work EXCEPT ![a] = "empty"]
        /\ UNCHANGED staged
     \/ /\ work' = [work EXCEPT ![a] = "failed"]
        /\ staged' \in {staged, [staged EXCEPT ![Staging(a)] = a]}
     \/ /\ work' = [work EXCEPT ![a] = "sending"]
        /\ staged' = [staged EXCEPT ![Staging(a)] = a]
  /\ UNCHANGED <<futures, database, stored, outcome>>

\* sink.ingest: the chunks found are sent to the database open now; it raises
\* when they are gone or the service refuses, maybe after some were sent.
Send(a) ==
  /\ work[a] = "sending"
  /\ \/ /\ staged[Staging(a)] # NoOne
        /\ stored' = stored \cup {[rows |-> staged[Staging(a)], table |-> Table(a), into |-> database]}
        /\ \E end \in {"sent", "unsent"} : work' = [work EXCEPT ![a] = end]
     \/ /\ work' = [work EXCEPT ![a] = "unsent"]
        /\ UNCHANGED stored
  /\ UNCHANGED <<futures, staged, database, outcome>>

\* The finally clause: the staging directory goes, whoever's chunks it holds.
Clear(a) ==
  /\ work[a] \in {"sent", "unsent"}
  /\ staged' = [staged EXCEPT ![Staging(a)] = NoOne]
  /\ work' = [work EXCEPT ![a] = IF @ = "sent" THEN "stored" ELSE "failed"]
  /\ UNCHANGED <<futures, database, stored, outcome>>

PoolStep(a) == Begin(a) \/ Normalize(a) \/ Send(a) \/ Clear(a)

-----------------------------------------------------------------------------
(* Called by the image's own thread. *)

JoinOne_RawState ==
  /\ futures # <<>>
  /\ work[Head(futures)] \in Finished
  /\ outcome' = [t \in DOMAIN outcome \cup {Table(Head(futures))} |->
                   IF t = Table(Head(futures)) THEN work[Head(futures)] ELSE outcome[t]]
  /\ futures' = Tail(futures)
  /\ UNCHANGED <<work, staged, database, stored>>

JoinOne_Swallows ==
  /\ futures # <<>>
  /\ work[Head(futures)] \in Finished
  /\ outcome' = [t \in DOMAIN outcome \cup {Table(Head(futures))} |-> "ok"]
  /\ futures' = Tail(futures)
  /\ UNCHANGED <<work, staged, database, stored>>

\* join, one future: wait for it and note its table's outcome; a table named
\* twice keeps the later one.
JoinOne ==
  /\ futures # <<>>
  /\ work[Head(futures)] \in Finished
  /\ LET a == Head(futures)
         verdict == IF work[a] = "failed" THEN "failed" ELSE "ok"
     IN outcome' = [t \in DOMAIN outcome \cup {Table(a)} |->
                      IF t = Table(a) THEN verdict ELSE outcome[t]]
  /\ futures' = Tail(futures)
  /\ UNCHANGED <<work, staged, database, stored>>

Quiet_NoWait(i) == TRUE

\* close: shutdown(wait=True).
Quiet(i) == \A a \in Artifact : ImageOf(a) = i => work[a] \notin Active
=============================================================================
