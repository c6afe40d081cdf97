---------------------------- MODULE DumpPipeline ----------------------------
(***************************************************************************)
(* pipeline.py, DumpPipeline.process on one image after another: bootstrap *)
(* the OS, run the plugins (the scheduler as TaskLedger promises it), feed *)
(* the ingestion queue, join it and the hasher, write the summaries, close.*)
(***************************************************************************)
EXTENDS IngestionQueue

CONSTANTS
  Plugin,       \* names of the plugins of the OS, and of what they bring
  HiveList,     \* the one that brings others ...
  PrintKeys,    \* ... one for each hive it lists
  Candidates    \* operating systems to try

ASSUME PipelineAssumption ==
  /\ Candidates \in Nat \ {0}
  /\ HiveList \in Plugin \ PrintKeys /\ PrintKeys \subseteq Plugin
  /\ Name = Plugin \cup {"boot", "diagnostics", "runs", "image"}
  /\ Plugin \cap {"boot", "diagnostics", "runs", "image"} = {}

VARIABLES
  pc,        \* position of the watcher's thread in process()
  image,     \* the image being processed
  left,      \* OS candidates not tried yet
  known,     \* the tasks of the image so far
  pending,   \* those without a result
  results,   \* names whose result is in the report
  osFamily,  \* an OS was resolved
  hasher,    \* the hashing thread is done
  runs,      \* the volautolity_runs rows: name -> ingestion as reported
  stop       \* the stop event

mainVars == <<pc, image, left, known, pending, results, osFamily, hasher, runs, stop>>
vars == <<queueVars, mainVars>>

Mine(name) == <<image, name>>

Init ==
  /\ QueueInit
  /\ pc = "open" /\ image = 1 /\ left = Candidates /\ known = {} /\ pending = {} /\ results = {}
  /\ osFamily = FALSE /\ hasher = FALSE /\ runs = <<>> /\ stop = FALSE

\* A result brings one CSV or none.
SubmitResult(name) ==
  /\ \/ Submit(<<Mine(name)>>)
     \/ UNCHANGED <<futures, work>>
  /\ UNCHANGED <<staged, database, stored, outcome>>

-----------------------------------------------------------------------------
\* sink.open; it may raise, before or after the sink turned to the new database,
\* and before there is a queue to close.
Open ==
  /\ pc = "open"
  /\ \/ database' = image /\ pc' = "bootstrap"
     \/ database' \in {database, image} /\ pc' = "returned"
  /\ UNCHANGED <<futures, work, staged, stored, outcome,
                 image, left, known, pending, results, osFamily, hasher, runs, stop>>

\* The other candidates are not tried any more; the factory skips what the
\* settings rule out.
BootstrapOk ==
  /\ pc = "bootstrap"
  /\ left > 0
  /\ SubmitResult("boot")
  /\ \E skipped \in SUBSET (Plugin \ PrintKeys) :
       /\ results' = results \cup {"boot"} \cup skipped
       /\ pending' = (Plugin \ PrintKeys) \ skipped
  /\ known' = Plugin \ PrintKeys
  /\ osFamily' = TRUE
  /\ left' = 0
  /\ pc' = "schedule"
  /\ UNCHANGED <<image, hasher, runs, stop>>

\* This candidate is not the OS: what it wrote is not ingested.  The candidates'
\* rows in the status table have one name here.
BootstrapFails ==
  /\ pc = "bootstrap"
  /\ left > 0
  /\ left' = left - 1
  /\ results' = results \cup {"boot"}
  /\ UNCHANGED <<queueVars, pc, image, known, pending, osFamily, hasher, runs, stop>>

\* No OS profile: the diagnostics plugin only.
Diagnose ==
  /\ pc = "bootstrap"
  /\ left = 0
  /\ SubmitResult("diagnostics")
  /\ results' = results \cup {"diagnostics"}
  /\ pc' = "join"
  /\ UNCHANGED <<image, left, known, pending, osFamily, hasher, runs, stop>>

\* on_result for a plugin that ran, and the follow-ups of one that succeeded ...
Settle(p) ==
  /\ pc = "schedule"
  /\ p \in pending
  /\ SubmitResult(p)
  /\ \E fresh \in {{}, PrintKeys} :
       /\ fresh # {} => p = HiveList
       /\ known' = known \cup fresh
       /\ pending' = (pending \ {p}) \cup fresh
  /\ results' = results \cup {p}
  /\ UNCHANGED <<pc, image, left, osFamily, hasher, runs, stop>>

\* ... and the plugins a stop left in the scheduler's heap.
SkipRest_Forgets ==
  /\ pc = "schedule"
  /\ stop
  /\ pending # {}
  /\ pending' = {}
  /\ UNCHANGED <<queueVars, pc, image, left, known, results, osFamily, hasher, runs, stop>>

SkipRest ==
  /\ pc = "schedule"
  /\ stop
  /\ pending # {}
  /\ results' = results \cup pending
  /\ pending' = {}
  /\ UNCHANGED <<queueVars, pc, image, left, known, osFamily, hasher, runs, stop>>

ScheduleReturns ==
  /\ pc = "schedule"
  /\ pending = {}
  /\ pc' = "join"
  /\ UNCHANGED <<queueVars, image, left, known, pending, results, osFamily, hasher, runs, stop>>

Join ==
  /\ pc \in {"join", "rejoin"}
  /\ JoinOne
  /\ UNCHANGED mainVars

\* Everything queued is joined and the hash is known.
Joined ==
  /\ pc = "join"
  /\ futures = <<>>
  /\ hasher
  /\ pc' = "summarise"
  /\ UNCHANGED <<queueVars, image, left, known, pending, results, osFamily, hasher, runs, stop>>

\* _write_summaries: one row per result; a table that was not ingested has no
\* ingestion error.
Summarise ==
  /\ pc = "summarise"
  /\ runs' = [n \in results |-> IF TableOf[n] \in DOMAIN outcome THEN outcome[TableOf[n]] ELSE "ok"]
  /\ Submit(<<Mine("runs"), Mine("image")>>)
  /\ pc' = "rejoin"
  /\ UNCHANGED <<staged, database, stored, outcome,
                 image, left, known, pending, results, osFamily, hasher, stop>>

\* The second join's outcome is dropped; functions only for a known OS.
Rejoined ==
  /\ pc = "rejoin"
  /\ futures = <<>>
  /\ pc' = IF osFamily THEN "functions" ELSE "close"
  /\ UNCHANGED <<queueVars, image, left, known, pending, results, osFamily, hasher, runs, stop>>

CreateFunctions ==
  /\ pc = "functions"
  /\ pc' = "close"
  /\ UNCHANGED <<queueVars, image, left, known, pending, results, osFamily, hasher, runs, stop>>

\* Anything between try and finally may raise: no vol command, no more
\* threads, a full disk, a refused management command.
Raise ==
  /\ pc \in {"bootstrap", "schedule", "summarise", "functions"}
  /\ pc' = "close"
  /\ UNCHANGED <<queueVars, image, left, known, pending, results, osFamily, hasher, runs, stop>>

\* finally: shutdown(wait=True), whatever was raised.
Close ==
  /\ pc = "close"
  /\ Quiet(image)
  /\ pc' = "returned"
  /\ UNCHANGED <<queueVars, image, left, known, pending, results, osFamily, hasher, runs, stop>>

\* The watcher hands over the next image, unless it was told to stop.  The new
\* queue, report and context know nothing of the old ones, whose output is
\* never read again; a thread still at work would go on.
NextImage ==
  /\ pc = "returned"
  /\ image < Images
  /\ ~stop
  /\ image' = image + 1
  /\ pc' = "open" /\ left' = Candidates /\ known' = {} /\ pending' = {} /\ results' = {}
  /\ osFamily' = FALSE /\ hasher' = FALSE /\ runs' = <<>>
  /\ futures' = <<>> /\ outcome' = <<>> /\ stored' = {}
  /\ work' = [a \in Artifact |-> IF work[a] \in Finished THEN "new" ELSE work[a]]
  /\ staged' = [d \in Directory |-> NoOne]
  /\ UNCHANGED <<database, stop>>

Hashed ==
  /\ pc # "open"
  /\ ~hasher
  /\ hasher' = TRUE
  /\ UNCHANGED <<queueVars, pc, image, left, known, pending, results, osFamily, runs, stop>>

RequestStop ==
  /\ ~stop
  /\ stop' = TRUE
  /\ UNCHANGED <<queueVars, pc, image, left, known, pending, results, osFamily, hasher, runs>>

MainStep ==
  \/ Open \/ BootstrapOk \/ BootstrapFails \/ Diagnose
  \/ (\E p \in Plugin : Settle(p)) \/ SkipRest \/ ScheduleReturns
  \/ Join \/ Joined \/ Summarise \/ Rejoined \/ CreateFunctions \/ Raise \/ Close \/ NextImage

Ingest(a) == PoolStep(a) /\ UNCHANGED mainVars

Next ==
  \/ MainStep
  \/ \E a \in Artifact : Ingest(a)
  \/ Hashed
  \/ RequestStop

Spec == Init /\ [][Next]_vars

\* Every thread keeps running (of the pool's, one that can) and every call it
\* makes comes back: plugins are killed at their timeout, files are finite.
FairSpec ==
  /\ Spec
  /\ WF_vars(MainStep)
  /\ WF_vars(Hashed)
  /\ WF_vars(\E a \in Artifact : Ingest(a))

-----------------------------------------------------------------------------
TypeOK ==
  /\ futures \in Seq(Artifact)
  /\ work \in [Artifact -> Active \cup Finished \cup {"new"}]
  /\ staged \in [Directory -> Artifact \cup {NoOne}]
  /\ database \in 1..Images \cup {NoOne}
  /\ stored \subseteq [rows : Artifact, table : {TableOf[n] : n \in Name}, into : 1..Images \cup {NoOne}]
  /\ \A t \in DOMAIN outcome : outcome[t] \in {"ok", "failed"}
  /\ pc \in {"open", "bootstrap", "schedule", "join", "summarise", "rejoin",
             "functions", "close", "returned"}
  /\ image \in 1..Images /\ left \in 0..Candidates
  /\ known \subseteq Plugin /\ pending \subseteq known /\ results \subseteq Name
  /\ osFamily \in BOOLEAN /\ hasher \in BOOLEAN /\ stop \in BOOLEAN
  /\ \A n \in DOMAIN runs : runs[n] \in {"ok", "failed"}

\* Images do not leak into each other: rows go to the database of the image
\* they come from, although the queue asks the sink for its database only
\* when it sends and an exception may leave process() with work in the pool.
RowsStayWithTheirImage ==
  \A s \in stored : s.into = ImageOf(s.rows) /\ s.table = Table(s.rows)

\* volautolity_runs shows "which tables are missing or incomplete and why": a
\* row without an ingestion error is a table whose rows, and no others', were
\* sent, or that had none to send.
NoSilentLoss ==
  \A n \in DOMAIN runs : runs[n] = "ok" =>
    \/ work[Mine(n)] \in {"new", "empty"}
    \/ [rows |-> Mine(n), table |-> TableOf[n], into |-> image] \in stored

\* ... and a row with an ingestion error is a table whose ingestion failed.
RunsTellTheTruth ==
  NoSilentLoss /\ \A n \in DOMAIN runs : runs[n] = "failed" => work[Mine(n)] = "failed"

\* One row per task: what the factory or a stop skipped, what ran, what that
\* brought, and the bootstrap or the diagnostics are all there when the
\* summary is written.
RunsAreComplete ==
  pc = "rejoin" => DOMAIN runs = known \cup {"boot"} \cup IF osFamily THEN {} ELSE {"diagnostics"}

\* process() returns or raises, and never waits for itself.
EveryImageLeaves == \A i \in 1..Images : image = i ~> pc = "returned"
=============================================================================
