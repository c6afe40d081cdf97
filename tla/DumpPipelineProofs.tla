------------------------- MODULE DumpPipelineProofs -------------------------
(***************************************************************************)
(* Theorems about DumpPipeline and its IngestionQueue, for any number of   *)
(* images, plugins, candidates and pool threads.                           *)
(***************************************************************************)
EXTENDS DumpPipeline, SequenceTheorems, TLAPS

(* The inductive invariant, in named parts. *)

\* All work, in the pool or waiting, is the current image's, and is done when
\* process() has returned; a directory holds chunks of its own table only.
Placement ==
  /\ \A a \in Artifact : work[a] # "new" => ImageOf(a) = image
  /\ \A a \in Artifact : work[a] \in Active => pc \notin {"open", "returned"}
  /\ \A a \in Range(futures) : ImageOf(a) = image
  /\ pc \notin {"open", "returned"} => database = image
  /\ \A d \in Directory : staged[d] # NoOne => Staging(staged[d]) = d
  /\ RowsStayWithTheirImage

\* Which results the report holds at each position of process().
Reporting ==
  /\ pc = "open" => left = Candidates
  /\ pc \in {"open", "bootstrap"} =>
       /\ known = {} /\ pending = {} /\ ~osFamily
       /\ results = IF left = Candidates THEN {} ELSE {"boot"}
  /\ pc = "schedule" =>
       /\ osFamily /\ "boot" \in results
       /\ results \cup pending = known \cup {"boot"}
  /\ pc \in {"join", "summarise"} =>
       results = known \cup {"boot"} \cup IF osFamily THEN {} ELSE {"diagnostics"}
  /\ RunsAreComplete

Inv == TypeOK /\ Placement /\ Reporting

\* No two artifacts of an image have one table, hence one staging directory.
OwnTables == \A m, n \in Name : TableOf[m] = TableOf[n] => m = n

\* No artifact is submitted twice: what was submitted has its result in the
\* report, and what is pending has not.
Once ==
  /\ results \subseteq known \cup {"boot", "diagnostics"}
  /\ pc = "schedule" => pending \cap results = {}
  /\ pc = "schedule" /\ HiveList \in pending => known \cap PrintKeys = {}
  /\ \A n \in Name : work[Mine(n)] # "new" =>
       /\ pc \notin {"open", "bootstrap"}
       /\ \/ n \in results
          \/ n \in {"runs", "image"} /\ pc \in {"rejoin", "functions", "close", "returned"}

\* What was submitted is waiting to be joined or has its outcome, and both
\* the outcome and what was stored agree with what became of it.
Outcomes ==
  /\ \A n \in Name : work[Mine(n)] # "new" =>
       Mine(n) \in Range(futures) \/ TableOf[n] \in DOMAIN outcome
  /\ \A n \in Name : TableOf[n] \in DOMAIN outcome =>
       /\ work[Mine(n)] \in Finished
       /\ outcome[TableOf[n]] = IF work[Mine(n)] = "failed" THEN "failed" ELSE "ok"
  /\ \A n \in Name : work[Mine(n)] \in {"sent", "stored"} =>
       [rows |-> Mine(n), table |-> TableOf[n], into |-> image] \in stored

\* The summary is written when nothing is waiting, and stays true.
Summary ==
  /\ pc = "summarise" => futures = <<>>
  /\ DOMAIN runs # {} => pc \in {"rejoin", "functions", "close", "returned"}
  /\ \A n \in DOMAIN runs : n \in results /\ work[Mine(n)] \notin Active
  /\ RunsTellTheTruth

Truth == Once /\ Outcomes /\ Summary

-----------------------------------------------------------------------------

\* Artifacts, directories and states.
LEMMA Kinds ==
  /\ Images \in Nat \ {0} /\ Candidates \in Nat \ {0}
  /\ Name = Plugin \cup {"boot", "diagnostics", "runs", "image"}
  /\ Plugin \cap {"boot", "diagnostics", "runs", "image"} = {}
  /\ HiveList \in Plugin \ PrintKeys /\ PrintKeys \subseteq Plugin
  /\ DOMAIN TableOf = Name
  /\ Active = {"queued", "normalizing", "sending", "sent", "unsent"}
  /\ Finished = {"stored", "empty", "failed"}
  BY QueueAssumption, PipelineAssumption DEF QueueAssumption, PipelineAssumption, Active, Finished

\* An artifact is an image and a name; its directory an image and a table.
LEMMA Artifacts ==
  /\ \A a \in Artifact : /\ ImageOf(a) \in 1..Images /\ a[2] \in Name /\ a = <<ImageOf(a), a[2]>>
                         /\ Staging(a) = <<ImageOf(a), Table(a)>> /\ Staging(a) \in Directory
                         /\ Table(a) \in {TableOf[n] : n \in Name}
  /\ \A a, b \in Artifact : Staging(a) = Staging(b) => ImageOf(a) = ImageOf(b) /\ Table(a) = Table(b)
  BY DEF Artifact, ImageOf, Staging, Table, Directory

\* The artifacts of the current image.
LEMMA MineIsArtifact ==
  ASSUME TypeOK, NEW n \in Name
  PROVE  Mine(n) \in Artifact /\ ImageOf(Mine(n)) = image /\ Table(Mine(n)) = TableOf[n]
  BY DEF TypeOK, Mine, Artifact, ImageOf, Table

\* What submit() leaves, for one artifact or more.
LEMMA SubmitFacts ==
  ASSUME TypeOK, NEW artifacts \in Seq(Artifact), Submit(artifacts)
  PROVE  /\ futures' \in Seq(Artifact)
         /\ Range(futures') = Range(futures) \cup Range(artifacts)
         /\ work' \in [Artifact -> Active \cup Finished \cup {"new"}]
         /\ \A a \in Artifact : work'[a] = IF a \in Range(artifacts) THEN "queued" ELSE work[a]
<1>1. futures \in Seq(Artifact) /\ futures' = futures \o artifacts
  BY DEF TypeOK, Submit
<1>2. Range(futures') = Range(futures) \cup Range(artifacts)
  BY <1>1, RangeConcatenation
<1>3. QED
  BY <1>1, <1>2, Kinds DEF TypeOK, Submit

\* A result brings its CSV into the queue, or nothing.
LEMMA SubmitResultFacts ==
  ASSUME TypeOK, NEW n \in Name, SubmitResult(n)
  PROVE  /\ futures' \in Seq(Artifact)
         /\ work' \in [Artifact -> Active \cup Finished \cup {"new"}]
         /\ UNCHANGED <<staged, database, stored, outcome>>
         /\ \/ UNCHANGED <<futures, work>>
            \/ /\ Range(futures') = Range(futures) \cup {Mine(n)}
               /\ work' = [work EXCEPT ![Mine(n)] = "queued"]
<1>1. CASE UNCHANGED <<futures, work>>
  BY <1>1 DEF SubmitResult, TypeOK
<1>2. CASE Submit(<<Mine(n)>>)
  <2>1. <<Mine(n)>> \in Seq(Artifact) /\ Range(<<Mine(n)>>) = {Mine(n)}
    BY MineIsArtifact DEF Range
  <2>2. /\ futures' \in Seq(Artifact)
        /\ Range(futures') = Range(futures) \cup {Mine(n)}
        /\ work' \in [Artifact -> Active \cup Finished \cup {"new"}]
        /\ \A a \in Artifact : work'[a] = IF a = Mine(n) THEN "queued" ELSE work[a]
    BY <1>2, <2>1, SubmitFacts
  <2>3. work' = [work EXCEPT ![Mine(n)] = "queued"]
    BY <2>2 DEF TypeOK
  <2>4. QED
    BY <2>2, <2>3 DEF SubmitResult
<1>3. QED
  BY <1>1, <1>2 DEF SubmitResult

\* The summary brings two CSVs.
LEMMA SummariseFacts ==
  ASSUME TypeOK, Summarise
  PROVE  /\ futures' \in Seq(Artifact)
         /\ Range(futures') = Range(futures) \cup {Mine("runs"), Mine("image")}
         /\ work' \in [Artifact -> Active \cup Finished \cup {"new"}]
         /\ \A a \in Artifact : work'[a] = IF a \in {Mine("runs"), Mine("image")} THEN "queued" ELSE work[a]
<1>1. "runs" \in Name /\ "image" \in Name
  BY Kinds
<1>2. /\ <<Mine("runs"), Mine("image")>> \in Seq(Artifact)
      /\ Range(<<Mine("runs"), Mine("image")>>) = {Mine("runs"), Mine("image")}
  BY <1>1, MineIsArtifact DEF Range
<1>3. Submit(<<Mine("runs"), Mine("image")>>)
  BY DEF Summarise
<1>4. QED
  BY <1>2, <1>3, SubmitFacts

\* The first of a sequence leaves it.
LEMMA HeadLeaves ==
  ASSUME NEW S, NEW seq \in Seq(S), seq # <<>>
  PROVE  /\ Head(seq) \in S /\ Tail(seq) \in Seq(S)
         /\ Range(seq) = {Head(seq)} \cup Range(Tail(seq))
<1>1. /\ Len(seq) \in Nat /\ Len(seq) > 0 /\ DOMAIN seq = 1..Len(seq)
      /\ Tail(seq) \in Seq(S) /\ Len(Tail(seq)) = Len(seq) - 1 /\ Head(seq) = seq[1]
      /\ \A i \in 1..(Len(seq) - 1) : Tail(seq)[i] = seq[i + 1]
  OBVIOUS
<1>2. DOMAIN Tail(seq) = 1..(Len(seq) - 1)
  BY <1>1
<1>3. \A i \in 1..Len(seq) : i = 1 \/ (i - 1 \in DOMAIN Tail(seq) /\ Tail(seq)[i - 1] = seq[i])
  BY <1>1, <1>2
<1>4. Range(seq) \subseteq {Head(seq)} \cup Range(Tail(seq))
  <2> SUFFICES ASSUME NEW i \in 1..Len(seq) PROVE seq[i] \in {Head(seq)} \cup Range(Tail(seq))
    BY <1>1 DEF Range
  <2>1. CASE i = 1
    BY <1>1, <2>1
  <2>2. CASE i # 1
    BY <1>3, <2>2 DEF Range
  <2>3. QED
    BY <2>1, <2>2
<1>5. {Head(seq)} \cup Range(Tail(seq)) \subseteq Range(seq)
  BY <1>1, <1>2 DEF Range
<1>6. QED
  BY <1>1, <1>4, <1>5

\* The invariant holds at first.
LEMMA InvInit == Init => Inv
<1> SUFFICES ASSUME Init PROVE Inv
  OBVIOUS
<1> USE Kinds DEF Init, QueueInit
<1>1. TypeOK
  <2>1. futures \in Seq(Artifact) /\ work \in [Artifact -> Active \cup Finished \cup {"new"}]
    OBVIOUS
  <2>2. /\ staged \in [Directory -> Artifact \cup {NoOne}]
        /\ database \in 1..Images \cup {NoOne} /\ stored = {}
    OBVIOUS
  <2>3. DOMAIN outcome = {} /\ DOMAIN runs = {}
    OBVIOUS
  <2>4. image \in 1..Images /\ left \in 0..Candidates
    OBVIOUS
  <2>5. osFamily \in BOOLEAN /\ hasher \in BOOLEAN /\ stop \in BOOLEAN
    OBVIOUS
  <2>6. QED
    BY <2>1, <2>2, <2>3, <2>4, <2>5 DEF TypeOK
<1>2. Placement
  BY DEF Placement, RowsStayWithTheirImage, Range
<1>3. Reporting
  BY DEF Reporting, RunsAreComplete
<1>4. QED
  BY <1>1, <1>2, <1>3 DEF Inv

\* Every step keeps the invariant.
LEMMA InvNext == Inv /\ [Next]_vars => Inv'
<1> SUFFICES ASSUME Inv, [Next]_vars PROVE Inv'
  OBVIOUS
<1> USE Kinds, Artifacts DEF Inv
<1>1. ASSUME Open PROVE Inv'
  <2> USE <1>1 DEF Open
  <2>1. TypeOK'
    BY DEF TypeOK
  <2>2. Placement'
    BY DEF TypeOK, Placement, RowsStayWithTheirImage
  <2>3. Reporting'
    BY DEF TypeOK, Reporting, RunsAreComplete
  <2>4. QED
    BY <2>1, <2>2, <2>3
<1>2. ASSUME BootstrapOk PROVE Inv'
  <2> USE <1>2 DEF BootstrapOk
  <2>1. TypeOK'
    <3>1. futures' \in Seq(Artifact) /\ work' \in [Artifact -> Active \cup Finished \cup {"new"}]
      BY SubmitResultFacts
    <3>2. staged' \in [Directory -> Artifact \cup {NoOne}]
      BY SubmitResultFacts DEF TypeOK
    <3>3. /\ database' \in 1..Images \cup {NoOne}
          /\ stored' \subseteq [rows : Artifact, table : {TableOf[n] : n \in Name}, into : 1..Images \cup {NoOne}]
      <4>1. database' = database /\ stored' = stored
        BY SubmitResultFacts
      <4>2. QED
        BY <4>1 DEF TypeOK
    <3>4. /\ \A t \in DOMAIN outcome' : outcome'[t] \in {"ok", "failed"}
          /\ \A n \in DOMAIN runs' : runs'[n] \in {"ok", "failed"}
      BY SubmitResultFacts DEF TypeOK
    <3>5. /\ pc' \in {"open", "bootstrap", "schedule", "join", "summarise", "rejoin",
                     "functions", "close", "returned"}
          /\ image' \in 1..Images /\ left' \in 0..Candidates
      BY DEF TypeOK
    <3>6. known' \subseteq Plugin /\ pending' \subseteq known' /\ results' \subseteq Name
      BY DEF TypeOK
    <3>7. osFamily' \in BOOLEAN /\ hasher' \in BOOLEAN /\ stop' \in BOOLEAN
      BY DEF TypeOK
    <3>8. QED
      BY <3>1, <3>2, <3>3, <3>4, <3>5, <3>6, <3>7 DEF TypeOK
  <2>2. Placement'
    <3>1. /\ UNCHANGED <<staged, database, stored, outcome>>
          /\ \/ UNCHANGED <<futures, work>>
             \/ /\ Range(futures') = Range(futures) \cup {Mine("boot")}
                /\ work' = [work EXCEPT ![Mine("boot")] = "queued"]
      BY SubmitResultFacts
    <3>2. Mine("boot") \in Artifact /\ ImageOf(Mine("boot")) = image
      BY MineIsArtifact
    <3>3. QED
      BY <3>1, <3>2 DEF TypeOK, Placement, RowsStayWithTheirImage
  <2>3. Reporting'
    BY DEF TypeOK, Reporting, RunsAreComplete
  <2>4. QED
    BY <2>1, <2>2, <2>3
<1>3. ASSUME BootstrapFails PROVE Inv'
  <2> USE <1>3 DEF BootstrapFails, queueVars
  <2>1. TypeOK'
    BY DEF TypeOK
  <2>2. Placement'
    BY DEF TypeOK, Placement, RowsStayWithTheirImage
  <2>3. Reporting'
    BY DEF TypeOK, Reporting, RunsAreComplete
  <2>4. QED
    BY <2>1, <2>2, <2>3
<1>4. ASSUME Diagnose PROVE Inv'
  <2> USE <1>4 DEF Diagnose
  <2>1. TypeOK'
    <3>1. futures' \in Seq(Artifact) /\ work' \in [Artifact -> Active \cup Finished \cup {"new"}]
      BY SubmitResultFacts
    <3>2. staged' \in [Directory -> Artifact \cup {NoOne}]
      BY SubmitResultFacts DEF TypeOK
    <3>3. /\ database' \in 1..Images \cup {NoOne}
          /\ stored' \subseteq [rows : Artifact, table : {TableOf[n] : n \in Name}, into : 1..Images \cup {NoOne}]
      <4>1. database' = database /\ stored' = stored
        BY SubmitResultFacts
      <4>2. QED
        BY <4>1 DEF TypeOK
    <3>4. /\ \A t \in DOMAIN outcome' : outcome'[t] \in {"ok", "failed"}
          /\ \A n \in DOMAIN runs' : runs'[n] \in {"ok", "failed"}
      BY SubmitResultFacts DEF TypeOK
    <3>5. /\ pc' \in {"open", "bootstrap", "schedule", "join", "summarise", "rejoin",
                     "functions", "close", "returned"}
          /\ image' \in 1..Images /\ left' \in 0..Candidates
      BY DEF TypeOK
    <3>6. known' \subseteq Plugin /\ pending' \subseteq known' /\ results' \subseteq Name
      BY DEF TypeOK
    <3>7. osFamily' \in BOOLEAN /\ hasher' \in BOOLEAN /\ stop' \in BOOLEAN
      BY DEF TypeOK
    <3>8. QED
      BY <3>1, <3>2, <3>3, <3>4, <3>5, <3>6, <3>7 DEF TypeOK
  <2>2. Placement'
    <3>1. /\ UNCHANGED <<staged, database, stored, outcome>>
          /\ \/ UNCHANGED <<futures, work>>
             \/ /\ Range(futures') = Range(futures) \cup {Mine("diagnostics")}
                /\ work' = [work EXCEPT ![Mine("diagnostics")] = "queued"]
      BY SubmitResultFacts
    <3>2. Mine("diagnostics") \in Artifact /\ ImageOf(Mine("diagnostics")) = image
      BY MineIsArtifact
    <3>3. QED
      BY <3>1, <3>2 DEF TypeOK, Placement, RowsStayWithTheirImage
  <2>3. Reporting'
    BY DEF TypeOK, Reporting, RunsAreComplete
  <2>4. QED
    BY <2>1, <2>2, <2>3
<1>5. ASSUME NEW p \in Plugin, Settle(p) PROVE Inv'
  <2> USE <1>5 DEF Settle
  <2>1. TypeOK'
    <3>1. futures' \in Seq(Artifact) /\ work' \in [Artifact -> Active \cup Finished \cup {"new"}]
      BY SubmitResultFacts
    <3>2. staged' \in [Directory -> Artifact \cup {NoOne}]
      BY SubmitResultFacts DEF TypeOK
    <3>3. /\ database' \in 1..Images \cup {NoOne}
          /\ stored' \subseteq [rows : Artifact, table : {TableOf[n] : n \in Name}, into : 1..Images \cup {NoOne}]
      <4>1. database' = database /\ stored' = stored
        BY SubmitResultFacts
      <4>2. QED
        BY <4>1 DEF TypeOK
    <3>4. /\ \A t \in DOMAIN outcome' : outcome'[t] \in {"ok", "failed"}
          /\ \A n \in DOMAIN runs' : runs'[n] \in {"ok", "failed"}
      BY SubmitResultFacts DEF TypeOK
    <3>5. /\ pc' \in {"open", "bootstrap", "schedule", "join", "summarise", "rejoin",
                     "functions", "close", "returned"}
          /\ image' \in 1..Images /\ left' \in 0..Candidates
      BY DEF TypeOK
    <3>6. known' \subseteq Plugin /\ pending' \subseteq known' /\ results' \subseteq Name
      BY DEF TypeOK
    <3>7. osFamily' \in BOOLEAN /\ hasher' \in BOOLEAN /\ stop' \in BOOLEAN
      BY DEF TypeOK
    <3>8. QED
      BY <3>1, <3>2, <3>3, <3>4, <3>5, <3>6, <3>7 DEF TypeOK
  <2>2. Placement'
    <3>1. /\ UNCHANGED <<staged, database, stored, outcome>>
          /\ \/ UNCHANGED <<futures, work>>
             \/ /\ Range(futures') = Range(futures) \cup {Mine(p)}
                /\ work' = [work EXCEPT ![Mine(p)] = "queued"]
      BY SubmitResultFacts
    <3>2. Mine(p) \in Artifact /\ ImageOf(Mine(p)) = image
      BY MineIsArtifact
    <3>3. QED
      BY <3>1, <3>2 DEF TypeOK, Placement, RowsStayWithTheirImage
  <2>3. Reporting'
    BY DEF TypeOK, Reporting, RunsAreComplete
  <2>4. QED
    BY <2>1, <2>2, <2>3
<1>6. ASSUME SkipRest PROVE Inv'
  <2> USE <1>6 DEF SkipRest, queueVars
  <2>1. TypeOK'
    BY DEF TypeOK
  <2>2. Placement'
    BY DEF TypeOK, Placement, RowsStayWithTheirImage
  <2>3. Reporting'
    BY DEF TypeOK, Reporting, RunsAreComplete
  <2>4. QED
    BY <2>1, <2>2, <2>3
<1>7. ASSUME ScheduleReturns PROVE Inv'
  <2> USE <1>7 DEF ScheduleReturns, queueVars
  <2>1. TypeOK'
    BY DEF TypeOK
  <2>2. Placement'
    BY DEF TypeOK, Placement, RowsStayWithTheirImage
  <2>3. Reporting'
    BY DEF TypeOK, Reporting, RunsAreComplete
  <2>4. QED
    BY <2>1, <2>2, <2>3
<1>8. ASSUME Join PROVE Inv'
  <2> USE <1>8 DEF Join, JoinOne, mainVars
  <2>1. TypeOK'
    BY DEF TypeOK
  <2>2. Placement'
    <3>1. Range(futures') \subseteq Range(futures)
      BY HeadLeaves DEF TypeOK
    <3>2. QED
      BY <3>1 DEF TypeOK, Placement, RowsStayWithTheirImage
  <2>3. Reporting'
    BY DEF TypeOK, Reporting, RunsAreComplete
  <2>4. QED
    BY <2>1, <2>2, <2>3
<1>9. ASSUME Joined PROVE Inv'
  <2> USE <1>9 DEF Joined, queueVars
  <2>1. TypeOK'
    BY DEF TypeOK
  <2>2. Placement'
    BY DEF TypeOK, Placement, RowsStayWithTheirImage
  <2>3. Reporting'
    BY DEF TypeOK, Reporting, RunsAreComplete
  <2>4. QED
    BY <2>1, <2>2, <2>3
<1>10. ASSUME Summarise PROVE Inv'
  <2> USE <1>10 DEF Summarise
  <2>1. TypeOK'
    <3>1. futures' \in Seq(Artifact) /\ work' \in [Artifact -> Active \cup Finished \cup {"new"}]
      BY SummariseFacts
    <3>2. staged' \in [Directory -> Artifact \cup {NoOne}]
      BY DEF TypeOK
    <3>3. /\ database' \in 1..Images \cup {NoOne}
          /\ stored' \subseteq [rows : Artifact, table : {TableOf[n] : n \in Name}, into : 1..Images \cup {NoOne}]
      <4>1. database' = database /\ stored' = stored
        BY DEF TypeOK
      <4>2. QED
        BY <4>1 DEF TypeOK
    <3>4. /\ \A t \in DOMAIN outcome' : outcome'[t] \in {"ok", "failed"}
          /\ \A n \in DOMAIN runs' : runs'[n] \in {"ok", "failed"}
      BY DEF TypeOK
    <3>5. /\ pc' \in {"open", "bootstrap", "schedule", "join", "summarise", "rejoin",
                     "functions", "close", "returned"}
          /\ image' \in 1..Images /\ left' \in 0..Candidates
      BY DEF TypeOK
    <3>6. known' \subseteq Plugin /\ pending' \subseteq known' /\ results' \subseteq Name
      BY DEF TypeOK
    <3>7. osFamily' \in BOOLEAN /\ hasher' \in BOOLEAN /\ stop' \in BOOLEAN
      BY DEF TypeOK
    <3>8. QED
      BY <3>1, <3>2, <3>3, <3>4, <3>5, <3>6, <3>7 DEF TypeOK
  <2>2. Placement'
    <3>1. /\ pc = "summarise" /\ pc' = "rejoin"
          /\ UNCHANGED <<image, staged, database, stored>>
      OBVIOUS
    <3>2. \A a \in {Mine("runs"), Mine("image")} : a \in Artifact /\ ImageOf(a) = image
      BY MineIsArtifact
    <3>3. /\ Range(futures') = Range(futures) \cup {Mine("runs"), Mine("image")}
          /\ \A a \in Artifact : work'[a] = work[a] \/ a \in {Mine("runs"), Mine("image")}
      BY SummariseFacts
    <3>4. /\ \A a \in Artifact : work'[a] # "new" => ImageOf(a) = image
          /\ \A a \in Range(futures') : ImageOf(a) = image
      BY <3>2, <3>3 DEF Placement
    <3>5. QED
      BY <3>1, <3>4 DEF Placement, RowsStayWithTheirImage
  <2>3. Reporting'
    BY DEF TypeOK, Reporting, RunsAreComplete
  <2>4. QED
    BY <2>1, <2>2, <2>3
<1>11. ASSUME Rejoined PROVE Inv'
  <2> USE <1>11 DEF Rejoined, queueVars
  <2>1. TypeOK'
    BY DEF TypeOK
  <2>2. Placement'
    BY DEF TypeOK, Placement, RowsStayWithTheirImage
  <2>3. Reporting'
    BY DEF TypeOK, Reporting, RunsAreComplete
  <2>4. QED
    BY <2>1, <2>2, <2>3
<1>12. ASSUME CreateFunctions PROVE Inv'
  <2> USE <1>12 DEF CreateFunctions, queueVars
  <2>1. TypeOK'
    BY DEF TypeOK
  <2>2. Placement'
    BY DEF TypeOK, Placement, RowsStayWithTheirImage
  <2>3. Reporting'
    BY DEF TypeOK, Reporting, RunsAreComplete
  <2>4. QED
    BY <2>1, <2>2, <2>3
<1>13. ASSUME Raise PROVE Inv'
  <2> USE <1>13 DEF Raise, queueVars
  <2>1. TypeOK'
    BY DEF TypeOK
  <2>2. Placement'
    BY DEF TypeOK, Placement, RowsStayWithTheirImage
  <2>3. Reporting'
    BY DEF TypeOK, Reporting, RunsAreComplete
  <2>4. QED
    BY <2>1, <2>2, <2>3
<1>14. ASSUME Close PROVE Inv'
  <2> USE <1>14 DEF Close, Quiet, queueVars
  <2>1. TypeOK'
    BY DEF TypeOK
  <2>2. Placement'
    BY DEF TypeOK, Placement, RowsStayWithTheirImage
  <2>3. Reporting'
    BY DEF TypeOK, Reporting, RunsAreComplete
  <2>4. QED
    BY <2>1, <2>2, <2>3
<1>15. ASSUME NextImage PROVE Inv'
  <2> USE <1>15 DEF NextImage
  <2>1. TypeOK'
    <3>1. futures' \in Seq(Artifact) /\ work' \in [Artifact -> Active \cup Finished \cup {"new"}]
      <4>1. futures' \in Seq(Artifact)
        OBVIOUS
      <4>2. work' \in [Artifact -> Active \cup Finished \cup {"new"}]
        BY DEF TypeOK
      <4>3. QED
        BY <4>1, <4>2
    <3>2. staged' \in [Directory -> Artifact \cup {NoOne}]
      BY DEF TypeOK
    <3>3. /\ database' \in 1..Images \cup {NoOne}
          /\ stored' \subseteq [rows : Artifact, table : {TableOf[n] : n \in Name}, into : 1..Images \cup {NoOne}]
      <4>1. database' \in 1..Images \cup {NoOne}
        BY DEF TypeOK
      <4>2. stored' \subseteq [rows : Artifact, table : {TableOf[n] : n \in Name}, into : 1..Images \cup {NoOne}]
        BY DEF TypeOK
      <4>3. QED
        BY <4>1, <4>2
    <3>4. /\ \A t \in DOMAIN outcome' : outcome'[t] \in {"ok", "failed"}
          /\ \A n \in DOMAIN runs' : runs'[n] \in {"ok", "failed"}
      BY DEF TypeOK
    <3>5. /\ pc' \in {"open", "bootstrap", "schedule", "join", "summarise", "rejoin",
                     "functions", "close", "returned"}
          /\ image' \in 1..Images /\ left' \in 0..Candidates
      BY DEF TypeOK
    <3>6. known' \subseteq Plugin /\ pending' \subseteq known' /\ results' \subseteq Name
      BY DEF TypeOK
    <3>7. osFamily' \in BOOLEAN /\ hasher' \in BOOLEAN /\ stop' \in BOOLEAN
      BY DEF TypeOK
    <3>8. QED
      BY <3>1, <3>2, <3>3, <3>4, <3>5, <3>6, <3>7 DEF TypeOK
  <2>2. Placement'
    <3>1. \A a \in Artifact : work[a] \notin Active /\ work'[a] = "new"
      BY DEF TypeOK, Placement
    <3>2. QED
      BY <3>1 DEF Placement, RowsStayWithTheirImage, Range
  <2>3. Reporting'
    BY DEF TypeOK, Reporting, RunsAreComplete
  <2>4. QED
    BY <2>1, <2>2, <2>3
<1>16. ASSUME NEW a \in Artifact, Begin(a), UNCHANGED mainVars PROVE Inv'
  <2> USE <1>16 DEF Begin, mainVars
  <2>1. TypeOK'
    BY DEF TypeOK
  <2>2. Placement'
    BY DEF TypeOK, Placement, RowsStayWithTheirImage
  <2>3. Reporting'
    BY DEF TypeOK, Reporting, RunsAreComplete
  <2>4. QED
    BY <2>1, <2>2, <2>3
<1>17. ASSUME NEW a \in Artifact, Normalize(a), UNCHANGED mainVars PROVE Inv'
  <2> USE <1>17 DEF Normalize, mainVars
  <2>1. TypeOK'
    <3>1. futures' \in Seq(Artifact) /\ work' \in [Artifact -> Active \cup Finished \cup {"new"}]
      <4>1. UNCHANGED futures /\ \E end \in Active \cup Finished : work' = [work EXCEPT ![a] = end]
        OBVIOUS
      <4>2. QED
        BY <4>1 DEF TypeOK
    <3>2. staged' \in [Directory -> Artifact \cup {NoOne}]
      BY DEF TypeOK
    <3>3. /\ database' \in 1..Images \cup {NoOne}
          /\ stored' \subseteq [rows : Artifact, table : {TableOf[n] : n \in Name}, into : 1..Images \cup {NoOne}]
      <4>1. database' = database /\ stored' = stored
        BY DEF TypeOK
      <4>2. QED
        BY <4>1 DEF TypeOK
    <3>4. /\ \A t \in DOMAIN outcome' : outcome'[t] \in {"ok", "failed"}
          /\ \A n \in DOMAIN runs' : runs'[n] \in {"ok", "failed"}
      BY DEF TypeOK
    <3>5. /\ pc' \in {"open", "bootstrap", "schedule", "join", "summarise", "rejoin",
                     "functions", "close", "returned"}
          /\ image' \in 1..Images /\ left' \in 0..Candidates
      BY DEF TypeOK
    <3>6. known' \subseteq Plugin /\ pending' \subseteq known' /\ results' \subseteq Name
      BY DEF TypeOK
    <3>7. osFamily' \in BOOLEAN /\ hasher' \in BOOLEAN /\ stop' \in BOOLEAN
      BY DEF TypeOK
    <3>8. QED
      BY <3>1, <3>2, <3>3, <3>4, <3>5, <3>6, <3>7 DEF TypeOK
  <2>2. Placement'
    BY DEF TypeOK, Placement, RowsStayWithTheirImage
  <2>3. Reporting'
    BY DEF TypeOK, Reporting, RunsAreComplete
  <2>4. QED
    BY <2>1, <2>2, <2>3
<1>18. ASSUME NEW a \in Artifact, Send(a), UNCHANGED mainVars PROVE Inv'
  <2> USE <1>18 DEF Send, mainVars
  <2>1. TypeOK'
    <3>1. futures' \in Seq(Artifact) /\ work' \in [Artifact -> Active \cup Finished \cup {"new"}]
      <4>1. UNCHANGED futures /\ \E end \in Active \cup Finished : work' = [work EXCEPT ![a] = end]
        OBVIOUS
      <4>2. QED
        BY <4>1 DEF TypeOK
    <3>2. staged' \in [Directory -> Artifact \cup {NoOne}]
      BY DEF TypeOK
    <3>3. /\ database' \in 1..Images \cup {NoOne}
          /\ stored' \subseteq [rows : Artifact, table : {TableOf[n] : n \in Name}, into : 1..Images \cup {NoOne}]
      <4>1. database' \in 1..Images \cup {NoOne}
        BY DEF TypeOK
      <4>2. stored' \subseteq [rows : Artifact, table : {TableOf[n] : n \in Name}, into : 1..Images \cup {NoOne}]
        BY DEF TypeOK
      <4>3. QED
        BY <4>1, <4>2
    <3>4. /\ \A t \in DOMAIN outcome' : outcome'[t] \in {"ok", "failed"}
          /\ \A n \in DOMAIN runs' : runs'[n] \in {"ok", "failed"}
      BY DEF TypeOK
    <3>5. /\ pc' \in {"open", "bootstrap", "schedule", "join", "summarise", "rejoin",
                     "functions", "close", "returned"}
          /\ image' \in 1..Images /\ left' \in 0..Candidates
      BY DEF TypeOK
    <3>6. known' \subseteq Plugin /\ pending' \subseteq known' /\ results' \subseteq Name
      BY DEF TypeOK
    <3>7. osFamily' \in BOOLEAN /\ hasher' \in BOOLEAN /\ stop' \in BOOLEAN
      BY DEF TypeOK
    <3>8. QED
      BY <3>1, <3>2, <3>3, <3>4, <3>5, <3>6, <3>7 DEF TypeOK
  <2>2. Placement'
    BY DEF TypeOK, Placement, RowsStayWithTheirImage
  <2>3. Reporting'
    BY DEF TypeOK, Reporting, RunsAreComplete
  <2>4. QED
    BY <2>1, <2>2, <2>3
<1>19. ASSUME NEW a \in Artifact, Clear(a), UNCHANGED mainVars PROVE Inv'
  <2> USE <1>19 DEF Clear, mainVars
  <2>1. TypeOK'
    BY DEF TypeOK
  <2>2. Placement'
    BY DEF TypeOK, Placement, RowsStayWithTheirImage
  <2>3. Reporting'
    BY DEF TypeOK, Reporting, RunsAreComplete
  <2>4. QED
    BY <2>1, <2>2, <2>3
<1>20. ASSUME Hashed PROVE Inv'
  <2> USE <1>20 DEF Hashed, queueVars
  <2>1. TypeOK'
    BY DEF TypeOK
  <2>2. Placement'
    BY DEF TypeOK, Placement, RowsStayWithTheirImage
  <2>3. Reporting'
    BY DEF TypeOK, Reporting, RunsAreComplete
  <2>4. QED
    BY <2>1, <2>2, <2>3
<1>21. ASSUME RequestStop PROVE Inv'
  <2> USE <1>21 DEF RequestStop, queueVars
  <2>1. TypeOK'
    BY DEF TypeOK
  <2>2. Placement'
    BY DEF TypeOK, Placement, RowsStayWithTheirImage
  <2>3. Reporting'
    BY DEF TypeOK, Reporting, RunsAreComplete
  <2>4. QED
    BY <2>1, <2>2, <2>3
<1>22. CASE UNCHANGED vars
  BY <1>22 DEF vars, queueVars, mainVars, TypeOK, Placement, Reporting, Quiet, RowsStayWithTheirImage, RunsAreComplete
<1>23. QED
  BY <1>1, <1>2, <1>3, <1>4, <1>5, <1>6, <1>7, <1>8, <1>9, <1>10, <1>11, <1>12, <1>13, <1>14, <1>15, <1>16, <1>17, <1>18, <1>19, <1>20, <1>21, <1>22 DEF Next, MainStep, Ingest, PoolStep

\* The invariant holds in every state.
LEMMA InvAlways == Spec => []Inv
  BY InvInit, InvNext, PTL DEF Spec

-----------------------------------------------------------------------------

\* Every variable of the pipeline and its queue keeps its type.
THEOREM PipelineTypeCorrect == Spec => []TypeOK
<1>1. Inv => TypeOK
  BY DEF Inv
<1>2. QED
  BY <1>1, InvAlways, PTL

\* No row reaches another image's database or another table, even when
\* artifacts share a staging directory and process() leaves by an exception.
THEOREM ImagesDoNotLeak == Spec => []RowsStayWithTheirImage
<1>1. Inv => RowsStayWithTheirImage
  BY DEF Inv, Placement
<1>2. QED
  BY <1>1, InvAlways, PTL

\* When the summary is written it has one row per task, whatever was skipped,
\* stopped or brought by the hive list.
THEOREM SummaryComplete == Spec => []RunsAreComplete
<1>1. Inv => RunsAreComplete
  BY DEF Inv, Reporting
<1>2. QED
  BY <1>1, InvAlways, PTL

-----------------------------------------------------------------------------

\* Artifacts of the current image and their names.
LEMMA MineFacts ==
  ASSUME TypeOK
  PROVE  /\ \A n \in Name : Mine(n) \in Artifact /\ ImageOf(Mine(n)) = image /\ Table(Mine(n)) = TableOf[n]
         /\ \A m, n \in Name : Mine(m) = Mine(n) => m = n
         /\ \A a \in Artifact : ImageOf(a) = image => a[2] \in Name /\ a = Mine(a[2])
  BY MineIsArtifact, Artifacts DEF Mine

\* With tables of their own, what the summary rests on holds at first ...
LEMMA TruthInit == Init => Truth
<1> SUFFICES ASSUME Init PROVE Truth
  OBVIOUS
<1> USE Kinds DEF Init, QueueInit
<1>1. \A n \in Name : work[Mine(n)] = "new"
  BY DEF Mine, Artifact
<1>2. Once
  BY <1>1 DEF Once
<1>3. Outcomes
  BY <1>1 DEF Outcomes
<1>4. Summary
  BY <1>1 DEF Summary, RunsTellTheTruth, NoSilentLoss
<1>5. QED
  BY <1>2, <1>3, <1>4 DEF Truth

\* ... and every step keeps it.
LEMMA TruthNext == ASSUME OwnTables PROVE Inv /\ Truth /\ [Next]_vars => Truth'
<1> SUFFICES ASSUME Inv, Truth, [Next]_vars PROVE Truth'
  OBVIOUS
<1> USE Kinds, MineFacts DEF Inv, Truth
<1>1. ASSUME Open PROVE Truth'
  <2> USE <1>1 DEF Open
  <2>1. Once'
    BY DEF TypeOK, Once, Placement, Reporting, Mine
  <2>2. Outcomes'
    BY DEF TypeOK, Placement, Once, Outcomes, Mine
  <2>3. Summary'
    BY DEF TypeOK, Placement, Once, Outcomes, Summary, RunsTellTheTruth, NoSilentLoss, Mine
  <2>4. QED
    BY <2>1, <2>2, <2>3
<1>2. ASSUME BootstrapOk PROVE Truth'
  <2> USE <1>2 DEF BootstrapOk
  <2>1. /\ UNCHANGED <<staged, database, stored, outcome>>
        /\ \/ UNCHANGED <<futures, work>>
           \/ /\ Range(futures') = Range(futures) \cup {Mine("boot")}
              /\ work' = [work EXCEPT ![Mine("boot")] = "queued"]
    BY SubmitResultFacts
  <2>2. "boot" \in Name /\ work[Mine("boot")] = "new" /\ Mine("boot") \in Artifact
    BY DEF TypeOK, Once, Reporting
  <2>3. Once'
    BY <2>1, <2>2 DEF TypeOK, Once, Placement, Reporting, Mine
  <2>4. Outcomes'
    <3>1. CASE UNCHANGED <<futures, work>>
      BY <2>1, <3>1 DEF Outcomes, Mine
    <3>2. CASE /\ Range(futures') = Range(futures) \cup {Mine("boot")}
               /\ work' = [work EXCEPT ![Mine("boot")] = "queued"]
      <4>1. \A m \in Name : work'[Mine(m)] = IF m = "boot" THEN "queued" ELSE work[Mine(m)]
        BY <2>2, <3>2 DEF TypeOK
      <4>2. TableOf["boot"] \notin DOMAIN outcome
        BY <2>2 DEF Outcomes
      <4>3. \A m \in Name : Mine(m)' = Mine(m)
        BY DEF Mine
      <4>4. \A m \in Name : work'[Mine(m)] # "new" => Mine(m) \in Range(futures') \/ TableOf[m] \in DOMAIN outcome
        BY <2>2, <3>2, <4>1 DEF Outcomes
      <4>5. QED
        BY <2>1, <4>1, <4>2, <4>3, <4>4 DEF Outcomes, OwnTables
    <3>3. QED
      BY <2>1, <3>1, <3>2
  <2>5. Summary'
    BY <2>1, <2>2 DEF TypeOK, Placement, Once, Outcomes, Summary, RunsTellTheTruth, NoSilentLoss, Mine
  <2>6. QED
    BY <2>3, <2>4, <2>5
<1>3. ASSUME BootstrapFails PROVE Truth'
  <2> USE <1>3 DEF BootstrapFails, queueVars
  <2>1. Once'
    BY DEF TypeOK, Once, Placement, Reporting, Mine
  <2>2. Outcomes'
    BY DEF TypeOK, Placement, Once, Outcomes, Mine
  <2>3. Summary'
    BY DEF TypeOK, Placement, Once, Outcomes, Summary, RunsTellTheTruth, NoSilentLoss, Mine
  <2>4. QED
    BY <2>1, <2>2, <2>3
<1>4. ASSUME Diagnose PROVE Truth'
  <2> USE <1>4 DEF Diagnose
  <2>1. /\ UNCHANGED <<staged, database, stored, outcome>>
        /\ \/ UNCHANGED <<futures, work>>
           \/ /\ Range(futures') = Range(futures) \cup {Mine("diagnostics")}
              /\ work' = [work EXCEPT ![Mine("diagnostics")] = "queued"]
    BY SubmitResultFacts
  <2>2. "diagnostics" \in Name /\ work[Mine("diagnostics")] = "new" /\ Mine("diagnostics") \in Artifact
    BY DEF TypeOK, Once, Reporting
  <2>3. Once'
    BY <2>1, <2>2 DEF TypeOK, Once, Placement, Reporting, Mine
  <2>4. Outcomes'
    <3>1. CASE UNCHANGED <<futures, work>>
      BY <2>1, <3>1 DEF Outcomes, Mine
    <3>2. CASE /\ Range(futures') = Range(futures) \cup {Mine("diagnostics")}
               /\ work' = [work EXCEPT ![Mine("diagnostics")] = "queued"]
      <4>1. \A m \in Name : work'[Mine(m)] = IF m = "diagnostics" THEN "queued" ELSE work[Mine(m)]
        BY <2>2, <3>2 DEF TypeOK
      <4>2. TableOf["diagnostics"] \notin DOMAIN outcome
        BY <2>2 DEF Outcomes
      <4>3. \A m \in Name : Mine(m)' = Mine(m)
        BY DEF Mine
      <4>4. \A m \in Name : work'[Mine(m)] # "new" => Mine(m) \in Range(futures') \/ TableOf[m] \in DOMAIN outcome
        BY <2>2, <3>2, <4>1 DEF Outcomes
      <4>5. QED
        BY <2>1, <4>1, <4>2, <4>3, <4>4 DEF Outcomes, OwnTables
    <3>3. QED
      BY <2>1, <3>1, <3>2
  <2>5. Summary'
    BY <2>1, <2>2 DEF TypeOK, Placement, Once, Outcomes, Summary, RunsTellTheTruth, NoSilentLoss, Mine
  <2>6. QED
    BY <2>3, <2>4, <2>5
<1>5. ASSUME NEW p \in Plugin, Settle(p) PROVE Truth'
  <2> USE <1>5 DEF Settle
  <2>1. /\ UNCHANGED <<staged, database, stored, outcome>>
        /\ \/ UNCHANGED <<futures, work>>
           \/ /\ Range(futures') = Range(futures) \cup {Mine(p)}
              /\ work' = [work EXCEPT ![Mine(p)] = "queued"]
    BY SubmitResultFacts
  <2>2. p \in Name /\ work[Mine(p)] = "new" /\ Mine(p) \in Artifact
    BY DEF TypeOK, Once, Reporting
  <2>3. Once'
    BY <2>1, <2>2 DEF TypeOK, Once, Placement, Reporting, Mine
  <2>4. Outcomes'
    <3>1. CASE UNCHANGED <<futures, work>>
      BY <2>1, <3>1 DEF Outcomes, Mine
    <3>2. CASE /\ Range(futures') = Range(futures) \cup {Mine(p)}
               /\ work' = [work EXCEPT ![Mine(p)] = "queued"]
      <4>1. \A m \in Name : work'[Mine(m)] = IF m = p THEN "queued" ELSE work[Mine(m)]
        BY <2>2, <3>2 DEF TypeOK
      <4>2. TableOf[p] \notin DOMAIN outcome
        BY <2>2 DEF Outcomes
      <4>3. \A m \in Name : Mine(m)' = Mine(m)
        BY DEF Mine
      <4>4. \A m \in Name : work'[Mine(m)] # "new" => Mine(m) \in Range(futures') \/ TableOf[m] \in DOMAIN outcome
        BY <2>2, <3>2, <4>1 DEF Outcomes
      <4>5. QED
        BY <2>1, <4>1, <4>2, <4>3, <4>4 DEF Outcomes, OwnTables
    <3>3. QED
      BY <2>1, <3>1, <3>2
  <2>5. Summary'
    BY <2>1, <2>2 DEF TypeOK, Placement, Once, Outcomes, Summary, RunsTellTheTruth, NoSilentLoss, Mine
  <2>6. QED
    BY <2>3, <2>4, <2>5
<1>6. ASSUME SkipRest PROVE Truth'
  <2> USE <1>6 DEF SkipRest, queueVars
  <2>1. Once'
    BY DEF TypeOK, Once, Placement, Reporting, Mine
  <2>2. Outcomes'
    BY DEF TypeOK, Placement, Once, Outcomes, Mine
  <2>3. Summary'
    BY DEF TypeOK, Placement, Once, Outcomes, Summary, RunsTellTheTruth, NoSilentLoss, Mine
  <2>4. QED
    BY <2>1, <2>2, <2>3
<1>7. ASSUME ScheduleReturns PROVE Truth'
  <2> USE <1>7 DEF ScheduleReturns, queueVars
  <2>1. Once'
    BY DEF TypeOK, Once, Placement, Reporting, Mine
  <2>2. Outcomes'
    BY DEF TypeOK, Placement, Once, Outcomes, Mine
  <2>3. Summary'
    BY DEF TypeOK, Placement, Once, Outcomes, Summary, RunsTellTheTruth, NoSilentLoss, Mine
  <2>4. QED
    BY <2>1, <2>2, <2>3
<1>8. ASSUME Join PROVE Truth'
  <2> USE <1>8 DEF Join, JoinOne, mainVars
  <2>1. Once'
    BY DEF TypeOK, Once, Placement, Reporting, Mine
  <2>2. Outcomes'
    <3>1. PICK n \in Name : Head(futures) = Mine(n)
      BY HeadLeaves DEF TypeOK, Placement
    <3>2. Range(futures) = {Mine(n)} \cup Range(Tail(futures))
      BY <3>1, HeadLeaves DEF TypeOK
    <3>3. /\ work[Mine(n)] \in Finished
          /\ futures' = Tail(futures)
          /\ outcome' = [t \in DOMAIN outcome \cup {TableOf[n]} |->
                           IF t = TableOf[n] THEN IF work[Mine(n)] = "failed" THEN "failed" ELSE "ok" ELSE outcome[t]]
      BY <3>1
    <3>4. \A m \in Name : Mine(m)' = Mine(m)
      BY DEF Mine
    <3>5. DOMAIN outcome' = DOMAIN outcome \cup {TableOf[n]}
      BY <3>3
    <3>6. /\ outcome'[TableOf[n]] = IF work[Mine(n)] = "failed" THEN "failed" ELSE "ok"
          /\ \A t \in DOMAIN outcome : t # TableOf[n] => outcome'[t] = outcome[t]
      BY <3>3
    <3>7. \A m \in Name : work[Mine(m)] # "new" => Mine(m) \in Range(futures') \/ TableOf[m] \in DOMAIN outcome'
      <4> SUFFICES ASSUME NEW m \in Name, work[Mine(m)] # "new", TableOf[m] \notin DOMAIN outcome'
                   PROVE  Mine(m) \in Range(futures')
        OBVIOUS
      <4>1. Mine(m) \in Range(futures) /\ m # n
        BY <3>5 DEF Outcomes
      <4>2. QED
        BY <4>1, <3>2, <3>3
    <3>8. \A m \in Name : TableOf[m] \in DOMAIN outcome' =>
            /\ work[Mine(m)] \in Finished
            /\ outcome'[TableOf[m]] = IF work[Mine(m)] = "failed" THEN "failed" ELSE "ok"
      BY <3>3, <3>5, <3>6 DEF Outcomes, OwnTables
    <3>9. UNCHANGED <<work, image, stored>>
      OBVIOUS
    <3>10. \A m \in Name : work'[Mine(m)'] = work[Mine(m)]
      BY <3>4, <3>9
    <3>11. \A m \in Name : work[Mine(m)] \in {"sent", "stored"} =>
             [rows |-> Mine(m), table |-> TableOf[m], into |-> image] \in stored
      BY DEF Outcomes
    <3> HIDE <1>8
    <3>12. QED
      BY <3>4, <3>7, <3>8, <3>9, <3>10, <3>11 DEF Outcomes
  <2>3. Summary'
    BY DEF TypeOK, Placement, Once, Outcomes, Summary, RunsTellTheTruth, NoSilentLoss, Mine
  <2>4. QED
    BY <2>1, <2>2, <2>3
<1>9. ASSUME Joined PROVE Truth'
  <2> USE <1>9 DEF Joined, queueVars
  <2>1. Once'
    BY DEF TypeOK, Once, Placement, Reporting, Mine
  <2>2. Outcomes'
    BY DEF TypeOK, Placement, Once, Outcomes, Mine
  <2>3. Summary'
    BY DEF TypeOK, Placement, Once, Outcomes, Summary, RunsTellTheTruth, NoSilentLoss, Mine
  <2>4. QED
    BY <2>1, <2>2, <2>3
<1>10. ASSUME Summarise PROVE Truth'
  <2> USE <1>10 DEF Summarise
  <2>1. /\ Range(futures') = Range(futures) \cup {Mine("runs"), Mine("image")}
        /\ \A n \in Name : work'[Mine(n)] = IF n \in {"runs", "image"} THEN "queued" ELSE work[Mine(n)]
    BY SummariseFacts
  <2>2. \A n \in Name : Mine(n)' = Mine(n)
    BY DEF Mine
  <2>3. pc = "summarise" /\ pc' = "rejoin" /\ futures = <<>> /\ Range(futures) = {}
    BY DEF Summary, Range
  <2>4. "runs" \notin results /\ "image" \notin results
    BY DEF Once, TypeOK
  <2>5. work[Mine("runs")] = "new" /\ work[Mine("image")] = "new"
    BY <2>3, <2>4 DEF Once
  <2>6. Once'
    BY <2>1, <2>2, <2>3 DEF Once
  <2>7. Outcomes'
    <3>1. \A n \in Name : work'[Mine(n)] # "new" => Mine(n) \in Range(futures') \/ TableOf[n] \in DOMAIN outcome
      BY <2>1 DEF Outcomes
    <3>2. TableOf["runs"] \notin DOMAIN outcome /\ TableOf["image"] \notin DOMAIN outcome
      BY <2>5 DEF Outcomes
    <3>3. QED
      BY <2>1, <2>2, <3>1, <3>2 DEF Outcomes
  <2>8. Summary'
    <3>1. /\ DOMAIN runs' = results
          /\ \A n \in results : runs'[n] = IF TableOf[n] \in DOMAIN outcome THEN outcome[TableOf[n]] ELSE "ok"
      OBVIOUS
    <3>2. \A n \in results : n \in Name /\ work'[Mine(n)] = work[Mine(n)]
      BY <2>1, <2>4 DEF TypeOK
    <3>3. \A n \in results : TableOf[n] \notin DOMAIN outcome => work[Mine(n)] = "new" /\ runs'[n] = "ok"
      BY <2>3, <3>1, <3>2 DEF Outcomes
    <3>4. \A n \in results : TableOf[n] \in DOMAIN outcome =>
            /\ work[Mine(n)] \in Finished
            /\ runs'[n] = IF work[Mine(n)] = "failed" THEN "failed" ELSE "ok"
      BY <3>1, <3>2 DEF Outcomes
    <3>5. \A n \in results : work[Mine(n)] = "stored" =>
            [rows |-> Mine(n), table |-> TableOf[n], into |-> image] \in stored
      BY <3>2 DEF Outcomes
    <3>6. RunsTellTheTruth'
      BY <2>2, <3>1, <3>2, <3>3, <3>4, <3>5 DEF RunsTellTheTruth, NoSilentLoss
    <3>7. QED
      BY <2>2, <2>3, <3>1, <3>2, <3>3, <3>4, <3>6 DEF Summary
  <2>9. QED
    BY <2>6, <2>7, <2>8
<1>11. ASSUME Rejoined PROVE Truth'
  <2> USE <1>11 DEF Rejoined, queueVars
  <2>1. Once'
    BY DEF TypeOK, Once, Placement, Reporting, Mine
  <2>2. Outcomes'
    BY DEF TypeOK, Placement, Once, Outcomes, Mine
  <2>3. Summary'
    BY DEF TypeOK, Placement, Once, Outcomes, Summary, RunsTellTheTruth, NoSilentLoss, Mine
  <2>4. QED
    BY <2>1, <2>2, <2>3
<1>12. ASSUME CreateFunctions PROVE Truth'
  <2> USE <1>12 DEF CreateFunctions, queueVars
  <2>1. Once'
    BY DEF TypeOK, Once, Placement, Reporting, Mine
  <2>2. Outcomes'
    BY DEF TypeOK, Placement, Once, Outcomes, Mine
  <2>3. Summary'
    BY DEF TypeOK, Placement, Once, Outcomes, Summary, RunsTellTheTruth, NoSilentLoss, Mine
  <2>4. QED
    BY <2>1, <2>2, <2>3
<1>13. ASSUME Raise PROVE Truth'
  <2> USE <1>13 DEF Raise, queueVars
  <2>1. Once'
    BY DEF TypeOK, Once, Placement, Reporting, Mine
  <2>2. Outcomes'
    BY DEF TypeOK, Placement, Once, Outcomes, Mine
  <2>3. Summary'
    BY DEF TypeOK, Placement, Once, Outcomes, Summary, RunsTellTheTruth, NoSilentLoss, Mine
  <2>4. QED
    BY <2>1, <2>2, <2>3
<1>14. ASSUME Close PROVE Truth'
  <2> USE <1>14 DEF Close, queueVars
  <2>1. Once'
    BY DEF TypeOK, Once, Placement, Reporting, Mine
  <2>2. Outcomes'
    BY DEF TypeOK, Placement, Once, Outcomes, Mine
  <2>3. Summary'
    BY DEF TypeOK, Placement, Once, Outcomes, Summary, RunsTellTheTruth, NoSilentLoss, Mine
  <2>4. QED
    BY <2>1, <2>2, <2>3
<1>15. ASSUME NextImage PROVE Truth'
  <2> USE <1>15 DEF NextImage
  <2>1. \A a \in Artifact : work'[a] = "new"
    BY DEF TypeOK, Placement
  <2>2. \A n \in Name : Mine(n)' \in Artifact
    BY DEF Mine, Artifact, TypeOK
  <2>3. \A n \in Name : work'[Mine(n)'] = "new"
    BY <2>1, <2>2
  <2>4. Once'
    BY <2>3 DEF Once
  <2>5. Outcomes'
    <3>1. DOMAIN outcome' = {}
      OBVIOUS
    <3>2. QED
      BY <2>3, <3>1 DEF Outcomes
  <2>6. Summary'
    BY <2>3 DEF Summary, RunsTellTheTruth, NoSilentLoss
  <2>7. QED
    BY <2>4, <2>5, <2>6
<1>16. ASSUME NEW a \in Artifact, Begin(a), UNCHANGED mainVars PROVE Truth'
  <2> USE <1>16 DEF Begin, mainVars
  <2>1. Once'
    BY DEF TypeOK, Once, Placement, Reporting, Mine
  <2>2. Outcomes'
    BY DEF TypeOK, Placement, Once, Outcomes, Mine
  <2>3. Summary'
    BY DEF TypeOK, Placement, Once, Outcomes, Summary, RunsTellTheTruth, NoSilentLoss, Mine
  <2>4. QED
    BY <2>1, <2>2, <2>3
<1>17. ASSUME NEW a \in Artifact, Normalize(a), UNCHANGED mainVars PROVE Truth'
  <2> USE <1>17 DEF Normalize, mainVars
  <2>1. Once'
    BY DEF TypeOK, Once, Placement, Reporting, Mine
  <2>2. Outcomes'
    BY DEF TypeOK, Placement, Once, Outcomes, Mine
  <2>3. Summary'
    BY DEF TypeOK, Placement, Once, Outcomes, Summary, RunsTellTheTruth, NoSilentLoss, Mine
  <2>4. QED
    BY <2>1, <2>2, <2>3
<1>18. ASSUME NEW a \in Artifact, Send(a), UNCHANGED mainVars PROVE Truth'
  <2> USE <1>18 DEF Send, mainVars
  <2>1. Once'
    BY DEF TypeOK, Once, Placement, Reporting, Mine
  <2>2. Outcomes'
    <3>1. \A n \in Name : Mine(n)' = Mine(n)
      BY DEF Mine
    <3>2. a = Mine(a[2]) /\ a[2] \in Name /\ ImageOf(a) = image /\ database = image
      BY DEF TypeOK, Placement
    <3>3. /\ \E end \in {"sent", "unsent"} : work' = [work EXCEPT ![a] = end]
          /\ stored \subseteq stored'
      OBVIOUS
    <3>4. work'[a] = "sent" => [rows |-> a, table |-> Table(a), into |-> image] \in stored'
      <4>1. CASE work' = [work EXCEPT ![a] = "unsent"]
        BY <4>1 DEF TypeOK
      <4>2. CASE /\ staged[Staging(a)] # NoOne
                 /\ stored' = stored \cup {[rows |-> staged[Staging(a)], table |-> Table(a), into |-> database]}
        <5>1. /\ staged[Staging(a)] \in Artifact /\ Staging(staged[Staging(a)]) = Staging(a)
          BY <4>2, Artifacts DEF TypeOK, Placement
        <5>2. ImageOf(staged[Staging(a)]) = ImageOf(a) /\ Table(staged[Staging(a)]) = Table(a)
          BY <5>1, Artifacts
        <5>3. staged[Staging(a)] = a
          BY <5>1, <5>2, <3>2 DEF OwnTables, Table
        <5>4. QED
          BY <4>2, <5>3, <3>2
      <4>3. QED
        BY <4>1, <4>2
    <3>5. QED
      BY <3>1, <3>2, <3>3, <3>4 DEF Outcomes, TypeOK, Table
  <2>3. Summary'
    BY DEF TypeOK, Placement, Once, Outcomes, Summary, RunsTellTheTruth, NoSilentLoss, Mine
  <2>4. QED
    BY <2>1, <2>2, <2>3
<1>19. ASSUME NEW a \in Artifact, Clear(a), UNCHANGED mainVars PROVE Truth'
  <2> USE <1>19 DEF Clear, mainVars
  <2>1. Once'
    BY DEF TypeOK, Once, Placement, Reporting, Mine
  <2>2. Outcomes'
    BY DEF TypeOK, Placement, Once, Outcomes, Mine
  <2>3. Summary'
    BY DEF TypeOK, Placement, Once, Outcomes, Summary, RunsTellTheTruth, NoSilentLoss, Mine
  <2>4. QED
    BY <2>1, <2>2, <2>3
<1>20. ASSUME Hashed PROVE Truth'
  <2> USE <1>20 DEF Hashed, queueVars
  <2>1. Once'
    BY DEF TypeOK, Once, Placement, Reporting, Mine
  <2>2. Outcomes'
    BY DEF TypeOK, Placement, Once, Outcomes, Mine
  <2>3. Summary'
    BY DEF TypeOK, Placement, Once, Outcomes, Summary, RunsTellTheTruth, NoSilentLoss, Mine
  <2>4. QED
    BY <2>1, <2>2, <2>3
<1>21. ASSUME RequestStop PROVE Truth'
  <2> USE <1>21 DEF RequestStop, queueVars
  <2>1. Once'
    BY DEF TypeOK, Once, Placement, Reporting, Mine
  <2>2. Outcomes'
    BY DEF TypeOK, Placement, Once, Outcomes, Mine
  <2>3. Summary'
    BY DEF TypeOK, Placement, Once, Outcomes, Summary, RunsTellTheTruth, NoSilentLoss, Mine
  <2>4. QED
    BY <2>1, <2>2, <2>3
<1>22. CASE UNCHANGED vars
  BY <1>22 DEF vars, queueVars, mainVars, Once, Outcomes, Summary, RunsTellTheTruth, NoSilentLoss, Mine
<1>23. QED
  BY <1>1, <1>2, <1>3, <1>4, <1>5, <1>6, <1>7, <1>8, <1>9, <1>10, <1>11, <1>12, <1>13, <1>14, <1>15, <1>16, <1>17, <1>18, <1>19, <1>20, <1>21, <1>22 DEF Next, MainStep, Ingest, PoolStep

\* The status table of an image whose artifacts have tables of their own is
\* true: an error where ingestion failed, and nowhere else.
THEOREM StatusTableIsTrue == ASSUME OwnTables PROVE Spec => []RunsTellTheTruth
<1>1. Init => Inv /\ Truth
  BY InvInit, TruthInit
<1>2. Inv /\ Truth /\ [Next]_vars => (Inv /\ Truth)'
  BY InvNext, TruthNext
<1>3. Truth => RunsTellTheTruth
  BY DEF Truth, Summary
<1>4. QED
  BY <1>1, <1>2, <1>3, PTL DEF Spec
=============================================================================
