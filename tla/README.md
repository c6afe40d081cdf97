# VolAutolity in TLA+

VolAutolity watches a blob container for memory images, runs some eighty
Volatility 3 plugins on each, and streams every result table into one Azure
Data Explorer (ADX) database per image. This directory models its control
flow: TLA+ modules, the TLC configurations that check them on small instances,
and theorems that TLAPS proves for every value of the constants. Paths below
are relative to `VolAutolity/volautolity/`.

## 1. Inventory

| Component | State it keeps | Operations | Talks to |
|---|---|---|---|
| `TaskScheduler` (scheduler.py) | heap of (tier, sequence, task), `running` futures, results | `run`, `_push`, `_result_of` | tasks on a thread pool; `on_result` into the ingestion queue; the stop event |
| `InboxWatcher` (watcher.py) | `first_poll`, the listing, the current item, files under the work directory | `run`, `_handle`, `_ensure_space` | `BlobInbox`, `ImageUnpacker`, `DumpPipeline`, `ResultsUploader`, the stop event |
| `BlobInbox`, `ResultsUploader` (storage.py) | none of their own: blob metadata is the state | `pending`, `mark`, `download`, `upload_tree` | the storage account, which uploaders write too |
| `ImageUnpacker` (unpack.py) | none of its own: files | `unpack` | the local disk |
| `DumpPipeline`, `ImageHasher` (pipeline.py) | the report, the hash | `process`, `_bootstrap`, `_write_summaries` | scheduler, queue, sink, catalog |
| `IngestionQueue` (pipeline.py) | futures in order, staging directories | `submit`, `_ingest`, `join`, `close` | `CsvNormalizer`, the sink |
| tasks and `TaskFactory` (tasks.py) | `config_file` shared through the CLI object, files per table | `run`, `followups`, `build` | `ProcessRunner` |
| `ProcessRunner`, `VolatilityCli` (volatility.py) | one subprocess | `run`, `_kill`, `build` | operating system |
| `ResultSink` (sinks.py) | abstract | `open`, `ingest`, `create_functions` | implemented by `AdxSink` and `LocalSink` |
| `AdxSink` (adx.py) | open database, table cache under a lock | `open`, `ingest`, `_ensure_table`, `create_functions` | ARM and ADX |
| `CsvNormalizer` (csvnorm.py) | position in the file, inferred types, chunk files | `normalize` | staging directory |
| `Identifiers`, `DumpName`, `Settings`, `PluginCatalog`, `LocalSink` | none | pure or nearly so | |
| `__main__`, systemd unit | the stop event, process lifetime | signals, start, restart | all of the above |

What is hard here, and what makes each part correct:

- **Scheduler.** The scheduler thread, the pool threads and a signal handler
  interleave; completions come in batches and bring new tasks while a stop may
  already be draining the heap. Correct means: each task settled once, the
  limit kept but used, tier order, at most one late start after a stop,
  `run()` returns.
- **Watcher.** The blob's metadata is the only memory that survives. It is
  written by read-then-write, next to uploaders who overwrite, calls that fail
  or whose answers are lost, stops, crashes and restarts. Correct means: a
  status is true of the content it is attached to, every upload gets a final
  status, and results follow it.
- **Local disk.** Two blobs may come to lie under one local name; downloads,
  archives and processes break off half-way; the finally clause deletes what
  one variable names. Correct means: Volatility reads the whole image that was
  listed, nothing piles up, results stay until they are uploaded.
- **Queue and pipeline.** Pool threads normalise and send while plugins still
  run, into a sink shared by all images, through directories named after
  tables. Correct means: rows reach their own image's database, the status
  table is complete and true, `process()` comes back.
- **ADX.** A database name is looked up, taken and created in three calls that
  may fail; several threads create tables through a cache, with commands that
  fail or whose answers are lost. Correct means: no database receives the rows
  of two images, rows are queued under columns the table really has, no thread
  keeps the lock.
- **Normalisation.** Types are inferred in one pass and trusted in the next.
  Correct means: exact types, no value in a column that cannot hold it, none
  lost or shifted, chunks within their bound.
- **Names.** Tables and columns are made unique by counting. Correct means: unique.
- **Tasks and processes.** Processes that hang or end at their deadline, a
  retry over the same CSV, one configuration file for all. Correct means: no
  output or configuration of another attempt, candidate or run, nothing left
  behind, every task ends.

`PROJECT.json` lists the hazards one by one with their lines and the
properties that cover them.

## 2. Modules

| Module | Models |
|---|---|
| `TaskLedger` | abstract: what `TaskScheduler.run` promises its caller |
| `TaskScheduler` | scheduler.py, the pool and the stop event |
| `InboxWatcher` | watcher.py with `BlobInbox`, `ResultsUploader`, uploaders, systemd |
| `LocalDisk` | the files of watcher.py and unpack.py; extends `InboxWatcher`, each of its actions being one of `InboxWatcher`'s with what it does to the disk |
| `IngestionQueue` | one queue per image: operators and the pool's actions |
| `DumpPipeline` | `process` over consecutive images, composed with `IngestionQueue` by EXTENDS; the scheduler appears as `TaskLedger` promises it |
| `VolatilityTask` | the vol and scanner processes of one image: `VolatilityTask`, `BootstrapTask`, `StringsTask`, `DumpFilesTask`, `ClamScanTask`, `ProcessRunner`, `VolatilityCli.build` |
| `ResultSink` | abstract: what a sink promises the pipeline |
| `AdxSink` | adx.py, with the failures of ARM and ADX |
| `UniqueNames` | `HiveListTask.followups`, `Identifiers.columns`: operators only |
| `CsvNormalizer` | csvnorm.py; its columns are named by `UniqueNames` |
| `...Proofs` | theorems about the module they are called after |
| `SequenceFacts` | lemmas only: induction over numbers, minima, `FlattenSeq` and sums of sequences |
| `MC...` | instances for TLC |

Definitions named `<definition>_<bug>`, such as `MayStart_OffByOne`, are
mutated forms of the definition that follows them. No behaviour of a
specification uses them; `PROJECT.json` pairs each with the property that
fails when it replaces the original, which is the evidence that the property
can fail.

### TaskScheduler

`pc` is the scheduler thread's position in `run()`. The inner loop is two
steps, `CommitStart` (line 38, the condition with the stop event) and `Start`
(lines 39-41): the signal handler may run in between, and each pool thread may
too. `WaitReturns` takes every future done at that moment as the `batch`;
`Collect` visits it in any order, as the code iterates over a set. `Skip` and
`Return` are the last loop. A task is an identity with a tier; `Endings` says
how it may end, `"raised"` being an exception that `_result_of` turns into a
failed result. Follow-ups are fresh tasks of a result that ended OK. `ticket`
keeps the heap's sequence number of every task ever pushed, `lateStarts`
counts submissions after the stop; both exist for the properties.

### InboxWatcher and LocalDisk

A blob's content is a version number and a hash is the version it is the hash
of. `mark()` is `MarkRead` and `MarkWrite`; `MarkFails` may happen before
either, `MarkAnswerLost` writes and still reports an error. The three call
sites share these actions: `pc` says which one it is ("claim", "verdict",
"giveUp" for the except clause) and `Marked`, `AfterMark`, `AfterFailedMark`
what follows. `StepRaises` is anything else that ends in the except clause.
`order` relates names by last modification, which every metadata write
changes: `Pending` is the listing, oldest first, and it is taken at one moment
while its items are handled hours later. A crash loses all variables of the
process and none of the storage account. `attempts` (of the present start),
`analysed` and `published` are history.

`LocalDisk` adds the file under each local path, whole or half-written. `held`
is `local` of `_handle`: the base name until `unpack` returns, then the inner
name. `Downloaded` and `Unpacked` truncate what they find ("wb"); each may
break off and leave half a file (`DownloadRaises`, `UnpackRaises`), and so may
a crash. `Cleaned` is the finally clause, which deletes `held` only, the
setting `keep_dumps` having its default, off. `outputs` are the output
directories, removed after their upload. `stray` is history:
the paths left occupied by a crash or a broken archive.

### IngestionQueue and DumpPipeline

An artifact is an image and a name; `TableOf` gives its table, which is also
its staging directory. A pool thread takes an artifact through "normalizing",
"sending", and "sent" or "unsent" until `Clear`, the finally clause, has
removed the directory. `Send` reads the sink's database at that moment, as
`AdxSink.ingest` does, and may fail after some chunks were sent. `Raise` is an
exception anywhere between try and finally; `Close` waits for the pool.
Bootstrap candidates fail one by one; with none left `Diagnose` runs. Their
result rows share one name, so that how many there are is not checked.
`BootstrapOk` builds the tasks: the factory settles at once those the settings
skip, and the others are `pending`. The hive list, when it ends well, brings a
printkey task for each hive (`PrintKeys`), named and tabled by `UniqueNames`.
The hashing thread and the signal handler are actions of their own. `stored`
is a history of what was handed to ADX for the current image.

### VolatilityTask

One task per operating system to try, then the plugins, as many at once as
there are, and the scans of the files one of them dumped. `Invoke` is
`_invoke` up to Popen, which truncates the CSV and decides about `-c` or
`--save-config`; `Exited` and `Expires` are the two ends of
`proc.wait(timeout)`, and between `Expires` and `Kill` the process may still
end by itself. `Retry` and `Report` are the two ways on; `InvokeRaises` is a
task whose process could not be started. `csv` records which attempt wrote the
rows a table's file holds, `config` who saved the configuration and whether
all of it. What vol does is external and as free as possible: write, complain,
exit, hang.

### AdxSink and ResultSink

`LookUp`, `CreateDatabase` and `SetPolicy` are the three ARM and ADX calls of
`open`; each may raise, and `CreateRaises` may have created the database. A
database name is the image's alone or also after a second (`UnusedName`).
`clock` counts seconds as far as they matter: the model assumes that ARM takes
longer than a second to create a database and that systemd waits `RestartSec`
before it starts the service again, so that a second is over when the next
image or process looks its name up. On each pool thread `Ingest` takes a CSV,
`Acquire` enters the lock and reads the cache, then one of `Known` (nothing is
missing), `Altered`, `CommandRaises` and `AnswerLost` (the command took effect
and raised all the same) leaves it; `Send` queues the rows. A table's columns
are name and type, a set without the ordinals of the ingestion mapping; ADX refuses to
change a type (`Merges`). `Restart` loses
the process and keeps ARM's and ADX's state.

`ResultSink` is the promise of sinks.py's abstract class: opening an image
gives a destination that has never received a row, and rows go to the open
image's destination only. `NoMixing` is what that comes to: no destination
holds rows of two images. The refinement mapping hides the calls: the
destination exists once the policy is set, and what was queued is delivered.

### CsvNormalizer and UniqueNames

A cell is the kind of its text: null token, integer, fraction, time stamp,
other text. `Infer` is `observe` on one row, `Inferred` the choice of
`result()`, `Write` one row of the second pass with `_convert` and the chunk
writer, whose size counts cells that are not empty and separators.
`HeaderFound` takes the line that begins with TreeDepth among the first
`HeaderScanLines`, or else the first line that is not blank. The cells of such
a line become the headers; there, cells of one kind have one text.

In `UniqueNames` a name is its letters without case, whether they are
capitals, the position an empty header is called after, and the numbers added
behind it, so that `ntuser` with 2 added and a hive called `ntuser2` are the
same name. The prefix `c_` of a name that begins with a digit is left out.

## 3. Runs

| Run | Question | Instance |
|---|---|---|
| `task_scheduler` | all scheduler properties, the refinement and termination | 2 workers; 3 initial tasks in 3 tiers in reverse order, one bringing 0 to 2 follow-ups of other tiers |
| `inbox_watcher` | do statuses tell the truth, are images taken in order of modification, interrupted ones too? | 2 names, 2 versions each, 2 faults, 1 restart; names are symmetric |
| `local_disk` | does Volatility see the right file, what stays on the disk, does every upload get a final status? | ram.raw.gz, which unpacks to the name of ram.raw; 1 version, 1 restart |
| `inbox_mark_fault` | ... with one failing metadata call? (violated) | 1 name |
| `inbox_overwrite` | statuses, when an image is overwritten at any time? (violated) | 1 name, 2 versions |
| `inbox_crash` | are the results of a "done" image uploaded? (violated) | 1 name, 1 crash |
| `dump_pipeline` | isolation of images, truth of the status table, termination | 2 images, hive list and one hive, 2 candidates, 2 pool threads |
| `dump_pipeline_shared` | ... when hives called ntuser, ntuser, ntuser2 give one table twice (violated) | 1 image, 3 hives |
| `volatility_task` | are configurations and output kept apart, does every task end? | 2 candidates, 2 plugins, one with the strings pre-pass and one that dumps files, 1 scan, stale files or none |
| `adx_sink` | one database per image, cache and rows agree with ADX, no lock is kept | 2 openings of one name, free or taken; 2 threads; 3 CSVs, 2 of one table that disagree on a type, 1 without rows; restarts |
| `csv_normalizer` | types, conversion, chunks, column names | every file of up to 2 rows of up to 2 cells of 5 kinds and rows of 3; 3 rows of 3 kinds; up to 2 lines before the header; headers of up to 4 names, among them names with a number that counting gives too |
| `csv_ragged` | is the overflow of a ragged row kept? (violated) | 1 row of up to 3 cells |

Why these bounds are enough to be interesting. Scheduler: three tasks against
two workers make the limit bind and leave a task waiting; two follow-ups of
different tiers overtake and are overtaken. Watcher: two names make listings
go stale while the first image is handled, two versions make every remembered
fact (claimed hash, verdict) about an older content possible, two faults cover
a failing mark followed by a failing mark of the failure. Disk: the two blobs
collide under one local path in either order, and the one restart finds every
kind of leftover. Pipeline: two images are the least for leaking; a hive list,
its follow-up, bootstrap and summaries keep both pool threads busy with a
queue behind them. ADX: two openings of one name are the least for a second
choice of name, two CSVs of one table on two threads the least for a cache
that runs ahead or behind, and the disagreeing type makes ADX refuse a
command. Normaliser: types depend on the set of kinds in a column, and no more
than three kinds decide any of them; a chunk of 5 characters closes after one
row or after two.

Deadlock is checked where the system never stops (`InboxWatcher`,
`LocalDisk`); the scheduler returns, the pipeline runs out of images, tasks
are all settled, the normaliser returns and the sink's openings are bounded,
so their configurations switch the deadlock check off; `Terminates`,
`EveryImageLeaves`, `EveryTaskEnds` and `EveryIngestEnds` say what ending they
reach.

### Where the program and its documents part

- `inbox_overwrite`: `mark()` (storage.py:52) has no ETag condition. An image
  uploaded again during the analysis of its predecessor gets the predecessor's
  verdict and is never analysed. In the other runs uploaders wait for a final
  status, as docs/ACQUISITION.md:197 tells them to ("Re-upload in that case").
- `inbox_crash`: the verdict is recorded before the results are uploaded
  (watcher.py:69-71); a crash in between leaves them out of the container for
  good. They are still on the VM's disk (`ResultsKept`), as long as that lasts:
  the work directory usually is on /mnt, "wiped on deallocation"
  (volautolity.service:14).
- `inbox_mark_fault`: if the mark in the except clause fails (watcher.py:77-79),
  the image stays "processing" until the service restarts.
- `dump_pipeline_shared`: numbering hives may give a table name twice, and
  artifacts of one table are staged in one directory. Numbering columns has the
  same gap: naming.py:67 speaks of "unique ADX column names", but the headers
  `name`, `name`, `name_2` give `name_2` twice. `NumberedHeadersClash`, which TLC
  evaluates in `csv_normalizer`, shows it on the operator itself.
  `ColumnsDistinct` says how far the gap goes: two columns of any file share a
  name only where one's header is the other's with a number behind it. The run's
  files have such headers, and the proof excludes no file.
- `csv_ragged`: the overflow of a ragged row is joined into the last column,
  which loses both if its type is not string.

Two observations without a run of their own: the halves of broken
archives and the output directories of failed or interrupted images are never
deleted by the service (`stray`, `outputs`), while cfg/variables.tf:50 sizes
the disk for twice the largest image; and setting metadata changes
`last_modified`. The second qualifies the order docs/ACQUISITION.md:188 promises
("one at a time, oldest first", as storage.py:40 does): `OldestFirst` is the
order by last modification, and it covers every image that `pending` owes a
turn, interrupted ones included. For an untouched image that is the order of
uploads. An interrupted one counts from its mark, so that after the restart
everything uploaded before that mark, though after the image itself, is taken
first. The order of uploads is not kept there, and no property claims it.
`OldestFirst` further needs fewer than two failed metadata calls for an untouched
image, and none for an interrupted one: with two, neither the claim nor the
verdict of a failed claim is recorded, and the image is left unmarked while later
ones are taken up; with one, an image is left "processing" until the service
restarts (`inbox_mark_fault`).

## 4. Fairness

- `TaskScheduler`: weak fairness of the scheduler thread and of every task's
  pool steps. Every task ends because `ProcessRunner.run` waits with a hard
  timeout and kills the process group, which is what `EveryTaskEnds` of
  `VolatilityTask` shows. Nothing forces a stop.
- `InboxWatcher`: weak fairness of the process's steps (every call returns or
  raises), strong fairness of `Poll`: listing is retried for ever and access is
  granted some time ("RBAC still propagating", watcher.py:39). Weak fairness
  of `Start`: systemd restarts after a failure (`Restart=on-failure`) and the
  unit is enabled at boot. Uploads, stops and crashes are never forced.
- `LocalDisk`: the same, on the actions that carry the disk along.
- `VolatilityTask`: weak fairness of the tasks' own steps as a whole, and none of
  vol: a process may hang in every attempt.
- `DumpPipeline`: weak fairness of the main thread, of the hasher, and of the
  pool as a whole, again because plugins are killed at their timeout and files
  are finite.
- `AdxSink`: weak fairness of each thread once it has taken a CSV: the SDK's
  calls return or raise. Nothing forces an image to be opened or closed.
- `CsvNormalizer`: none; no liveness is claimed of it.

## 5. Proofs

Each `...Proofs` module extends the component it is about, defines an inductive
invariant `Inv` in named parts, proves that the initial states have it and that
every action keeps it (one step per action, below it one per part), and derives
the theorems. The assumptions of the modules (`SchedulerAssumption` and so on)
are weak: sets of any size, counts any natural number. What more is assumed is
written into the theorem.

**`TaskSchedulerProofs`.** The initial tasks are a sequence without
repetition, tiers are natural numbers, each task has at least one possible
ending, the worker setting is any integer; Task may be infinite. The safety
properties are not inductive by themselves. The invariant
`Inv == TypeOK /\ Accounted /\ Numbering /\ Slots /\ Phases /\ Stopping` adds
what each position knows: at "submit" a slot is free and the heap is not
empty; at "wait" nothing may start; a batch exists only while it is collected;
in the drain nothing is in flight and, if tasks are left, a stop was requested
(that is why tasks are given up only after a stop); a late start happened only
if the thread is no longer committed to another one (that is why there is at
most one); sequence numbers in use lie below the counter. Theorems:
`TypeCorrect`, `AccountedOnce`, `GivesUpOnlyAfterStop`, `InFlightBound`,
`LateStartBound`, `NoIdleSlot`, `HeapNeverComparesTasks`, `CoreTablesStartFirst`,
and `Refinement`, that every behaviour implements
`TaskLedger`: `LedgerInitialised` maps the initial states, `LedgerStep` each
action to a step of the ledger (`Start` to `Launch`, `Collect` to `Settle`,
`Skip` to `GiveUp`, `RequestStop` to `Stop`) or to a stutter.
`CoreTablesStartFirst` relates tasks that were ever started to catalog tasks
that were not, across all batches and follow-ups in between, and rests on a
second invariant, `Order`: catalog tasks keep the numbers 0, 1, ... and every
follow-up has a larger one (`Catalogue`), the last loop alone gives up on tasks
(`GivenUpLast`), and whatever was started ranks before every catalog task that was
not (`AheadOfCatalogue`).
`GivesUpOnlyAfterStop` has no run of its own: a ledger gives up only after a stop,
so the refinement, which TLC checks, implies it. The theorems cover worker
settings of zero and below, which no run instantiates. `InFlightBound` is
proved and needs no run.

**`InboxWatcherProofs`.** Every theorem assumes `PatientUploaders`: nobody
uploads a name again before it has a final status (`inbox_overwrite` shows
what happens otherwise). The invariant ties the process's memory to the
storage account: what is left of a listing is still as it was listed and not
yet tried by this start, names in it are different and none is the current one
(`Listing`); a `mark()` in progress has read what is still there, and a claimed
item is "processing" (`Current`); the local version is the content, the report
is about it, and without a stop it was analysed to the end (`Analysis`); a
first poll comes before every attempt of a start (`Attempts`). Theorems:
`InboxTypeCorrect`, `DoneIsAnalysed`, `DoneIsVerified`, `AttemptsBounded`,
`FinalStatusStays` (an action property).

Two more invariants, on top of the first, are about the order of images.
`Interrupted`: an image left "processing", while no mark failed, is listed or in
hand, or the service is stopping or has yet to make the first listing of a
start, the only one that includes such images. `InTurn`: modification times
order the blobs (`Times`); whatever waits and was modified before an image on
the listing is listed before it or in hand (`Ahead`); and once the image in hand
was claimed, or is given up without a failed call (`Passing`), it is ahead of
nothing listed, because its mark put it behind them all or it was uploaded again
(`LeftWaiting`). `PendingOrder` shows that a listing leaves no image out and
turns none round. `OldestTakenFirst` follows. What it needs of failed calls is
part of the property (`Waiting`), because it is false otherwise.

**`LocalDiskProofs`** stands on it. `DiskRefinesWatcher` shows that a step of
the disk's model is one of the watcher's, so the watcher's invariant holds here
too. To it `DiskInv` adds what lies under the path of the item in process
(`Places`), that whatever else lies on the disk is a leftover (`Leftovers`),
and that the results exist from the report to their upload (`Outputs`).
Theorems, for any way blobs share local paths: `DiskTypeCorrect`,
`WholeImageAnalysed`, `DiskCleared`, `ResultsNotLost`; and `DiskImplementsWatcher`:
every behaviour of `LocalDisk` is one of `InboxWatcher`, so that what is proved
of the watcher for every instance is true with the disk.

**`DumpPipelineProofs`.** `Placement` says that work is active for the current
image only, in the right directory, with the sink open on it; `Reporting` which
results the report holds at each position. They give `PipelineTypeCorrect`,
`ImagesDoNotLeak` and `SummaryComplete` also when artifacts share a table.
`StatusTableIsTrue` assumes `OwnTables` (no two artifacts of an image have one
table; `dump_pipeline_shared` shows what happens otherwise) and a second
invariant, `Truth`: no artifact is submitted twice, outcomes agree with what
became of the work, and the summary is written when nothing is waiting.

**`VolatilityTaskProofs`.** `Progress` says what each position knows of the
task's own process, attempt and rows, `Turns` that candidates are tried in turn
and plugins follow, `Ownership` who wrote the configuration and when it is
known to be whole. Theorems: `TaskTypeCorrect`, `ConfigNeverMixedUp`,
`OutputNeverMixedUp`, `NothingStaysBehind`. `RunsWindDown` is the part of "every task
ends" that needs no fairness: `StepsLeft`, a number between 0 and 11 made of the
position in `run()` and the attempts left, becomes smaller with every step of a
task's own and is not raised by anybody else's. `EveryTaskEnds` adds to it that
a task that is not settled can take a step and that fairness makes it do so,
which TLC checks. `TaskAssumption` lets at most one
plugin use the strings pre-pass, as in the catalog: two would share its scratch
file.

**`AdxSinkProofs`.** `Freshness` is the argument for one database per image: a
name that was ever used exists in ADX and bears no second or one that is over,
so a name that is free, or bears the present second, was never used. `Counting`
bounds clock and images by the calls of `open()`; `Knowledge` says that a
thread inside the lock knows the cache and that what it queues under is in the
table. Theorems: `SinkTypeCorrect`, `CacheKept`, `RowsMatch`, and
`SinkRefinement`, that every behaviour implements `ResultSink`: `SetPolicy`
maps to `OpenFor`, `Send` to `Deliver`, `Close` and `Restart` to `Leave`, and
the rest to stutters. `OneImagePerDatabase` then says what this is good for, in
terms of ADX: no database ever holds rows of two images. Its invariant `Alone`
is kept by the abstract steps alone.

**`CsvNormalizerProofs`.** `Observed` says of the first pass that the
candidates left for a column accept every value read so far, `Settled` of the
second that the types accept every value of the file; `Position` that the
header lies before the rows and that there is a name per column. Theorems, for
files of any length and width and any chunk size: `NormalizerTypeCorrect` and
`CellsFit`. On top of these, one invariant for each of four more:

- `Exactly`: the candidates are the types that accept every value read so far,
  no fewer. `TypesCorrect`: the type preferred among them is the exact one, in
  whatever order the values come.
- `Bounded`: the size kept is the length of the last chunk.
  `ChunksStayBounded`: a chunk exceeds its bound by less than its last row.
- `Copying`: the chunks, one after the other, are the rows of the lines taken so
  far. `RowsKept`: no row is lost and no value shifted under another header.
- `NamesUnique` rests on no step but on what counting does to a list of
  headers: equal ones get different numbers (`SeenGrows`), different ones stay
  apart unless one is the other with a number behind it (`CountedApart`), counted
  without case and after the empty ones got their names. That exception is part
  of `ColumnsDistinct`, pair by pair; the theorem assumes nothing of the files.

**`SequenceFacts`** holds what these proofs need of sequences. `SetInduction` is
induction over the natural numbers with a set where the library has a
predicate, so that the provers can use it; it follows from `MinIsIn`, that a set
of numbers has a least one, which the library's theorem on well-founded
relations gives. From it come the recursion equations of `FlattenSeq` and of
folding `+` over a sequence.

**Model-checked only.** What stays with TLC is liveness, which is out of the
prover's reach: `Terminates`, `EveryUploadSettled`, `EveryImageLeaves`,
`EveryTaskEnds`, `EveryIngestEnds`. Every safety and action property of the
passing runs, and both refinements, is checked and proved.

## 6. Not modelled

- Wording, logging and file formats: CSV quoting, gzip, the line format of
  clamscan, the columns of the hive list. What a step reads out of a file is a
  choice.
- The character filters of `Identifiers` (naming.py), which change no state;
  the numbering of names is modelled.
- `DumpName`: parsing of a file name with a fixed table of prefixes.
- Free-space counting: too little space is a step that raises. The filter on
  file extensions: every blob is an image.
- `PluginCatalog` (a constant table), `Settings` (environment variables read
  once), argument parsing and the one-image command of `__main__.py`.
- `LocalSink`, which keeps no state.
- A VM that is deallocated: it loses the work directory. A crash keeps it.
- The OpenTofu files, the setup script, the fake Volatility and the tests.

## 7. What is left

- A bound on the steps left, as `StepsLeft` of `VolatilityTask`, for
  `TaskScheduler` and `DumpPipeline`, whose loops it would show to end but for
  fairness.
- The numbering of hives down to the digits of their names, to derive
  `OwnTables` from what a hive list may contain.
- `DumpPipeline` over `AdxSink` in place of its own `Open` and `Send`: today
  they share the contract (one database per image, rows to the database that is
  open), not the state.
- Free space as a counter that the leftovers of broken archives use up.
