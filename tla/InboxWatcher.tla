---------------------------- MODULE InboxWatcher ----------------------------
(***************************************************************************)
(* volautolity/watcher.py and the BlobInbox and ResultsUploader of         *)
(* storage.py: the service loop that lists the upload container, claims an *)
(* image by its metadata, downloads, analyses, records the verdict and     *)
(* publishes the results, while uploaders write blobs, storage calls fail, *)
(* and the service is stopped, crashes and starts again.                   *)
(* A blob's content is a version number: 0 is "no such blob yet".  Local   *)
(* files are in LocalDisk, which extends this module.                      *)
(***************************************************************************)
EXTENDS Integers, FiniteSets, Sequences, SequencesExt

CONSTANTS
  Blob,           \* the names of images in the upload container
  MaxVersion,     \* bound on the uploads of one name
  Overwritable,   \* statuses in which an uploader uploads a name again
  HasUploader,    \* a results container is configured
  MaxFaults,      \* bound on failing metadata calls
  MaxStarts,      \* bound on the starts of the service
  None            \* no value

FinalStatus == {"done", "failed"}
BlobStatus == FinalStatus \cup {"none", "processing"}

ASSUME InboxAssumption ==
  /\ IsFiniteSet(Blob)
  /\ MaxVersion \in Nat \ {0}
  /\ Overwritable \subseteq BlobStatus
  /\ HasUploader \in BOOLEAN
  /\ MaxFaults \in Nat
  /\ MaxStarts \in Nat \ {0}

VARIABLES
  (* the storage account *)
  content,    \* version stored under each name
  meta,       \* its metadata: status, claimed hash, recorded hash
  order,      \* <<b, c>>: both exist, b was modified before c
  (* the service process *)
  pc, stop, firstPoll,
  items,      \* what is left of the listing
  item,       \* the item being handled, as it was listed
  snapshot,   \* metadata read by a mark() in progress
  local,      \* version on the local disk
  report,     \* the pipeline's report
  (* history and bounds *)
  attempts,   \* analyses this start has begun of the current content
  analysed,   \* versions analysed with no task skipped by a stop
  published,  \* versions whose results are in the results container
  faults, starts

blobVars == <<content, meta, order>>
procVars == <<pc, stop, firstPoll, items, item, snapshot, local, report>>
histVars == <<attempts, analysed, published, faults, starts>>
vars == <<blobVars, procVars, histVars>>

\* A hash is the version it is the hash of.
NoHash == 0
OtherHash == -1        \* the hash of something else
Hash == {NoHash, OtherHash} \cup 1..MaxVersion

Meta == [status : BlobStatus, claim : Hash, sha : Hash]
NoMeta == [status |-> "none", claim |-> NoHash, sha |-> NoHash]
Item == [name : Blob, claim : Hash]

\* Nothing but the position in the code changes.
Goto(label) ==
  /\ pc' = label
  /\ UNCHANGED <<blobVars, histVars, stop, firstPoll, items, item, snapshot, local, report>>

\* b is modified now, after every other.
Touched(b) ==
  {pair \in order : b \notin {pair[1], pair[2]}} \cup {<<c, b>> : c \in {c \in Blob \ {b} : content[c] > 0}}

Init ==
  /\ content = [b \in Blob |-> 0]
  /\ meta = [b \in Blob |-> NoMeta]
  /\ order = {}
  /\ pc = "poll" /\ stop = FALSE /\ firstPoll = TRUE
  /\ items = <<>> /\ item = None /\ snapshot = None /\ local = 0 /\ report = None
  /\ attempts = [b \in Blob |-> 0]
  /\ analysed = [b \in Blob |-> {}]
  /\ published = [b \in Blob |-> {}]
  /\ faults = 0 /\ starts = 1

-----------------------------------------------------------------------------
(* Uploaders: a committed upload replaces content and metadata. *)

Upload(b) ==
  /\ content[b] < MaxVersion
  /\ content[b] > 0 => meta[b].status \in Overwritable
  /\ content' = [content EXCEPT ![b] = @ + 1]
  /\ \E claim \in {NoHash, OtherHash, content'[b]} :
       meta' = [meta EXCEPT ![b] = [NoMeta EXCEPT !.claim = claim]]
  /\ order' = Touched(b)
  /\ attempts' = [attempts EXCEPT ![b] = 0]
  /\ UNCHANGED <<procVars, analysed, published, faults, starts>>

-----------------------------------------------------------------------------
(* run: the polling loop. *)

(* Definitions named <definition>_<bug> are the mutated forms the properties  *)
(* are tested against; no behaviour of the specification uses them.          *)

Wanted_Unmarked(b) == content[b] > 0 /\ meta[b].status = "none"
Wanted_RetriesFailed(b) ==
  /\ content[b] > 0
  /\ meta[b].status \in {"none", "failed"} \/ (firstPoll /\ meta[b].status = "processing")

\* pending(): unmarked names, and on the first poll the interrupted ones, ...
Wanted(b) ==
  /\ content[b] > 0
  /\ meta[b].status = "none" \/ (firstPoll /\ meta[b].status = "processing")

\* The interrupted ones behind the others.
Pending_InterruptedLast ==
  {[i \in DOMAIN names |-> [name |-> names[i], claim |-> meta[names[i]].claim]] :
     names \in {s \in SetToSeqs({b \in Blob : Wanted(b)}) :
                 \A i, j \in DOMAIN s : i < j =>
                   IF meta[s[i]].status = meta[s[j]].status
                   THEN <<s[i], s[j]>> \in order
                   ELSE meta[s[i]].status = "none"}}

\* ... the oldest first.
Pending ==
  {[i \in DOMAIN names |-> [name |-> names[i], claim |-> meta[names[i]].claim]] :
     names \in {s \in SetToSeqs({b \in Blob : Wanted(b)}) :
                 \A i, j \in DOMAIN s : i < j => <<s[i], s[j]>> \in order}}

\* first_poll is never reset.
Poll_AlwaysFirst ==
  /\ pc = "poll"
  /\ ~stop
  /\ items' \in Pending
  /\ pc' = "next"
  /\ UNCHANGED <<blobVars, histVars, stop, firstPoll, item, snapshot, local, report>>

Poll ==
  /\ pc = "poll"
  /\ ~stop
  /\ items' \in Pending
  /\ firstPoll' = FALSE
  /\ pc' = "next"
  /\ UNCHANGED <<blobVars, histVars, stop, item, snapshot, local, report>>

\* The listing raises (the role assignment may still be propagating): no
\* items, and the next poll is still a first one.
PollFails ==
  /\ pc = "poll"
  /\ ~stop
  /\ Goto("sleep")

TakeItem ==
  /\ pc = "next"
  /\ ~stop
  /\ items # <<>>
  /\ item' = Head(items)
  /\ items' = Tail(items)
  /\ pc' = "claim"
  /\ UNCHANGED <<blobVars, histVars, stop, firstPoll, snapshot, local, report>>

EndRound ==
  /\ pc = "next"
  /\ stop \/ items = <<>>
  /\ items' = <<>>
  /\ pc' = "sleep"
  /\ UNCHANGED <<blobVars, histVars, stop, firstPoll, item, snapshot, local, report>>

WakeUp ==
  /\ pc = "sleep"
  /\ Goto("poll")

\* The process ends: nothing of its memory is left.
ProcessGone ==
  /\ pc' = "down"
  /\ stop' = FALSE /\ firstPoll' = TRUE
  /\ items' = <<>> /\ item' = None /\ snapshot' = None /\ local' = 0 /\ report' = None
  /\ attempts' = [b \in Blob |-> 0]
  /\ UNCHANGED <<blobVars, analysed, published, faults, starts>>

Exit ==
  /\ pc = "poll"
  /\ stop
  /\ ProcessGone

-----------------------------------------------------------------------------
(* mark(): read the metadata, then write it back with the new status; the  *)
(* three call sites of _handle are the positions "claim", "verdict" and    *)
(* "giveUp" (the except clause).                                           *)

Marking == pc \in {"claim", "verdict", "giveUp"}

\* The verdict on a report, given the hash the listing promised.
Mismatch == item.claim # NoHash /\ item.claim # report.sha
Verdict_OwnStatus ==
  IF Mismatch THEN "mismatch" ELSE IF report.succeeded THEN "done" ELSE "failed"
Verdict_Unverified == IF report.succeeded THEN "done" ELSE "failed"

Verdict == IF report.succeeded /\ ~Mismatch THEN "done" ELSE "failed"

Marked ==
  CASE pc = "claim"   -> [snapshot EXCEPT !.status = "processing"]
    [] pc = "verdict" -> [snapshot EXCEPT !.status = Verdict, !.sha = report.sha]
    [] pc = "giveUp"  -> [snapshot EXCEPT !.status = "failed"]

AfterMark ==
  CASE pc = "claim"   -> "fetch"
    [] pc = "verdict" -> IF HasUploader THEN "publish" ELSE "cleanup"
    [] pc = "giveUp"  -> "cleanup"

\* A failed mark is caught by the except clause, or inside it only logged.
AfterFailedMark == IF pc = "giveUp" THEN "cleanup" ELSE "giveUp"

MarkRead ==
  /\ Marking
  /\ snapshot = None
  /\ snapshot' = meta[item.name]
  /\ UNCHANGED <<blobVars, histVars, pc, stop, firstPoll, items, item, local, report>>

WriteMark ==
  /\ Marking
  /\ snapshot # None
  /\ meta' = [meta EXCEPT ![item.name] = Marked]
  /\ order' = Touched(item.name)
  /\ snapshot' = None

MarkWrite ==
  /\ WriteMark
  /\ pc' = AfterMark
  /\ UNCHANGED <<content, histVars, stop, firstPoll, items, item, local, report>>

\* The service sees an error although the metadata was written.
MarkAnswerLost ==
  /\ faults < MaxFaults
  /\ WriteMark
  /\ pc' = AfterFailedMark
  /\ faults' = faults + 1
  /\ UNCHANGED <<content, attempts, analysed, published, starts,
                 stop, firstPoll, items, item, local, report>>

MarkFails ==
  /\ faults < MaxFaults
  /\ Marking
  /\ snapshot' = None
  /\ pc' = AfterFailedMark
  /\ faults' = faults + 1
  /\ UNCHANGED <<blobVars, attempts, analysed, published, starts,
                 stop, firstPoll, items, item, local, report>>

-----------------------------------------------------------------------------
(* _handle between the marks. *)

\* _ensure_space and download take the content of the moment ...
Download ==
  /\ pc = "fetch"
  /\ local' = content[item.name]
  /\ pc' = "unpack"
  /\ UNCHANGED <<blobVars, histVars, stop, firstPoll, items, item, snapshot, report>>

\* ... and a compressed image is unpacked.
Unpack ==
  /\ pc = "unpack"
  /\ Goto("process")

\* pipeline.process begins ...
BeginAnalysis ==
  /\ pc = "process"
  /\ attempts' = [attempts EXCEPT ![item.name] = @ + 1]
  /\ pc' = "analysing"
  /\ UNCHANGED <<blobVars, analysed, published, faults, starts,
                 stop, firstPoll, items, item, snapshot, local, report>>

\* ... and reports: an OS may not be found, the hash may be unreadable, and
\* tasks may have been skipped if a stop was requested by now.
EndAnalysis ==
  /\ pc = "analysing"
  /\ \E succeeded \in BOOLEAN, sha \in {NoHash, local}, cut \in {FALSE, stop} :
       /\ report' = [succeeded |-> succeeded, sha |-> sha]
       /\ analysed' = IF cut THEN analysed
                      ELSE [analysed EXCEPT ![item.name] = @ \cup {local}]
  /\ pc' = "judge"
  /\ UNCHANGED <<blobVars, attempts, published, faults, starts,
                 stop, firstPoll, items, item, snapshot, local>>

\* No space, a failed download, a broken archive, an exception in the
\* pipeline, a failed upload of results: all reach the except clause.
StepRaises ==
  /\ pc \in {"fetch", "unpack", "analysing", "publish"}
  /\ Goto("giveUp")

\* Interrupted: leave it "processing" for the first poll after a restart.
LeaveInterrupted ==
  /\ pc = "judge"
  /\ stop
  /\ Goto("cleanup")

\* The stop is not looked at after the analysis.
Judge_AfterStop ==
  /\ pc = "judge"
  /\ Goto("verdict")

Judge ==
  /\ pc = "judge"
  /\ ~stop
  /\ Goto("verdict")

\* upload_tree of this report's output.
Publish ==
  /\ pc = "publish"
  /\ published' = [published EXCEPT ![item.name] = @ \cup {local}]
  /\ pc' = "cleanup"
  /\ UNCHANGED <<blobVars, attempts, analysed, faults, starts,
                 stop, firstPoll, items, item, snapshot, local, report>>

\* The finally clause; the handler's local variables are gone.
Cleanup ==
  /\ pc = "cleanup"
  /\ item' = None /\ local' = 0 /\ report' = None
  /\ pc' = "next"
  /\ UNCHANGED <<blobVars, histVars, stop, firstPoll, items, snapshot>>

-----------------------------------------------------------------------------
(* Signals, crashes and starts. *)

RequestStop ==
  /\ pc # "down"
  /\ ~stop
  /\ starts < MaxStarts
  /\ stop' = TRUE
  /\ UNCHANGED <<blobVars, histVars, pc, firstPoll, items, item, snapshot, local, report>>

\* SIGKILL at the end of the stop timeout, out of memory, power, ...
Crash ==
  /\ pc # "down"
  /\ starts < MaxStarts
  /\ ProcessGone

Start ==
  /\ pc = "down"
  /\ pc' = "poll"
  /\ starts' = starts + 1
  /\ UNCHANGED <<blobVars, stop, firstPoll, items, item, snapshot, local, report,
                 attempts, analysed, published, faults>>

Step ==
  \/ Poll \/ PollFails \/ TakeItem \/ EndRound \/ WakeUp \/ Exit
  \/ MarkRead \/ MarkWrite \/ MarkAnswerLost \/ MarkFails
  \/ Download \/ Unpack \/ BeginAnalysis \/ EndAnalysis \/ StepRaises
  \/ LeaveInterrupted \/ Judge \/ Publish \/ Cleanup

Next ==
  \/ Step
  \/ \E b \in Blob : Upload(b)
  \/ RequestStop
  \/ Crash
  \/ Start

Spec == Init /\ [][Next]_vars

\* The process keeps running, every call returns or raises, a listing that is
\* retried for ever succeeds some time, and a service that is down is started
\* again: by systemd, or with the VM.
FairSpec == Spec /\ WF_vars(Step) /\ SF_vars(Poll) /\ WF_vars(Start)

-----------------------------------------------------------------------------
TypeOK ==
  /\ content \in [Blob -> 0..MaxVersion]
  /\ meta \in [Blob -> Meta]
  /\ order \subseteq Blob \X Blob
  /\ pc \in {"poll", "next", "sleep", "claim", "fetch", "unpack", "process", "analysing",
             "judge", "verdict", "giveUp", "publish", "cleanup", "down"}
  /\ stop \in BOOLEAN /\ firstPoll \in BOOLEAN
  /\ items \in Seq(Item)
  /\ item \in Item \cup {None}
  /\ snapshot \in Meta \cup {None}
  /\ local \in 0..MaxVersion
  /\ report \in [succeeded : BOOLEAN, sha : Hash] \cup {None}
  /\ attempts \in [Blob -> Nat]
  /\ analysed \in [Blob -> SUBSET (1..MaxVersion)]
  /\ published \in [Blob -> SUBSET (1..MaxVersion)]
  /\ faults \in 0..MaxFaults
  /\ starts \in 1..MaxStarts

\* A blob says "done" only if the content it holds now was analysed to the
\* end: no stop, crash, lost answer or restart makes a half-analysed image
\* look finished.
DoneMeansAnalysed == \A b \in Blob : meta[b].status = "done" => content[b] \in analysed[b]

\* Chain of custody: a "done" blob whose uploader supplied a hash holds the
\* image that was hashed.
DoneMeansVerified ==
  \A b \in Blob : meta[b].status = "done" /\ meta[b].claim # NoHash =>
                    meta[b].claim = content[b]

\* One start of the service analyses an image at most once, even when the
\* status could not be recorded: only a restart earns it another attempt.
OneAttemptPerStart == \A b \in Blob : attempts[b] <= 1

\* An image that has yet to be handled: nobody marked it since its upload, as
\* long as fewer than two metadata calls failed, or its handling was interrupted
\* and no metadata call failed.
Waiting(b) ==
  /\ content[b] > 0
  /\ \/ meta[b].status = "none" /\ faults < 2
     \/ meta[b].status = "processing" /\ faults = 0

\* Oldest first, by last modification: no image is taken up while one modified
\* before it waits, hours after the listing too, and no interrupted image is
\* left out or listed behind later uploads.  The last modification of an
\* untouched image is its upload; that of an interrupted one is its mark, so
\* images uploaded before that mark do overtake it.
OldestFirst == pc = "claim" => \A b \in Blob : Waiting(b) => <<b, item.name>> \notin order

\* An image given a final status is not picked up again unless it is uploaded
\* again; at most a failed upload of its results turns "done" into "failed".
FinalStays ==
  [][\A b \in Blob : meta[b].status \in FinalStatus /\ content'[b] = content[b] =>
        \/ meta'[b].status = meta[b].status
        \/ meta'[b].status = "failed"]_vars

\* "processing, then done or failed": every image uploaded is given a final
\* status, across failed listings, stops, crashes and restarts, whatever its
\* analysis does.
EveryUploadSettled ==
  \A b \in Blob : content[b] > 0 ~> meta[b].status \in FinalStatus

\* The results of an image that is "done" are in the results container once
\* the service has turned to something else.
DoneMeansPublished ==
  \A b \in Blob :
    pc \in {"next", "sleep"} /\ meta[b].status = "done" => content[b] \in published[b]
=============================================================================
