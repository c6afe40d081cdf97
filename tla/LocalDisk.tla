----------------------------- MODULE LocalDisk -----------------------------
(***************************************************************************)
(* The local files of InboxWatcher._handle (watcher.py, unpack.py,         *)
(* storage.py): the image downloaded under its base name, unpacked next to *)
(* the archive, deleted by the finally clause; the results kept in the     *)
(* output directory until they are uploaded.  Two blobs may come to lie    *)
(* under one name, and downloads and archives break off half-way.          *)
(***************************************************************************)
EXTENDS InboxWatcher

CONSTANTS
  Wrapped,       \* the blobs that are .gz or .zip
  DownloadPath,  \* base name of a blob
  ImagePath      \* inner name: where its image lies in the end

Path == {DownloadPath[b] : b \in Blob} \cup {ImagePath[b] : b \in Blob}

\* An archive's inner name is never its own.
ASSUME PathAssumption ==
  /\ Wrapped \subseteq Blob
  /\ None \notin Path \cup Item \cup [name : Blob, version : 1..MaxVersion, whole : BOOLEAN]
  /\ DOMAIN DownloadPath = Blob /\ DOMAIN ImagePath = Blob
  /\ \A b \in Blob : b \in Wrapped <=> ImagePath[b] # DownloadPath[b]

VARIABLES
  disk,     \* the file under each path: [name, version, whole], or None
  held,     \* the path the finally clause deletes
  outputs,  \* <<name, version>> of the results in output directories
  stray     \* history: paths left occupied by a crash or a broken archive

diskVars == <<disk, held, outputs, stray>>
allVars == <<vars, diskVars>>

DiskInit ==
  /\ disk = [p \in Path |-> None]
  /\ held = None
  /\ outputs = {}
  /\ stray = {}

File(whole) == [name |-> item.name, version |-> content[item.name], whole |-> whole]

(* Definitions named <definition>_<bug> are the mutated forms the properties  *)
(* are tested against; no behaviour of the specification uses them.          *)

Written_Resumes(path, file) ==
  [disk EXCEPT ![path] = IF @ = None THEN file ELSE @]

\* A file is opened with "wb": what was there before is gone.
Written(path, file) == [disk EXCEPT ![path] = file]

-----------------------------------------------------------------------------
\* The name of the local file is fixed before anything else.
Taken ==
  /\ TakeItem
  /\ held' = DownloadPath[item'.name]
  /\ UNCHANGED <<disk, outputs, stray>>

Downloaded ==
  /\ Download
  /\ disk' = Written(held, File(TRUE))
  /\ UNCHANGED <<held, outputs, stray>>

\* No space, or a connection that breaks.
DownloadRaises ==
  /\ pc = "fetch"
  /\ StepRaises
  /\ disk' \in {disk, Written(held, File(FALSE))}
  /\ UNCHANGED <<held, outputs, stray>>

Unpacked_KeepsArchive ==
  /\ Unpack
  /\ IF item.name \in Wrapped
     THEN disk' = Written(ImagePath[item.name], disk[held])
     ELSE UNCHANGED disk
  /\ held' = ImagePath[item.name]
  /\ UNCHANGED <<outputs, stray>>

\* The archive is deleted once the image is whole.
Unpacked ==
  /\ Unpack
  /\ IF item.name \in Wrapped
     THEN /\ disk' = [Written(ImagePath[item.name], disk[held]) EXCEPT ![held] = None]
          /\ stray' = stray \ {held}
     ELSE UNCHANGED <<disk, stray>>
  /\ held' = ImagePath[item.name]
  /\ UNCHANGED outputs

\* A broken or empty archive; "local" still names the archive.
UnpackRaises ==
  /\ pc = "unpack"
  /\ item.name \in Wrapped
  /\ StepRaises
  /\ \/ UNCHANGED <<disk, stray>>
     \/ /\ disk' = Written(ImagePath[item.name], [disk[held] EXCEPT !.whole = FALSE])
        /\ stray' = stray \cup {ImagePath[item.name]}
  /\ UNCHANGED <<held, outputs>>

Analysed ==
  /\ EndAnalysis
  /\ outputs' = outputs \cup {<<item.name, local>>}
  /\ UNCHANGED <<disk, held, stray>>

\* The output directory is removed after the last file was uploaded.
Published ==
  /\ Publish
  /\ outputs' = outputs \ {<<item.name, local>>}
  /\ UNCHANGED <<disk, held, stray>>

PublishRaises_RemovesOutput ==
  /\ pc \in {"analysing", "publish"}
  /\ StepRaises
  /\ outputs' = outputs \ {<<item.name, local>>}
  /\ UNCHANGED <<disk, held, stray>>

PublishRaises ==
  /\ pc \in {"analysing", "publish"}
  /\ StepRaises
  /\ UNCHANGED diskVars

Cleaned_KeepsHeld ==
  /\ Cleanup
  /\ disk' = [disk EXCEPT ![held] = None]
  /\ stray' = stray \ {held}
  /\ UNCHANGED <<held, outputs>>

\* The finally clause, unless keep_dumps is set, which it is not by default.
Cleaned ==
  /\ Cleanup
  /\ disk' = [disk EXCEPT ![held] = None]
  /\ stray' = stray \ {held}
  /\ held' = None
  /\ UNCHANGED outputs

\* The process dies with the files as they are, one of them half written.
Crashed ==
  /\ Crash
  /\ \/ UNCHANGED disk
     \/ pc = "fetch" /\ disk' = Written(held, File(FALSE))
     \/ /\ pc = "unpack" /\ item.name \in Wrapped
        /\ disk' = Written(ImagePath[item.name], [disk[held] EXCEPT !.whole = FALSE])
  /\ stray' = {p \in Path : disk'[p] # None}
  /\ held' = None
  /\ UNCHANGED outputs

ElsewhereStep ==
  /\ \/ Poll \/ PollFails \/ EndRound \/ WakeUp \/ Exit
     \/ MarkRead \/ MarkWrite \/ MarkAnswerLost \/ MarkFails
     \/ BeginAnalysis \/ LeaveInterrupted \/ Judge
  /\ UNCHANGED diskVars

DiskStep ==
  \/ Taken \/ Downloaded \/ DownloadRaises \/ Unpacked \/ UnpackRaises
  \/ Analysed \/ Published \/ PublishRaises \/ Cleaned
  \/ ElsewhereStep

Outside ==
  /\ (\E b \in Blob : Upload(b)) \/ RequestStop \/ Start
  /\ UNCHANGED diskVars

DiskNext == DiskStep \/ Outside \/ Crashed

DiskSpec == Init /\ DiskInit /\ [][DiskNext]_allVars

\* The fairness of InboxWatcher.FairSpec.
FairDiskSpec ==
  DiskSpec /\ WF_allVars(DiskStep) /\ SF_allVars(Poll /\ UNCHANGED diskVars)
           /\ WF_allVars(Start /\ UNCHANGED diskVars)

-----------------------------------------------------------------------------
DiskTypeOK ==
  /\ disk \in [Path -> [name : Blob, version : 1..MaxVersion, whole : BOOLEAN] \cup {None}]
  /\ held \in Path \cup {None}
  /\ held = None <=> item = None
  /\ outputs \subseteq Blob \X (1..MaxVersion)
  /\ stray \subseteq Path

\* Volatility runs over the whole image that was listed, never over what a
\* broken download, a broken archive, a crash or another blob of the same
\* local name left under the path.
AnalysesTheWholeImage ==
  pc \in {"process", "analysing"} =>
    disk[held] = [name |-> item.name, version |-> local, whole |-> TRUE]

\* Between two images the disk holds no image but what a crash left, or the
\* half of one that came out of a broken archive.
NoImageLeftBehind == item = None => {p \in Path : disk[p] # None} = stray

\* "The VM is disposable": the results of an image marked "done" are in the
\* results container or still on the disk, after a failed upload or a crash too.
ResultsKept ==
  \A b \in Blob : meta[b].status = "done" =>
    content[b] \in published[b] \/ <<b, content[b]>> \in outputs
=============================================================================
