-------------------------- MODULE LocalDiskProofs --------------------------
(***************************************************************************)
(* Theorems about LocalDisk, on top of those about InboxWatcher: for any   *)
(* names, any way they share local paths, any archives that break and any  *)
(* number of failures and restarts.                                        *)
(***************************************************************************)
EXTENDS LocalDisk, InboxWatcherProofs

(* The inductive invariant of the disk, in named parts. *)

\* A file, whole or not, with a version of an image.
ImageFile == [name : Blob, version : 1..MaxVersion, whole : BOOLEAN]

\* The image in process, as it should lie on the disk.
Image == [name |-> item.name, version |-> local, whole |-> TRUE]

\* What lies under the path of the item in process.
Places ==
  /\ item # None <=> Handling
  /\ pc \in {"claim", "fetch", "unpack"} => held = DownloadPath[item.name]
  /\ pc \in {"process", "analysing"} => held = ImagePath[item.name]
  /\ pc \in {"unpack", "process", "analysing"} => disk[held] = Image

\* Elsewhere lies what a crash or a broken archive left, and nothing else.
Leftovers ==
  \A p \in Path : /\ p \in stray => disk[p] # None
                  /\ p # held /\ disk[p] # None => p \in stray

\* The results of the image in process, from the report to their upload.
Outputs ==
  /\ pc \in {"judge", "verdict", "publish"} => <<item.name, local>> \in outputs
  /\ ResultsKept

DiskInv == DiskTypeOK /\ Places /\ Leftovers /\ Outputs

-----------------------------------------------------------------------------

\* Paths, files, and what no value is.
LEMMA Paths ==
  /\ None \notin Path /\ None \notin Item
  /\ None \notin ImageFile
  /\ \A b \in Blob : DownloadPath[b] \in Path /\ ImagePath[b] \in Path
  /\ \A b \in Blob : b \in Wrapped <=> ImagePath[b] # DownloadPath[b]
  BY PathAssumption DEF PathAssumption, Path, ImageFile

\* A step of the disk's model is one of the watcher's.
LEMMA DiskRefinesWatcher == [DiskNext]_allVars => [Next]_vars
  BY DEF DiskNext, DiskStep, ElsewhereStep, Outside, Crashed, Taken, Downloaded, DownloadRaises,
         Unpacked, UnpackRaises, Analysed, Published, PublishRaises, Cleaned, Next, Step, allVars

\* The watcher with its files is a watcher: what is proved of InboxWatcher
\* holds whatever is on the disk.
THEOREM DiskImplementsWatcher == DiskSpec => Spec
  BY DiskRefinesWatcher, PTL DEF DiskSpec, Spec

\* So the watcher's invariant holds here too.
LEMMA WatcherInvAlways == ASSUME PatientUploaders PROVE DiskSpec => []Inv
  BY DiskImplementsWatcher, InvAlways, PTL

\* The item in process, and the content it was listed with.
LEMMA Handled ==
  ASSUME Inv, Handling
  PROVE  /\ item \in Item /\ item.name \in Blob /\ item # None
         /\ content[item.name] \in 1..MaxVersion
         /\ Fetched => local = content[item.name]
<1>1. item \in Item /\ content[item.name] > 0
  BY DEF Inv, Current
<1>2. item.name \in Blob
  BY <1>1 DEF Item
<1>3. QED
  BY <1>1, <1>2, Paths DEF Inv, TypeOK, Analysis

\* The archive about to be unpacked is whole; what a broken one leaves is a file.
LEMMA HalfImage ==
  ASSUME Inv, Places, pc = "unpack"
  PROVE  /\ disk[held] # None
         /\ [disk[held] EXCEPT !.whole = FALSE] \in ImageFile
<1>1. disk[held] = [name |-> item.name, version |-> local, whole |-> TRUE]
  BY DEF Places, Image
<1>2. item.name \in Blob /\ local \in 1..MaxVersion
  BY Handled DEF Handling, Fetched
<1>3. disk[held] \in ImageFile
  BY <1>1, <1>2 DEF ImageFile
<1>4. [disk[held] EXCEPT !.whole = FALSE] \in ImageFile
  BY <1>3 DEF ImageFile
<1>5. QED
  BY <1>3, <1>4, Paths

\* The disk is empty at first.
LEMMA DiskInvInit == Init /\ DiskInit => DiskInv
  BY Paths DEF Init, DiskInit, DiskInv, DiskTypeOK, Places, Handling, Leftovers, Outputs,
               ResultsKept, NoMeta, ImageFile

\* Every step keeps the invariant of the disk.
LEMMA DiskInvNext == Inv /\ DiskInv /\ [DiskNext]_allVars => DiskInv'
<1> SUFFICES ASSUME Inv, DiskInv, [DiskNext]_allVars PROVE DiskInv'
  OBVIOUS
<1> USE Paths DEF DiskInv, ImageFile
<1>1. CASE Taken
  <2> USE <1>1, Handled DEF Taken, TakeItem, blobVars, histVars
  <2> USE DEF Handling, Fetched
  <2>1. DiskTypeOK'
    <3>1. Head(items) \in Item
      BY DEF Inv, TypeOK
    <3>2. item' \in Item /\ item' # None /\ item'.name \in Blob
      BY <3>1 DEF Item
    <3>3. QED
      BY <3>2 DEF DiskTypeOK, Places
  <2>2. Places'
    <3>1. Head(items) \in Item
      BY DEF Inv, TypeOK
    <3>2. item' \in Item /\ item' # None /\ item'.name \in Blob
      BY <3>1 DEF Item
    <3>3. QED
      BY <3>2 DEF DiskTypeOK, Places
  <2>3. Leftovers'
    BY DEF DiskTypeOK, Leftovers, Places, Image
  <2>4. Outputs'
    BY DEF Outputs, ResultsKept, Inv, TypeOK, Marking
  <2>5. QED
    BY <2>1, <2>2, <2>3, <2>4
<1>2. CASE Downloaded
  <2> USE <1>2, Handled DEF Downloaded, Download, File, Written, blobVars, histVars
  <2> USE DEF Handling, Fetched
  <2>1. DiskTypeOK'
    BY DEF DiskTypeOK, Places, Inv, TypeOK
  <2>2. Places'
    BY DEF Places, Image, DiskTypeOK, Handling, Marking
  <2>3. Leftovers'
    <3>1. [name |-> item.name, version |-> content[item.name], whole |-> TRUE] \in ImageFile
      OBVIOUS
    <3>2. held \in Path /\ \A p \in Path : p # held => disk'[p] = disk[p]
      BY DEF DiskTypeOK
    <3>3. disk'[held] # None
      BY <3>1, <3>2 DEF DiskTypeOK
    <3>4. QED
      BY <3>2, <3>3 DEF Leftovers
  <2>4. Outputs'
    BY DEF Outputs, ResultsKept, Inv, TypeOK, Marking
  <2>5. QED
    BY <2>1, <2>2, <2>3, <2>4
<1>3. CASE DownloadRaises
  <2> USE <1>3, Handled DEF DownloadRaises, StepRaises, Goto, File, Written, blobVars, histVars
  <2> USE DEF Handling, Fetched
  <2>1. DiskTypeOK'
    <3>1. [name |-> item.name, version |-> content[item.name], whole |-> FALSE] \in ImageFile
      OBVIOUS
    <3>2. disk' \in [Path -> ImageFile \cup {None}]
      BY <3>1 DEF DiskTypeOK
    <3>3. QED
      BY <3>2 DEF DiskTypeOK
  <2>2. Places'
    BY DEF Places, Image, DiskTypeOK, Handling, Marking
  <2>3. Leftovers'
    <3>1. [name |-> item.name, version |-> content[item.name], whole |-> FALSE] \in ImageFile
      OBVIOUS
    <3>2. held \in Path /\ \A p \in Path : p # held => disk'[p] = disk[p]
      BY DEF DiskTypeOK
    <3>3. disk[held] # None => disk'[held] # None
      BY <3>1, <3>2 DEF DiskTypeOK
    <3>4. QED
      BY <3>2, <3>3 DEF Leftovers
  <2>4. Outputs'
    BY DEF Outputs, ResultsKept, Inv, TypeOK, Marking
  <2>5. QED
    BY <2>1, <2>2, <2>3, <2>4
<1>4. CASE Unpacked
  <2> USE <1>4, Handled DEF Unpacked, Unpack, Goto, Written, blobVars, histVars
  <2> USE DEF Handling, Fetched
  <2>1. DiskTypeOK'
    BY DEF DiskTypeOK, Places, Inv, TypeOK
  <2>2. Places'
    BY DEF Places, Image, DiskTypeOK, Handling, Marking
  <2>3. Leftovers'
    <3>1. held = DownloadPath[item.name] /\ held \in Path /\ ImagePath[item.name] \in Path
      BY DEF Places
    <3>2. disk[held] # None
      BY HalfImage
    <3>3. CASE item.name \in Wrapped
      <4>1. disk'[held] = None /\ disk'[held'] = disk[held] /\ stray' = stray \ {held}
        BY <3>1, <3>3 DEF DiskTypeOK
      <4>2. \A p \in Path \ {held, held'} : disk'[p] = disk[p]
        BY <3>1, <3>3 DEF DiskTypeOK
      <4>3. QED
        BY <3>1, <3>2, <4>1, <4>2 DEF Leftovers
    <3>4. CASE item.name \notin Wrapped
      BY <3>1, <3>4 DEF Leftovers
    <3>5. QED
      BY <3>3, <3>4
  <2>4. Outputs'
    BY DEF Outputs, ResultsKept, Inv, TypeOK, Marking
  <2>5. QED
    BY <2>1, <2>2, <2>3, <2>4
<1>5. CASE UnpackRaises
  <2> USE <1>5, Handled DEF UnpackRaises, StepRaises, Goto, Written, blobVars, histVars
  <2> USE DEF Handling, Fetched
  <2>1. DiskTypeOK'
    <3>1. [disk[held] EXCEPT !.whole = FALSE] \in ImageFile
      BY HalfImage
    <3>2. disk' \in [Path -> ImageFile \cup {None}] /\ stray' \subseteq Path
      <4>1. CASE UNCHANGED <<disk, stray>>
        BY <4>1 DEF DiskTypeOK
      <4>2. CASE ~UNCHANGED <<disk, stray>>
        <5>1. disk' = [disk EXCEPT ![ImagePath[item.name]] = [disk[held] EXCEPT !.whole = FALSE]]
          BY <4>2
        <5>2. stray' = stray \cup {ImagePath[item.name]}
          BY <4>2
        <5>3. ImagePath[item.name] \in Path
          OBVIOUS
        <5>4. QED
          BY <3>1, <5>1, <5>2, <5>3 DEF DiskTypeOK
      <4>3. QED
        BY <4>1, <4>2
    <3>3. QED
      BY <3>2 DEF DiskTypeOK
  <2>2. Places'
    BY DEF Places, Image, DiskTypeOK, Handling, Marking
  <2>3. Leftovers'
    <3>1. [disk[held] EXCEPT !.whole = FALSE] # None
      BY HalfImage
    <3>2. CASE UNCHANGED <<disk, stray>>
      BY <3>2 DEF Leftovers
    <3>3. CASE ~UNCHANGED <<disk, stray>>
      <4>1. ImagePath[item.name] \in Path /\ stray' = stray \cup {ImagePath[item.name]}
        BY <3>3
      <4>2. disk'[ImagePath[item.name]] # None
        BY <3>1, <3>3, <4>1 DEF DiskTypeOK
      <4>3. \A p \in Path : p # ImagePath[item.name] => disk'[p] = disk[p]
        BY <3>3 DEF DiskTypeOK
      <4>4. QED
        BY <4>1, <4>2, <4>3 DEF Leftovers
    <3>4. QED
      BY <3>2, <3>3
  <2>4. Outputs'
    BY DEF Outputs, ResultsKept, Inv, TypeOK, Marking
  <2>5. QED
    BY <2>1, <2>2, <2>3, <2>4
<1>6. CASE Analysed
  <2> USE <1>6, Handled DEF Analysed, EndAnalysis, blobVars, histVars
  <2> USE DEF Handling, Fetched
  <2>1. DiskTypeOK'
    BY DEF DiskTypeOK, Places, Inv, TypeOK
  <2>2. Places'
    BY DEF Places, Image, DiskTypeOK, Handling, Marking
  <2>3. Leftovers'
    BY DEF DiskTypeOK, Leftovers, Places, Image
  <2>4. Outputs'
    BY DEF Outputs, ResultsKept, Inv, TypeOK, Marking
  <2>5. QED
    BY <2>1, <2>2, <2>3, <2>4
<1>7. CASE Published
  <2> USE <1>7, Handled DEF Published, Publish, blobVars, histVars
  <2> USE DEF Handling, Fetched
  <2>1. DiskTypeOK'
    BY DEF DiskTypeOK, Places, Inv, TypeOK
  <2>2. Places'
    BY DEF Places, Image, DiskTypeOK, Handling, Marking
  <2>3. Leftovers'
    BY DEF DiskTypeOK, Leftovers, Places, Image
  <2>4. Outputs'
    BY DEF Outputs, ResultsKept, Inv, TypeOK, Marking
  <2>5. QED
    BY <2>1, <2>2, <2>3, <2>4
<1>8. CASE PublishRaises
  <2> USE <1>8, Handled DEF PublishRaises, StepRaises, Goto, diskVars, blobVars, histVars
  <2> USE DEF Handling, Fetched
  <2>1. DiskTypeOK'
    BY DEF DiskTypeOK, Places, Inv, TypeOK
  <2>2. Places'
    BY DEF Places, Image, DiskTypeOK, Handling, Marking
  <2>3. Leftovers'
    BY DEF DiskTypeOK, Leftovers, Places, Image
  <2>4. Outputs'
    BY DEF Outputs, ResultsKept, Inv, TypeOK, Marking
  <2>5. QED
    BY <2>1, <2>2, <2>3, <2>4
<1>9. CASE Cleaned
  <2> USE <1>9, Handled DEF Cleaned, Cleanup, blobVars, histVars
  <2> USE DEF Handling, Fetched
  <2>1. DiskTypeOK'
    BY DEF DiskTypeOK, Places, Inv, TypeOK
  <2>2. Places'
    BY DEF Places, Image, DiskTypeOK, Handling, Marking
  <2>3. Leftovers'
    BY DEF DiskTypeOK, Leftovers, Places, Image
  <2>4. Outputs'
    BY DEF Outputs, ResultsKept, Inv, TypeOK, Marking
  <2>5. QED
    BY <2>1, <2>2, <2>3, <2>4
<1>10. CASE Crashed
  <2> USE <1>10, Handled DEF Crashed, Crash, ProcessGone, File, Written, blobVars, histVars
  <2> USE DEF Handling, Fetched
  <2>1. DiskTypeOK'
    <3>1. disk' \in [Path -> ImageFile \cup {None}]
      <4>1. CASE UNCHANGED disk
        BY <4>1 DEF DiskTypeOK
      <4>2. CASE /\ pc = "fetch"
                 /\ disk' = [disk EXCEPT ![held] =
                              [name |-> item.name, version |-> content[item.name], whole |-> FALSE]]
        BY <4>2 DEF DiskTypeOK
      <4>3. CASE /\ pc = "unpack"
                 /\ disk' = [disk EXCEPT ![ImagePath[item.name]] = [disk[held] EXCEPT !.whole = FALSE]]
        <5>1. [disk[held] EXCEPT !.whole = FALSE] \in ImageFile
          BY <4>3, HalfImage
        <5>2. QED
          BY <4>3, <5>1 DEF DiskTypeOK
      <4>4. QED
        BY <4>1, <4>2, <4>3
    <3>2. QED
      BY <3>1 DEF DiskTypeOK
  <2>2. Places'
    BY DEF Places, Image, DiskTypeOK, Handling, Marking
  <2>3. Leftovers'
    BY DEF DiskTypeOK, Leftovers, Places, Image
  <2>4. Outputs'
    BY DEF Outputs, ResultsKept, Inv, TypeOK, Marking
  <2>5. QED
    BY <2>1, <2>2, <2>3, <2>4
<1>11. CASE Poll /\ UNCHANGED diskVars
  <2> USE <1>11, Handled DEF Poll, diskVars, blobVars, procVars, histVars
  <2> USE DEF Handling, Fetched
  <2>1. DiskTypeOK'
    BY DEF DiskTypeOK, Places, Inv, TypeOK
  <2>2. Places'
    BY DEF Places, Image, DiskTypeOK, Handling, Marking
  <2>3. Leftovers'
    BY DEF DiskTypeOK, Leftovers, Places, Image
  <2>4. Outputs'
    BY DEF Outputs, ResultsKept, Inv, TypeOK, Marking
  <2>5. QED
    BY <2>1, <2>2, <2>3, <2>4
<1>12. CASE PollFails /\ UNCHANGED diskVars
  <2> USE <1>12, Handled DEF PollFails, Goto, diskVars, blobVars, procVars, histVars
  <2> USE DEF Handling, Fetched
  <2>1. DiskTypeOK'
    BY DEF DiskTypeOK, Places, Inv, TypeOK
  <2>2. Places'
    BY DEF Places, Image, DiskTypeOK, Handling, Marking
  <2>3. Leftovers'
    BY DEF DiskTypeOK, Leftovers, Places, Image
  <2>4. Outputs'
    BY DEF Outputs, ResultsKept, Inv, TypeOK, Marking
  <2>5. QED
    BY <2>1, <2>2, <2>3, <2>4
<1>13. CASE EndRound /\ UNCHANGED diskVars
  <2> USE <1>13, Handled DEF EndRound, diskVars, blobVars, procVars, histVars
  <2> USE DEF Handling, Fetched
  <2>1. DiskTypeOK'
    BY DEF DiskTypeOK, Places, Inv, TypeOK
  <2>2. Places'
    BY DEF Places, Image, DiskTypeOK, Handling, Marking
  <2>3. Leftovers'
    BY DEF DiskTypeOK, Leftovers, Places, Image
  <2>4. Outputs'
    BY DEF Outputs, ResultsKept, Inv, TypeOK, Marking
  <2>5. QED
    BY <2>1, <2>2, <2>3, <2>4
<1>14. CASE WakeUp /\ UNCHANGED diskVars
  <2> USE <1>14, Handled DEF WakeUp, Goto, diskVars, blobVars, procVars, histVars
  <2> USE DEF Handling, Fetched
  <2>1. DiskTypeOK'
    BY DEF DiskTypeOK, Places, Inv, TypeOK
  <2>2. Places'
    BY DEF Places, Image, DiskTypeOK, Handling, Marking
  <2>3. Leftovers'
    BY DEF DiskTypeOK, Leftovers, Places, Image
  <2>4. Outputs'
    BY DEF Outputs, ResultsKept, Inv, TypeOK, Marking
  <2>5. QED
    BY <2>1, <2>2, <2>3, <2>4
<1>15. CASE Exit /\ UNCHANGED diskVars
  <2> USE <1>15, Handled DEF Exit, ProcessGone, diskVars, blobVars, procVars, histVars
  <2> USE DEF Handling, Fetched
  <2>1. DiskTypeOK'
    BY DEF DiskTypeOK, Places, Inv, TypeOK
  <2>2. Places'
    BY DEF Places, Image, DiskTypeOK, Handling, Marking
  <2>3. Leftovers'
    BY DEF DiskTypeOK, Leftovers, Places, Image
  <2>4. Outputs'
    BY DEF Outputs, ResultsKept, Inv, TypeOK, Marking
  <2>5. QED
    BY <2>1, <2>2, <2>3, <2>4
<1>16. CASE MarkRead /\ UNCHANGED diskVars
  <2> USE <1>16, Handled DEF MarkRead, diskVars, blobVars, procVars, histVars
  <2> USE DEF Handling, Fetched
  <2>1. DiskTypeOK'
    BY DEF DiskTypeOK, Places, Inv, TypeOK
  <2>2. Places'
    BY DEF Places, Image, DiskTypeOK, Handling, Marking
  <2>3. Leftovers'
    BY DEF DiskTypeOK, Leftovers, Places, Image
  <2>4. Outputs'
    BY DEF Outputs, ResultsKept, Inv, TypeOK, Marking
  <2>5. QED
    BY <2>1, <2>2, <2>3, <2>4
<1>17. CASE MarkWrite /\ UNCHANGED diskVars
  <2> USE <1>17, Handled DEF MarkWrite, WriteMark, AfterMark, diskVars, blobVars, procVars, histVars
  <2> USE DEF Handling, Fetched
  <2>1. DiskTypeOK'
    BY DEF DiskTypeOK, Places, Inv, TypeOK
  <2>2. Places'
    BY DEF Places, Image, DiskTypeOK, Handling, Marking
  <2>3. Leftovers'
    BY DEF DiskTypeOK, Leftovers, Places, Image
  <2>4. Outputs'
    <3>1. /\ item.name \in Blob /\ meta'[item.name] = Marked
          /\ \A b \in Blob : b # item.name => meta'[b] = meta[b]
      BY DEF Marking, Inv, TypeOK
    <3>2. Marked.status = "done" => pc = "verdict"
      BY MarkedMeta DEF Inv, Marking
    <3>3. pc = "verdict" => <<item.name, content[item.name]>> \in outputs
      BY DEF Outputs
    <3>4. pc' \in {"judge", "verdict", "publish"} => <<item.name, local>> \in outputs
      BY DEF Marking, Outputs
    <3>5. QED
      BY <3>1, <3>2, <3>3, <3>4 DEF Outputs, ResultsKept
  <2>5. QED
    BY <2>1, <2>2, <2>3, <2>4
<1>18. CASE MarkAnswerLost /\ UNCHANGED diskVars
  <2> USE <1>18, Handled DEF MarkAnswerLost, WriteMark, AfterFailedMark, diskVars, blobVars, procVars, histVars
  <2> USE DEF Handling, Fetched
  <2>1. DiskTypeOK'
    BY DEF DiskTypeOK, Places, Inv, TypeOK
  <2>2. Places'
    BY DEF Places, Image, DiskTypeOK, Handling, Marking
  <2>3. Leftovers'
    BY DEF DiskTypeOK, Leftovers, Places, Image
  <2>4. Outputs'
    <3>1. /\ item.name \in Blob /\ meta'[item.name] = Marked
          /\ \A b \in Blob : b # item.name => meta'[b] = meta[b]
      BY DEF Marking, Inv, TypeOK
    <3>2. Marked.status = "done" => pc = "verdict"
      BY MarkedMeta DEF Inv, Marking
    <3>3. pc = "verdict" => <<item.name, content[item.name]>> \in outputs
      BY DEF Outputs
    <3>4. pc' \in {"judge", "verdict", "publish"} => <<item.name, local>> \in outputs
      BY DEF Marking, Outputs
    <3>5. QED
      BY <3>1, <3>2, <3>3, <3>4 DEF Outputs, ResultsKept
  <2>5. QED
    BY <2>1, <2>2, <2>3, <2>4
<1>19. CASE MarkFails /\ UNCHANGED diskVars
  <2> USE <1>19, Handled DEF MarkFails, AfterFailedMark, diskVars, blobVars, procVars, histVars
  <2> USE DEF Handling, Fetched
  <2>1. DiskTypeOK'
    BY DEF DiskTypeOK, Places, Inv, TypeOK
  <2>2. Places'
    BY DEF Places, Image, DiskTypeOK, Handling, Marking
  <2>3. Leftovers'
    BY DEF DiskTypeOK, Leftovers, Places, Image
  <2>4. Outputs'
    BY DEF Outputs, ResultsKept, Inv, TypeOK, Marking
  <2>5. QED
    BY <2>1, <2>2, <2>3, <2>4
<1>20. CASE BeginAnalysis /\ UNCHANGED diskVars
  <2> USE <1>20, Handled DEF BeginAnalysis, diskVars, blobVars, procVars, histVars
  <2> USE DEF Handling, Fetched
  <2>1. DiskTypeOK'
    BY DEF DiskTypeOK, Places, Inv, TypeOK
  <2>2. Places'
    BY DEF Places, Image, DiskTypeOK, Handling, Marking
  <2>3. Leftovers'
    BY DEF DiskTypeOK, Leftovers, Places, Image
  <2>4. Outputs'
    BY DEF Outputs, ResultsKept, Inv, TypeOK, Marking
  <2>5. QED
    BY <2>1, <2>2, <2>3, <2>4
<1>21. CASE LeaveInterrupted /\ UNCHANGED diskVars
  <2> USE <1>21, Handled DEF LeaveInterrupted, Goto, diskVars, blobVars, procVars, histVars
  <2> USE DEF Handling, Fetched
  <2>1. DiskTypeOK'
    BY DEF DiskTypeOK, Places, Inv, TypeOK
  <2>2. Places'
    BY DEF Places, Image, DiskTypeOK, Handling, Marking
  <2>3. Leftovers'
    BY DEF DiskTypeOK, Leftovers, Places, Image
  <2>4. Outputs'
    BY DEF Outputs, ResultsKept, Inv, TypeOK, Marking
  <2>5. QED
    BY <2>1, <2>2, <2>3, <2>4
<1>22. CASE Judge /\ UNCHANGED diskVars
  <2> USE <1>22, Handled DEF Judge, Goto, diskVars, blobVars, procVars, histVars
  <2> USE DEF Handling, Fetched
  <2>1. DiskTypeOK'
    BY DEF DiskTypeOK, Places, Inv, TypeOK
  <2>2. Places'
    BY DEF Places, Image, DiskTypeOK, Handling, Marking
  <2>3. Leftovers'
    BY DEF DiskTypeOK, Leftovers, Places, Image
  <2>4. Outputs'
    BY DEF Outputs, ResultsKept, Inv, TypeOK, Marking
  <2>5. QED
    BY <2>1, <2>2, <2>3, <2>4
<1>23. CASE (\E b \in Blob : Upload(b)) /\ UNCHANGED diskVars
  <2> USE <1>23, Handled DEF Upload, diskVars, blobVars, procVars, histVars
  <2> USE DEF Handling, Fetched
  <2>1. DiskTypeOK'
    BY DEF DiskTypeOK, Places, Inv, TypeOK
  <2>2. Places'
    BY DEF Places, Image, DiskTypeOK, Handling, Marking
  <2>3. Leftovers'
    BY DEF DiskTypeOK, Leftovers, Places, Image
  <2>4. Outputs'
    <3>1. PICK b \in Blob : Upload(b)
      OBVIOUS
    <3>2. meta'[b].status = "none"
      BY <3>1 DEF NoMeta, Inv, TypeOK
    <3>3. \A c \in Blob : c # b => meta'[c] = meta[c] /\ content'[c] = content[c]
      BY <3>1 DEF Inv, TypeOK
    <3>4. QED
      BY <3>2, <3>3 DEF Outputs, ResultsKept
  <2>5. QED
    BY <2>1, <2>2, <2>3, <2>4
<1>24. CASE RequestStop /\ UNCHANGED diskVars
  <2> USE <1>24, Handled DEF RequestStop, diskVars, blobVars, procVars, histVars
  <2> USE DEF Handling, Fetched
  <2>1. DiskTypeOK'
    BY DEF DiskTypeOK, Places, Inv, TypeOK
  <2>2. Places'
    BY DEF Places, Image, DiskTypeOK, Handling, Marking
  <2>3. Leftovers'
    BY DEF DiskTypeOK, Leftovers, Places, Image
  <2>4. Outputs'
    BY DEF Outputs, ResultsKept, Inv, TypeOK, Marking
  <2>5. QED
    BY <2>1, <2>2, <2>3, <2>4
<1>25. CASE Start /\ UNCHANGED diskVars
  <2> USE <1>25, Handled DEF Start, diskVars, blobVars, procVars, histVars
  <2> USE DEF Handling, Fetched
  <2>1. DiskTypeOK'
    BY DEF DiskTypeOK, Places, Inv, TypeOK
  <2>2. Places'
    BY DEF Places, Image, DiskTypeOK, Handling, Marking
  <2>3. Leftovers'
    BY DEF DiskTypeOK, Leftovers, Places, Image
  <2>4. Outputs'
    BY DEF Outputs, ResultsKept, Inv, TypeOK, Marking
  <2>5. QED
    BY <2>1, <2>2, <2>3, <2>4
<1>26. CASE UNCHANGED allVars
  BY <1>26 DEF allVars, vars, blobVars, procVars, histVars, diskVars,
                  DiskTypeOK, Places, Image, Handling, Leftovers, Outputs, ResultsKept
<1>27. QED
  BY <1>1, <1>2, <1>3, <1>4, <1>5, <1>6, <1>7, <1>8, <1>9, <1>10, <1>11, <1>12, <1>13, <1>14,
      <1>15, <1>16, <1>17, <1>18, <1>19, <1>20, <1>21, <1>22, <1>23, <1>24, <1>25, <1>26
     DEF DiskNext, DiskStep, ElsewhereStep, Outside

\* Both invariants hold in every state.
LEMMA DiskInvAlways == ASSUME PatientUploaders PROVE DiskSpec => [](Inv /\ DiskInv)
<1>1. DiskSpec => []Inv
  BY WatcherInvAlways
<1>2. QED
  BY <1>1, DiskInvInit, DiskInvNext, PTL DEF DiskSpec

-----------------------------------------------------------------------------

\* Every variable of the disk keeps its type.
THEOREM DiskTypeCorrect == ASSUME PatientUploaders PROVE DiskSpec => []DiskTypeOK
<1>1. DiskInv => DiskTypeOK
  BY DEF DiskInv
<1>2. QED
  BY <1>1, DiskInvAlways, PTL

\* Volatility runs over the whole image that was listed, whatever lay under
\* its path before.
THEOREM WholeImageAnalysed == ASSUME PatientUploaders PROVE DiskSpec => []AnalysesTheWholeImage
<1>1. DiskInv => AnalysesTheWholeImage
  BY DEF DiskInv, Places, Image, AnalysesTheWholeImage
<1>2. QED
  BY <1>1, DiskInvAlways, PTL

\* Between two images lies only what a crash or a broken archive left.
THEOREM DiskCleared == ASSUME PatientUploaders PROVE DiskSpec => []NoImageLeftBehind
<1>1. DiskInv => NoImageLeftBehind
  BY Paths DEF DiskInv, DiskTypeOK, Leftovers, NoImageLeftBehind, ImageFile
<1>2. QED
  BY <1>1, DiskInvAlways, PTL

\* The results of a "done" image are uploaded or still on the disk.
THEOREM ResultsNotLost == ASSUME PatientUploaders PROVE DiskSpec => []ResultsKept
<1>1. DiskInv => ResultsKept
  BY DEF DiskInv, Outputs
<1>2. QED
  BY <1>1, DiskInvAlways, PTL
=============================================================================
