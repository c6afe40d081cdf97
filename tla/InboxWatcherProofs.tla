------------------------- MODULE InboxWatcherProofs -------------------------
(***************************************************************************)
(* Theorems about InboxWatcher, for any finite set of names, any number of *)
(* uploads, faults and starts, provided nobody uploads a name again before *)
(* it has a final status: inbox_overwrite shows what happens otherwise.    *)
(***************************************************************************)
EXTENDS InboxWatcher, FiniteSetTheorems, TLAPS

\* Uploaders wait for the verdict on what they uploaded.
PatientUploaders == Overwritable \subseteq FinalStatus

(* The inductive invariant, in named parts. *)

\* Positions in _handle, by what is known of the item there.
Handling == pc \in {"claim", "fetch", "unpack", "process", "analysing", "judge",
                    "verdict", "giveUp", "publish", "cleanup"}
Unsettled == pc \in {"claim", "fetch", "unpack", "process", "analysing", "judge", "verdict"}
Claimed == pc \in {"fetch", "unpack", "process", "analysing", "judge", "verdict"}
Fetched == pc \in {"unpack", "process", "analysing", "judge", "verdict"}
Untried == pc \in {"claim", "fetch", "unpack", "process"}

\* What was listed is still as it was listed: nobody else marks it, and no
\* uploader replaces it.
AsListed(i) ==
  /\ content[i.name] > 0
  /\ meta[i.name].status \in {"none", "processing"}
  /\ meta[i.name].claim = i.claim

\* The rest of the listing: other names, not yet analysed by this start.
Listing ==
  /\ items # <<>> => Handling \/ pc = "next"
  /\ \A k \in DOMAIN items : AsListed(items[k]) /\ attempts[items[k].name] = 0
  /\ \A k, l \in DOMAIN items : items[k].name = items[l].name => k = l
  /\ Handling => \A k \in DOMAIN items : items[k].name # item.name

\* The item being handled.
Current ==
  /\ Handling => item \in Item /\ content[item.name] > 0
  /\ Unsettled => AsListed(item)
  /\ Claimed => meta[item.name].status = "processing"
  /\ Untried => attempts[item.name] = 0
  /\ snapshot # None => Marking
  /\ Unsettled /\ snapshot # None => snapshot = meta[item.name]

\* The image on the local disk and the report about it.
Analysis ==
  /\ Fetched => local = content[item.name]
  /\ pc = "publish" => local > 0
  /\ pc \in {"judge", "verdict"} =>
       report \in [succeeded : BOOLEAN, sha : Hash] /\ report.sha \in {NoHash, local}
  /\ pc = "verdict" \/ (pc = "judge" /\ ~stop) => local \in analysed[item.name]

\* How often an image may have been analysed.
Attempts ==
  /\ OneAttemptPerStart
  /\ \A b \in Blob : meta[b].status = "none" => attempts[b] = 0
  /\ firstPoll => pc \in {"poll", "sleep", "down"}
  /\ firstPoll => \A b \in Blob : attempts[b] = 0
  /\ pc = "down" => ~stop
  /\ stop \/ pc = "down" => starts < MaxStarts

\* What a status says of the content.
Truth ==
  /\ DoneMeansAnalysed
  /\ DoneMeansVerified
  /\ \A b \in Blob : meta[b].status # "none" => content[b] > 0

Inv == TypeOK /\ Listing /\ Current /\ Analysis /\ Attempts /\ Truth

-----------------------------------------------------------------------------

\* Hashes are integers, and that of a version is no other's.
LEMMA Hashes ==
  /\ Hash = {0, -1} \cup 1..MaxVersion /\ NoHash = 0 /\ OtherHash = -1
  /\ MaxVersion \in Nat \ {0} /\ MaxStarts \in Nat \ {0} /\ MaxFaults \in Nat
  /\ FinalStatus = {"done", "failed"}
  /\ BlobStatus = {"done", "failed", "none", "processing"}
  BY InboxAssumption DEF Hash, NoHash, OtherHash, FinalStatus, BlobStatus

\* What an upload leaves as metadata.
LEMMA UploadedMeta ==
  ASSUME NEW claim \in Hash
  PROVE  /\ [NoMeta EXCEPT !.claim = claim] = [status |-> "none", claim |-> claim, sha |-> NoHash]
         /\ [NoMeta EXCEPT !.claim = claim] \in Meta
         /\ NoMeta \in Meta
  BY Hashes DEF NoMeta, Meta

\* What a mark writes: the metadata it read, with another status.
LEMMA MarkedMeta ==
  ASSUME TypeOK, Current, Analysis, Marking, snapshot # None
  PROVE  /\ item \in Item /\ item.name \in Blob
         /\ Marked \in Meta
         /\ Marked.claim = snapshot.claim
         /\ Marked.status = CASE pc = "claim" -> "processing" [] pc = "verdict" -> Verdict [] pc = "giveUp" -> "failed"
<1>1. item \in Item /\ item.name \in Blob /\ snapshot \in Meta
  BY DEF TypeOK, Current, Handling, Marking, Item
<1>2. CASE pc = "claim"
  BY <1>1, <1>2, Hashes DEF Marked, Meta
<1>3. CASE pc = "verdict"
  <2>1. report.sha \in Hash
    BY <1>3 DEF TypeOK, Analysis
  <2>2. Verdict \in {"done", "failed"}
    BY DEF Verdict
  <2>3. Marked = [snapshot EXCEPT !.status = Verdict, !.sha = report.sha]
    BY <1>3 DEF Marked
  <2>4. QED
    BY <1>1, <1>3, <2>1, <2>2, <2>3, Hashes DEF Meta
<1>4. CASE pc = "giveUp"
  BY <1>1, <1>4, Hashes DEF Marked, Meta
<1>5. QED
  BY <1>1, <1>2, <1>3, <1>4 DEF Marking

\* A listing holds every wanted name once, with what its metadata claims.
LEMMA PendingType ==
  ASSUME TypeOK, NEW listing \in Pending
  PROVE  /\ listing \in Seq(Item)
         /\ \A k \in DOMAIN listing :
              /\ listing[k].name \in Blob /\ Wanted(listing[k].name)
              /\ listing[k].claim = meta[listing[k].name].claim
         /\ \A k, l \in DOMAIN listing : listing[k].name = listing[l].name => k = l
<1> DEFINE wanted == {b \in Blob : Wanted(b)}
<1>1. PICK names \in SetToSeqs(wanted) :
        listing = [i \in DOMAIN names |-> [name |-> names[i], claim |-> meta[names[i]].claim]]
  BY DEF Pending
<1>2. Cardinality(wanted) \in Nat
  BY InboxAssumption, FS_Subset, FS_CardinalityType DEF InboxAssumption
<1>3. /\ names \in [1..Cardinality(wanted) -> wanted]
      /\ \A i, j \in 1..Cardinality(wanted) : i # j => names[i] # names[j]
  BY DEF SetToSeqs
<1> DEFINE n == Cardinality(wanted)
<1>4. \A b \in wanted : b \in Blob /\ Wanted(b) /\ meta[b].claim \in Hash
  BY DEF TypeOK, Meta
<1> HIDE DEF wanted, n
<1>5. listing = [i \in 1..n |-> [name |-> names[i], claim |-> meta[names[i]].claim]]
  BY <1>1, <1>3 DEF n
<1>6. \A i \in 1..n : [name |-> names[i], claim |-> meta[names[i]].claim] \in Item
  BY <1>3, <1>4 DEF n, Item
<1>7. listing \in [1..n -> Item]
  BY <1>5, <1>6
<1>8. DOMAIN listing = 1..n /\ listing \in Seq(Item)
  BY <1>2, <1>7 DEF n
<1>9. \A k \in 1..n : /\ listing[k].name = names[k] /\ names[k] \in Blob /\ Wanted(names[k])
                      /\ listing[k].claim = meta[names[k]].claim
  BY <1>3, <1>4, <1>5 DEF n
<1>10. QED
  BY <1>3, <1>8, <1>9 DEF n

\* The invariant holds at first.
LEMMA InvInit == Init => Inv
<1> SUFFICES ASSUME Init PROVE Inv
  OBVIOUS
<1> USE Hashes DEF Init
<1>1. TypeOK
  <2>1. meta \in [Blob -> Meta] /\ content \in [Blob -> 0..MaxVersion] /\ order \subseteq Blob \X Blob
    <3>1. NoMeta \in Meta
      BY UploadedMeta
    <3>2. QED
      BY <3>1
  <2>2. stop \in BOOLEAN /\ firstPoll \in BOOLEAN
    OBVIOUS
  <2>3. items \in Seq(Item)
    OBVIOUS
  <2>4. local \in 0..MaxVersion /\ faults \in 0..MaxFaults /\ starts \in 1..MaxStarts
    OBVIOUS
  <2>5. QED
    BY <2>1, <2>2, <2>3, <2>4 DEF TypeOK
<1>2. Listing
  BY DEF Listing, Handling
<1>3. Current
  BY DEF Current, Handling, Unsettled, Claimed, Untried
<1>4. Analysis
  BY DEF Analysis, Fetched
<1>5. Attempts
  BY DEF Attempts, OneAttemptPerStart
<1>6. Truth
  BY DEF Truth, DoneMeansAnalysed, DoneMeansVerified, NoMeta
<1>7. QED
  BY <1>1, <1>2, <1>3, <1>4, <1>5, <1>6 DEF Inv

\* Every step keeps the invariant.
LEMMA InvNext == ASSUME PatientUploaders PROVE Inv /\ [Next]_vars => Inv'
<1> SUFFICES ASSUME Inv, [Next]_vars PROVE Inv'
  OBVIOUS
<1> USE DEF Inv
<1>1. ASSUME NEW b \in Blob, Upload(b) PROVE Inv'
  <2> USE Hashes
  <2>1. /\ content[b] \in Nat /\ content'[b] \in 1..MaxVersion
        /\ content' = [content EXCEPT ![b] = content[b] + 1]
        /\ content[b] = 0 \/ meta[b].status \in {"done", "failed"}
    BY <1>1 DEF Upload, TypeOK, PatientUploaders
  <2>2. PICK claim \in {NoHash, OtherHash, content'[b]} : meta' = [meta EXCEPT ![b] = [NoMeta EXCEPT !.claim = claim]]
    BY <1>1 DEF Upload
  <2>3. /\ meta'[b] = [status |-> "none", claim |-> claim, sha |-> NoHash]
        /\ meta'[b] \in Meta /\ meta' \in [Blob -> Meta]
        /\ \A c \in Blob \ {b} : meta'[c] = meta[c]
    BY <2>1, <2>2, UploadedMeta DEF TypeOK
  <2>4. /\ \A c \in Blob \ {b} : content'[c] = content[c] /\ attempts'[c] = attempts[c]
        /\ attempts'[b] = 0
        /\ content' \in [Blob -> 0..MaxVersion] /\ attempts' \in [Blob -> Nat]
    BY <1>1, <2>1 DEF Upload, TypeOK
  <2>5. UNCHANGED <<procVars, analysed, published, faults, starts>>
    BY <1>1 DEF Upload
  <2>6. \A k \in DOMAIN items : items[k].name \in Blob \ {b}
    <3> SUFFICES ASSUME NEW k \in DOMAIN items PROVE items[k].name \in Blob \ {b}
      OBVIOUS
    <3>1. items[k].name \in Blob
      <4>1. items[k] \in Item
        BY DEF TypeOK
      <4>2. QED
        BY <4>1 DEF Item
    <3>2. AsListed(items[k])
      BY DEF Listing
    <3>3. QED
      BY <2>1, <3>1, <3>2 DEF AsListed
  <2>7. Unsettled => item.name \in Blob \ {b}
    BY <2>1 DEF TypeOK, Item, Current, Unsettled, Handling, AsListed
  <2>8. TypeOK'
    <3>1. order' \subseteq Blob \X Blob
      BY <1>1 DEF Upload, Touched, TypeOK
    <3>2. QED
      BY <2>3, <2>4, <2>5, <3>1 DEF TypeOK, procVars
  <2>9. Listing'
    <3>1. \A k \in DOMAIN items : AsListed(items[k])' /\ attempts'[items[k].name] = 0
      BY <2>3, <2>4, <2>5, <2>6 DEF Listing, AsListed, procVars
    <3>2. QED
      BY <3>1, <2>5 DEF Listing, Handling, procVars
  <2>10. Current'
    <3>1. Unsettled' => Unsettled /\ AsListed(item)'
      BY <2>3, <2>4, <2>5, <2>7 DEF Current, AsListed, Unsettled, procVars
    <3>2. Handling' => item' \in Item /\ content'[item'.name] > 0
      BY <2>1, <2>4, <2>5 DEF Current, Handling, Item, procVars, TypeOK
    <3>3. QED
      BY <3>1, <3>2, <2>3, <2>4, <2>5, <2>7 DEF Current, Unsettled, Claimed, Untried, Marking, procVars
  <2>11. Analysis'
    BY <2>4, <2>5, <2>7 DEF Analysis, Unsettled, Fetched, procVars
  <2>12. Attempts'
    <3>1. starts \in Nat /\ starts > 0
      BY DEF TypeOK
    <3>2. \A c \in Blob : /\ attempts'[c] <= 1
                          /\ meta'[c].status = "none" => attempts'[c] = 0
                          /\ firstPoll' => attempts'[c] = 0
      BY <2>3, <2>4, <2>5, <3>1 DEF Attempts, OneAttemptPerStart, procVars
    <3>3. OneAttemptPerStart'
      BY <3>2 DEF OneAttemptPerStart
    <3>4. /\ firstPoll' => pc' \in {"poll", "sleep", "down"}
          /\ pc' = "down" => ~stop'
          /\ stop' \/ pc' = "down" => starts' < MaxStarts
      BY <2>5 DEF Attempts, procVars
    <3>5. QED
      BY <3>2, <3>3, <3>4 DEF Attempts
  <2>13. Truth'
    BY <2>1, <2>3, <2>4, <2>5 DEF Truth, DoneMeansAnalysed, DoneMeansVerified
  <2>14. QED
    BY <2>8, <2>9, <2>10, <2>11, <2>12, <2>13
<1>2. ASSUME Poll PROVE Inv'
  <2> USE <1>2, Hashes DEF Poll, blobVars, histVars, blobVars, histVars
  <2>1. TypeOK'
    <3>1. content' \in [Blob -> 0..MaxVersion]
      BY DEF TypeOK
    <3>2. meta' \in [Blob -> Meta] /\ order' \subseteq Blob \X Blob
      BY DEF TypeOK
    <3>3. pc' \in {"poll", "next", "sleep", "claim", "fetch", "unpack", "process", "analysing",
                   "judge", "verdict", "giveUp", "publish", "cleanup", "down"}
      BY DEF TypeOK
    <3>4. stop' \in BOOLEAN /\ firstPoll' \in BOOLEAN
      BY DEF TypeOK
    <3>5. items' \in Seq(Item) /\ item' \in Item \cup {None} /\ snapshot' \in Meta \cup {None}
      BY PendingType DEF TypeOK
    <3>6. local' \in 0..MaxVersion /\ report' \in [succeeded : BOOLEAN, sha : Hash] \cup {None}
      BY DEF TypeOK
    <3>7. attempts' \in [Blob -> Nat] /\ analysed' \in [Blob -> SUBSET (1..MaxVersion)]
      BY DEF TypeOK
    <3>8. published' \in [Blob -> SUBSET (1..MaxVersion)]
      BY DEF TypeOK
    <3>9. faults' \in 0..MaxFaults /\ starts' \in 1..MaxStarts
      BY DEF TypeOK
    <3>10. QED
      BY <3>1, <3>2, <3>3, <3>4, <3>5, <3>6, <3>7, <3>8, <3>9 DEF TypeOK
  <2>2. Listing'
    <3>1. \A k \in DOMAIN items' : /\ items'[k].name \in Blob /\ Wanted(items'[k].name)
                                   /\ items'[k].claim = meta[items'[k].name].claim
      BY PendingType
    <3>2. \A b \in Blob : Wanted(b) => attempts[b] = 0
      BY DEF Wanted, Attempts, TypeOK
    <3>3. \A k \in DOMAIN items' : /\ content[items'[k].name] > 0
                                   /\ meta[items'[k].name].status \in {"none", "processing"}
                                   /\ attempts[items'[k].name] = 0
      BY <3>1, <3>2 DEF Wanted
    <3>4. \A k, l \in DOMAIN items' : items'[k].name = items'[l].name => k = l
      BY PendingType
    <3>5. QED
      BY <3>1, <3>3, <3>4 DEF Listing, AsListed, Handling
  <2>3. Current'
    BY DEF TypeOK, Listing, Current, AsListed, Handling, Unsettled, Claimed, Fetched, Untried, Marking, Attempts
  <2>4. Analysis'
    BY DEF TypeOK, Current, Analysis, AsListed, Handling, Unsettled, Claimed, Fetched, Untried, Marking
  <2>5. Attempts'
    BY DEF TypeOK, Current, Attempts, Listing, OneAttemptPerStart, Handling, Unsettled, Claimed, Fetched, Untried, Marking
  <2>6. Truth'
    BY DEF TypeOK, Current, Analysis, Truth, AsListed, DoneMeansAnalysed, DoneMeansVerified, Handling, Unsettled, Claimed, Fetched, Untried, Marking
  <2>7. QED
    BY <2>1, <2>2, <2>3, <2>4, <2>5, <2>6
<1>3. ASSUME PollFails PROVE Inv'
  <2> USE <1>3, Hashes DEF PollFails, Goto, blobVars, histVars
  <2>1. TypeOK'
    BY DEF TypeOK, Handling, Unsettled, Claimed, Fetched, Untried, Current, Analysis, Attempts
  <2>2. Listing'
    BY DEF TypeOK, Listing, Current, AsListed, Handling, Unsettled, Claimed, Fetched, Untried, Marking, Attempts
  <2>3. Current'
    BY DEF TypeOK, Listing, Current, AsListed, Handling, Unsettled, Claimed, Fetched, Untried, Marking, Attempts
  <2>4. Analysis'
    BY DEF TypeOK, Current, Analysis, AsListed, Handling, Unsettled, Claimed, Fetched, Untried, Marking
  <2>5. Attempts'
    BY DEF TypeOK, Current, Attempts, Listing, OneAttemptPerStart, Handling, Unsettled, Claimed, Fetched, Untried, Marking
  <2>6. Truth'
    BY DEF TypeOK, Current, Analysis, Truth, AsListed, DoneMeansAnalysed, DoneMeansVerified, Handling, Unsettled, Claimed, Fetched, Untried, Marking
  <2>7. QED
    BY <2>1, <2>2, <2>3, <2>4, <2>5, <2>6
<1>4. ASSUME TakeItem PROVE Inv'
  <2> USE <1>4, Hashes DEF TakeItem, blobVars, histVars
  <2>1. TypeOK'
    BY DEF TypeOK, Handling, Unsettled, Claimed, Fetched, Untried, Current, Analysis, Attempts
  <2>2. Listing'
    <3>1. /\ items \in Seq(Item) /\ items # <<>> /\ items' = Tail(items) /\ item' = items[1] /\ pc' = "claim"
          /\ UNCHANGED <<content, meta, attempts>>
      BY DEF TypeOK
    <3>2. /\ DOMAIN items' = 1..(Len(items) - 1) /\ DOMAIN items = 1..Len(items) /\ Len(items) \in Nat \ {0}
          /\ \A k \in DOMAIN items' : items'[k] = items[k + 1]
      BY <3>1
    <3>3. \A k \in DOMAIN items' : k + 1 \in DOMAIN items /\ k + 1 # 1 /\ 1 \in DOMAIN items
      BY <3>2
    <3>4. \A k \in DOMAIN items' : AsListed(items[k])' /\ attempts'[items'[k].name] = 0 /\ items'[k].name # item'.name
      BY <3>1, <3>2, <3>3 DEF Listing, AsListed
    <3>5. \A k, l \in DOMAIN items' : items'[k].name = items'[l].name => k = l
      <4>1. \A k, l \in DOMAIN items' : items'[k].name = items'[l].name => k + 1 = l + 1
        BY <3>2, <3>3 DEF Listing
      <4>2. QED
        BY <3>2, <4>1
    <3>6. QED
      BY <3>1, <3>4, <3>5 DEF Listing, Handling
  <2>3. Current'
    BY DEF TypeOK, Listing, Current, AsListed, Handling, Unsettled, Claimed, Fetched, Untried, Marking, Attempts
  <2>4. Analysis'
    BY DEF TypeOK, Current, Analysis, AsListed, Handling, Unsettled, Claimed, Fetched, Untried, Marking
  <2>5. Attempts'
    BY DEF TypeOK, Current, Attempts, Listing, OneAttemptPerStart, Handling, Unsettled, Claimed, Fetched, Untried, Marking
  <2>6. Truth'
    BY DEF TypeOK, Current, Analysis, Truth, AsListed, DoneMeansAnalysed, DoneMeansVerified, Handling, Unsettled, Claimed, Fetched, Untried, Marking
  <2>7. QED
    BY <2>1, <2>2, <2>3, <2>4, <2>5, <2>6
<1>5. ASSUME EndRound PROVE Inv'
  <2> USE <1>5, Hashes DEF EndRound, blobVars, histVars
  <2>1. TypeOK'
    BY DEF TypeOK, Handling, Unsettled, Claimed, Fetched, Untried, Current, Analysis, Attempts
  <2>2. Listing'
    BY DEF TypeOK, Listing, Current, AsListed, Handling, Unsettled, Claimed, Fetched, Untried, Marking, Attempts
  <2>3. Current'
    BY DEF TypeOK, Listing, Current, AsListed, Handling, Unsettled, Claimed, Fetched, Untried, Marking, Attempts
  <2>4. Analysis'
    BY DEF TypeOK, Current, Analysis, AsListed, Handling, Unsettled, Claimed, Fetched, Untried, Marking
  <2>5. Attempts'
    BY DEF TypeOK, Current, Attempts, Listing, OneAttemptPerStart, Handling, Unsettled, Claimed, Fetched, Untried, Marking
  <2>6. Truth'
    BY DEF TypeOK, Current, Analysis, Truth, AsListed, DoneMeansAnalysed, DoneMeansVerified, Handling, Unsettled, Claimed, Fetched, Untried, Marking
  <2>7. QED
    BY <2>1, <2>2, <2>3, <2>4, <2>5, <2>6
<1>6. ASSUME WakeUp PROVE Inv'
  <2> USE <1>6, Hashes DEF WakeUp, Goto, blobVars, histVars
  <2>1. TypeOK'
    BY DEF TypeOK, Handling, Unsettled, Claimed, Fetched, Untried, Current, Analysis, Attempts
  <2>2. Listing'
    BY DEF TypeOK, Listing, Current, AsListed, Handling, Unsettled, Claimed, Fetched, Untried, Marking, Attempts
  <2>3. Current'
    BY DEF TypeOK, Listing, Current, AsListed, Handling, Unsettled, Claimed, Fetched, Untried, Marking, Attempts
  <2>4. Analysis'
    BY DEF TypeOK, Current, Analysis, AsListed, Handling, Unsettled, Claimed, Fetched, Untried, Marking
  <2>5. Attempts'
    BY DEF TypeOK, Current, Attempts, Listing, OneAttemptPerStart, Handling, Unsettled, Claimed, Fetched, Untried, Marking
  <2>6. Truth'
    BY DEF TypeOK, Current, Analysis, Truth, AsListed, DoneMeansAnalysed, DoneMeansVerified, Handling, Unsettled, Claimed, Fetched, Untried, Marking
  <2>7. QED
    BY <2>1, <2>2, <2>3, <2>4, <2>5, <2>6
<1>7. ASSUME Exit PROVE Inv'
  <2> USE <1>7, Hashes DEF Exit, ProcessGone, blobVars, histVars
  <2>1. TypeOK'
    <3>1. content' \in [Blob -> 0..MaxVersion]
      BY DEF TypeOK
    <3>2. meta' \in [Blob -> Meta] /\ order' \subseteq Blob \X Blob
      BY DEF TypeOK
    <3>3. pc' \in {"poll", "next", "sleep", "claim", "fetch", "unpack", "process", "analysing",
                   "judge", "verdict", "giveUp", "publish", "cleanup", "down"}
      BY DEF TypeOK
    <3>4. stop' \in BOOLEAN /\ firstPoll' \in BOOLEAN
      BY DEF TypeOK
    <3>5. items' \in Seq(Item) /\ item' \in Item \cup {None} /\ snapshot' \in Meta \cup {None}
      BY DEF TypeOK
    <3>6. local' \in 0..MaxVersion /\ report' \in [succeeded : BOOLEAN, sha : Hash] \cup {None}
      BY DEF TypeOK
    <3>7. attempts' \in [Blob -> Nat] /\ analysed' \in [Blob -> SUBSET (1..MaxVersion)]
      BY DEF TypeOK
    <3>8. published' \in [Blob -> SUBSET (1..MaxVersion)]
      BY DEF TypeOK
    <3>9. faults' \in 0..MaxFaults /\ starts' \in 1..MaxStarts
      BY DEF TypeOK
    <3>10. QED
      BY <3>1, <3>2, <3>3, <3>4, <3>5, <3>6, <3>7, <3>8, <3>9 DEF TypeOK
  <2>2. Listing'
    BY DEF TypeOK, Listing, Current, AsListed, Handling, Unsettled, Claimed, Fetched, Untried, Marking, Attempts
  <2>3. Current'
    BY DEF TypeOK, Listing, Current, AsListed, Handling, Unsettled, Claimed, Fetched, Untried, Marking, Attempts
  <2>4. Analysis'
    BY DEF TypeOK, Current, Analysis, AsListed, Handling, Unsettled, Claimed, Fetched, Untried, Marking
  <2>5. Attempts'
    BY DEF TypeOK, Current, Attempts, Listing, OneAttemptPerStart, Handling, Unsettled, Claimed, Fetched, Untried, Marking
  <2>6. Truth'
    BY DEF TypeOK, Current, Analysis, Truth, AsListed, DoneMeansAnalysed, DoneMeansVerified, Handling, Unsettled, Claimed, Fetched, Untried, Marking
  <2>7. QED
    BY <2>1, <2>2, <2>3, <2>4, <2>5, <2>6
<1>8. ASSUME MarkRead PROVE Inv'
  <2> USE <1>8, Hashes DEF MarkRead, Marking, blobVars, histVars
  <2>1. TypeOK'
    <3>1. content' \in [Blob -> 0..MaxVersion]
      BY DEF TypeOK
    <3>2. meta' \in [Blob -> Meta] /\ order' \subseteq Blob \X Blob
      BY DEF TypeOK
    <3>3. pc' \in {"poll", "next", "sleep", "claim", "fetch", "unpack", "process", "analysing",
                   "judge", "verdict", "giveUp", "publish", "cleanup", "down"}
      BY DEF TypeOK
    <3>4. stop' \in BOOLEAN /\ firstPoll' \in BOOLEAN
      BY DEF TypeOK
    <3>5. items' \in Seq(Item) /\ item' \in Item \cup {None} /\ snapshot' \in Meta \cup {None}
      BY DEF TypeOK, Current, Item, Handling
    <3>6. local' \in 0..MaxVersion /\ report' \in [succeeded : BOOLEAN, sha : Hash] \cup {None}
      BY DEF TypeOK
    <3>7. attempts' \in [Blob -> Nat] /\ analysed' \in [Blob -> SUBSET (1..MaxVersion)]
      BY DEF TypeOK
    <3>8. published' \in [Blob -> SUBSET (1..MaxVersion)]
      BY DEF TypeOK
    <3>9. faults' \in 0..MaxFaults /\ starts' \in 1..MaxStarts
      BY DEF TypeOK
    <3>10. QED
      BY <3>1, <3>2, <3>3, <3>4, <3>5, <3>6, <3>7, <3>8, <3>9 DEF TypeOK
  <2>2. Listing'
    BY DEF TypeOK, Listing, Current, AsListed, Handling, Unsettled, Claimed, Fetched, Untried, Marking, Attempts
  <2>3. Current'
    BY DEF TypeOK, Listing, Current, AsListed, Handling, Unsettled, Claimed, Fetched, Untried, Marking, Attempts
  <2>4. Analysis'
    BY DEF TypeOK, Current, Analysis, AsListed, Handling, Unsettled, Claimed, Fetched, Untried, Marking
  <2>5. Attempts'
    BY DEF TypeOK, Current, Attempts, Listing, OneAttemptPerStart, Handling, Unsettled, Claimed, Fetched, Untried, Marking
  <2>6. Truth'
    BY DEF TypeOK, Current, Analysis, Truth, AsListed, DoneMeansAnalysed, DoneMeansVerified, Handling, Unsettled, Claimed, Fetched, Untried, Marking
  <2>7. QED
    BY <2>1, <2>2, <2>3, <2>4, <2>5, <2>6
<1>9. ASSUME MarkWrite PROVE Inv'
  <2> USE <1>9, Hashes DEF MarkWrite, WriteMark, Marked, AfterMark, Touched, Marking, Verdict, Mismatch, blobVars, histVars
  <2>1. TypeOK'
    <3>1. content' \in [Blob -> 0..MaxVersion]
      BY DEF TypeOK
    <3>2. meta' \in [Blob -> Meta] /\ order' \subseteq Blob \X Blob
      <4>1. item.name \in Blob /\ Marked \in Meta
        BY MarkedMeta
      <4>2. meta' = [meta EXCEPT ![item.name] = Marked]
        OBVIOUS
      <4>3. QED
        BY <4>1, <4>2 DEF TypeOK
    <3>3. pc' \in {"poll", "next", "sleep", "claim", "fetch", "unpack", "process", "analysing",
                   "judge", "verdict", "giveUp", "publish", "cleanup", "down"}
      BY DEF TypeOK
    <3>4. stop' \in BOOLEAN /\ firstPoll' \in BOOLEAN
      BY DEF TypeOK
    <3>5. items' \in Seq(Item) /\ item' \in Item \cup {None} /\ snapshot' \in Meta \cup {None}
      BY DEF TypeOK
    <3>6. local' \in 0..MaxVersion /\ report' \in [succeeded : BOOLEAN, sha : Hash] \cup {None}
      BY DEF TypeOK
    <3>7. attempts' \in [Blob -> Nat] /\ analysed' \in [Blob -> SUBSET (1..MaxVersion)]
      BY DEF TypeOK
    <3>8. published' \in [Blob -> SUBSET (1..MaxVersion)]
      BY DEF TypeOK
    <3>9. faults' \in 0..MaxFaults /\ starts' \in 1..MaxStarts
      BY DEF TypeOK
    <3>10. QED
      BY <3>1, <3>2, <3>3, <3>4, <3>5, <3>6, <3>7, <3>8, <3>9 DEF TypeOK
  <2>2. Listing'
    BY DEF TypeOK, Listing, Current, AsListed, Handling, Unsettled, Claimed, Fetched, Untried, Marking, Attempts
  <2>3. Current'
    <3>1. /\ item.name \in Blob /\ meta'[item.name] = Marked /\ item \in Item
          /\ Marked.claim = snapshot.claim
          /\ pc = "claim" => Marked.status = "processing"
      BY MarkedMeta DEF TypeOK
    <3>2. Handling' => item' \in Item /\ content'[item'.name] > 0
      BY DEF Current, Handling
    <3>3. Unsettled' => pc = "claim"
      BY DEF Unsettled
    <3>4. pc = "claim" => AsListed(item)'
      BY <3>1 DEF Current, Unsettled, AsListed
    <3>5. QED
      BY <3>1, <3>2, <3>3, <3>4 DEF Current, Unsettled, Claimed, Untried
  <2>4. Analysis'
    BY DEF TypeOK, Current, Analysis, AsListed, Handling, Unsettled, Claimed, Fetched, Untried, Marking
  <2>5. Attempts'
    BY DEF TypeOK, Current, Attempts, Listing, OneAttemptPerStart, Handling, Unsettled, Claimed, Fetched, Untried, Marking
  <2>6. Truth'
    BY DEF TypeOK, Current, Analysis, Truth, AsListed, DoneMeansAnalysed, DoneMeansVerified, Handling, Unsettled, Claimed, Fetched, Untried, Marking
  <2>7. QED
    BY <2>1, <2>2, <2>3, <2>4, <2>5, <2>6
<1>10. ASSUME MarkAnswerLost PROVE Inv'
  <2> USE <1>10, Hashes DEF MarkAnswerLost, WriteMark, Marked, AfterFailedMark, Touched, Marking, Verdict, Mismatch, blobVars, histVars
  <2>1. TypeOK'
    <3>1. content' \in [Blob -> 0..MaxVersion]
      BY DEF TypeOK
    <3>2. meta' \in [Blob -> Meta] /\ order' \subseteq Blob \X Blob
      <4>1. item.name \in Blob /\ Marked \in Meta
        BY MarkedMeta
      <4>2. meta' = [meta EXCEPT ![item.name] = Marked]
        OBVIOUS
      <4>3. QED
        BY <4>1, <4>2 DEF TypeOK
    <3>3. pc' \in {"poll", "next", "sleep", "claim", "fetch", "unpack", "process", "analysing",
                   "judge", "verdict", "giveUp", "publish", "cleanup", "down"}
      BY DEF TypeOK
    <3>4. stop' \in BOOLEAN /\ firstPoll' \in BOOLEAN
      BY DEF TypeOK
    <3>5. items' \in Seq(Item) /\ item' \in Item \cup {None} /\ snapshot' \in Meta \cup {None}
      BY DEF TypeOK
    <3>6. local' \in 0..MaxVersion /\ report' \in [succeeded : BOOLEAN, sha : Hash] \cup {None}
      BY DEF TypeOK
    <3>7. attempts' \in [Blob -> Nat] /\ analysed' \in [Blob -> SUBSET (1..MaxVersion)]
      BY DEF TypeOK
    <3>8. published' \in [Blob -> SUBSET (1..MaxVersion)]
      BY DEF TypeOK
    <3>9. faults' \in 0..MaxFaults /\ starts' \in 1..MaxStarts
      BY DEF TypeOK
    <3>10. QED
      BY <3>1, <3>2, <3>3, <3>4, <3>5, <3>6, <3>7, <3>8, <3>9 DEF TypeOK
  <2>2. Listing'
    BY DEF TypeOK, Listing, Current, AsListed, Handling, Unsettled, Claimed, Fetched, Untried, Marking, Attempts
  <2>3. Current'
    BY DEF TypeOK, Listing, Current, AsListed, Handling, Unsettled, Claimed, Fetched, Untried, Marking, Attempts
  <2>4. Analysis'
    BY DEF TypeOK, Current, Analysis, AsListed, Handling, Unsettled, Claimed, Fetched, Untried, Marking
  <2>5. Attempts'
    BY DEF TypeOK, Current, Attempts, Listing, OneAttemptPerStart, Handling, Unsettled, Claimed, Fetched, Untried, Marking
  <2>6. Truth'
    BY DEF TypeOK, Current, Analysis, Truth, AsListed, DoneMeansAnalysed, DoneMeansVerified, Handling, Unsettled, Claimed, Fetched, Untried, Marking
  <2>7. QED
    BY <2>1, <2>2, <2>3, <2>4, <2>5, <2>6
<1>11. ASSUME MarkFails PROVE Inv'
  <2> USE <1>11, Hashes DEF MarkFails, AfterFailedMark, Marking, blobVars, histVars
  <2>1. TypeOK'
    BY DEF TypeOK, Handling, Unsettled, Claimed, Fetched, Untried, Current, Analysis, Attempts
  <2>2. Listing'
    BY DEF TypeOK, Listing, Current, AsListed, Handling, Unsettled, Claimed, Fetched, Untried, Marking, Attempts
  <2>3. Current'
    BY DEF TypeOK, Listing, Current, AsListed, Handling, Unsettled, Claimed, Fetched, Untried, Marking, Attempts
  <2>4. Analysis'
    BY DEF TypeOK, Current, Analysis, AsListed, Handling, Unsettled, Claimed, Fetched, Untried, Marking
  <2>5. Attempts'
    BY DEF TypeOK, Current, Attempts, Listing, OneAttemptPerStart, Handling, Unsettled, Claimed, Fetched, Untried, Marking
  <2>6. Truth'
    BY DEF TypeOK, Current, Analysis, Truth, AsListed, DoneMeansAnalysed, DoneMeansVerified, Handling, Unsettled, Claimed, Fetched, Untried, Marking
  <2>7. QED
    BY <2>1, <2>2, <2>3, <2>4, <2>5, <2>6
<1>12. ASSUME Download PROVE Inv'
  <2> USE <1>12, Hashes DEF Download, blobVars, histVars
  <2>1. TypeOK'
    <3>1. content' \in [Blob -> 0..MaxVersion]
      BY DEF TypeOK
    <3>2. meta' \in [Blob -> Meta] /\ order' \subseteq Blob \X Blob
      BY DEF TypeOK
    <3>3. pc' \in {"poll", "next", "sleep", "claim", "fetch", "unpack", "process", "analysing",
                   "judge", "verdict", "giveUp", "publish", "cleanup", "down"}
      BY DEF TypeOK
    <3>4. stop' \in BOOLEAN /\ firstPoll' \in BOOLEAN
      BY DEF TypeOK
    <3>5. items' \in Seq(Item) /\ item' \in Item \cup {None} /\ snapshot' \in Meta \cup {None}
      BY DEF TypeOK
    <3>6. local' \in 0..MaxVersion /\ report' \in [succeeded : BOOLEAN, sha : Hash] \cup {None}
      BY DEF TypeOK, Current, Item, Handling
    <3>7. attempts' \in [Blob -> Nat] /\ analysed' \in [Blob -> SUBSET (1..MaxVersion)]
      BY DEF TypeOK, Current, Analysis, Item, Handling, Fetched
    <3>8. published' \in [Blob -> SUBSET (1..MaxVersion)]
      BY DEF TypeOK, Current, Analysis, Item, Handling, Fetched
    <3>9. faults' \in 0..MaxFaults /\ starts' \in 1..MaxStarts
      BY DEF TypeOK
    <3>10. QED
      BY <3>1, <3>2, <3>3, <3>4, <3>5, <3>6, <3>7, <3>8, <3>9 DEF TypeOK
  <2>2. Listing'
    BY DEF TypeOK, Listing, Current, AsListed, Handling, Unsettled, Claimed, Fetched, Untried, Marking, Attempts
  <2>3. Current'
    BY DEF TypeOK, Listing, Current, AsListed, Handling, Unsettled, Claimed, Fetched, Untried, Marking, Attempts
  <2>4. Analysis'
    BY DEF TypeOK, Current, Analysis, AsListed, Handling, Unsettled, Claimed, Fetched, Untried, Marking
  <2>5. Attempts'
    BY DEF TypeOK, Current, Attempts, Listing, OneAttemptPerStart, Handling, Unsettled, Claimed, Fetched, Untried, Marking
  <2>6. Truth'
    BY DEF TypeOK, Current, Analysis, Truth, AsListed, DoneMeansAnalysed, DoneMeansVerified, Handling, Unsettled, Claimed, Fetched, Untried, Marking
  <2>7. QED
    BY <2>1, <2>2, <2>3, <2>4, <2>5, <2>6
<1>13. ASSUME Unpack PROVE Inv'
  <2> USE <1>13, Hashes DEF Unpack, Goto, blobVars, histVars
  <2>1. TypeOK'
    BY DEF TypeOK, Handling, Unsettled, Claimed, Fetched, Untried, Current, Analysis, Attempts
  <2>2. Listing'
    BY DEF TypeOK, Listing, Current, AsListed, Handling, Unsettled, Claimed, Fetched, Untried, Marking, Attempts
  <2>3. Current'
    BY DEF TypeOK, Listing, Current, AsListed, Handling, Unsettled, Claimed, Fetched, Untried, Marking, Attempts
  <2>4. Analysis'
    BY DEF TypeOK, Current, Analysis, AsListed, Handling, Unsettled, Claimed, Fetched, Untried, Marking
  <2>5. Attempts'
    BY DEF TypeOK, Current, Attempts, Listing, OneAttemptPerStart, Handling, Unsettled, Claimed, Fetched, Untried, Marking
  <2>6. Truth'
    BY DEF TypeOK, Current, Analysis, Truth, AsListed, DoneMeansAnalysed, DoneMeansVerified, Handling, Unsettled, Claimed, Fetched, Untried, Marking
  <2>7. QED
    BY <2>1, <2>2, <2>3, <2>4, <2>5, <2>6
<1>14. ASSUME BeginAnalysis PROVE Inv'
  <2> USE <1>14, Hashes DEF BeginAnalysis, blobVars, histVars
  <2>1. TypeOK'
    <3>1. content' \in [Blob -> 0..MaxVersion]
      BY DEF TypeOK
    <3>2. meta' \in [Blob -> Meta] /\ order' \subseteq Blob \X Blob
      BY DEF TypeOK
    <3>3. pc' \in {"poll", "next", "sleep", "claim", "fetch", "unpack", "process", "analysing",
                   "judge", "verdict", "giveUp", "publish", "cleanup", "down"}
      BY DEF TypeOK
    <3>4. stop' \in BOOLEAN /\ firstPoll' \in BOOLEAN
      BY DEF TypeOK
    <3>5. items' \in Seq(Item) /\ item' \in Item \cup {None} /\ snapshot' \in Meta \cup {None}
      BY DEF TypeOK
    <3>6. local' \in 0..MaxVersion /\ report' \in [succeeded : BOOLEAN, sha : Hash] \cup {None}
      BY DEF TypeOK, Current, Item, Handling
    <3>7. attempts' \in [Blob -> Nat] /\ analysed' \in [Blob -> SUBSET (1..MaxVersion)]
      BY DEF TypeOK, Current, Analysis, Item, Handling, Fetched
    <3>8. published' \in [Blob -> SUBSET (1..MaxVersion)]
      BY DEF TypeOK, Current, Analysis, Item, Handling, Fetched
    <3>9. faults' \in 0..MaxFaults /\ starts' \in 1..MaxStarts
      BY DEF TypeOK
    <3>10. QED
      BY <3>1, <3>2, <3>3, <3>4, <3>5, <3>6, <3>7, <3>8, <3>9 DEF TypeOK
  <2>2. Listing'
    BY DEF TypeOK, Listing, Current, AsListed, Handling, Unsettled, Claimed, Fetched, Untried, Marking, Attempts
  <2>3. Current'
    BY DEF TypeOK, Listing, Current, AsListed, Handling, Unsettled, Claimed, Fetched, Untried, Marking, Attempts
  <2>4. Analysis'
    BY DEF TypeOK, Current, Analysis, AsListed, Handling, Unsettled, Claimed, Fetched, Untried, Marking
  <2>5. Attempts'
    BY DEF TypeOK, Current, Attempts, Listing, OneAttemptPerStart, Handling, Unsettled, Claimed, Fetched, Untried, Marking
  <2>6. Truth'
    BY DEF TypeOK, Current, Analysis, Truth, AsListed, DoneMeansAnalysed, DoneMeansVerified, Handling, Unsettled, Claimed, Fetched, Untried, Marking
  <2>7. QED
    BY <2>1, <2>2, <2>3, <2>4, <2>5, <2>6
<1>15. ASSUME EndAnalysis PROVE Inv'
  <2> USE <1>15, Hashes DEF EndAnalysis, blobVars, histVars
  <2>1. TypeOK'
    <3>1. content' \in [Blob -> 0..MaxVersion]
      BY DEF TypeOK
    <3>2. meta' \in [Blob -> Meta] /\ order' \subseteq Blob \X Blob
      BY DEF TypeOK
    <3>3. pc' \in {"poll", "next", "sleep", "claim", "fetch", "unpack", "process", "analysing",
                   "judge", "verdict", "giveUp", "publish", "cleanup", "down"}
      BY DEF TypeOK
    <3>4. stop' \in BOOLEAN /\ firstPoll' \in BOOLEAN
      BY DEF TypeOK
    <3>5. items' \in Seq(Item) /\ item' \in Item \cup {None} /\ snapshot' \in Meta \cup {None}
      BY DEF TypeOK
    <3>6. local' \in 0..MaxVersion /\ report' \in [succeeded : BOOLEAN, sha : Hash] \cup {None}
      BY DEF TypeOK, Current, Item, Handling
    <3>7. attempts' \in [Blob -> Nat] /\ analysed' \in [Blob -> SUBSET (1..MaxVersion)]
      BY DEF TypeOK, Current, Analysis, Item, Handling, Fetched
    <3>8. published' \in [Blob -> SUBSET (1..MaxVersion)]
      BY DEF TypeOK, Current, Analysis, Item, Handling, Fetched
    <3>9. faults' \in 0..MaxFaults /\ starts' \in 1..MaxStarts
      BY DEF TypeOK
    <3>10. QED
      BY <3>1, <3>2, <3>3, <3>4, <3>5, <3>6, <3>7, <3>8, <3>9 DEF TypeOK
  <2>2. Listing'
    BY DEF TypeOK, Listing, Current, AsListed, Handling, Unsettled, Claimed, Fetched, Untried, Marking, Attempts
  <2>3. Current'
    BY DEF TypeOK, Listing, Current, AsListed, Handling, Unsettled, Claimed, Fetched, Untried, Marking, Attempts
  <2>4. Analysis'
    <3>1. PICK succeeded \in BOOLEAN, sha \in {NoHash, local}, cut \in {FALSE, stop} :
            /\ report' = [succeeded |-> succeeded, sha |-> sha]
            /\ analysed' = IF cut THEN analysed ELSE [analysed EXCEPT ![item.name] = @ \cup {local}]
      OBVIOUS
    <3>2. report' \in [succeeded : BOOLEAN, sha : Hash] /\ report'.sha \in {NoHash, local}
      <4>1. sha \in Hash
        BY DEF TypeOK
      <4>2. QED
        BY <3>1, <4>1
    <3>3. ~stop => local \in analysed'[item.name]
      <4>1. item.name \in Blob
        BY DEF Current, Handling, Item
      <4>2. ~stop => ~cut
        OBVIOUS
      <4>3. QED
        BY <3>1, <4>1, <4>2 DEF TypeOK
    <3>4. QED
      BY <3>2, <3>3 DEF Analysis, Fetched
  <2>5. Attempts'
    BY DEF TypeOK, Current, Attempts, Listing, OneAttemptPerStart, Handling, Unsettled, Claimed, Fetched, Untried, Marking
  <2>6. Truth'
    BY DEF TypeOK, Current, Analysis, Truth, AsListed, DoneMeansAnalysed, DoneMeansVerified, Handling, Unsettled, Claimed, Fetched, Untried, Marking
  <2>7. QED
    BY <2>1, <2>2, <2>3, <2>4, <2>5, <2>6
<1>16. ASSUME StepRaises PROVE Inv'
  <2> USE <1>16, Hashes DEF StepRaises, Goto, blobVars, histVars
  <2>1. TypeOK'
    BY DEF TypeOK, Handling, Unsettled, Claimed, Fetched, Untried, Current, Analysis, Attempts
  <2>2. Listing'
    BY DEF TypeOK, Listing, Current, AsListed, Handling, Unsettled, Claimed, Fetched, Untried, Marking, Attempts
  <2>3. Current'
    BY DEF TypeOK, Listing, Current, AsListed, Handling, Unsettled, Claimed, Fetched, Untried, Marking, Attempts
  <2>4. Analysis'
    BY DEF TypeOK, Current, Analysis, AsListed, Handling, Unsettled, Claimed, Fetched, Untried, Marking
  <2>5. Attempts'
    BY DEF TypeOK, Current, Attempts, Listing, OneAttemptPerStart, Handling, Unsettled, Claimed, Fetched, Untried, Marking
  <2>6. Truth'
    BY DEF TypeOK, Current, Analysis, Truth, AsListed, DoneMeansAnalysed, DoneMeansVerified, Handling, Unsettled, Claimed, Fetched, Untried, Marking
  <2>7. QED
    BY <2>1, <2>2, <2>3, <2>4, <2>5, <2>6
<1>17. ASSUME LeaveInterrupted PROVE Inv'
  <2> USE <1>17, Hashes DEF LeaveInterrupted, Goto, blobVars, histVars
  <2>1. TypeOK'
    BY DEF TypeOK, Handling, Unsettled, Claimed, Fetched, Untried, Current, Analysis, Attempts
  <2>2. Listing'
    BY DEF TypeOK, Listing, Current, AsListed, Handling, Unsettled, Claimed, Fetched, Untried, Marking, Attempts
  <2>3. Current'
    BY DEF TypeOK, Listing, Current, AsListed, Handling, Unsettled, Claimed, Fetched, Untried, Marking, Attempts
  <2>4. Analysis'
    BY DEF TypeOK, Current, Analysis, AsListed, Handling, Unsettled, Claimed, Fetched, Untried, Marking
  <2>5. Attempts'
    BY DEF TypeOK, Current, Attempts, Listing, OneAttemptPerStart, Handling, Unsettled, Claimed, Fetched, Untried, Marking
  <2>6. Truth'
    BY DEF TypeOK, Current, Analysis, Truth, AsListed, DoneMeansAnalysed, DoneMeansVerified, Handling, Unsettled, Claimed, Fetched, Untried, Marking
  <2>7. QED
    BY <2>1, <2>2, <2>3, <2>4, <2>5, <2>6
<1>18. ASSUME Judge PROVE Inv'
  <2> USE <1>18, Hashes DEF Judge, Goto, blobVars, histVars
  <2>1. TypeOK'
    BY DEF TypeOK, Handling, Unsettled, Claimed, Fetched, Untried, Current, Analysis, Attempts
  <2>2. Listing'
    BY DEF TypeOK, Listing, Current, AsListed, Handling, Unsettled, Claimed, Fetched, Untried, Marking, Attempts
  <2>3. Current'
    BY DEF TypeOK, Listing, Current, AsListed, Handling, Unsettled, Claimed, Fetched, Untried, Marking, Attempts
  <2>4. Analysis'
    BY DEF TypeOK, Current, Analysis, AsListed, Handling, Unsettled, Claimed, Fetched, Untried, Marking
  <2>5. Attempts'
    BY DEF TypeOK, Current, Attempts, Listing, OneAttemptPerStart, Handling, Unsettled, Claimed, Fetched, Untried, Marking
  <2>6. Truth'
    BY DEF TypeOK, Current, Analysis, Truth, AsListed, DoneMeansAnalysed, DoneMeansVerified, Handling, Unsettled, Claimed, Fetched, Untried, Marking
  <2>7. QED
    BY <2>1, <2>2, <2>3, <2>4, <2>5, <2>6
<1>19. ASSUME Publish PROVE Inv'
  <2> USE <1>19, Hashes DEF Publish, blobVars, histVars
  <2>1. TypeOK'
    <3>1. content' \in [Blob -> 0..MaxVersion]
      BY DEF TypeOK
    <3>2. meta' \in [Blob -> Meta] /\ order' \subseteq Blob \X Blob
      BY DEF TypeOK
    <3>3. pc' \in {"poll", "next", "sleep", "claim", "fetch", "unpack", "process", "analysing",
                   "judge", "verdict", "giveUp", "publish", "cleanup", "down"}
      BY DEF TypeOK
    <3>4. stop' \in BOOLEAN /\ firstPoll' \in BOOLEAN
      BY DEF TypeOK
    <3>5. items' \in Seq(Item) /\ item' \in Item \cup {None} /\ snapshot' \in Meta \cup {None}
      BY DEF TypeOK
    <3>6. local' \in 0..MaxVersion /\ report' \in [succeeded : BOOLEAN, sha : Hash] \cup {None}
      BY DEF TypeOK, Current, Item, Handling
    <3>7. attempts' \in [Blob -> Nat] /\ analysed' \in [Blob -> SUBSET (1..MaxVersion)]
      BY DEF TypeOK, Current, Analysis, Item, Handling, Fetched
    <3>8. published' \in [Blob -> SUBSET (1..MaxVersion)]
      BY DEF TypeOK, Current, Analysis, Item, Handling, Fetched
    <3>9. faults' \in 0..MaxFaults /\ starts' \in 1..MaxStarts
      BY DEF TypeOK
    <3>10. QED
      BY <3>1, <3>2, <3>3, <3>4, <3>5, <3>6, <3>7, <3>8, <3>9 DEF TypeOK
  <2>2. Listing'
    BY DEF TypeOK, Listing, Current, AsListed, Handling, Unsettled, Claimed, Fetched, Untried, Marking, Attempts
  <2>3. Current'
    BY DEF TypeOK, Listing, Current, AsListed, Handling, Unsettled, Claimed, Fetched, Untried, Marking, Attempts
  <2>4. Analysis'
    BY DEF TypeOK, Current, Analysis, AsListed, Handling, Unsettled, Claimed, Fetched, Untried, Marking
  <2>5. Attempts'
    BY DEF TypeOK, Current, Attempts, Listing, OneAttemptPerStart, Handling, Unsettled, Claimed, Fetched, Untried, Marking
  <2>6. Truth'
    BY DEF TypeOK, Current, Analysis, Truth, AsListed, DoneMeansAnalysed, DoneMeansVerified, Handling, Unsettled, Claimed, Fetched, Untried, Marking
  <2>7. QED
    BY <2>1, <2>2, <2>3, <2>4, <2>5, <2>6
<1>20. ASSUME Cleanup PROVE Inv'
  <2> USE <1>20, Hashes DEF Cleanup, blobVars, histVars
  <2>1. TypeOK'
    BY DEF TypeOK, Handling, Unsettled, Claimed, Fetched, Untried, Current, Analysis, Attempts
  <2>2. Listing'
    BY DEF TypeOK, Listing, Current, AsListed, Handling, Unsettled, Claimed, Fetched, Untried, Marking, Attempts
  <2>3. Current'
    BY DEF TypeOK, Listing, Current, AsListed, Handling, Unsettled, Claimed, Fetched, Untried, Marking, Attempts
  <2>4. Analysis'
    BY DEF TypeOK, Current, Analysis, AsListed, Handling, Unsettled, Claimed, Fetched, Untried, Marking
  <2>5. Attempts'
    BY DEF TypeOK, Current, Attempts, Listing, OneAttemptPerStart, Handling, Unsettled, Claimed, Fetched, Untried, Marking
  <2>6. Truth'
    BY DEF TypeOK, Current, Analysis, Truth, AsListed, DoneMeansAnalysed, DoneMeansVerified, Handling, Unsettled, Claimed, Fetched, Untried, Marking
  <2>7. QED
    BY <2>1, <2>2, <2>3, <2>4, <2>5, <2>6
<1>21. ASSUME RequestStop PROVE Inv'
  <2> USE <1>21, Hashes DEF RequestStop, blobVars, histVars
  <2>1. TypeOK'
    BY DEF TypeOK, Handling, Unsettled, Claimed, Fetched, Untried, Current, Analysis, Attempts
  <2>2. Listing'
    BY DEF TypeOK, Listing, Current, AsListed, Handling, Unsettled, Claimed, Fetched, Untried, Marking, Attempts
  <2>3. Current'
    BY DEF TypeOK, Listing, Current, AsListed, Handling, Unsettled, Claimed, Fetched, Untried, Marking, Attempts
  <2>4. Analysis'
    BY DEF TypeOK, Current, Analysis, AsListed, Handling, Unsettled, Claimed, Fetched, Untried, Marking
  <2>5. Attempts'
    BY DEF TypeOK, Current, Attempts, Listing, OneAttemptPerStart, Handling, Unsettled, Claimed, Fetched, Untried, Marking
  <2>6. Truth'
    BY DEF TypeOK, Current, Analysis, Truth, AsListed, DoneMeansAnalysed, DoneMeansVerified, Handling, Unsettled, Claimed, Fetched, Untried, Marking
  <2>7. QED
    BY <2>1, <2>2, <2>3, <2>4, <2>5, <2>6
<1>22. ASSUME Crash PROVE Inv'
  <2> USE <1>22, Hashes DEF Crash, ProcessGone, blobVars, histVars
  <2>1. TypeOK'
    <3>1. content' \in [Blob -> 0..MaxVersion]
      BY DEF TypeOK
    <3>2. meta' \in [Blob -> Meta] /\ order' \subseteq Blob \X Blob
      BY DEF TypeOK
    <3>3. pc' \in {"poll", "next", "sleep", "claim", "fetch", "unpack", "process", "analysing",
                   "judge", "verdict", "giveUp", "publish", "cleanup", "down"}
      BY DEF TypeOK
    <3>4. stop' \in BOOLEAN /\ firstPoll' \in BOOLEAN
      BY DEF TypeOK
    <3>5. items' \in Seq(Item) /\ item' \in Item \cup {None} /\ snapshot' \in Meta \cup {None}
      BY DEF TypeOK
    <3>6. local' \in 0..MaxVersion /\ report' \in [succeeded : BOOLEAN, sha : Hash] \cup {None}
      BY DEF TypeOK
    <3>7. attempts' \in [Blob -> Nat] /\ analysed' \in [Blob -> SUBSET (1..MaxVersion)]
      BY DEF TypeOK
    <3>8. published' \in [Blob -> SUBSET (1..MaxVersion)]
      BY DEF TypeOK
    <3>9. faults' \in 0..MaxFaults /\ starts' \in 1..MaxStarts
      BY DEF TypeOK
    <3>10. QED
      BY <3>1, <3>2, <3>3, <3>4, <3>5, <3>6, <3>7, <3>8, <3>9 DEF TypeOK
  <2>2. Listing'
    BY DEF TypeOK, Listing, Current, AsListed, Handling, Unsettled, Claimed, Fetched, Untried, Marking, Attempts
  <2>3. Current'
    BY DEF TypeOK, Listing, Current, AsListed, Handling, Unsettled, Claimed, Fetched, Untried, Marking, Attempts
  <2>4. Analysis'
    BY DEF TypeOK, Current, Analysis, AsListed, Handling, Unsettled, Claimed, Fetched, Untried, Marking
  <2>5. Attempts'
    BY DEF TypeOK, Current, Attempts, Listing, OneAttemptPerStart, Handling, Unsettled, Claimed, Fetched, Untried, Marking
  <2>6. Truth'
    BY DEF TypeOK, Current, Analysis, Truth, AsListed, DoneMeansAnalysed, DoneMeansVerified, Handling, Unsettled, Claimed, Fetched, Untried, Marking
  <2>7. QED
    BY <2>1, <2>2, <2>3, <2>4, <2>5, <2>6
<1>23. ASSUME Start PROVE Inv'
  <2> USE <1>23, Hashes DEF Start, blobVars, histVars
  <2>1. TypeOK'
    BY DEF TypeOK, Handling, Unsettled, Claimed, Fetched, Untried, Current, Analysis, Attempts
  <2>2. Listing'
    BY DEF TypeOK, Listing, Current, AsListed, Handling, Unsettled, Claimed, Fetched, Untried, Marking, Attempts
  <2>3. Current'
    BY DEF TypeOK, Listing, Current, AsListed, Handling, Unsettled, Claimed, Fetched, Untried, Marking, Attempts
  <2>4. Analysis'
    BY DEF TypeOK, Current, Analysis, AsListed, Handling, Unsettled, Claimed, Fetched, Untried, Marking
  <2>5. Attempts'
    BY DEF TypeOK, Current, Attempts, Listing, OneAttemptPerStart, Handling, Unsettled, Claimed, Fetched, Untried, Marking
  <2>6. Truth'
    BY DEF TypeOK, Current, Analysis, Truth, AsListed, DoneMeansAnalysed, DoneMeansVerified, Handling, Unsettled, Claimed, Fetched, Untried, Marking
  <2>7. QED
    BY <2>1, <2>2, <2>3, <2>4, <2>5, <2>6
<1>24. CASE UNCHANGED vars
  BY <1>24 DEF vars, blobVars, procVars, histVars, TypeOK, Listing, Current, AsListed, Analysis, Attempts, Truth,
       Handling, Unsettled, Claimed, Fetched, Untried, Marking, OneAttemptPerStart, DoneMeansAnalysed, DoneMeansVerified
<1>25. QED
  BY <1>1, <1>2, <1>3, <1>4, <1>5, <1>6, <1>7, <1>8, <1>9, <1>10, <1>11, <1>12, <1>13, <1>14, <1>15, <1>16, <1>17, <1>18, <1>19, <1>20, <1>21, <1>22, <1>23, <1>24 DEF Next, Step

\* The invariant holds in every state.
LEMMA InvAlways == ASSUME PatientUploaders PROVE Spec => []Inv
<1>1. Inv /\ [Next]_vars => Inv'
  BY InvNext
<1>2. QED
  BY <1>1, InvInit, PTL DEF Spec

-----------------------------------------------------------------------------

\* Every variable keeps its type, the bounds on faults and starts included.
THEOREM InboxTypeCorrect == ASSUME PatientUploaders PROVE Spec => []TypeOK
<1>1. Spec => []Inv
  BY InvAlways
<1>2. Inv => TypeOK
  BY DEF Inv
<1>3. QED
  BY <1>1, <1>2, PTL

\* No stop, crash, lost answer or restart makes a half-analysed image look
\* finished, if uploaders wait for the verdict on what they uploaded.
THEOREM DoneIsAnalysed == ASSUME PatientUploaders PROVE Spec => []DoneMeansAnalysed
<1>1. Spec => []Inv
  BY InvAlways
<1>2. Inv => DoneMeansAnalysed
  BY DEF Inv, Truth
<1>3. QED
  BY <1>1, <1>2, PTL

\* A "done" image whose uploader supplied a hash is the image that was hashed.
THEOREM DoneIsVerified == ASSUME PatientUploaders PROVE Spec => []DoneMeansVerified
<1>1. Spec => []Inv
  BY InvAlways
<1>2. Inv => DoneMeansVerified
  BY DEF Inv, Truth
<1>3. QED
  BY <1>1, <1>2, PTL

\* One start of the service analyses an image at most once, however many
\* metadata calls fail.
THEOREM AttemptsBounded == ASSUME PatientUploaders PROVE Spec => []OneAttemptPerStart
<1>1. Spec => []Inv
  BY InvAlways
<1>2. Inv => OneAttemptPerStart
  BY DEF Inv, Attempts
<1>3. QED
  BY <1>1, <1>2, PTL

\* A final status is only ever changed by a new upload, or from "done" to
\* "failed" when the results cannot be published.
THEOREM FinalStatusStays == ASSUME PatientUploaders PROVE Spec => FinalStays
<1> DEFINE Stays == \A b \in Blob : meta[b].status \in FinalStatus /\ content'[b] = content[b] =>
                      \/ meta'[b].status = meta[b].status
                      \/ meta'[b].status = "failed"
<1>1. Spec => []Inv
  BY InvAlways
<1>2. ASSUME Inv, Next PROVE Stays
  <2> USE <1>2
  <2>1. ASSUME NEW b \in Blob, Upload(b) PROVE Stays
    BY <2>1 DEF Upload, Inv, TypeOK
  <2>2. ASSUME WriteMark PROVE Stays
    <3>1. /\ item.name \in Blob
          /\ Marked.status = CASE pc = "claim" -> "processing" [] pc = "verdict" -> Verdict [] pc = "giveUp" -> "failed"
      BY <2>2, MarkedMeta DEF Inv, WriteMark
    <3>2. CASE pc = "giveUp"
      BY <2>2, <3>1, <3>2 DEF WriteMark, Inv, TypeOK
    <3>3. CASE pc \in {"claim", "verdict"}
      <4>1. meta[item.name].status \notin FinalStatus
        BY <3>3 DEF Inv, Current, Unsettled, AsListed, FinalStatus
      <4>2. QED
        BY <2>2, <4>1 DEF WriteMark, Inv, TypeOK
    <3>4. QED
      BY <2>2, <3>2, <3>3 DEF WriteMark, Marking
  <2>3. CASE UNCHANGED meta
    BY <2>3
  <2>4. QED
    BY <1>2, <2>1, <2>2, <2>3
       DEF Next, Step, Poll, PollFails, TakeItem, EndRound, WakeUp, Exit, MarkRead, MarkWrite, MarkAnswerLost,
           MarkFails, Download, Unpack, BeginAnalysis, EndAnalysis, StepRaises, LeaveInterrupted, Judge, Publish,
           Cleanup, RequestStop, Crash, Start, Goto, ProcessGone, blobVars
<1>3. ASSUME Inv, UNCHANGED vars PROVE Stays
  BY <1>3 DEF vars, blobVars
<1>4. Inv /\ [Next]_vars => [Stays]_vars
  BY <1>2, <1>3
<1>5. QED
  BY <1>1, <1>4, PTL DEF Spec, FinalStays

-----------------------------------------------------------------------------
(* Oldest first.  Two more invariants, on top of Inv: an interrupted image is *)
(* not forgotten, what is listed is in the order of modification, and nothing *)
(* that waits is passed over.                                                 *)

\* An image whose handling was interrupted, and no mark failed.
Halfway(b) == content[b] > 0 /\ meta[b].status = "processing" /\ faults = 0

\* An interrupted image is in hand or listed, or the service is stopping, or it
\* has yet to make its first listing.
Interrupted ==
  /\ \A b \in Blob : Halfway(b) =>
       firstPoll \/ stop \/ (\E i \in DOMAIN items : items[i].name = b) \/ (Handling /\ b = item.name)
  /\ pc \in {"publish", "cleanup"} /\ Halfway(item.name) => stop

\* b was modified before something still on the listing.
BeforeListed(b) == \E j \in DOMAIN items : <<b, items[j].name>> \in order

\* Modification times order the images.
Times == \A b, c \in Blob : <<b, c>> \in order => b # c /\ <<c, b>> \notin order

\* Whatever waits and was modified before a listed image is listed before it,
\* or is the image in hand.
Ahead ==
  \A j \in DOMAIN items, b \in Blob :
    Waiting(b) /\ <<b, items[j].name>> \in order =>
      \/ \E i \in DOMAIN items : i < j /\ items[i].name = b
      \/ Handling /\ b = item.name

\* The image in hand was claimed, or is being given up without a failed call.
Passing == Handling /\ pc # "claim" /\ (pc = "giveUp" => faults = 0)

\* From then on it is ahead of nothing listed: its mark put it behind them all,
\* and if it waits untouched it was uploaded again.
LeftWaiting == Passing /\ Waiting(item.name) => ~BeforeListed(item.name)

InTurn == Times /\ Ahead /\ LeftWaiting /\ OldestFirst

\* An injection of n names into n names leaves none out.
LEMMA AllListed ==
  ASSUME NEW S, IsFiniteSet(S), NEW names \in SetToSeqs(S), NEW b \in S
  PROVE  /\ DOMAIN names = 1..Cardinality(S)
         /\ Cardinality(S) \in Nat
         /\ \E i \in 1..Cardinality(S) : names[i] = b
<1> DEFINE n == Cardinality(S)
<1>1. n \in Nat
  BY FS_CardinalityType
<1>2. names \in [1..n -> S] /\ \A i, j \in 1..n : i # j => names[i] # names[j]
  BY DEF SetToSeqs
<1>3. IsFiniteSet(1..n) /\ Cardinality(1..n) = n
  BY <1>1, FS_Interval
<1> HIDE DEF n
<1>4. names \in Injection(1..n, S)
  BY <1>2 DEF Injection, IsInjective
<1>5. names \in Surjection(1..n, S)
  BY <1>3, <1>4, FS_Injection DEF n
<1>6. \E i \in 1..n : names[i] = b
  BY <1>5 DEF Surjection
<1>7. QED
  BY <1>1, <1>2, <1>6 DEF n

\* The listing leaves out nothing that waits, and is in the order of
\* modification.
LEMMA PendingOrder ==
  ASSUME TypeOK, NEW listing \in Pending
  PROVE  /\ \A b \in Blob : Wanted(b) => \E i \in DOMAIN listing : listing[i].name = b
         /\ \A i, j \in DOMAIN listing : i < j => <<listing[i].name, listing[j].name>> \in order
         /\ DOMAIN listing \subseteq Nat
<1> DEFINE wanted == {b \in Blob : Wanted(b)}
<1>1. PICK names \in SetToSeqs(wanted) :
        /\ \A i, j \in DOMAIN names : i < j => <<names[i], names[j]>> \in order
        /\ listing = [i \in DOMAIN names |-> [name |-> names[i], claim |-> meta[names[i]].claim]]
  BY DEF Pending
<1>2. IsFiniteSet(wanted)
  BY InboxAssumption, FS_Subset DEF InboxAssumption
<1>3. \A b \in Blob : Wanted(b) => b \in wanted
  OBVIOUS
<1> HIDE DEF wanted
<1>4. DOMAIN listing = DOMAIN names /\ \A i \in DOMAIN names : listing[i].name = names[i]
  BY <1>1
<1>5. \A b \in wanted : \E i \in DOMAIN names : names[i] = b
  BY <1>2, AllListed
<1>6. DOMAIN names \subseteq Nat
  <2>1. DOMAIN names = 1..Cardinality(wanted)
    BY DEF SetToSeqs
  <2>2. Cardinality(wanted) \in Nat
    BY <1>2, FS_CardinalityType
  <2>3. QED
    BY <2>1, <2>2
<1>7. QED
  BY <1>1, <1>3, <1>4, <1>5, <1>6

\* Nothing begins to wait by a call that fails.
LEMMA WaitingShrinks ==
  ASSUME NEW b \in Blob, faults \in Nat, faults' \in Nat, faults' >= faults,
         content'[b] = content[b], meta'[b] = meta[b]
  PROVE  (Waiting(b)' => Waiting(b)) /\ (Halfway(b)' => Halfway(b))
  BY DEF Waiting, Halfway

\* What a step leaves alone stays in turn.
LEMMA TurnFrame ==
  ASSUME Inv, InTurn, UNCHANGED <<content, meta, order, items, item>>,
         faults' \in Nat, faults' >= faults, Handling => Handling',
         pc' = "claim" => pc = "claim",
         LeftWaiting'
  PROVE  InTurn'
<1>1. faults \in Nat
  BY DEF Inv, TypeOK
<1>2. Times'
  BY DEF InTurn, Times
<1>3. \A b \in Blob : Waiting(b)' => Waiting(b)
  BY <1>1, WaitingShrinks
<1>4. Ahead'
  BY <1>3 DEF InTurn, Ahead
<1>5. OldestFirst'
  BY <1>3 DEF InTurn, OldestFirst
<1>6. QED
  BY <1>2, <1>4, <1>5 DEF InTurn

\* When b is modified, it goes behind every other; nothing else changes places.
LEMMA TouchedOrder ==
  ASSUME Times, NEW b \in Blob
  PROVE  /\ \A c, d \in Blob : d # b => (<<c, d>> \in Touched(b) <=> c # b /\ <<c, d>> \in order)
         /\ \A c \in Blob : <<b, c>> \notin Touched(b)
         /\ \A c, d \in Blob : <<c, d>> \in Touched(b) => c # d /\ <<d, c>> \notin Touched(b)
<1>1. \A c, d \in Blob : d # b => (<<c, d>> \in Touched(b) <=> c # b /\ <<c, d>> \in order)
  BY DEF Touched
<1>2. \A c \in Blob : <<b, c>> \notin Touched(b)
  BY DEF Touched
<1>3. \A c, d \in Blob : <<c, d>> \in Touched(b) => c # d /\ <<d, c>> \notin Touched(b)
  BY <1>1, <1>2 DEF Times
<1>4. QED
  BY <1>1, <1>2, <1>3

\* The names on the listing are names.
LEMMA ListedNames == ASSUME TypeOK PROVE \A j \in DOMAIN items : items[j].name \in Blob
<1> SUFFICES ASSUME NEW j \in DOMAIN items PROVE items[j].name \in Blob
  OBVIOUS
<1>1. items[j] \in Item
  BY DEF TypeOK
<1>2. QED
  BY <1>1 DEF Item

\* An upload goes behind everything listed and claimed.
LEMMA TurnUpload ==
  ASSUME PatientUploaders, Inv, InTurn, NEW b \in Blob, Upload(b)
  PROVE  InTurn'
<1>1. /\ order' = Touched(b)
      /\ content[b] = 0 \/ meta[b].status \in FinalStatus
      /\ \A c \in Blob \ {b} : content'[c] = content[c] /\ meta'[c] = meta[c]
      /\ UNCHANGED <<pc, items, item, faults>>
  BY Hashes DEF Upload, procVars, Inv, TypeOK, PatientUploaders
<1>2. \A j \in DOMAIN items : items[j].name \in Blob /\ items[j].name # b
  <2> SUFFICES ASSUME NEW j \in DOMAIN items PROVE items[j].name \in Blob /\ items[j].name # b
    OBVIOUS
  <2>1. items[j].name \in Blob
    BY ListedNames DEF Inv
  <2>2. content[items[j].name] > 0 /\ meta[items[j].name].status \in {"none", "processing"}
    BY DEF Inv, Listing, AsListed
  <2>3. QED
    BY <1>1, <2>1, <2>2 DEF FinalStatus
<1>3. Times'
  <2>1. \A c, d \in Blob : <<c, d>> \in order' => c # d /\ <<d, c>> \notin order'
    BY <1>1, TouchedOrder DEF InTurn
  <2>2. QED
    BY <2>1 DEF Times
<1>4. /\ \A c \in Blob \ {b} : Waiting(c)' => Waiting(c)
      /\ \A c \in Blob : <<b, c>> \notin order'
      /\ \A c, d \in Blob : d # b /\ <<c, d>> \in order' => c # b /\ <<c, d>> \in order
  <2>1. \A c \in Blob \ {b} : Waiting(c)' => Waiting(c)
    BY <1>1 DEF Waiting
  <2>2. QED
    BY <1>1, <2>1, TouchedOrder DEF InTurn
<1>5. Ahead'
  BY <1>1, <1>2, <1>4 DEF InTurn, Ahead, Handling
<1>6. LeftWaiting'
  <2>1. Handling => item.name \in Blob
    BY DEF Inv, Current, Item
  <2>2. ASSUME Handling, item.name = b PROVE ~BeforeListed(item.name)'
    BY <1>1, <1>2, <1>4, <2>2 DEF BeforeListed
  <2>3. ASSUME item.name \in Blob \ {b}
        PROVE  /\ BeforeListed(item.name)' => BeforeListed(item.name)
               /\ Waiting(item.name)' => Waiting(item.name)
    BY <1>1, <1>2, <1>4, <2>3 DEF BeforeListed
  <2>4. QED
    BY <1>1, <2>1, <2>2, <2>3 DEF InTurn, LeftWaiting, Passing, Handling
<1>7. OldestFirst'
  <2>1. pc = "claim" => item.name \in Blob \ {b}
    BY <1>1, Hashes DEF Inv, TypeOK, Current, Handling, Unsettled, Item, AsListed
  <2>2. QED
    BY <1>1, <1>4, <2>1 DEF InTurn, OldestFirst
<1>8. QED
  BY <1>3, <1>5, <1>6, <1>7 DEF InTurn

\* A mark sends the image in hand behind every other.
LEMMA TurnMark ==
  ASSUME Inv, InTurn, WriteMark, UNCHANGED <<content, items, item>>,
         faults' \in Nat, faults' >= faults,
         pc' \in {"fetch", "publish", "giveUp", "cleanup"}
  PROVE  InTurn'
<1>1. /\ item.name \in Blob
      /\ order' = Touched(item.name)
      /\ meta' = [meta EXCEPT ![item.name] = Marked]
      /\ Handling
  BY MarkedMeta DEF Inv, WriteMark, Marking, Handling
<1>2. \A c \in Blob \ {item.name} : meta'[c] = meta[c]
  BY <1>1 DEF Inv, TypeOK
<1>3. \A j \in DOMAIN items : items[j].name \in Blob \ {item.name}
  BY <1>1, ListedNames DEF Inv, Listing
<1>4. Times'
  BY <1>1, TouchedOrder DEF InTurn, Times
<1>5. \A c \in Blob : <<item.name, c>> \notin order'
  BY <1>1, TouchedOrder DEF InTurn
<1>6. Ahead'
  <2>1. SUFFICES ASSUME NEW j \in DOMAIN items, NEW b \in Blob,
                        Waiting(b)', <<b, items[j].name>> \in order'
                 PROVE  \E i \in DOMAIN items : i < j /\ items[i].name = b
    BY DEF Ahead
  <2>2. b # item.name
    BY <1>3, <1>5, <2>1
  <2>3. Waiting(b)
    BY <1>2, <2>1, <2>2, WaitingShrinks DEF Inv, TypeOK
  <2>4. <<b, items[j].name>> \in order
    BY <1>1, <1>3, <2>1, TouchedOrder DEF InTurn
  <2>5. QED
    BY <2>1, <2>2, <2>3, <2>4 DEF InTurn, Ahead
<1>7. ~BeforeListed(item.name)'
  BY <1>3, <1>5 DEF BeforeListed
<1>8. LeftWaiting' /\ OldestFirst'
  BY <1>7 DEF LeftWaiting, OldestFirst
<1>9. QED
  BY <1>4, <1>6, <1>8 DEF InTurn

\* At first nothing is listed and nothing was modified.
LEMMA TurnInit == Init => InTurn /\ Interrupted
  BY DEF Init, InTurn, Times, Ahead, LeftWaiting, OldestFirst, BeforeListed, Interrupted, Halfway

\* No step forgets an interrupted image.
LEMMA InterruptedNext == ASSUME PatientUploaders PROVE Inv /\ Interrupted /\ [Next]_vars => Interrupted'
<1> SUFFICES ASSUME Inv, Interrupted, [Next]_vars PROVE Interrupted'
  OBVIOUS
<1>0. faults \in Nat /\ TypeOK
  BY DEF Inv, TypeOK
<1>1. ASSUME NEW b \in Blob, Upload(b) PROVE Interrupted'
  <2>1. /\ meta'[b].status = "none"
        /\ \A c \in Blob \ {b} : content'[c] = content[c] /\ meta'[c] = meta[c]
        /\ UNCHANGED <<pc, stop, firstPoll, items, item, faults>>
    BY <1>0, <1>1, Hashes DEF Upload, procVars, TypeOK, NoMeta, Meta
  <2>2. \A c \in Blob : Halfway(c)' => c # b /\ Halfway(c)
    BY <2>1 DEF Halfway
  <2>3. Handling => item.name \in Blob
    BY DEF Inv, Current, Item
  <2>4. QED
    BY <2>1, <2>2, <2>3 DEF Interrupted, Handling
<1>2. ASSUME Poll PROVE Interrupted'
  <2>1. /\ items' \in Pending /\ UNCHANGED <<content, meta, faults, stop>>
        /\ pc = "poll" /\ pc' = "next" /\ ~stop
    BY <1>2 DEF Poll, blobVars, histVars
  <2>2. items = <<>>
    BY <2>1 DEF Inv, Listing, Handling
  <2>3. \A b \in Blob : Halfway(b) => Wanted(b)
    BY <2>1, <2>2 DEF Interrupted, Halfway, Wanted, Handling
  <2>4. \A b \in Blob : Halfway(b) => \E i \in DOMAIN items' : items'[i].name = b
    BY <1>0, <2>1, <2>3, PendingOrder
  <2>5. QED
    BY <2>1, <2>4 DEF Interrupted, Halfway
<1>3. ASSUME TakeItem PROVE Interrupted'
  <2>1. /\ item' = items[1] /\ items' = Tail(items) /\ items # <<>> /\ items \in Seq(Item)
        /\ pc = "next" /\ pc' = "claim"
        /\ UNCHANGED <<content, meta, faults, stop, firstPoll>>
    BY <1>0, <1>3 DEF TakeItem, blobVars, histVars, TypeOK
  <2>2. \A i \in DOMAIN items : items[i] = item' \/ \E j \in DOMAIN items' : items'[j] = items[i]
    <3>1. /\ Len(items) \in Nat /\ DOMAIN items = 1..Len(items)
          /\ DOMAIN items' = 1..(Len(items) - 1)
          /\ \A j \in DOMAIN items' : items'[j] = items[j + 1]
      BY <2>1
    <3>2. \A i \in DOMAIN items : i = 1 \/ (i - 1 \in DOMAIN items' /\ items'[i - 1] = items[i])
      BY <3>1
    <3>3. QED
      BY <2>1, <3>2
  <2>3. \A b \in Blob : Halfway(b)' => Halfway(b)
    BY <2>1 DEF Halfway
  <2>4. QED
    BY <2>1, <2>2, <2>3 DEF Interrupted, Handling
<1>4. ASSUME EndRound PROVE Interrupted'
  <2>1. UNCHANGED <<content, meta, faults, stop, firstPoll>> /\ (stop \/ items = <<>>) /\ pc = "next" /\ pc' = "sleep"
    BY <1>4 DEF EndRound, blobVars, histVars
  <2>2. QED
    BY <2>1 DEF Interrupted, Halfway, Handling
<1>5. ASSUME Exit \/ Crash PROVE Interrupted'
  BY <1>5 DEF Exit, Crash, ProcessGone, Interrupted
<1>6. ASSUME MarkWrite \/ MarkAnswerLost PROVE Interrupted'
  <2>1. WriteMark /\ Marking /\ UNCHANGED <<content, items, item, stop, firstPoll>> /\ faults' \in {faults, faults + 1}
    BY <1>6 DEF MarkWrite, MarkAnswerLost, WriteMark, histVars
  <2>2. /\ item.name \in Blob /\ Handling
        /\ meta' = [meta EXCEPT ![item.name] = Marked]
        /\ Marked.status = CASE pc = "claim" -> "processing" [] pc = "verdict" -> Verdict [] pc = "giveUp" -> "failed"
    BY <2>1, MarkedMeta DEF Inv, WriteMark, Marking, Handling
  <2>3. /\ pc' \in {"fetch", "publish", "giveUp", "cleanup"}
        /\ pc' \in {"publish", "cleanup"} => pc # "claim"
    BY <1>6, <2>1 DEF MarkWrite, MarkAnswerLost, AfterMark, AfterFailedMark, Marking
  <2>4. Handling'
    BY <2>3 DEF Handling
  <2>5. \A b \in Blob \ {item.name} : Halfway(b)' => Halfway(b)
    <3>1. \A b \in Blob \ {item.name} : meta'[b] = meta[b] /\ content'[b] = content[b]
      BY <1>0, <2>1, <2>2 DEF TypeOK
    <3>2. QED
      BY <1>0, <2>1, <3>1, WaitingShrinks
  <2>6. pc' \in {"publish", "cleanup"} => ~Halfway(item.name)'
    <3>1. meta'[item.name] = Marked
      BY <1>0, <2>2 DEF TypeOK
    <3>2. pc # "claim" => Marked.status # "processing"
      BY <2>1, <2>2 DEF Marking, Verdict
    <3>3. QED
      BY <2>1, <2>3, <3>1, <3>2 DEF Halfway
  <2>7. QED
    BY <2>1, <2>2, <2>4, <2>5, <2>6 DEF Interrupted
<1>7. ASSUME MarkFails PROVE Interrupted'
  BY <1>0, <1>7 DEF MarkFails, Interrupted, Halfway
<1>8. ASSUME \/ PollFails \/ WakeUp \/ MarkRead \/ Download \/ Unpack \/ BeginAnalysis \/ EndAnalysis \/ Judge
             \/ RequestStop \/ Start \/ StepRaises \/ LeaveInterrupted \/ Publish \/ UNCHANGED vars
      PROVE  Interrupted'
  <2>1. /\ UNCHANGED <<content, meta, items, item, faults, firstPoll>>
        /\ stop => stop'
        /\ Handling => Handling'
        /\ pc' \in {"publish", "cleanup"} => stop' \/ pc \in {"publish", "cleanup"}
    BY <1>0, <1>8 DEF PollFails, WakeUp, MarkRead, Download, Unpack, BeginAnalysis, EndAnalysis, Judge, RequestStop,
                Start, StepRaises, LeaveInterrupted, Publish, vars, procVars, TypeOK, Goto, Handling, blobVars, histVars
  <2>2. \A b \in Blob : Halfway(b)' <=> Halfway(b)
    BY <2>1 DEF Halfway
  <2>3. Halfway(item.name)' <=> Halfway(item.name)
    BY <2>1 DEF Halfway
  <2>4. ASSUME NEW b \in Blob, Halfway(b)'
        PROVE  firstPoll' \/ stop' \/ (\E i \in DOMAIN items' : items'[i].name = b) \/ (Handling' /\ b = item'.name)
    <3>1. firstPoll \/ stop \/ (\E i \in DOMAIN items : items[i].name = b) \/ (Handling /\ b = item.name)
      BY <2>2, <2>4 DEF Interrupted
    <3>2. QED
      BY <2>1, <3>1
  <2>5. pc' \in {"publish", "cleanup"} /\ Halfway(item.name)' => stop'
    BY <2>1, <2>3 DEF Interrupted
  <2>6. QED
    BY <2>4, <2>5 DEF Interrupted
<1>9. ASSUME Cleanup PROVE Interrupted'
  <2>1. /\ pc = "cleanup" /\ pc' = "next"
        /\ UNCHANGED <<content, meta, items, faults, firstPoll, stop>>
    BY <1>9 DEF Cleanup, blobVars, histVars
  <2>2. \A b \in Blob : Halfway(b)' => Halfway(b)
    BY <2>1 DEF Halfway
  <2>3. QED
    BY <2>1, <2>2 DEF Interrupted
<1>10. QED
  BY <1>1, <1>2, <1>3, <1>4, <1>5, <1>6, <1>7, <1>8, <1>9 DEF Next, Step

\* Every step keeps the order.
LEMMA TurnNext == ASSUME PatientUploaders PROVE Inv /\ Interrupted /\ InTurn /\ [Next]_vars => InTurn'
<1> SUFFICES ASSUME Inv, Interrupted, InTurn, [Next]_vars PROVE InTurn'
  OBVIOUS
<1>0. faults \in Nat /\ TypeOK
  BY DEF Inv, TypeOK
<1>1. ASSUME NEW b \in Blob, Upload(b) PROVE InTurn'
  BY <1>1, TurnUpload
<1>2. ASSUME Poll PROVE InTurn'
  <2>1. /\ items' \in Pending /\ UNCHANGED <<content, meta, order, faults>>
        /\ pc = "poll" /\ pc' = "next" /\ ~stop /\ Times
    BY <1>2 DEF Poll, blobVars, histVars, InTurn
  <2>a. \A b \in Blob : Waiting(b) => Wanted(b)
    <3>1. items = <<>> /\ ~Handling
      BY <2>1 DEF Inv, Listing, Handling
    <3>2. QED
      BY <2>1, <3>1 DEF Interrupted, Halfway, Waiting, Wanted
  <2>2. Ahead'
    <3>1. SUFFICES ASSUME NEW j \in DOMAIN items', NEW b \in Blob, Waiting(b), <<b, items'[j].name>> \in order
                   PROVE  \E i \in DOMAIN items' : i < j /\ items'[i].name = b
      BY <2>1 DEF Ahead, Waiting
    <3>2. PICK i \in DOMAIN items' : items'[i].name = b
      BY <1>0, <2>1, <2>a, <3>1, PendingOrder
    <3>3. i \in Nat /\ j \in Nat /\ items'[j].name \in Blob
      BY <1>0, <2>1, PendingOrder, PendingType
    <3>4. i # j
      BY <2>1, <3>1, <3>2, <3>3 DEF Times
    <3>5. ~(j < i)
      <4>1. j < i => <<items'[j].name, b>> \in order
        BY <1>0, <2>1, <3>2, PendingOrder
      <4>2. QED
        BY <2>1, <3>1, <3>3, <4>1 DEF Times
    <3>6. QED
      BY <3>2, <3>3, <3>4, <3>5
  <2>3. Times' /\ LeftWaiting' /\ OldestFirst'
    BY <2>1 DEF Times, LeftWaiting, Passing, Handling, OldestFirst
  <2>4. QED
    BY <2>2, <2>3 DEF InTurn
<1>3. ASSUME TakeItem PROVE InTurn'
  <2>1. /\ item' = items[1] /\ items' = Tail(items) /\ items # <<>> /\ items \in Seq(Item)
        /\ pc = "next" /\ pc' = "claim"
        /\ UNCHANGED <<content, meta, order, faults>>
    BY <1>0, <1>3 DEF TakeItem, blobVars, histVars, TypeOK
  <2>2. /\ Len(items) \in Nat /\ Len(items) >= 1 /\ DOMAIN items = 1..Len(items)
        /\ DOMAIN items' = 1..(Len(items) - 1)
        /\ \A j \in DOMAIN items' : items'[j] = items[j + 1]
    BY <2>1
  <2>3. \A j \in DOMAIN items, b \in Blob : Waiting(b) /\ <<b, items[j].name>> \in order =>
                                            \E i \in DOMAIN items : i < j /\ items[i].name = b
    BY <2>1 DEF InTurn, Ahead, Handling
  <2>4. Ahead'
    <3>1. SUFFICES ASSUME NEW j \in DOMAIN items', NEW b \in Blob,
                          Waiting(b), <<b, items'[j].name>> \in order
                   PROVE  \/ \E i \in DOMAIN items' : i < j /\ items'[i].name = b
                          \/ b = items[1].name
      BY <2>1 DEF Ahead, Waiting, Handling
    <3>2. PICK i \in DOMAIN items : i < j + 1 /\ items[i].name = b
      BY <2>2, <2>3, <3>1
    <3>3. CASE i = 1
      BY <3>2, <3>3
    <3>4. CASE i # 1
      <4>1. i - 1 \in DOMAIN items' /\ i - 1 < j /\ items'[i - 1] = items[i]
        BY <2>2, <3>2, <3>4
      <4>2. QED
        BY <3>2, <4>1
    <3>5. QED
      BY <3>3, <3>4
  <2>5. OldestFirst'
    <3>1. ASSUME NEW b \in Blob, Waiting(b) PROVE <<b, items[1].name>> \notin order
      BY <2>2, <2>3, <3>1
    <3>2. QED
      BY <2>1, <3>1 DEF OldestFirst, Waiting
  <2>6. Times' /\ LeftWaiting'
    BY <2>1 DEF InTurn, Times, LeftWaiting, Passing
  <2>7. QED
    BY <2>4, <2>5, <2>6 DEF InTurn
<1>4. ASSUME items' = <<>>, pc' \in {"sleep", "down"}, UNCHANGED order PROVE InTurn'
  BY <1>4 DEF InTurn, Times, Ahead, LeftWaiting, Passing, Handling, OldestFirst
<1>5. CASE EndRound \/ Exit \/ Crash
  BY <1>4, <1>5 DEF EndRound, Exit, Crash, ProcessGone, blobVars
<1>6. CASE MarkWrite \/ MarkAnswerLost
  <2>1. WriteMark /\ Marking /\ UNCHANGED <<content, items, item>> /\ faults' \in {faults, faults + 1}
    BY <1>6 DEF MarkWrite, MarkAnswerLost, WriteMark, histVars
  <2>2. pc' \in {"fetch", "publish", "giveUp", "cleanup"}
    BY <1>6, <2>1 DEF MarkWrite, MarkAnswerLost, AfterMark, AfterFailedMark, Marking
  <2>3. QED
    BY <1>0, <2>1, <2>2, TurnMark
<1>7. CASE MarkFails
  <2>1. /\ Marking /\ UNCHANGED <<content, meta, order, items, item>> /\ faults' = faults + 1
        /\ pc' = AfterFailedMark
    BY <1>7 DEF MarkFails, blobVars
  <2>2. LeftWaiting'
    <3>1. CASE pc = "giveUp" /\ faults = 0
      <4>1. Handling /\ item.name \in Blob
        BY <3>1 DEF Inv, Current, Handling, Item
      <4>2. Waiting(item.name)' => Waiting(item.name)
        BY <1>0, <2>1, <4>1, WaitingShrinks
      <4>3. QED
        BY <2>1, <3>1, <4>1, <4>2 DEF InTurn, LeftWaiting, Passing, BeforeListed
    <3>2. CASE pc = "giveUp" /\ faults # 0
      BY <1>0, <2>1, <3>2 DEF LeftWaiting, Waiting
    <3>3. CASE pc # "giveUp"
      BY <1>0, <2>1, <3>3 DEF LeftWaiting, Passing, AfterFailedMark
    <3>4. QED
      BY <3>1, <3>2, <3>3
  <2>3. Handling' /\ pc' # "claim"
    BY <2>1 DEF Handling, AfterFailedMark
  <2>4. QED
    BY <1>0, <2>1, <2>2, <2>3, TurnFrame
<1>8. CASE StepRaises \/ LeaveInterrupted \/ Publish
           \/ PollFails \/ WakeUp \/ MarkRead \/ Download \/ Unpack \/ BeginAnalysis \/ EndAnalysis \/ Judge
           \/ RequestStop \/ Start
  <2>1. /\ UNCHANGED <<content, meta, order, items, item, faults>>
        /\ Handling => Handling'
        /\ pc' = "claim" => pc = "claim"
        /\ Passing' => Passing
    BY <1>8 DEF StepRaises, LeaveInterrupted, Publish, PollFails, WakeUp, MarkRead, Download, Unpack, BeginAnalysis,
                EndAnalysis, Judge, RequestStop, Start, Goto, Handling, Passing, blobVars, histVars
  <2>2. LeftWaiting'
    BY <2>1 DEF InTurn, LeftWaiting, Waiting, BeforeListed
  <2>3. QED
    BY <1>0, <2>1, <2>2, TurnFrame
<1>9. CASE Cleanup
  <2>1. /\ pc = "cleanup" /\ pc' = "next" /\ UNCHANGED <<content, meta, order, items, faults>>
    BY <1>9 DEF Cleanup, blobVars, histVars
  <2>2. Ahead'
    BY <2>1 DEF InTurn, Ahead, LeftWaiting, Passing, Handling, BeforeListed, Waiting
  <2>3. Times' /\ LeftWaiting' /\ OldestFirst'
    BY <2>1 DEF InTurn, Times, LeftWaiting, Passing, Handling, OldestFirst
  <2>4. QED
    BY <2>2, <2>3 DEF InTurn
<1>10. CASE UNCHANGED vars
  BY <1>10 DEF vars, blobVars, procVars, histVars, InTurn, Times, Ahead, LeftWaiting, Passing, OldestFirst, Waiting, BeforeListed,
               Handling
<1>11. QED
  BY <1>1, <1>2, <1>3, <1>5, <1>6, <1>7, <1>8, <1>9, <1>10 DEF Next, Step

\* Oldest first, by last modification: no image is taken up before one that was
\* modified earlier and waits, be it untouched, as long as fewer than two metadata
\* calls failed, or interrupted, as long as none did.
THEOREM OldestTakenFirst == ASSUME PatientUploaders PROVE Spec => []OldestFirst
<1>1. Spec => []Inv
  BY InvAlways
<1>2. Inv /\ Interrupted /\ [Next]_vars => Interrupted'
  BY InterruptedNext
<1>3. Spec => []Interrupted
  BY <1>1, <1>2, TurnInit, PTL DEF Spec
<1>4. Inv /\ Interrupted /\ InTurn /\ [Next]_vars => InTurn'
  BY TurnNext
<1>5. Spec => []InTurn
  BY <1>1, <1>3, <1>4, TurnInit, PTL DEF Spec
<1>6. InTurn => OldestFirst
  BY DEF InTurn
<1>7. QED
  BY <1>5, <1>6, PTL
=============================================================================
