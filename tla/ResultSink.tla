----------------------------- MODULE ResultSink -----------------------------
(***************************************************************************)
(* sinks.py, ResultSink: what the pipeline is promised.  open() prepares a *)
(* destination for one image, ingest() puts the image's tables there, and  *)
(* no destination ever holds the rows of two images.                       *)
(***************************************************************************)
EXTENDS Integers

CONSTANTS
  Destination,    \* what open() may return
  NoDestination,
  SinkTable       \* the tables of an image

VARIABLES
  image,        \* how many images were opened so far
  destination,  \* of the image in process
  delivered     \* the rows: [to, image, table]

sinkVars == <<image, destination, delivered>>

SinkInit == image = 0 /\ destination = NoDestination /\ delivered = {}

OpenFor(d) ==
  /\ destination = NoDestination
  /\ \A rows \in delivered : rows.to # d
  /\ image' = image + 1
  /\ destination' = d
  /\ UNCHANGED delivered

Deliver(table) ==
  /\ destination # NoDestination
  /\ delivered' = delivered \cup {[to |-> destination, image |-> image, table |-> table]}
  /\ UNCHANGED <<image, destination>>

\* The image is done with, or the process is gone.
Leave ==
  /\ destination' = NoDestination
  /\ UNCHANGED <<image, delivered>>

SinkNext ==
  \/ \E d \in Destination : OpenFor(d)
  \/ \E table \in SinkTable : Deliver(table)
  \/ Leave

SinkSpec == SinkInit /\ [][SinkNext]_sinkVars

-----------------------------------------------------------------------------
\* "Prepare a destination for one image": none ever holds the rows of two.
NoMixing == \A r, s \in delivered : r.to = s.to => r.image = s.image
=============================================================================
