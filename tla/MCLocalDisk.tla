---------------------------- MODULE MCLocalDisk ----------------------------
(***************************************************************************)
(* A compressed image that unpacks to the name of another one, uploaded as *)
(* it is: ram.raw.gz and ram.raw.                                          *)
(***************************************************************************)
EXTENDS LocalDisk

MCBlob == {"ram.raw.gz", "ram.raw"}
MCWrapped == {"ram.raw.gz"}
MCDownloadPath == [b \in MCBlob |-> b]
MCImagePath == [b \in MCBlob |-> "ram.raw"]
OnlyFinal == FinalStatus
=============================================================================
