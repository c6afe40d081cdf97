--------------------------- MODULE MCInboxWatcher ---------------------------
(***************************************************************************)
(* Small instances of InboxWatcher for TLC: two names, uploaded up to      *)
(* twice.                                                                  *)
(***************************************************************************)
EXTENDS InboxWatcher, TLC

CONSTANTS first, second

MCBlob == {first, second}
Names == Permutations(MCBlob)
OneBlob == {first}
AnyStatus == BlobStatus
OnlyFinal == FinalStatus
=============================================================================
