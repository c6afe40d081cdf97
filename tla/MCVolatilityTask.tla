-------------------------- MODULE MCVolatilityTask --------------------------
(***************************************************************************)
(* Two operating systems to try and two plugins, one with the strings      *)
(* pre-pass, one that dumps files, which are scanned.                      *)
(***************************************************************************)
EXTENDS VolatilityTask

CONSTANTS stringsTask, dumpFiles, clamScan

MCPlugin == {stringsTask, dumpFiles}
MCDumpsFiles == {dumpFiles}
MCScan == {clamScan}
MCUsesStrings == {stringsTask}
=============================================================================
