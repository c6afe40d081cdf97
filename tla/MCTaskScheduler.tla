-------------------------- MODULE MCTaskScheduler --------------------------
(***************************************************************************)
(* A small instance for TLC: a hive-list task of the first tier, a default *)
(* and a slow task, and two task objects that may be created as follow-ups *)
(* (a printkey of the default tier and a scan of the slow one).            *)
(***************************************************************************)
EXTENDS TaskScheduler

CONSTANTS hivelist, plain, slow, printkey, scan

MCTask == {hivelist, plain, slow, printkey, scan}
MCInitialTasks == <<plain, slow, hivelist>>
MCTier == [t \in MCTask |-> CASE t = hivelist -> 0
                              [] t \in {plain, printkey} -> 1
                              [] t \in {slow, scan} -> 2]
MCSpawners == {hivelist}
MCEndings == [t \in MCTask |-> CASE t = hivelist -> {"ok", "raised"}
                                 [] t = plain -> {"ok", "timeout"}
                                 [] t = slow -> {"ok", "failed"}
                                 [] t = printkey -> {"ok"}
                                 [] t = scan -> {"skipped"}]
=============================================================================
