--------------------------- MODULE VolatilityTask ---------------------------
(***************************************************************************)
(* tasks.py and volatility.py: the vol processes of one image.  Bootstrap  *)
(* tasks try one operating system after another and save the resolved      *)
(* configuration; plugin tasks then run at once, load it, run again        *)
(* without it if vol rejects it, and are killed at their timeout.  The     *)
(* files one of them dumps are scanned by ClamAV in a task of its own.     *)
(* What vol does is external: it may write rows and a configuration,       *)
(* complain, exit at any time, or never.                                   *)
(***************************************************************************)
EXTENDS Integers

CONSTANTS
  Candidates,  \* operating systems to try, in the order 1..Candidates
  Plugin,      \* the plugin tasks, each with a table of its own
  UsesStrings, \* those with a strings pre-pass: they share one scratch file
  DumpsFiles,  \* those whose dumped files are scanned ...
  Scan,        \* ... by these tasks
  None         \* no configuration file

ASSUME TaskAssumption ==
  /\ Candidates \in Nat \ {0}
  /\ UsesStrings \subseteq Plugin
  /\ \A p, q \in UsesStrings : p = q
  /\ DumpsFiles \subseteq Plugin
  /\ Plugin \cap (1..Candidates) = {} /\ Scan \cap (Plugin \cup 1..Candidates) = {}

VARIABLES
  (* the tasks *)
  pc,          \* position of each task in run()
  attempt,     \* how often it has invoked vol
  status,      \* status of its result; "none" before
  artifact,    \* its result brings its CSV
  osFamily,    \* the candidate whose bootstrap succeeded, 0 for none
  configFile,  \* cli.config_file is set
  (* their vol processes *)
  proc,        \* none, alive, or how it ended by itself
  complained,  \* its stderr asks for another configuration
  (* files *)
  csv,         \* who wrote the rows of each table: task and attempt
  config,      \* the saved configuration: who wrote it, and whether all of it
  strings      \* the scratch file exists

taskVars == <<pc, attempt, status, artifact, osFamily, configFile>>
procVars == <<proc, complained>>
fileVars == <<csv, config, strings>>
vars == <<taskVars, procVars, fileVars>>

Candidate == 1..Candidates
Task == Candidate \cup Plugin \cup Scan

\* An earlier run over the same output directory may have left its files.
Earlier == 0
Saved == [by : {Earlier} \cup Candidate, whole : BOOLEAN]

Init ==
  /\ pc = [t \in Task |-> "idle"]
  /\ attempt = [t \in Task |-> 0]
  /\ status = [t \in Task |-> "none"]
  /\ artifact = [t \in Task |-> FALSE]
  /\ osFamily = 0 /\ configFile = FALSE
  /\ proc = [t \in Task |-> "none"]
  /\ complained = [t \in Task |-> FALSE]
  /\ \E rows \in SUBSET {<<Earlier, 1>>} : csv = [t \in Task |-> rows]
  /\ config \in {None, [by |-> Earlier, whole |-> TRUE]}
  /\ strings = FALSE

Goto(t, label) == pc' = [pc EXCEPT ![t] = label]

(* Definitions named <definition>_<bug> are the mutated forms the properties  *)
(* are tested against; no behaviour of the specification uses them.          *)

-----------------------------------------------------------------------------
(* run() of the tasks. *)

BeginBootstrap_KeepsConfig(c) ==
  /\ pc[c] = "idle" /\ osFamily = 0
  /\ \A d \in 1..(c - 1) : status[d] # "none"
  /\ configFile' = FALSE
  /\ Goto(c, "invoke")
  /\ UNCHANGED <<attempt, status, artifact, osFamily, procVars, fileVars>>

\* BootstrapTask.run, tried in turn: vol refuses to overwrite a configuration.
BeginBootstrap(c) ==
  /\ pc[c] = "idle" /\ osFamily = 0
  /\ \A d \in 1..(c - 1) : status[d] # "none"
  /\ config' = None
  /\ configFile' = FALSE
  /\ Goto(c, "invoke")
  /\ UNCHANGED <<attempt, status, artifact, osFamily, procVars, csv, strings>>

\* The scheduler runs a plugin; StringsTask.run opens its scratch file first.
BeginPlugin(p) ==
  /\ pc[p] = "idle" /\ osFamily # 0
  /\ Goto(p, IF p \in UsesStrings THEN "prepass" ELSE "invoke")
  /\ strings' = (strings \/ p \in UsesStrings)
  /\ UNCHANGED <<attempt, status, artifact, osFamily, configFile, procVars, csv, config>>

\* DumpFilesTask.followups: a scan of what was dumped, if anything was.
BeginScan(s) ==
  /\ pc[s] = "idle"
  /\ \E p \in DumpsFiles : status[p] = "ok"
  /\ Goto(s, "invoke")
  /\ UNCHANGED <<attempt, status, artifact, osFamily, configFile, procVars, fileVars>>

\* run() ends: the except and finally clauses of StringsTask.run remove the
\* scratch file, and nobody looks at stderr any more.
Settle(t, verdict) ==
  /\ Goto(t, "settled")
  /\ status' = [status EXCEPT ![t] = verdict]
  /\ strings' = (strings /\ t \notin UsesStrings)
  /\ complained' = [complained EXCEPT ![t] = FALSE]

\* Both passes of GNU strings ended well, or one failed or timed out.
PrePass(p) ==
  /\ pc[p] = "prepass"
  /\ \/ Goto(p, "invoke") /\ UNCHANGED <<status, strings, complained>>
     \/ Settle(p, "failed")
  /\ UNCHANGED <<attempt, artifact, osFamily, configFile, proc, csv, config>>

\* opening the CSV keeps what an earlier attempt wrote
Truncated_Append(t) == csv

Truncated(t) == [csv EXCEPT ![t] = {}]

\* VolatilityCli.build: --save-config, or -c unless it is the second attempt.
Saving(t) == t \in Candidate
Loading(t) == t \in Plugin /\ attempt[t] = 1 /\ configFile /\ config # None

\* _invoke and ProcessRunner.run up to Popen.
Invoke(t) ==
  /\ pc[t] = "invoke"
  /\ Goto(t, "wait")
  /\ attempt' = [attempt EXCEPT ![t] = @ + 1]
  /\ csv' = Truncated(t)
  /\ proc' = [proc EXCEPT ![t] = "alive"]
  /\ complained' = [complained EXCEPT ![t] = FALSE]
  /\ UNCHANGED <<status, artifact, osFamily, configFile, config, strings>>

\* Popen raises: the scheduler makes a failed result of it; a bootstrap's
\* exception ends the image instead.
InvokeRaises(p) ==
  /\ pc[p] = "invoke" /\ p \in Plugin \cup Scan
  /\ Settle(p, "failed")
  /\ csv' = Truncated(p)
  /\ UNCHANGED <<attempt, artifact, osFamily, configFile, proc, config>>

\* wait(timeout) returns: the process has ended by itself.
Exited(t) ==
  /\ pc[t] = "wait"
  /\ proc[t] \in {"ok", "error"}
  /\ Goto(t, IF proc[t] = "ok" THEN "succeeded" ELSE "failed")
  /\ proc' = [proc EXCEPT ![t] = "none"]
  /\ UNCHANGED <<attempt, status, artifact, osFamily, configFile, complained, fileVars>>

Expires_FirstAttemptOnly(t) ==
  /\ pc[t] = "wait" /\ attempt[t] = 1
  /\ Goto(t, "kill")
  /\ UNCHANGED <<attempt, status, artifact, osFamily, configFile, procVars, fileVars>>

\* wait(timeout) raises TimeoutExpired; the process may still end by itself.
Expires(t) ==
  /\ pc[t] = "wait"
  /\ Goto(t, "kill")
  /\ UNCHANGED <<attempt, status, artifact, osFamily, configFile, procVars, fileVars>>

\* _kill sends the signal and does not wait
Kill_NoWait(t) ==
  /\ pc[t] = "kill"
  /\ Goto(t, "expired")
  /\ UNCHANGED <<attempt, status, artifact, osFamily, configFile, procVars, fileVars>>

\* _kill: SIGKILL to the group, and wait until the process is gone.
Kill(t) ==
  /\ pc[t] = "kill"
  /\ proc' = [proc EXCEPT ![t] = "none"]
  /\ Goto(t, "expired")
  /\ UNCHANGED <<attempt, status, artifact, osFamily, configFile, complained, fileVars>>

Rejected_EveryTime(t) == t \in Plugin /\ configFile /\ complained[t]

Rejected(t) == t \in Plugin /\ attempt[t] = 1 /\ configFile /\ complained[t]

\* stderr is only looked at for a configuration problem, with a saved
\* configuration, after a failed or timed-out first attempt.
Retry(t) ==
  /\ pc[t] \in {"failed", "expired"}
  /\ Rejected(t)
  /\ Goto(t, "invoke")
  /\ UNCHANGED <<attempt, status, artifact, osFamily, configFile, procVars, fileVars>>

Reported == [succeeded |-> "ok", failed |-> "failed", expired |-> "timeout"]

\* The plugin's result: partial output is kept, whatever the status.
Report(p) ==
  /\ p \in Plugin
  /\ pc[p] \in DOMAIN Reported
  /\ pc[p] = "succeeded" \/ ~Rejected(p)
  /\ Settle(p, Reported[pc[p]])
  /\ artifact' = [artifact EXCEPT ![p] = csv[p] # {}]
  /\ UNCHANGED <<attempt, osFamily, configFile, proc, csv, config>>

\* The bootstrap's result: the first that is OK is the image's OS.
ReportBootstrap(c) ==
  /\ c \in Candidate
  /\ pc[c] \in DOMAIN Reported
  /\ Settle(c, Reported[pc[c]])
  /\ LET ok == pc[c] = "succeeded"
     IN /\ artifact' = [artifact EXCEPT ![c] = ok]
        /\ osFamily' = IF ok THEN c ELSE osFamily
        /\ configFile' = (ok /\ config # None)
  /\ UNCHANGED <<attempt, proc, csv, config>>

\* clamscan is not installed.
SkipScan(s) ==
  /\ s \in Scan
  /\ pc[s] = "invoke"
  /\ Settle(s, "skipped")
  /\ UNCHANGED <<attempt, artifact, osFamily, configFile, proc, csv, config>>

\* clamscan exits with 1 when it found something, with 2 on errors; what it
\* printed becomes the CSV, whatever the status.
ReportScan(s) ==
  /\ s \in Scan
  /\ pc[s] \in DOMAIN Reported
  /\ \E verdict \in {Reported[pc[s]]} \cup (IF pc[s] = "failed" THEN {"ok"} ELSE {}) : Settle(s, verdict)
  /\ artifact' = [artifact EXCEPT ![s] = csv[s] # {}]
  /\ UNCHANGED <<attempt, osFamily, configFile, proc, csv, config>>

-----------------------------------------------------------------------------
(* vol, or clamscan. *)

WriteRows(t) ==
  /\ proc[t] = "alive"
  /\ csv' = [csv EXCEPT ![t] = @ \cup {<<t, attempt[t]>>}]
  /\ UNCHANGED <<taskVars, procVars, config, strings>>

\* Starts to write the configuration, which must not exist, or completes it.
WriteConfig(t) ==
  /\ proc[t] = "alive" /\ Saving(t)
  /\ \/ config = None /\ config' = [by |-> t, whole |-> FALSE]
     \/ config = [by |-> t, whole |-> FALSE] /\ config' = [by |-> t, whole |-> TRUE]
  /\ UNCHANGED <<taskVars, procVars, csv, strings>>

Complain(t) ==
  /\ proc[t] = "alive" /\ t \in Plugin
  /\ complained' = [complained EXCEPT ![t] = TRUE]
  /\ UNCHANGED <<taskVars, proc, fileVars>>

\* vol ends well only with its own configuration written or none; it ends
\* badly at any time.
VolExits(t) ==
  /\ proc[t] = "alive"
  /\ \/ /\ Saving(t) => config \in {None, [by |-> t, whole |-> TRUE]}
        /\ proc' = [proc EXCEPT ![t] = "ok"]
     \/ proc' = [proc EXCEPT ![t] = "error"]
  /\ UNCHANGED <<taskVars, complained, fileVars>>

Vol(t) == WriteRows(t) \/ WriteConfig(t) \/ Complain(t) \/ VolExits(t)

TaskStep(t) ==
  \/ t \in Candidate /\ (BeginBootstrap(t) \/ ReportBootstrap(t))
  \/ t \in Plugin /\ (BeginPlugin(t) \/ PrePass(t) \/ InvokeRaises(t) \/ Report(t))
  \/ t \in Scan /\ (BeginScan(t) \/ SkipScan(t) \/ InvokeRaises(t) \/ ReportScan(t))
  \/ Invoke(t) \/ Exited(t) \/ Expires(t) \/ Kill(t) \/ Retry(t)

Next == \E t \in Task : TaskStep(t) \/ Vol(t)

Spec == Init /\ [][Next]_vars

\* Some thread that can go on does, and clocks advance.  Nothing is asked of
\* vol.
FairSpec == Spec /\ WF_vars(\E t \in Task : TaskStep(t))

-----------------------------------------------------------------------------
TypeOK ==
  /\ pc \in [Task -> {"idle", "prepass", "invoke", "wait", "kill", "settled"} \cup DOMAIN Reported]
  /\ attempt \in [Task -> 0..2]
  /\ status \in [Task -> {"none", "ok", "failed", "timeout", "skipped"}]
  /\ artifact \in [Task -> BOOLEAN]
  /\ osFamily \in 0..Candidates /\ configFile \in BOOLEAN
  /\ proc \in [Task -> {"none", "alive", "ok", "error"}] /\ complained \in [Task -> BOOLEAN]
  /\ csv \in [Task -> SUBSET (({Earlier} \cup Task) \X (1..2))]
  /\ config \in Saved \cup {None}
  /\ strings \in BOOLEAN

\* A configuration is never mixed up: a bootstrap finds none of an earlier
\* candidate or run, which would make vol refuse, and a plugin loads only what
\* the bootstrap of the image's OS saved, all of it.
ConfigIsItsOwn ==
  \A t \in Task : proc[t] = "alive" =>
    /\ Saving(t) => config = None \/ config.by = t
    /\ Loading(t) => config = [by |-> osFamily, whole |-> TRUE]

\* The CSV of a task with a result holds rows of its last attempt only: none
\* of the attempt with the rejected configuration, none of an earlier run.
OutputIsItsOwn ==
  \A t \in Task : artifact[t] => csv[t] \subseteq {<<t, attempt[t]>>}

\* A task with a result has left nothing behind: no process that could still
\* write the CSV being ingested, no scratch file of several GB.
NothingLeftBehind ==
  \A t \in Task : status[t] # "none" =>
    /\ proc[t] = "none"
    /\ t \in UsesStrings => ~strings

\* Once run() has begun a task it ends, though vol may hang in every attempt:
\* what the scheduler's own termination rests on.
EveryTaskEnds == <>[](\A t \in Task : pc[t] \in {"idle", "settled"})
=============================================================================
