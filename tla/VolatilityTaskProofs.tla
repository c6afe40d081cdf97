------------------------ MODULE VolatilityTaskProofs ------------------------
(***************************************************************************)
(* Theorems about VolatilityTask, for every number of candidates and every *)
(* set of plugins and scans.                                               *)
(***************************************************************************)
EXTENDS VolatilityTask, TLAPS

(* The inductive invariant, in named parts. *)

\* A task that has invoked vol and not reported yet.
Busy(t) == pc[t] \in {"wait", "kill", "succeeded", "failed", "expired"}

\* What each position in run() knows of the task's own state.
Progress ==
  \A t \in Task :
    /\ pc[t] \in {"idle", "prepass", "invoke"} => attempt[t] <= 1
    /\ Busy(t) => attempt[t] >= 1 /\ csv[t] \subseteq {<<t, attempt[t]>>}
    /\ proc[t] # "none" => pc[t] \in {"wait", "kill"}
    /\ status[t] # "none" <=> pc[t] = "settled"
    /\ artifact[t] => pc[t] = "settled" /\ csv[t] \subseteq {<<t, attempt[t]>>}

\* The scratch file belongs to a task that has not settled.
Scratch == \A t \in UsesStrings : pc[t] = "settled" => ~strings

\* Candidates are tried in turn until one succeeds; plugins follow.
Turns ==
  /\ \A c \in Candidate : pc[c] # "idle" => \A d \in 1..(c - 1) : pc[d] = "settled"
  /\ osFamily # 0 => \A c \in Candidate : pc[c] \in {"idle", "settled"}
  /\ \A p \in Plugin : pc[p] # "idle" => osFamily # 0

\* Who wrote the configuration, and when it is known to be whole.
Ownership ==
  /\ \A c \in Candidate : pc[c] \notin {"idle", "settled"} => config = None \/ config.by = c
  /\ \A c \in Candidate :
       proc[c] = "ok" \/ pc[c] = "succeeded" => config \in {None, [by |-> c, whole |-> TRUE]}
  /\ osFamily # 0 /\ configFile => config \in {None, [by |-> osFamily, whole |-> TRUE]}

Inv == TypeOK /\ Progress /\ Scratch /\ Turns /\ Ownership

-----------------------------------------------------------------------------

\* How the ends of a process are reported.
LEMMA ReportedValues ==
  /\ DOMAIN Reported = {"succeeded", "failed", "expired"}
  /\ Reported["succeeded"] = "ok" /\ Reported["failed"] = "failed" /\ Reported["expired"] = "timeout"
  BY DEF Reported

\* What is saved names its writer and whether it is whole.
LEMMA SavedType ==
  ASSUME NEW by \in {Earlier} \cup Candidate, NEW whole \in BOOLEAN
  PROVE  [by |-> by, whole |-> whole] \in Saved
  BY DEF Saved

\* Candidates, plugins and scans are tasks of their own.
LEMMA Kinds ==
  /\ Task = Candidate \cup Plugin \cup Scan
  /\ Plugin \cap Candidate = {} /\ Scan \cap Plugin = {} /\ Scan \cap Candidate = {}
  /\ UsesStrings \subseteq Plugin
  /\ \A p, q \in UsesStrings : p = q
  /\ Candidates \in Nat /\ Candidate = 1..Candidates
  BY TaskAssumption DEF TaskAssumption, Task, Candidate

\* The invariant holds at first, whatever files an earlier run left.
LEMMA InvInit == Init => Inv
<1> SUFFICES ASSUME Init PROVE Inv
  OBVIOUS
<1> USE Kinds DEF Init
<1>1. TypeOK
  <2>1. PICK rows \in SUBSET {<<Earlier, 1>>} : csv = [t \in Task |-> rows]
    OBVIOUS
  <2>2. csv \in [Task -> SUBSET (({Earlier} \cup Task) \X (1..2))]
    BY <2>1
  <2>3. config \in Saved \cup {None}
    BY SavedType
  <2>4. strings \in BOOLEAN /\ configFile \in BOOLEAN
    OBVIOUS
  <2>5. osFamily \in 0..Candidates
    OBVIOUS
  <2>6. QED
    BY <2>2, <2>3, <2>4, <2>5, ReportedValues DEF TypeOK
<1>2. Progress
  BY DEF Progress, Busy
<1>3. Scratch
  BY DEF Scratch
<1>4. Turns
  BY DEF Turns
<1>5. Ownership
  BY DEF Ownership
<1>6. QED
  BY <1>1, <1>2, <1>3, <1>4, <1>5 DEF Inv

\* Every step keeps the invariant.
LEMMA InvNext == Inv /\ [Next]_vars => Inv'
<1> SUFFICES ASSUME Inv, [Next]_vars PROVE Inv'
  OBVIOUS
<1> USE DEF Inv
<1>1. ASSUME NEW t \in Task, t \in Candidate, BeginBootstrap(t) PROVE Inv'
  <2> USE <1>1, Kinds, ReportedValues DEF BeginBootstrap, Goto, procVars, fileVars, taskVars
  <2>1. TypeOK'
    BY DEF TypeOK, Progress, Busy, Saved, Earlier
  <2>2. Progress'
    BY DEF TypeOK, Progress, Busy
  <2>3. Scratch'
    BY DEF TypeOK, Scratch, Progress
  <2>4. Turns'
    BY DEF TypeOK, Turns, Progress
  <2>5. Ownership'
    BY DEF TypeOK, Turns, Ownership, Progress
  <2>6. QED
    BY <2>1, <2>2, <2>3, <2>4, <2>5
<1>2. ASSUME NEW t \in Task, t \in Candidate, ReportBootstrap(t) PROVE Inv'
  <2> USE <1>2, Kinds, ReportedValues DEF ReportBootstrap, Goto, Settle, procVars, fileVars, taskVars
  <2>1. TypeOK'
    BY DEF TypeOK, Progress, Busy, Saved, Earlier
  <2>2. Progress'
    BY DEF TypeOK, Progress, Busy
  <2>3. Scratch'
    BY DEF TypeOK, Scratch, Progress
  <2>4. Turns'
    BY DEF TypeOK, Turns, Progress
  <2>5. Ownership'
    BY DEF TypeOK, Turns, Ownership, Progress
  <2>6. QED
    BY <2>1, <2>2, <2>3, <2>4, <2>5
<1>3. ASSUME NEW t \in Task, t \in Plugin, BeginPlugin(t) PROVE Inv'
  <2> USE <1>3, Kinds, ReportedValues DEF BeginPlugin, Goto, procVars, fileVars, taskVars
  <2>1. TypeOK'
    BY DEF TypeOK, Progress, Busy, Saved, Earlier
  <2>2. Progress'
    BY DEF TypeOK, Progress, Busy
  <2>3. Scratch'
    BY DEF TypeOK, Scratch, Progress
  <2>4. Turns'
    BY DEF TypeOK, Turns, Progress
  <2>5. Ownership'
    BY DEF TypeOK, Turns, Ownership, Progress
  <2>6. QED
    BY <2>1, <2>2, <2>3, <2>4, <2>5
<1>4. ASSUME NEW t \in Task, t \in Plugin, PrePass(t) PROVE Inv'
  <2> USE <1>4, Kinds, ReportedValues DEF PrePass, Goto, Settle, procVars, fileVars, taskVars
  <2>1. TypeOK'
    <3>1. CASE Settle(t, "failed")
      BY <3>1 DEF TypeOK
    <3>2. CASE Goto(t, "invoke") /\ UNCHANGED <<status, strings, complained>>
      BY <3>2 DEF TypeOK
    <3>3. QED
      BY <3>1, <3>2
  <2>2. Progress'
    BY DEF TypeOK, Progress, Busy
  <2>3. Scratch'
    BY DEF TypeOK, Scratch, Progress
  <2>4. Turns'
    <3>1. osFamily # 0 /\ osFamily' = osFamily /\ \A c \in Candidate : pc'[c] = pc[c]
      BY DEF TypeOK, Turns
    <3>2. QED
      BY <3>1 DEF TypeOK, Turns
  <2>5. Ownership'
    BY DEF TypeOK, Turns, Ownership, Progress
  <2>6. QED
    BY <2>1, <2>2, <2>3, <2>4, <2>5
<1>5. ASSUME NEW t \in Task, t \in Plugin, Report(t) PROVE Inv'
  <2> USE <1>5, Kinds, ReportedValues DEF Report, Goto, Settle, procVars, fileVars, taskVars
  <2>1. TypeOK'
    BY DEF TypeOK, Progress, Busy, Saved, Earlier
  <2>2. Progress'
    BY DEF TypeOK, Progress, Busy
  <2>3. Scratch'
    BY DEF TypeOK, Scratch, Progress
  <2>4. Turns'
    BY DEF TypeOK, Turns, Progress
  <2>5. Ownership'
    BY DEF TypeOK, Turns, Ownership, Progress
  <2>6. QED
    BY <2>1, <2>2, <2>3, <2>4, <2>5
<1>6. ASSUME NEW t \in Task, t \in Plugin \cup Scan, InvokeRaises(t) PROVE Inv'
  <2> USE <1>6, Kinds, ReportedValues DEF InvokeRaises, Goto, Settle, Truncated, procVars, fileVars, taskVars
  <2>1. TypeOK'
    BY DEF TypeOK, Progress, Busy, Saved, Earlier
  <2>2. Progress'
    BY DEF TypeOK, Progress, Busy
  <2>3. Scratch'
    BY DEF TypeOK, Scratch, Progress
  <2>4. Turns'
    BY DEF TypeOK, Turns, Progress
  <2>5. Ownership'
    BY DEF TypeOK, Turns, Ownership, Progress
  <2>6. QED
    BY <2>1, <2>2, <2>3, <2>4, <2>5
<1>7. ASSUME NEW t \in Task, t \in Scan, BeginScan(t) PROVE Inv'
  <2> USE <1>7, Kinds, ReportedValues DEF BeginScan, Goto, procVars, fileVars, taskVars
  <2>1. TypeOK'
    BY DEF TypeOK, Progress, Busy, Saved, Earlier
  <2>2. Progress'
    BY DEF TypeOK, Progress, Busy
  <2>3. Scratch'
    BY DEF TypeOK, Scratch, Progress
  <2>4. Turns'
    BY DEF TypeOK, Turns, Progress
  <2>5. Ownership'
    BY DEF TypeOK, Turns, Ownership, Progress
  <2>6. QED
    BY <2>1, <2>2, <2>3, <2>4, <2>5
<1>8. ASSUME NEW t \in Task, t \in Scan, SkipScan(t) PROVE Inv'
  <2> USE <1>8, Kinds, ReportedValues DEF SkipScan, Goto, Settle, procVars, fileVars, taskVars
  <2>1. TypeOK'
    BY DEF TypeOK, Progress, Busy, Saved, Earlier
  <2>2. Progress'
    BY DEF TypeOK, Progress, Busy
  <2>3. Scratch'
    BY DEF TypeOK, Scratch, Progress
  <2>4. Turns'
    BY DEF TypeOK, Turns, Progress
  <2>5. Ownership'
    BY DEF TypeOK, Turns, Ownership, Progress
  <2>6. QED
    BY <2>1, <2>2, <2>3, <2>4, <2>5
<1>9. ASSUME NEW t \in Task, t \in Scan, ReportScan(t) PROVE Inv'
  <2> USE <1>9, Kinds, ReportedValues DEF ReportScan, Goto, Settle, procVars, fileVars, taskVars
  <2>1. TypeOK'
    BY DEF TypeOK, Progress, Busy, Saved, Earlier
  <2>2. Progress'
    BY DEF TypeOK, Progress, Busy
  <2>3. Scratch'
    BY DEF TypeOK, Scratch, Progress
  <2>4. Turns'
    BY DEF TypeOK, Turns, Progress
  <2>5. Ownership'
    BY DEF TypeOK, Turns, Ownership, Progress
  <2>6. QED
    BY <2>1, <2>2, <2>3, <2>4, <2>5
<1>10. ASSUME NEW t \in Task, Invoke(t) PROVE Inv'
  <2> USE <1>10, Kinds, ReportedValues DEF Invoke, Goto, Truncated, procVars, fileVars, taskVars
  <2>1. TypeOK'
    BY DEF TypeOK, Progress, Busy, Saved, Earlier
  <2>2. Progress'
    BY DEF TypeOK, Progress, Busy
  <2>3. Scratch'
    BY DEF TypeOK, Scratch, Progress
  <2>4. Turns'
    BY DEF TypeOK, Turns, Progress
  <2>5. Ownership'
    BY DEF TypeOK, Turns, Ownership, Progress
  <2>6. QED
    BY <2>1, <2>2, <2>3, <2>4, <2>5
<1>11. ASSUME NEW t \in Task, Exited(t) PROVE Inv'
  <2> USE <1>11, Kinds, ReportedValues DEF Exited, Goto, procVars, fileVars, taskVars
  <2>1. TypeOK'
    BY DEF TypeOK, Progress, Busy, Saved, Earlier
  <2>2. Progress'
    BY DEF TypeOK, Progress, Busy
  <2>3. Scratch'
    BY DEF TypeOK, Scratch, Progress
  <2>4. Turns'
    BY DEF TypeOK, Turns, Progress
  <2>5. Ownership'
    BY DEF TypeOK, Turns, Ownership, Progress
  <2>6. QED
    BY <2>1, <2>2, <2>3, <2>4, <2>5
<1>12. ASSUME NEW t \in Task, Expires(t) PROVE Inv'
  <2> USE <1>12, Kinds, ReportedValues DEF Expires, Goto, procVars, fileVars, taskVars
  <2>1. TypeOK'
    BY DEF TypeOK, Progress, Busy, Saved, Earlier
  <2>2. Progress'
    BY DEF TypeOK, Progress, Busy
  <2>3. Scratch'
    BY DEF TypeOK, Scratch, Progress
  <2>4. Turns'
    BY DEF TypeOK, Turns, Progress
  <2>5. Ownership'
    BY DEF TypeOK, Turns, Ownership, Progress
  <2>6. QED
    BY <2>1, <2>2, <2>3, <2>4, <2>5
<1>13. ASSUME NEW t \in Task, Kill(t) PROVE Inv'
  <2> USE <1>13, Kinds, ReportedValues DEF Kill, Goto, procVars, fileVars, taskVars
  <2>1. TypeOK'
    BY DEF TypeOK, Progress, Busy, Saved, Earlier
  <2>2. Progress'
    BY DEF TypeOK, Progress, Busy
  <2>3. Scratch'
    BY DEF TypeOK, Scratch, Progress
  <2>4. Turns'
    BY DEF TypeOK, Turns, Progress
  <2>5. Ownership'
    BY DEF TypeOK, Turns, Ownership, Progress
  <2>6. QED
    BY <2>1, <2>2, <2>3, <2>4, <2>5
<1>14. ASSUME NEW t \in Task, Retry(t) PROVE Inv'
  <2> USE <1>14, Kinds, ReportedValues DEF Retry, Goto, Rejected, procVars, fileVars, taskVars
  <2>1. TypeOK'
    BY DEF TypeOK, Progress, Busy, Saved, Earlier
  <2>2. Progress'
    BY DEF TypeOK, Progress, Busy
  <2>3. Scratch'
    BY DEF TypeOK, Scratch, Progress
  <2>4. Turns'
    BY DEF TypeOK, Turns, Progress
  <2>5. Ownership'
    BY DEF TypeOK, Turns, Ownership, Progress
  <2>6. QED
    BY <2>1, <2>2, <2>3, <2>4, <2>5
<1>15. ASSUME NEW t \in Task, WriteRows(t) PROVE Inv'
  <2> USE <1>15, Kinds, ReportedValues DEF WriteRows, procVars, fileVars, taskVars
  <2>1. TypeOK'
    BY DEF TypeOK, Progress, Busy, Saved, Earlier
  <2>2. Progress'
    BY DEF TypeOK, Progress, Busy
  <2>3. Scratch'
    BY DEF TypeOK, Scratch, Progress
  <2>4. Turns'
    BY DEF TypeOK, Turns, Progress
  <2>5. Ownership'
    BY DEF TypeOK, Turns, Ownership, Progress
  <2>6. QED
    BY <2>1, <2>2, <2>3, <2>4, <2>5
<1>16. ASSUME NEW t \in Task, WriteConfig(t) PROVE Inv'
  <2> USE <1>16, Kinds, ReportedValues DEF WriteConfig, Saving, procVars, fileVars, taskVars
  <2>1. TypeOK'
    <3>1. config' \in Saved
      BY SavedType
    <3>2. QED
      BY <3>1 DEF TypeOK
  <2>2. Progress'
    BY DEF TypeOK, Progress, Busy
  <2>3. Scratch'
    BY DEF TypeOK, Scratch, Progress
  <2>4. Turns'
    BY DEF TypeOK, Turns, Progress
  <2>5. Ownership'
    BY DEF TypeOK, Turns, Ownership, Progress
  <2>6. QED
    BY <2>1, <2>2, <2>3, <2>4, <2>5
<1>17. ASSUME NEW t \in Task, Complain(t) PROVE Inv'
  <2> USE <1>17, Kinds, ReportedValues DEF Complain, procVars, fileVars, taskVars
  <2>1. TypeOK'
    BY DEF TypeOK, Progress, Busy, Saved, Earlier
  <2>2. Progress'
    BY DEF TypeOK, Progress, Busy
  <2>3. Scratch'
    BY DEF TypeOK, Scratch, Progress
  <2>4. Turns'
    BY DEF TypeOK, Turns, Progress
  <2>5. Ownership'
    BY DEF TypeOK, Turns, Ownership, Progress
  <2>6. QED
    BY <2>1, <2>2, <2>3, <2>4, <2>5
<1>18. ASSUME NEW t \in Task, VolExits(t) PROVE Inv'
  <2> USE <1>18, Kinds, ReportedValues DEF VolExits, Saving, procVars, fileVars, taskVars
  <2>1. TypeOK'
    BY DEF TypeOK, Progress, Busy, Saved, Earlier
  <2>2. Progress'
    BY DEF TypeOK, Progress, Busy
  <2>3. Scratch'
    BY DEF TypeOK, Scratch, Progress
  <2>4. Turns'
    BY DEF TypeOK, Turns, Progress
  <2>5. Ownership'
    BY DEF TypeOK, Turns, Ownership, Progress
  <2>6. QED
    BY <2>1, <2>2, <2>3, <2>4, <2>5
<1>19. CASE UNCHANGED vars
  BY <1>19, ReportedValues
     DEF vars, taskVars, procVars, fileVars, TypeOK, Progress, Busy, Scratch, Turns, Ownership
<1>20. QED
  BY <1>1, <1>2, <1>3, <1>4, <1>5, <1>6, <1>7, <1>8, <1>9, <1>10, <1>11, <1>12, <1>13, <1>14, <1>15, <1>16, <1>17, <1>18, <1>19 DEF Next, TaskStep, Vol

\* The invariant holds in every state.
LEMMA InvAlways == Spec => []Inv
  BY InvInit, InvNext, PTL DEF Spec

-----------------------------------------------------------------------------

\* Every variable keeps its type.
THEOREM TaskTypeCorrect == Spec => []TypeOK
<1>1. Inv => TypeOK
  BY DEF Inv
<1>2. QED
  BY <1>1, InvAlways, PTL

\* A bootstrap finds no configuration of an earlier candidate or run, and a
\* plugin loads only the whole one of the image's operating system.
THEOREM ConfigNeverMixedUp == Spec => []ConfigIsItsOwn
<1>1. Inv => ConfigIsItsOwn
  <2> SUFFICES ASSUME Inv, NEW t \in Task, proc[t] = "alive"
               PROVE  /\ Saving(t) => config = None \/ config.by = t
                      /\ Loading(t) => config = [by |-> osFamily, whole |-> TRUE]
    BY DEF ConfigIsItsOwn
  <2>1. pc[t] \in {"wait", "kill"}
    BY DEF Inv, Progress
  <2>2. Saving(t) => config = None \/ config.by = t
    BY <2>1 DEF Inv, Ownership, Saving
  <2>3. Loading(t) => config = [by |-> osFamily, whole |-> TRUE]
    BY <2>1 DEF Inv, Turns, Ownership, Loading
  <2>4. QED
    BY <2>2, <2>3
<1>2. QED
  BY <1>1, InvAlways, PTL

\* The CSV of a task with a result holds rows of its last attempt only.
THEOREM OutputNeverMixedUp == Spec => []OutputIsItsOwn
<1>1. Inv => OutputIsItsOwn
  BY DEF Inv, Progress, OutputIsItsOwn
<1>2. QED
  BY <1>1, InvAlways, PTL

\* A task with a result has left no process and no scratch file.
THEOREM NothingStaysBehind == Spec => []NothingLeftBehind
<1>1. Inv => NothingLeftBehind
  BY DEF Inv, Progress, Scratch, NothingLeftBehind
<1>2. QED
  BY <1>1, InvAlways, PTL

-----------------------------------------------------------------------------
(* What run() still has to do: every attempt is worth more than the steps of  *)
(* one, and a retry comes after everything but its own attempt.               *)

Stage == [settled |-> 0, invoke |-> 1, prepass |-> 2, succeeded |-> 2, failed |-> 2, expired |-> 2,
          idle |-> 3, kill |-> 3, wait |-> 4]

\* A bound on the steps of run() from here on.
StepsLeft(t) == Stage[pc[t]] + 4 * (2 - attempt[t])

\* Every step of a task brings it closer to its end, and no other task, no vol
\* process and no file takes it further away.
WindsDown ==
  \A t \in Task : /\ StepsLeft(t)' <= StepsLeft(t)
                  /\ TaskStep(t) => StepsLeft(t)' < StepsLeft(t)

\* The positions of run() and what they are worth.
LEMMA Stages ==
  /\ Stage["settled"] = 0 /\ Stage["invoke"] = 1 /\ Stage["prepass"] = 2 /\ Stage["succeeded"] = 2
  /\ Stage["failed"] = 2 /\ Stage["expired"] = 2 /\ Stage["idle"] = 3 /\ Stage["kill"] = 3 /\ Stage["wait"] = 4
  BY DEF Stage

\* One step of a task takes it at least one step closer to its end.
LEMMA StepCounts ==
  ASSUME Inv, NEW t \in Task, TaskStep(t)
  PROVE  /\ StepsLeft(t)' < StepsLeft(t)
         /\ \A u \in Task \ {t} : pc'[u] = pc[u] /\ attempt'[u] = attempt[u]
<1>1. attempt \in [Task -> 0..2] /\ pc \in [Task -> {"idle", "prepass", "invoke", "wait", "kill", "settled",
                                                  "succeeded", "failed", "expired"}]
  BY ReportedValues DEF Inv, TypeOK
<1>2. ASSUME NEW from, NEW to, pc[t] = from, Goto(t, to), attempt' = attempt,
             Stage[from] \in Nat, Stage[to] \in Nat, Stage[to] < Stage[from]
      PROVE  /\ StepsLeft(t)' < StepsLeft(t)
             /\ \A u \in Task \ {t} : pc'[u] = pc[u] /\ attempt'[u] = attempt[u]
  BY <1>1, <1>2 DEF StepsLeft, Goto
<1> USE Stages
<1>3. CASE (t \in Candidate /\ BeginBootstrap(t)) \/ (t \in Scan /\ BeginScan(t))
  BY <1>2, <1>3 DEF BeginBootstrap, BeginScan
<1>4. CASE t \in Plugin /\ BeginPlugin(t)
  <2>1. pc[t] = "idle" /\ (Goto(t, "prepass") \/ Goto(t, "invoke")) /\ attempt' = attempt
    BY <1>4 DEF BeginPlugin
  <2>2. QED
    BY <1>2, <2>1
<1>5. CASE t \in Plugin /\ PrePass(t)
  BY <1>2, <1>5 DEF PrePass, Settle
<1>6. CASE InvokeRaises(t) \/ (t \in Scan /\ SkipScan(t))
  BY <1>2, <1>6 DEF InvokeRaises, SkipScan, Settle
<1>7. CASE \/ t \in Candidate /\ ReportBootstrap(t)
           \/ t \in Plugin /\ Report(t)
           \/ t \in Scan /\ ReportScan(t)
  <2>1. pc[t] \in {"succeeded", "failed", "expired"} /\ Goto(t, "settled") /\ attempt' = attempt
    BY <1>7, ReportedValues DEF ReportBootstrap, Report, ReportScan, Settle
  <2>2. QED
    BY <1>2, <2>1
<1>8. CASE Invoke(t)
  <2>1. /\ pc[t] = "invoke" /\ pc' = [pc EXCEPT ![t] = "wait"]
        /\ attempt' = [attempt EXCEPT ![t] = attempt[t] + 1] /\ attempt[t] \in 0..1
    BY <1>1, <1>8 DEF Invoke, Inv, Progress, Goto
  <2>2. pc'[t] = "wait" /\ attempt'[t] = attempt[t] + 1
    BY <1>1, <2>1
  <2>3. QED
    BY <1>1, <2>1, <2>2 DEF StepsLeft
<1>9. CASE Exited(t)
  <2>1. pc[t] = "wait" /\ (Goto(t, "succeeded") \/ Goto(t, "failed")) /\ attempt' = attempt
    BY <1>9 DEF Exited
  <2>2. QED
    BY <1>2, <2>1
<1>10. CASE Expires(t) \/ Kill(t)
  BY <1>2, <1>10 DEF Expires, Kill
<1>11. CASE Retry(t)
  <2>1. pc[t] \in {"failed", "expired"} /\ Goto(t, "invoke") /\ attempt' = attempt
    BY <1>11 DEF Retry
  <2>2. QED
    BY <1>2, <2>1
<1>12. QED
  BY <1>3, <1>4, <1>5, <1>6, <1>7, <1>8, <1>9, <1>10, <1>11 DEF TaskStep

\* A vol process never moves a task.
LEMMA VolMovesNothing == \A t \in Task : Vol(t) => UNCHANGED <<pc, attempt>>
  BY DEF Vol, WriteRows, WriteConfig, Complain, VolExits, taskVars

\* run() takes at most eleven steps, whatever vol, clamscan and the other
\* tasks do; that it takes them is what the scheduling is trusted with.
THEOREM RunsWindDown == Spec => [][WindsDown]_vars /\ [](\A t \in Task : StepsLeft(t) \in 0..11)
<1>1. ASSUME Inv, Next PROVE WindsDown
  <2>1. SUFFICES ASSUME NEW t \in Task
                 PROVE  /\ StepsLeft(t)' <= StepsLeft(t)
                        /\ TaskStep(t) => StepsLeft(t)' < StepsLeft(t)
    BY DEF WindsDown
  <2>2. StepsLeft(t) \in Int
    BY <1>1, Stages, ReportedValues DEF Inv, TypeOK, StepsLeft
  <2>3. ASSUME TaskStep(t) PROVE StepsLeft(t)' < StepsLeft(t) /\ StepsLeft(t)' <= StepsLeft(t)
    <3>1. StepsLeft(t)' < StepsLeft(t)
      BY <1>1, <2>3, StepCounts
    <3>2. StepsLeft(t)' \in Int
      BY <1>1, InvNext, Stages, ReportedValues DEF Inv, TypeOK, StepsLeft
    <3>3. QED
      BY <2>2, <3>1, <3>2
  <2>4. ASSUME ~TaskStep(t) PROVE StepsLeft(t)' = StepsLeft(t)
    <3>1. pc'[t] = pc[t] /\ attempt'[t] = attempt[t]
      BY <1>1, <2>4, StepCounts, VolMovesNothing DEF Next
    <3>2. QED
      BY <3>1 DEF StepsLeft
  <2>5. QED
    BY <2>2, <2>3, <2>4
<1>2. Inv => \A t \in Task : StepsLeft(t) \in 0..11
  <2> SUFFICES ASSUME Inv, NEW t \in Task PROVE StepsLeft(t) \in 0..11
    OBVIOUS
  <2>1. /\ attempt[t] \in 0..2
        /\ pc[t] \in {"idle", "prepass", "invoke", "wait", "kill", "settled", "succeeded", "failed", "expired"}
        /\ pc[t] \in {"wait", "kill"} => attempt[t] >= 1
    BY ReportedValues DEF Inv, TypeOK, Progress, Busy
  <2>2. Stage[pc[t]] \in 0..3 \/ (Stage[pc[t]] = 4 /\ attempt[t] >= 1)
    BY <2>1, Stages
  <2>3. \A s \in 0..4, a \in 0..2 : (s <= 3 \/ a >= 1) => s + 4 * (2 - a) \in 0..11
    OBVIOUS
  <2> DEFINE s == Stage[pc[t]]
             a == attempt[t]
  <2>4. s \in 0..4 /\ a \in 0..2 /\ (s <= 3 \/ a >= 1)
    <3>1. a \in 0..2
      BY <2>1
    <3>2. s \in 0..3 \/ (s = 4 /\ a >= 1)
      BY <2>2
    <3> HIDE DEF s, a
    <3>3. QED
      BY <3>1, <3>2
  <2>5. StepsLeft(t) = s + 4 * (2 - a)
    BY DEF StepsLeft
  <2> HIDE DEF s, a
  <2>6. QED
    BY <2>3, <2>4, <2>5
<1>3. Inv /\ [Next]_vars => [WindsDown]_vars
  BY <1>1
<1>4. QED
  BY <1>2, <1>3, InvAlways, PTL DEF Spec
=============================================================================
