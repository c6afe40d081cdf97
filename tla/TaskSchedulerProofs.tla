------------------------ MODULE TaskSchedulerProofs ------------------------
(***************************************************************************)
(* Theorems about TaskScheduler, for every set of tasks, every tier        *)
(* assignment, every number of follow-ups and every worker setting.        *)
(***************************************************************************)
EXTENDS TaskScheduler, FiniteSetTheorems, TLAPS

(* The inductive invariant, in named parts. *)

\* Every task pushed is in exactly one place and has at most one result.
Accounted ==
  /\ DOMAIN ticket = queue \cup running \cup Settled
  /\ queue \cap running = {}
  /\ (queue \cup running) \cap Settled = {}
  /\ \A i, j \in DOMAIN results : results[i].task = results[j].task => i = j

\* Sequence numbers in use are below the counter, hence never issued twice.
Numbering ==
  /\ \A t \in DOMAIN ticket : ticket[t] < sequence
  /\ HeapKeysDistinct

\* What each position of the scheduler thread knows of the slots.
Slots ==
  /\ IsFiniteSet(running)
  /\ BoundedInFlight
  /\ pc = "submit" => queue # {} /\ Cardinality(running) < WorkerLimit
  /\ pc = "wait" => ~MayStart

\* The batch is what is being collected; the loop ends with nothing in flight.
Phases ==
  /\ batch # {} => pc = "collect"
  /\ \A t \in batch : future[t] \in Outcome
  /\ pc \in {"drain", "returned"} => running = {} /\ (queue # {} => stop)
  /\ pc = "returned" => queue = {}

\* A commitment to start is made before any late start.
Stopping ==
  /\ AtMostOneLateStart
  /\ lateStarts > 0 => stop /\ pc # "submit"
  /\ ShutdownOnlyAfterStop

Inv == TypeOK /\ Accounted /\ Numbering /\ Slots /\ Phases /\ Stopping

-----------------------------------------------------------------------------

\* The worker limit is a positive number whatever the setting: max(1, workers).
LEMMA WorkerLimitType == WorkerLimit \in Nat /\ WorkerLimit >= 1
  BY SchedulerAssumption DEF SchedulerAssumption, WorkerLimit

\* The numbers given to the tasks of an injective sequence are consecutive
\* from the first one and pairwise distinct.
LEMMA NumberedTasks ==
  ASSUME NEW tasks \in Seq(Task), IsInjective(tasks), NEW first \in Nat
  PROVE  /\ DOMAIN Numbered(tasks, first) = Range(tasks)
         /\ \A t \in Range(tasks) :
              /\ Numbered(tasks, first)[t] \in Nat
              /\ Numbered(tasks, first)[t] >= first
              /\ Numbered(tasks, first)[t] < first + Len(tasks)
         /\ \A t, u \in Range(tasks) :
              Numbered(tasks, first)[t] = Numbered(tasks, first)[u] => t = u
<1> DEFINE place(t) == CHOOSE i \in DOMAIN tasks : tasks[i] = t
<1>1. \A t \in Range(tasks) : place(t) \in DOMAIN tasks /\ tasks[place(t)] = t
  BY DEF Range
<1>2. DOMAIN tasks = 1..Len(tasks) /\ Len(tasks) \in Nat
  OBVIOUS
<1>3. DOMAIN Numbered(tasks, first) = Range(tasks)
  BY DEF Numbered
<1>4. \A t \in Range(tasks) : Numbered(tasks, first)[t] = first + place(t) - 1
  BY DEF Numbered
<1>5. \A t \in Range(tasks) : place(t) \in 1..Len(tasks)
  BY <1>1, <1>2
<1> HIDE DEF place
<1>6. QED
  BY <1>1, <1>2, <1>3, <1>4, <1>5

\* Follow-ups are a sequence of distinct tasks that were never pushed before.
LEMMA FollowupsAreNew ==
  ASSUME NEW t \in Task, NEW followups \in FollowupsOf(t), TypeOK
  PROVE  /\ followups \in Seq(Task)
         /\ IsInjective(followups)
         /\ Range(followups) \subseteq Task \ DOMAIN ticket
         /\ future[t] # "ok" => Range(followups) = {}
<1>1. CASE followups = <<>>
  BY <1>1 DEF IsInjective, Range
<1>2. CASE followups # <<>>
  <2>1. /\ future[t] = "ok"
        /\ followups \in UNION {Injection(1..n, Task \ DOMAIN ticket) : n \in 0..MaxFollowups}
    BY <1>2 DEF FollowupsOf
  <2>2. PICK n \in 0..MaxFollowups : followups \in Injection(1..n, Task \ DOMAIN ticket)
    BY <2>1
  <2>3. followups \in [1..n -> Task \ DOMAIN ticket] /\ IsInjective(followups) /\ n \in Nat
    BY <2>2, SchedulerAssumption DEF Injection, SchedulerAssumption
  <2>4. QED
    BY <2>1, <2>3 DEF Range
<1>3. QED
  BY <1>1, <1>2

\* Pushing tasks that were never pushed keeps the numbers distinct and below
\* the counter.
LEMMA PushKeepsNumbering ==
  ASSUME TypeOK, Numbering, NEW heap, NEW tasks \in Seq(Task), IsInjective(tasks),
         Range(tasks) \cap DOMAIN ticket = {}, Push(heap, tasks)
  PROVE  /\ Numbering'
         /\ DOMAIN ticket' = DOMAIN ticket \cup Range(tasks)
         /\ DOMAIN ticket' \subseteq Task
         /\ ticket' \in [DOMAIN ticket' -> Nat]
         /\ sequence' \in Nat
<1>1. sequence \in Nat /\ Len(tasks) \in Nat /\ sequence' = sequence + Len(tasks)
  BY DEF TypeOK, Push
<1>2. DOMAIN ticket' = DOMAIN ticket \cup Range(tasks)
  BY DEF Push
<1>3. \A t \in DOMAIN ticket : ticket'[t] = ticket[t] /\ ticket[t] \in Nat /\ ticket[t] < sequence
  BY DEF Push, TypeOK, Numbering
<1>4. \A t \in Range(tasks) : ticket'[t] = Numbered(tasks, sequence)[t]
  BY DEF Push
<1>5. Range(tasks) \subseteq Task
  BY DEF Range
<1>6. /\ \A t \in Range(tasks) : ticket'[t] \in Nat /\ ticket'[t] >= sequence /\ ticket'[t] < sequence'
      /\ \A t, u \in Range(tasks) : ticket'[t] = ticket'[u] => t = u
  BY <1>1, <1>4, NumberedTasks
<1>7. \A t \in DOMAIN ticket' : ticket'[t] \in Nat /\ ticket'[t] < sequence'
  BY <1>1, <1>2, <1>3, <1>6
<1>8. HeapKeysDistinct'
  BY <1>1, <1>2, <1>3, <1>6 DEF HeapKeysDistinct, Numbering
<1>9. ticket' \in [DOMAIN ticket' -> Nat]
  BY <1>2, <1>7 DEF Push
<1>10. QED
  BY <1>1, <1>2, <1>5, <1>7, <1>8, <1>9 DEF Numbering, TypeOK

-----------------------------------------------------------------------------

\* Appending a result for a task that has none keeps the results distinct.
LEMMA AppendedResult ==
  ASSUME TypeOK, Accounted, NEW t \in Task \ Settled, NEW status \in Status,
         results' = Append(results, [task |-> t, status |-> status])
  PROVE  /\ results' \in Seq(Result)
         /\ Settled' = Settled \cup {t}
         /\ \A i, j \in DOMAIN results' : results'[i].task = results'[j].task => i = j
         /\ \A i \in DOMAIN results' :
              \/ i \in DOMAIN results /\ results'[i] = results[i]
              \/ results'[i].status = status
<1> DEFINE r == [task |-> t, status |-> status]
<1>1. r \in Result /\ results \in Seq(Result)
  BY DEF Result, TypeOK
<1>2. /\ results' \in Seq(Result)
      /\ DOMAIN results' = 1..(Len(results) + 1)
      /\ DOMAIN results = 1..Len(results)
      /\ Len(results) \in Nat
  BY <1>1
<1>3. \A i \in DOMAIN results : results'[i] = results[i]
  BY <1>1
<1>4. results'[Len(results) + 1] = r
  BY <1>1
<1>5. \A i \in DOMAIN results : results[i].task \in Settled /\ results[i].task # t
  BY DEF Settled
<1>6. r.task = t /\ r.status = status
  OBVIOUS
<1> HIDE DEF r
<1>7. \A i \in DOMAIN results' : i \in DOMAIN results \/ i = Len(results) + 1
  BY <1>2
<1>8. Settled' = Settled \cup {t}
  BY <1>2, <1>3, <1>4, <1>6, <1>7 DEF Settled
<1>9. \A i, j \in DOMAIN results' : results'[i].task = results'[j].task => i = j
  BY <1>3, <1>4, <1>5, <1>6, <1>7 DEF Accounted
<1>10. QED
  BY <1>2, <1>3, <1>4, <1>6, <1>7, <1>8, <1>9

\* Every initial state satisfies the invariant.
LEMMA InitInv == Init => Inv
<1> SUFFICES ASSUME Init PROVE Inv
  OBVIOUS
<1>1. InitialTasks \in Seq(Task) /\ IsInjective(InitialTasks)
  BY SchedulerAssumption DEF SchedulerAssumption
<1>2. Len(InitialTasks) \in Nat /\ Range(InitialTasks) \subseteq Task
  BY <1>1 DEF Range
<1>3. Numbering /\ ticket \in [DOMAIN ticket -> Nat] /\ DOMAIN ticket = Range(InitialTasks)
  <2>1. ticket = Numbered(InitialTasks, 0) /\ sequence = Len(InitialTasks)
    BY DEF Init
  <2>2. ticket = [t \in Range(InitialTasks) |-> ticket[t]]
    BY <2>1 DEF Numbered
  <2>3. /\ DOMAIN ticket = Range(InitialTasks)
        /\ \A t \in Range(InitialTasks) : ticket[t] \in Nat /\ ticket[t] < sequence
        /\ \A t, u \in Range(InitialTasks) : ticket[t] = ticket[u] => t = u
    <3>1. 0 \in Nat /\ sequence = 0 + Len(InitialTasks)
      BY <1>2, <2>1
    <3>2. QED
      BY <1>1, <2>1, <3>1, NumberedTasks
  <2>4. QED
    BY <2>2, <2>3 DEF Numbering, HeapKeysDistinct
<1>4. TypeOK
  BY <1>2, <1>3 DEF Init, TypeOK
<1>5. Settled = {}
  BY DEF Init, Settled
<1>6. Accounted
  BY <1>3, <1>5 DEF Init, Accounted
<1>7. Slots
  BY FS_EmptySet, WorkerLimitType DEF Init, Slots, BoundedInFlight
<1>8. Phases /\ Stopping
  BY DEF Init, Phases, Stopping, AtMostOneLateStart, ShutdownOnlyAfterStop
<1>9. QED
  BY <1>3, <1>4, <1>6, <1>7, <1>8 DEF Inv

\* Every step, of the scheduler's thread, the pool or the signal handler, keeps
\* the invariant.
LEMMA NextInv == Inv /\ [Next]_vars => Inv'
<1> SUFFICES ASSUME Inv, [Next]_vars PROVE Inv'
  OBVIOUS
<1> USE DEF Inv
<1>a. Cardinality(running) \in Nat
  BY FS_CardinalityType DEF Slots
<1>1. CASE CommitStart
  <2>1. TypeOK' /\ Accounted' /\ Numbering'
    BY <1>1 DEF CommitStart, TypeOK, Accounted, Numbering, HeapKeysDistinct, Settled
  <2>2. Slots'
    BY <1>1 DEF CommitStart, MayStart, Slots, BoundedInFlight
  <2>3. Phases' /\ Stopping'
    BY <1>1 DEF CommitStart, MayStart, Phases, Stopping, AtMostOneLateStart,
                ShutdownOnlyAfterStop, TypeOK
  <2>4. QED
    BY <2>1, <2>2, <2>3
<1>2. ASSUME NEW t \in Task, Start(t) PROVE Inv'
  <2>1. TypeOK'
    BY <1>2 DEF Start, TypeOK
  <2>2. Accounted'
    <3>1. UNCHANGED <<ticket, results, Settled>> /\ queue' = queue \ {t} /\ running' = running \cup {t}
      BY <1>2 DEF Start, Settled
    <3>2. t \in queue
      BY <1>2 DEF Start
    <3>3. QED
      BY <3>1, <3>2 DEF Accounted
  <2>3. Numbering'
    BY <1>2 DEF Start, Numbering, HeapKeysDistinct
  <2>4. Slots'
    <3>1. running' = running \cup {t} /\ IsFiniteSet(running) /\ t \notin running
      BY <1>2 DEF Start, Slots, Accounted
    <3>2. IsFiniteSet(running') /\ Cardinality(running') = Cardinality(running) + 1
      BY <3>1, FS_AddElement
    <3>3. Cardinality(running) < WorkerLimit /\ pc' = "dispatch"
      BY <1>2 DEF Start, Slots
    <3>4. QED
      BY <3>2, <3>3, <1>a, WorkerLimitType DEF Slots, BoundedInFlight
  <2>5. Phases'
    <3>1. t \notin batch
      BY <1>2 DEF Start, TypeOK, Accounted
    <3>2. QED
      BY <1>2, <3>1 DEF Start, Phases, TypeOK
  <2>6. Stopping'
    BY <1>2 DEF Start, Stopping, AtMostOneLateStart, ShutdownOnlyAfterStop, TypeOK
  <2>7. QED
    BY <2>1, <2>2, <2>3, <2>4, <2>5, <2>6
<1>3. CASE BlockOnWait
  <2>1. TypeOK' /\ Accounted' /\ Numbering'
    BY <1>3 DEF BlockOnWait, TypeOK, Accounted, Numbering, HeapKeysDistinct, Settled
  <2>2. Slots'
    BY <1>3 DEF BlockOnWait, MayStart, Slots, BoundedInFlight
  <2>3. Phases' /\ Stopping'
    BY <1>3 DEF BlockOnWait, Phases, Stopping, AtMostOneLateStart, ShutdownOnlyAfterStop
  <2>4. QED
    BY <2>1, <2>2, <2>3
<1>4. CASE LeaveLoop
  <2>1. TypeOK' /\ Accounted' /\ Numbering' /\ Slots'
    BY <1>4 DEF LeaveLoop, TypeOK, Accounted, Numbering, HeapKeysDistinct, Settled,
                Slots, BoundedInFlight
  <2>2. queue # {} => stop
    <3>1. Cardinality(running) = 0
      BY <1>4, FS_EmptySet DEF LeaveLoop
    <3>2. QED
      BY <1>4, <3>1, WorkerLimitType DEF LeaveLoop, MayStart
  <2>3. Phases' /\ Stopping'
    BY <1>4, <2>2 DEF LeaveLoop, Phases, Stopping, AtMostOneLateStart, ShutdownOnlyAfterStop
  <2>4. QED
    BY <2>1, <2>3
<1>5. CASE WaitReturns
  <2>1. TypeOK'
    BY <1>5 DEF WaitReturns, Completed, TypeOK
  <2>2. Accounted' /\ Numbering' /\ Slots'
    BY <1>5 DEF WaitReturns, Accounted, Numbering, HeapKeysDistinct, Settled, Slots, BoundedInFlight
  <2>3. Phases' /\ Stopping'
    BY <1>5 DEF WaitReturns, Completed, Phases, Stopping, AtMostOneLateStart, ShutdownOnlyAfterStop
  <2>4. QED
    BY <2>1, <2>2, <2>3
<1>6. ASSUME NEW t \in Task, Collect(t) PROVE Inv'
  <2>1. PICK followups \in FollowupsOf(t) : Push(queue, followups)
    BY <1>6 DEF Collect
  <2>2. /\ followups \in Seq(Task)
        /\ IsInjective(followups)
        /\ Range(followups) \subseteq Task \ DOMAIN ticket
    BY FollowupsAreNew
  <2>3. t \in running /\ t \in batch /\ t \notin Settled /\ t \notin queue /\ t \in DOMAIN ticket
    BY <1>6 DEF Collect, TypeOK, Accounted
  <2>4. StatusOf(future[t]) \in Status \ {"shutdown"}
    <3>1. future[t] \in Outcome
      BY <2>3 DEF Phases
    <3>2. QED
      BY <3>1 DEF Outcome, Status, StatusOf
  <2>5. /\ results' \in Seq(Result)
        /\ Settled' = Settled \cup {t}
        /\ \A i, j \in DOMAIN results' : results'[i].task = results'[j].task => i = j
        /\ \A i \in DOMAIN results' :
              \/ i \in DOMAIN results /\ results'[i] = results[i]
              \/ results'[i].status = StatusOf(future[t])
    BY <1>6, <2>3, <2>4, AppendedResult DEF Collect
  <2>6. /\ Numbering'
        /\ DOMAIN ticket' = DOMAIN ticket \cup Range(followups)
        /\ DOMAIN ticket' \subseteq Task
        /\ ticket' \in [DOMAIN ticket' -> Nat]
        /\ sequence' \in Nat
    BY <2>1, <2>2, PushKeepsNumbering
  <2>7. /\ queue' = queue \cup Range(followups)
        /\ running' = running \ {t}
        /\ batch' = batch \ {t}
        /\ pc' = IF batch' = {} THEN "dispatch" ELSE "collect"
        /\ UNCHANGED <<future, stop, lateStarts>>
        /\ pc = "collect"
    BY <1>6, <2>1 DEF Collect, Push
  <2>8. TypeOK'
    BY <2>2, <2>5, <2>6, <2>7 DEF TypeOK
  <2>9. Accounted'
    BY <2>2, <2>3, <2>5, <2>6, <2>7 DEF Accounted
  <2>10. Slots'
    <3>1. IsFiniteSet(running') /\ Cardinality(running') = Cardinality(running) - 1
      BY <2>3, <2>7, FS_RemoveElement DEF Slots
    <3>2. QED
      BY <3>1, <2>7, <1>a, WorkerLimitType DEF Slots, BoundedInFlight
  <2>11. Phases'
    BY <2>7 DEF Phases
  <2>12. Stopping'
    BY <2>4, <2>5, <2>7 DEF Stopping, AtMostOneLateStart, ShutdownOnlyAfterStop
  <2>13. QED
    BY <2>6, <2>8, <2>9, <2>10, <2>11, <2>12
<1>7. ASSUME NEW t \in Task, Skip(t) PROVE Inv'
  <2>1. t \in queue /\ t \notin Settled /\ stop /\ running = {}
    BY <1>7 DEF Skip, Accounted, Phases
  <2>2. /\ results' \in Seq(Result)
        /\ Settled' = Settled \cup {t}
        /\ \A i, j \in DOMAIN results' : results'[i].task = results'[j].task => i = j
    BY <1>7, <2>1, AppendedResult DEF Skip, Status
  <2>3. /\ queue' = queue \ {t}
        /\ UNCHANGED <<pc, ticket, sequence, running, future, batch, stop, lateStarts>>
    BY <1>7 DEF Skip
  <2>4. TypeOK'
    BY <2>2, <2>3 DEF TypeOK
  <2>5. Accounted'
    BY <2>1, <2>2, <2>3 DEF Accounted
  <2>6. Numbering' /\ Slots' /\ Phases'
    BY <1>7, <2>3 DEF Skip, Numbering, HeapKeysDistinct, Slots, BoundedInFlight, MayStart, Phases
  <2>7. Stopping'
    BY <2>1, <2>3 DEF Stopping, AtMostOneLateStart, ShutdownOnlyAfterStop
  <2>8. QED
    BY <2>4, <2>5, <2>6, <2>7
<1>8. CASE Return
  BY <1>8 DEF Return, TypeOK, Accounted, Numbering, HeapKeysDistinct, Settled, Slots,
              BoundedInFlight, Phases, Stopping, AtMostOneLateStart, ShutdownOnlyAfterStop
<1>9. ASSUME NEW t \in Task, PoolStep(t) PROVE Inv'
  <2>1. /\ UNCHANGED <<pc, queue, ticket, sequence, running, batch, results, stop, lateStarts>>
        /\ \E s \in Outcome \cup {"executing"} : future' = [future EXCEPT ![t] = s]
        /\ future[t] \in {"submitted", "executing"}
    BY <1>9, SchedulerAssumption DEF PoolStep, Begin, Finish, SchedulerAssumption
  <2>2. TypeOK'
    BY <2>1 DEF TypeOK
  <2>3. Accounted' /\ Numbering' /\ Slots'
    BY <2>1 DEF Accounted, Numbering, HeapKeysDistinct, Settled, Slots, BoundedInFlight, MayStart
  <2>4. Phases' /\ Stopping'
    <3>1. t \notin batch
      BY <2>1 DEF Phases, Outcome
    <3>2. QED
      BY <2>1, <3>1 DEF Phases, Stopping, AtMostOneLateStart, ShutdownOnlyAfterStop, TypeOK
  <2>5. QED
    BY <2>2, <2>3, <2>4
<1>10. CASE RequestStop
  BY <1>10 DEF RequestStop, TypeOK, Accounted, Numbering, HeapKeysDistinct, Settled, Slots,
               BoundedInFlight, MayStart, Phases, Stopping, AtMostOneLateStart, ShutdownOnlyAfterStop
<1>11. CASE UNCHANGED vars
  BY <1>11 DEF vars, TypeOK, Accounted, Numbering, HeapKeysDistinct, Settled, Slots,
               BoundedInFlight, MayStart, Phases, Stopping, AtMostOneLateStart, ShutdownOnlyAfterStop
<1>12. QED
  BY <1>1, <1>2, <1>3, <1>4, <1>5, <1>6, <1>7, <1>8, <1>9, <1>10, <1>11 DEF Next, SchedulerStep

-----------------------------------------------------------------------------

\* The invariant holds in every reachable state.
THEOREM Invariance == Spec => []Inv
<1>1. QED
  BY InitInv, NextInv, PTL DEF Spec

\* Every variable keeps its type.
THEOREM TypeCorrect == Spec => []TypeOK
<1>1. Inv => TypeOK
  BY DEF Inv
<1>2. QED
  BY <1>1, Invariance, PTL

\* No task, follow-ups included, is ever lost or reported twice, and run()
\* returns with a result for each.
THEOREM AccountedOnce == Spec => []EveryTaskAccountedOnce
<1>1. Inv => EveryTaskAccountedOnce
  BY DEF Inv, Accounted, Phases, EveryTaskAccountedOnce
<1>2. QED
  BY <1>1, Invariance, PTL

\* run() gives up on a task only after a stop was requested, for every worker
\* setting, those below one included.
THEOREM GivesUpOnlyAfterStop == Spec => []ShutdownOnlyAfterStop
<1>1. Inv => ShutdownOnlyAfterStop
  BY DEF Inv, Stopping
<1>2. QED
  BY <1>1, Invariance, PTL

\* At most WorkerLimit tasks are ever in the pool.
THEOREM InFlightBound == Spec => []BoundedInFlight
<1>1. Inv => BoundedInFlight
  BY DEF Inv, Slots
<1>2. QED
  BY <1>1, Invariance, PTL

\* A stop lets at most one more task start.
THEOREM LateStartBound == Spec => []AtMostOneLateStart
<1>1. Inv => AtMostOneLateStart
  BY DEF Inv, Stopping
<1>2. QED
  BY <1>1, Invariance, PTL

\* The scheduler waits only with every slot taken, unless nothing may start.
THEOREM NoIdleSlot == Spec => []NoIdleSlotWhileWaiting
<1>1. Inv => NoIdleSlotWhileWaiting
  <2>1. SUFFICES ASSUME Inv, pc = "wait", queue # {}, ~stop
                 PROVE  Cardinality(running) = WorkerLimit
    BY DEF NoIdleSlotWhileWaiting
  <2>2. Cardinality(running) \in Nat /\ Cardinality(running) <= WorkerLimit
    BY <2>1, FS_CardinalityType DEF Inv, Slots, BoundedInFlight
  <2>3. ~(Cardinality(running) < WorkerLimit)
    BY <2>1 DEF Inv, Slots, MayStart
  <2>4. QED
    BY <2>2, <2>3, WorkerLimitType
<1>2. QED
  BY <1>1, Invariance, PTL

\* Sequence numbers are never reused, so the heap never compares tasks.
THEOREM HeapNeverComparesTasks == Spec => []HeapKeysDistinct
<1>1. Inv => HeapKeysDistinct
  BY DEF Inv, Numbering
<1>2. QED
  BY <1>1, Invariance, PTL

-----------------------------------------------------------------------------
(* Core tables first.  The invariant relates every task that was ever         *)
(* started to the catalog tasks that were not.                                *)

\* The catalog's tasks keep the numbers 0, 1, ..., and every follow-up has a
\* larger one.
Catalogue ==
  /\ Len(InitialTasks) <= sequence
  /\ \A i \in DOMAIN InitialTasks : InitialTasks[i] \in DOMAIN ticket /\ ticket[InitialTasks[i]] = i - 1
  /\ \A t \in DOMAIN ticket : t \notin Range(InitialTasks) => ticket[t] >= Len(InitialTasks)

\* run() gives up on tasks in its last loop only.
GivenUpLast == pc \notin {"drain", "returned"} => \A i \in DOMAIN results : results[i].status # "shutdown"

\* Every started task comes before every catalog task that was not started.
AheadOfCatalogue ==
  \A t \in Started, i \in DOMAIN InitialTasks : InitialTasks[i] \notin Started => Before(t, InitialTasks[i])

Order == Catalogue /\ GivenUpLast /\ AheadOfCatalogue

\* Appending a result adds its task to those that ran, unless it was given up.
LEMMA RanAppended ==
  ASSUME TypeOK, NEW t, NEW status, results' = Append(results, [task |-> t, status |-> status])
  PROVE  /\ \A u : u \in Started' <=>
                     \/ u \in running'
                     \/ \E i \in DOMAIN results : results[i].status # "shutdown" /\ results[i].task = u
                     \/ status # "shutdown" /\ u = t
         /\ status # "shutdown" /\ (\A i \in DOMAIN results : results[i].status # "shutdown")
              => \A i \in DOMAIN results' : results'[i].status # "shutdown"
<1> DEFINE r == [task |-> t, status |-> status]
           n == Len(results) + 1
<1>1. /\ DOMAIN results' = DOMAIN results \cup {n}
      /\ \A i \in DOMAIN results : results'[i] = results[i]
      /\ results'[n] = r
  <2>1. results \in Seq(Result)
    BY DEF TypeOK
  <2>2. /\ DOMAIN results = 1..Len(results)
        /\ Len(results) \in Nat
        /\ DOMAIN results' = 1..n
        /\ \A i \in 1..Len(results) : results'[i] = results[i]
        /\ results'[n] = r
    BY <2>1
  <2>3. QED
    BY <2>2
<1>2. r.task = t /\ r.status = status
  OBVIOUS
<1> HIDE DEF r, n
<1>3. QED
  BY <1>1, <1>2 DEF Started

\* At the start nothing ran and the catalog is numbered in its order.
LEMMA InitOrder == Init => Order
<1> SUFFICES ASSUME Init PROVE Order
  OBVIOUS
<1>1. InitialTasks \in Seq(Task) /\ IsInjective(InitialTasks) /\ DOMAIN InitialTasks = 1..Len(InitialTasks)
  BY SchedulerAssumption DEF SchedulerAssumption
<1>2. \A i \in DOMAIN InitialTasks : InitialTasks[i] \in Range(InitialTasks)
  BY DEF Range
<1>3. \A t \in Range(InitialTasks) : ticket[t] = 0 + (CHOOSE i \in DOMAIN InitialTasks : InitialTasks[i] = t) - 1
  BY DEF Init, Numbered
<1>4. \A i \in DOMAIN InitialTasks : (CHOOSE j \in DOMAIN InitialTasks : InitialTasks[j] = InitialTasks[i]) = i
  BY <1>1 DEF IsInjective
<1>5. \A i \in DOMAIN InitialTasks : ticket[InitialTasks[i]] = i - 1
  BY <1>1, <1>2, <1>3, <1>4
<1>6. DOMAIN ticket = Range(InitialTasks) /\ sequence = Len(InitialTasks)
  BY DEF Init, Numbered
<1>7. Catalogue
  BY <1>1, <1>2, <1>5, <1>6 DEF Catalogue
<1>8. Started = {} /\ GivenUpLast
  BY DEF Init, Started, GivenUpLast
<1>9. QED
  BY <1>7, <1>8 DEF Order, AheadOfCatalogue

\* Before the last loop, a catalog task not started is waiting in the heap.
LEMMA NotStartedWaits ==
  ASSUME Inv, Order, pc \notin {"drain", "returned"}, NEW i \in DOMAIN InitialTasks,
         InitialTasks[i] \notin Started
  PROVE  InitialTasks[i] \in queue
<1>1. InitialTasks[i] \in queue \cup running \cup Settled
  BY DEF Inv, Accounted, Order, Catalogue
<1>2. Settled \subseteq Started /\ running \subseteq Started
  BY DEF Order, GivenUpLast, Settled, Started
<1>3. QED
  BY <1>1, <1>2

\* Every step keeps the order.
LEMMA NextOrder == Inv /\ Order /\ [Next]_vars => Order'
<1> SUFFICES ASSUME Inv, Order, [Next]_vars PROVE Order'
  OBVIOUS
<1>0. InitialTasks \in Seq(Task) /\ Len(InitialTasks) \in Nat /\ DOMAIN InitialTasks = 1..Len(InitialTasks)
  BY SchedulerAssumption DEF SchedulerAssumption
<1>1. ASSUME NEW t \in Task, Start(t) PROVE Order'
  <2>1. /\ pc = "submit" /\ pc' = "dispatch"
        /\ UNCHANGED <<ticket, sequence, results>>
        /\ running' = running \cup {t}
        /\ \A u \in queue \ {t} : Before(t, u)
    BY <1>1 DEF Start
  <2>2. Started' = Started \cup {t}
    BY <2>1 DEF Started
  <2>3. ASSUME NEW i \in DOMAIN InitialTasks, InitialTasks[i] \notin Started', NEW u \in Started'
        PROVE  Before(u, InitialTasks[i])'
    <3>1. InitialTasks[i] \in queue \ {t}
      BY <2>1, <2>2, <2>3, NotStartedWaits
    <3>2. Before(u, InitialTasks[i])
      BY <2>1, <2>2, <2>3, <3>1 DEF Order, AheadOfCatalogue
    <3>3. QED
      BY <2>1, <3>2 DEF Before
  <2>4. QED
    BY <2>1, <2>3 DEF Order, Catalogue, GivenUpLast, AheadOfCatalogue
<1>2. ASSUME NEW t \in Task, Collect(t) PROVE Order'
  <2>1. PICK followups \in FollowupsOf(t) : Push(queue, followups)
    BY <1>2 DEF Collect
  <2>2. TypeOK /\ Numbering /\ sequence \in Nat
    BY DEF Inv, TypeOK
  <2>3. /\ followups \in Seq(Task)
        /\ IsInjective(followups)
        /\ Range(followups) \subseteq Task \ DOMAIN ticket
    BY <2>2, FollowupsAreNew
  <2>4. /\ DOMAIN ticket' = DOMAIN ticket \cup Range(followups)
        /\ \A u \in DOMAIN ticket : ticket'[u] = ticket[u]
        /\ \A u \in Range(followups) : ticket'[u] = Numbered(followups, sequence)[u]
        /\ sequence' = sequence + Len(followups)
    BY <2>1, <2>3 DEF Push
  <2>5. \A u \in Range(followups) : ticket'[u] \in Nat /\ ticket'[u] >= sequence
    BY <2>2, <2>3, <2>4, NumberedTasks
  <2>6. Len(followups) \in Nat
    BY <2>3
  <2>7. \A u \in DOMAIN ticket : ticket[u] \in Nat
    BY <2>2 DEF TypeOK
  <2>8. Catalogue'
    BY <1>0, <2>2, <2>4, <2>5, <2>6, <2>7 DEF Order, Catalogue
  <2>9. /\ t \in running /\ pc = "collect" /\ pc' \in {"dispatch", "collect"}
        /\ running' = running \ {t}
        /\ results' = Append(results, [task |-> t, status |-> StatusOf(future[t])])
        /\ future[t] \in Outcome
    BY <1>2 DEF Collect, Inv, TypeOK, Phases
  <2>10. StatusOf(future[t]) # "shutdown"
    BY <2>9 DEF Outcome, StatusOf
  <2>11. GivenUpLast'
    BY <2>2, <2>9, <2>10, RanAppended DEF Order, GivenUpLast
  <2>12. Started' = Started
    BY <2>2, <2>9, <2>10, RanAppended DEF Started
  <2>13. Started \subseteq DOMAIN ticket
    BY DEF Inv, Accounted, Started, Settled
  <2>14. AheadOfCatalogue'
    BY <2>4, <2>12, <2>13 DEF Order, AheadOfCatalogue, Catalogue, Before
  <2>15. QED
    BY <2>8, <2>11, <2>14 DEF Order
<1>3. ASSUME NEW t \in Task, Skip(t) PROVE Order'
  <2>1. /\ pc = "drain"
        /\ UNCHANGED <<pc, ticket, sequence, running>>
        /\ results' = Append(results, [task |-> t, status |-> "shutdown"])
    BY <1>3 DEF Skip
  <2>2. Started' = Started
    BY <2>1, RanAppended DEF Inv, Started
  <2>3. QED
    BY <2>1, <2>2 DEF Order, Catalogue, GivenUpLast, AheadOfCatalogue, Before
<1>4. ASSUME \/ UNCHANGED vars \/ CommitStart \/ BlockOnWait \/ LeaveLoop \/ WaitReturns \/ Return
             \/ RequestStop \/ \E t \in Task : PoolStep(t)
      PROVE  Order'
  <2>1. UNCHANGED <<ticket, sequence, running, results>>
    BY <1>4 DEF vars, CommitStart, BlockOnWait, LeaveLoop, WaitReturns, Return, RequestStop,
                PoolStep, Begin, Finish
  <2>2. pc' \notin {"drain", "returned"} => pc \notin {"drain", "returned"}
    BY <1>4 DEF vars, CommitStart, BlockOnWait, LeaveLoop, WaitReturns, Return, RequestStop,
                PoolStep, Begin, Finish
  <2>3. Started' = Started
    BY <2>1 DEF Started
  <2>4. QED
    BY <2>1, <2>2, <2>3 DEF Order, Catalogue, GivenUpLast, AheadOfCatalogue, Before
<1>5. QED
  BY <1>1, <1>2, <1>3, <1>4 DEF Next, SchedulerStep

\* Core tables first, for every catalog and every tier assignment: what is still
\* waiting, or was cut off by a stop, ranks behind everything that was started.
THEOREM CoreTablesStartFirst == Spec => []CoreTablesFirst
<1>1. Inv /\ Order => CoreTablesFirst
  <2>1. SUFFICES ASSUME Inv, Order, NEW i \in DOMAIN InitialTasks, InitialTasks[i] \notin Started,
                        NEW t \in Started
                 PROVE  \/ Tier[t] < Tier[InitialTasks[i]]
                        \/ /\ Tier[t] = Tier[InitialTasks[i]]
                           /\ \E j \in DOMAIN InitialTasks : j < i /\ t = InitialTasks[j]
    BY DEF CoreTablesFirst
  <2>2. CASE Tier[t] < Tier[InitialTasks[i]]
    BY <2>2
  <2>3. CASE Tier[t] = Tier[InitialTasks[i]] /\ ticket[t] < i - 1
    <3>1. /\ DOMAIN InitialTasks = 1..Len(InitialTasks)
          /\ Len(InitialTasks) \in Nat
      BY SchedulerAssumption DEF SchedulerAssumption
    <3>2. t \in DOMAIN ticket
      BY <2>1 DEF Inv, Accounted, Started, Settled
    <3>3. ticket[t] \in Nat
      BY <2>1, <3>2 DEF Inv, TypeOK
    <3>4. ~(ticket[t] >= Len(InitialTasks))
      BY <2>1, <2>3, <3>1, <3>3
    <3>5. PICK j \in DOMAIN InitialTasks : t = InitialTasks[j]
      BY <2>1, <3>2, <3>4 DEF Order, Catalogue, Range
    <3>6. ticket[t] = j - 1
      BY <2>1, <3>5 DEF Order, Catalogue
    <3>7. j < i
      BY <2>1, <2>3, <3>1, <3>6
    <3>8. QED
      BY <2>3, <3>5, <3>7
  <2>4. Before(t, InitialTasks[i]) /\ ticket[InitialTasks[i]] = i - 1
    BY <2>1 DEF Order, AheadOfCatalogue, Catalogue
  <2>5. QED
    BY <2>2, <2>3, <2>4 DEF Before
<1>2. QED
  BY <1>1, InitInv, NextInv, InitOrder, NextOrder, PTL DEF Spec

-----------------------------------------------------------------------------

\* run() starts with the caller's tasks waiting in the ledger.
LEMMA LedgerInitialised == Init => Ledger!LedgerInit
  BY DEF Init, Ledger!LedgerInit

\* Every step is a step of the ledger or leaves it alone.
LEMMA LedgerStep == Inv /\ [Next]_vars => [Ledger!LedgerNext]_(Ledger!ledgerVars)
<1> SUFFICES ASSUME Inv, [Next]_vars
             PROVE  Ledger!LedgerNext \/ UNCHANGED Ledger!ledgerVars
  OBVIOUS
<1>1. ASSUME NEW t \in Task, Start(t) PROVE Ledger!Launch(t)
  <2>1. Cardinality(running) < WorkerLimit
    BY <1>1 DEF Inv, Slots, Start
  <2>2. QED
    BY <1>1, <2>1 DEF Start, Ledger!Launch, Cardinality, Ledger!Cardinality
<1>2. ASSUME NEW t \in Task, Collect(t)
      PROVE  \E status \in {"ok", "failed", "timeout", "skipped"} :
               \E fresh \in SUBSET Task : Ledger!Settle(t, status, fresh)
  <2>1. PICK followups \in FollowupsOf(t) : Push(queue, followups)
    BY <1>2 DEF Collect
  <2>2. /\ Range(followups) \subseteq Task \ DOMAIN ticket
        /\ future[t] # "ok" => Range(followups) = {}
    BY FollowupsAreNew DEF Inv
  <2>3. t \in running /\ future[t] \in Outcome
    BY <1>2 DEF Collect, Inv, TypeOK, Phases
  <2>4. /\ StatusOf(future[t]) \in {"ok", "failed", "timeout", "skipped"}
        /\ StatusOf(future[t]) # "ok" => future[t] # "ok"
    BY <2>3 DEF Outcome, StatusOf
  <2>5. Ledger!Known = DOMAIN ticket
    BY DEF Inv, Accounted, Settled, Ledger!Known
  <2>6. Ledger!Settle(t, StatusOf(future[t]), Range(followups))
    BY <1>2, <2>1, <2>2, <2>3, <2>4, <2>5 DEF Collect, Push, Ledger!Settle
  <2>7. QED
    BY <2>2, <2>4, <2>6
<1>3. ASSUME NEW t \in Task, Skip(t) PROVE Ledger!GiveUp(t)
  BY <1>3 DEF Skip, Inv, Phases, Ledger!GiveUp
<1>4. CASE RequestStop
  BY <1>4 DEF RequestStop, Ledger!Stop, Ledger!LedgerNext
<1>5. ASSUME [Next]_vars, ~RequestStop,
             \A t \in Task : ~Start(t) /\ ~Collect(t) /\ ~Skip(t)
      PROVE  UNCHANGED Ledger!ledgerVars
  BY <1>5 DEF Next, SchedulerStep, PoolStep, CommitStart, BlockOnWait, LeaveLoop, WaitReturns,
              Return, Begin, Finish, vars, Ledger!ledgerVars
<1>6. QED
  BY <1>1, <1>2, <1>3, <1>4, <1>5 DEF Ledger!LedgerNext

\* The scheduler implements the ledger: what run() does is, step by step, what
\* its caller may rely on.
THEOREM Refinement == Spec => ImplementsLedger
<1>1. QED
  BY LedgerInitialised, LedgerStep, Invariance, PTL
     DEF Spec, ImplementsLedger, Ledger!LedgerSpec
=============================================================================
