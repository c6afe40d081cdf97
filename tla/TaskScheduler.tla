--------------------------- MODULE TaskScheduler ---------------------------
(***************************************************************************)
(* volautolity/scheduler.py: bounded, priority-ordered execution of tasks. *)
(* The scheduler thread interleaves with the pool's threads and with the   *)
(* signal handler that sets the stop event.  A task is an identity; what   *)
(* running it does is abstracted to how its future completes.              *)
(***************************************************************************)
EXTENDS Integers, Sequences, FiniteSets, Functions

CONSTANTS
  Task,          \* every task object that may come to exist
  InitialTasks,  \* the tasks given to run(), in catalog order
  Tier,          \* a task's priority class, smaller runs first
  Spawners,      \* the tasks whose result may carry follow-ups
  MaxFollowups,  \* bound on the follow-ups of one result
  Endings,       \* how running each task may end
  Workers        \* settings.workers, as configured

\* How task.run may end; "raised" is an exception escaping it.
Outcome == {"ok", "failed", "timeout", "skipped", "raised"}

ASSUME SchedulerAssumption ==
  /\ InitialTasks \in Seq(Task)
  /\ IsInjective(InitialTasks)
  /\ Tier \in [Task -> Nat]
  /\ Spawners \subseteq Task
  /\ MaxFollowups \in Nat
  /\ Endings \in [Task -> (SUBSET Outcome) \ {{}}]
  /\ Workers \in Int

VARIABLES
  pc,          \* the scheduler thread's position in run()
  queue,       \* tasks in the heap
  ticket,      \* heap sequence number of every task pushed so far
  sequence,    \* the next sequence number
  running,     \* tasks in the `running` dict: submitted, result not collected
  future,      \* state of every future
  batch,       \* what wait() returned and the for loop has yet to visit
  results,     \* the list of results
  stop,        \* the stop event
  lateStarts   \* history: tasks handed to the pool after the stop event

vars == <<pc, queue, ticket, sequence, running, future, batch, results, stop, lateStarts>>

(* Definitions named <definition>_<bug> are the mutated forms the properties  *)
(* are tested against; no behaviour of the specification uses them.          *)

\* __init__: at least one worker, whatever the setting.
WorkerLimit == IF Workers >= 1 THEN Workers ELSE 1

\* Statuses in `results`.  "shutdown" is the SKIPPED status with the error
\* "shutdown requested" that run() itself writes.
Status == {"ok", "failed", "timeout", "skipped", "shutdown"}

Result == [task : Task, status : Status]

StatusOf_NotCaught(outcome) == outcome

\* _result_of: an exception that escaped a task becomes a FAILED result.
StatusOf(outcome) == IF outcome = "raised" THEN "failed" ELSE outcome

Settled == {results[i].task : i \in DOMAIN results}
Started == running \cup {results[i].task : i \in {k \in DOMAIN results : results[k].status # "shutdown"}}
Executing == {t \in running : future[t] = "executing"}
Completed == {t \in running : future[t] \in Outcome}

\* Heap order: (tier, sequence number).
Before(t, u) ==
  \/ Tier[t] < Tier[u]
  \/ Tier[t] = Tier[u] /\ ticket[t] < ticket[u]

Numbered_OncePerBatch(tasks, first) == [t \in Range(tasks) |-> first]

Numbered(tasks, first) == [t \in Range(tasks) |-> first + (CHOOSE i \in DOMAIN tasks : tasks[i] = t) - 1]

\* A number per call of the loop in place of the scheduler's one counter.
Push_CountsFromZero(heap, tasks) ==
  /\ queue' = heap \cup Range(tasks)
  /\ ticket' = [t \in DOMAIN ticket \cup Range(tasks) |->
                  IF t \in DOMAIN ticket THEN ticket[t] ELSE Numbered(tasks, 0)[t]]
  /\ sequence' = sequence + Len(tasks)

\* _push for each task of a sequence, onto the heap `heap`.
Push(heap, tasks) ==
  /\ queue' = heap \cup Range(tasks)
  /\ ticket' = [t \in DOMAIN ticket \cup Range(tasks) |->
                  IF t \in DOMAIN ticket THEN ticket[t] ELSE Numbered(tasks, sequence)[t]]
  /\ sequence' = sequence + Len(tasks)

Init ==
  /\ pc = "dispatch"
  /\ queue = Range(InitialTasks)
  /\ ticket = Numbered(InitialTasks, 0)
  /\ sequence = Len(InitialTasks)
  /\ running = {}
  /\ future = [t \in Task |-> "none"]
  /\ batch = {}
  /\ results = <<>>
  /\ stop \in BOOLEAN
  /\ lateStarts = 0

-----------------------------------------------------------------------------
(* The scheduler thread. *)

MayStart_IgnoresStop == queue # {} /\ Cardinality(running) < WorkerLimit
MayStart_OffByOne == queue # {} /\ Cardinality(running) + 1 < WorkerLimit /\ ~stop

MayStart == queue # {} /\ Cardinality(running) < WorkerLimit /\ ~stop

\* The dispatch loop's condition holds: this thread is committed to a start.
CommitStart ==
  /\ pc = "dispatch"
  /\ MayStart
  /\ pc' = "submit"
  /\ UNCHANGED <<queue, ticket, sequence, running, future, batch, results, stop, lateStarts>>

\* Pop the heap's minimum and submit it.
Start(t) ==
  /\ pc = "submit"
  /\ t \in queue
  /\ \A u \in queue \ {t} : Before(t, u)
  /\ queue' = queue \ {t}
  /\ running' = running \cup {t}
  /\ future' = [future EXCEPT ![t] = "submitted"]
  /\ lateStarts' = IF stop THEN lateStarts + 1 ELSE lateStarts
  /\ pc' = "dispatch"
  /\ UNCHANGED <<ticket, sequence, batch, results, stop>>

\* Without "if not running: break".
BlockOnWait_OnNothing ==
  /\ pc = "dispatch"
  /\ ~MayStart
  /\ pc' = "wait"
  /\ UNCHANGED <<queue, ticket, sequence, running, future, batch, results, stop, lateStarts>>

\* Nothing more may start now and something is in flight: call wait().
BlockOnWait ==
  /\ pc = "dispatch"
  /\ ~MayStart
  /\ running # {}
  /\ pc' = "wait"
  /\ UNCHANGED <<queue, ticket, sequence, running, future, batch, results, stop, lateStarts>>

\* Either loop ends: nothing may start and nothing is in flight.
LeaveLoop ==
  /\ pc = "dispatch"
  /\ ~MayStart
  /\ running = {}
  /\ pc' = "drain"
  /\ UNCHANGED <<queue, ticket, sequence, running, future, batch, results, stop, lateStarts>>

\* wait(FIRST_COMPLETED) returns every future that is done by now.
WaitReturns ==
  /\ pc = "wait"
  /\ Completed # {}
  /\ batch' = Completed
  /\ pc' = "collect"
  /\ UNCHANGED <<queue, ticket, sequence, running, future, results, stop, lateStarts>>

FollowupsOf_AnyStatus(t) ==
  IF t \in Spawners
  THEN UNION {Injection(1..n, Task \ DOMAIN ticket) : n \in 0..MaxFollowups}
  ELSE {<<>>}

\* Follow-ups are new task objects, made by a task that ended OK.
FollowupsOf(t) ==
  IF t \in Spawners /\ future[t] = "ok"
  THEN UNION {Injection(1..n, Task \ DOMAIN ticket) : n \in 0..MaxFollowups}
  ELSE {<<>>}

\* One iteration over `done`, a set, so in any order.
Collect(t) ==
  /\ pc = "collect"
  /\ t \in batch
  /\ batch' = batch \ {t}
  /\ running' = running \ {t}
  /\ results' = Append(results, [task |-> t, status |-> StatusOf(future[t])])
  /\ \E followups \in FollowupsOf(t) : Push(queue, followups)
  /\ pc' = IF batch' = {} THEN "dispatch" ELSE "collect"
  /\ UNCHANGED <<future, stop, lateStarts>>

\* One iteration of the final loop: the list keeps heap order, any order here.
Skip(t) ==
  /\ pc = "drain"
  /\ t \in queue
  /\ queue' = queue \ {t}
  /\ results' = Append(results, [task |-> t, status |-> "shutdown"])
  /\ UNCHANGED <<pc, ticket, sequence, running, future, batch, stop, lateStarts>>

\* Without the final loop over what is left in the heap.
Return_Undrained ==
  /\ pc = "drain"
  /\ pc' = "returned"
  /\ UNCHANGED <<queue, ticket, sequence, running, future, batch, results, stop, lateStarts>>

Return ==
  /\ pc = "drain"
  /\ queue = {}
  /\ pc' = "returned"
  /\ UNCHANGED <<queue, ticket, sequence, running, future, batch, results, stop, lateStarts>>

-----------------------------------------------------------------------------
(* The pool's threads and the signal handler. *)

\* A pool thread takes a submitted task: ThreadPoolExecutor(max_workers).
Begin(t) ==
  /\ t \in running
  /\ future[t] = "submitted"
  /\ Cardinality(Executing) < WorkerLimit
  /\ future' = [future EXCEPT ![t] = "executing"]
  /\ UNCHANGED <<pc, queue, ticket, sequence, running, batch, results, stop, lateStarts>>

Finish(t) ==
  /\ t \in running
  /\ future[t] = "executing"
  /\ \E outcome \in Endings[t] : future' = [future EXCEPT ![t] = outcome]
  /\ UNCHANGED <<pc, queue, ticket, sequence, running, batch, results, stop, lateStarts>>

\* SIGTERM or SIGINT: the event is never cleared.
RequestStop ==
  /\ ~stop
  /\ pc # "returned"
  /\ stop' = TRUE
  /\ UNCHANGED <<pc, queue, ticket, sequence, running, future, batch, results, lateStarts>>

SchedulerStep ==
  \/ CommitStart
  \/ \E t \in Task : Start(t)
  \/ BlockOnWait
  \/ LeaveLoop
  \/ WaitReturns
  \/ \E t \in Task : Collect(t)
  \/ \E t \in Task : Skip(t)
  \/ Return

PoolStep(t) == Begin(t) \/ Finish(t)

Next ==
  \/ SchedulerStep
  \/ \E t \in Task : PoolStep(t)
  \/ RequestStop

Spec == Init /\ [][Next]_vars

\* The scheduler thread keeps being scheduled, and every task ends: a
\* subprocess is killed at its timeout.  Nobody has to request a stop.
FairSpec == Spec /\ WF_vars(SchedulerStep) /\ \A t \in Task : WF_vars(PoolStep(t))

-----------------------------------------------------------------------------
TypeOK ==
  /\ pc \in {"dispatch", "submit", "wait", "collect", "drain", "returned"}
  /\ queue \subseteq Task
  /\ DOMAIN ticket \subseteq Task
  /\ ticket \in [DOMAIN ticket -> Nat]
  /\ sequence \in Nat
  /\ running \subseteq Task
  /\ future \in [Task -> Outcome \cup {"none", "submitted", "executing"}]
  /\ batch \subseteq running
  /\ results \in Seq(Result)
  /\ stop \in BOOLEAN
  /\ lateStarts \in Nat

\* No task is lost or reported twice: a task that was ever pushed, follow-ups
\* included, is queued, in flight or in the results, in exactly one of them,
\* and has at most one result; when run() returns it has one.
EveryTaskAccountedOnce ==
  /\ DOMAIN ticket = queue \cup running \cup Settled
  /\ queue \cap running = {}
  /\ (queue \cup running) \cap Settled = {}
  /\ \A i, j \in DOMAIN results : results[i].task = results[j].task => i = j
  /\ pc = "returned" => Settled = DOMAIN ticket

\* Only a stop makes run() give up on a task; a zero or negative worker
\* setting must not.
ShutdownOnlyAfterStop == \A i \in DOMAIN results : results[i].status = "shutdown" => stop

\* "at most `workers` tasks run at a time": also those the pool has accepted
\* and not begun, whose order the heap could no longer change.
BoundedInFlight == Cardinality(running) <= WorkerLimit

\* The stop event is read, then the task is submitted: a stop that falls in
\* between lets one task start, never two.
AtMostOneLateStart == lateStarts <= 1

\* The scheduler never sleeps in wait() with a free slot and work to do.
NoIdleSlotWhileWaiting ==
  pc = "wait" /\ queue # {} /\ ~stop => Cardinality(running) = WorkerLimit

\* The heap never has to compare two task objects, which would raise: no two
\* tasks ever pushed have the same sequence number.
HeapKeysDistinct == \A t, u \in DOMAIN ticket : ticket[t] = ticket[u] => t = u

\* Core tables first: when a catalog task is still waiting, or a stop made run()
\* give up on it, every task ever started ranks before it, by tier, then by
\* catalog order.  A follow-up pushed at any time starts ahead of it only by
\* its tier, and nothing ahead of a started task is left for the stop to cut.
CoreTablesFirst ==
  \A i \in DOMAIN InitialTasks : InitialTasks[i] \notin Started =>
    \A t \in Started :
      \/ Tier[t] < Tier[InitialTasks[i]]
      \/ /\ Tier[t] = Tier[InitialTasks[i]]
         /\ \E j \in DOMAIN InitialTasks : j < i /\ t = InitialTasks[j]

\* run() returns, with or without a stop, and whatever the tasks do.
Terminates == <>(pc = "returned")

\* What run()'s caller relies on, with the heap, the batches and the program
\* counter abstracted away.
Ledger == INSTANCE TaskLedger WITH
            Given <- Range(InitialTasks), Limit <- WorkerLimit,
            waiting <- queue, flying <- running, ledger <- results

\* Every step of the scheduler, the pool and the signal handler is a step of
\* the ledger or changes nothing in it.
ImplementsLedger == Ledger!LedgerSpec
=============================================================================
