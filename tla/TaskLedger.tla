----------------------------- MODULE TaskLedger -----------------------------
(***************************************************************************)
(* What TaskScheduler.run promises its caller: every task it is given, and *)
(* every follow-up a task brings, is settled exactly once; a task that was *)
(* never started is given up only after a stop was requested; at most      *)
(* Limit tasks are in flight.  No heap, no batches, no program counter.    *)
(***************************************************************************)
EXTENDS Integers, Sequences, FiniteSets

CONSTANTS
  Task,    \* every task there may be
  Given,   \* the tasks the caller hands over
  Limit    \* how many may be in flight

VARIABLES
  waiting,   \* known tasks not started
  flying,    \* started tasks without a result
  ledger,    \* the results so far
  stop       \* a stop was requested

ledgerVars == <<waiting, flying, ledger, stop>>

Known == waiting \cup flying \cup {ledger[i].task : i \in DOMAIN ledger}

LedgerInit ==
  /\ waiting = Given
  /\ flying = {}
  /\ ledger = <<>>
  /\ stop \in BOOLEAN

Launch(t) ==
  /\ t \in waiting
  /\ Cardinality(flying) < Limit
  /\ waiting' = waiting \ {t}
  /\ flying' = flying \cup {t}
  /\ UNCHANGED <<ledger, stop>>

\* A result, of any status but "shutdown", and the tasks it brings.
Settle(t, status, fresh) ==
  /\ t \in flying
  /\ status \in {"ok", "failed", "timeout", "skipped"}
  /\ fresh \cap Known = {}
  /\ fresh # {} => status = "ok"
  /\ flying' = flying \ {t}
  /\ waiting' = waiting \cup fresh
  /\ ledger' = Append(ledger, [task |-> t, status |-> status])
  /\ UNCHANGED stop

\* Giving up starts only when nothing is in flight any more.
GiveUp(t) ==
  /\ t \in waiting
  /\ stop
  /\ flying = {}
  /\ waiting' = waiting \ {t}
  /\ ledger' = Append(ledger, [task |-> t, status |-> "shutdown"])
  /\ UNCHANGED <<flying, stop>>

Stop ==
  /\ ~stop
  /\ stop' = TRUE
  /\ UNCHANGED <<waiting, flying, ledger>>

LedgerNext ==
  \/ \E t \in Task : Launch(t) \/ GiveUp(t)
  \/ \E t \in Task, status \in {"ok", "failed", "timeout", "skipped"} :
       \E fresh \in SUBSET Task : Settle(t, status, fresh)
  \/ Stop

LedgerSpec == LedgerInit /\ [][LedgerNext]_ledgerVars
=============================================================================
