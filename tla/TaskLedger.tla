------------------------------ MODULE TaskLedger ------------------------------
(***************************************************************************)
(* What a suffix task manager promises, with no threads, models or files:  *)
(* in a round every offered task is started at most once, at most Capacity *)
(* tasks run at a time, and a started task is decided at most once, either *)
(* committed or failed.  Only a new round makes a task startable again.    *)
(***************************************************************************)
EXTENDS Naturals, FiniteSets

CONSTANTS
  Sids,      \* suffix replica identities a round may configure
  Capacity   \* how many tasks may run at a time

VARIABLES
  offered,   \* the tasks this round's configuration names
  status     \* how far each task got in this round

ledgerVars == <<offered, status>>

Statuses == {"open", "running", "committed", "failed"}

AllOpen == [s \in Sids |-> "open"]

RunningTasks == {s \in Sids : status[s] = "running"}

LedgerInit ==
  /\ offered = {}
  /\ status = AllOpen

\* A round boundary: all outcomes of the finished round are forgotten.
NewRound ==
  /\ offered' \in SUBSET Sids
  /\ status' = AllOpen

Start(s) ==
  /\ s \in offered
  /\ status[s] = "open"
  /\ Cardinality(RunningTasks) < Capacity
  /\ status' = [status EXCEPT ![s] = "running"]
  /\ UNCHANGED offered

Decide(s) ==
  /\ status[s] = "running"
  /\ \E outcome \in {"committed", "failed"} :
        status' = [status EXCEPT ![s] = outcome]
  /\ UNCHANGED offered

LedgerNext == NewRound \/ \E s \in Sids : Start(s) \/ Decide(s)

LedgerSpec == LedgerInit /\ [][LedgerNext]_ledgerVars
===============================================================================
