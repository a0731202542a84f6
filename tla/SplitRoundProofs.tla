--------------------------- MODULE SplitRoundProofs ----------------------------
(***************************************************************************)
(* That the global model is made of whole pairs only, for any number of    *)
(* clients, batches and rounds.  RoundInv is the inductive invariant: it   *)
(* ties what a task of the current round has done to the suffix, the       *)
(* upload and the registry entry of its client, and says that tasks of     *)
(* earlier rounds have no token any more.  The last part shows that every  *)
(* step brings a run closer to its end.                                    *)
(***************************************************************************)
EXTENDS SplitRound, TLAPS

\* A task is a pair of its client and its round.
LEMMA TaskIdentity ==
  ASSUME NEW t \in Tasks
  PROVE  Cid(t) \in Clients /\ Round(t) \in Rounds /\ t = <<Cid(t), Round(t)>>
BY DEF Tasks, Cid, Round

\* The task of a client in a round.
LEMMA TaskOf ==
  ASSUME NEW c \in Clients, NEW r \in Rounds
  PROVE  <<c, r>> \in Tasks /\ Cid(<<c, r>>) = c /\ Round(<<c, r>>) = r
BY DEF Tasks, Cid, Round

\* States are records of the declared type.
LEMMA StateTyped ==
  ASSUME NEW m \in [round : 0..MaxRounds, from : SUBSET Clients],
         NEW a \in 0..Batches+1, NEW p \in 0..Batches+1
  PROVE  State(m, a, p) \in StateType
BY DEF State, StateType

\* A run begins in the invariant.
LEMMA InitInv == Init => RoundInv
<1> SUFFICES ASSUME Init PROVE RoundInv
  OBVIOUS
<1> USE RoundAssumption
<1>1. TypeOK
  <2>1. InitialModel \in [round : 0..MaxRounds, from : SUBSET Clients] /\ Nothing \in StateType
    BY DEF InitialModel, Nothing, StateType
  <2> QED BY <2>1 DEF Init, TypeOK, Phases, Steps, NoRound
<1>2. TokensCurrent /\ TasksOfRounds /\ TasksInStep /\ Received
  BY DEF Init, TokensCurrent, TasksOfRounds, TasksInStep, Received, NoRound
<1>3. RoundsSeparate
  BY DEF Init, RoundsSeparate, InitialModel
<1> QED BY <1>1, <1>2, <1>3 DEF RoundInv

\* The absent state is of the declared type.
LEMMA NothingTyped == Nothing \in StateType
BY RoundAssumption DEF Nothing, InitialModel, StateType

\* A task that is admitted is one of the current round, whose suffix, upload and
\* registry entry are in step with it.
LEMMA Admitted ==
  ASSUME RoundInv, NEW t \in Tasks, Authorized(t)
  PROVE  phase = "fitting" /\ Round(t) = round /\ round \in Rounds /\ InStep(t)
<1>1. Cid(t) \in Clients /\ tokens[Cid(t)] # NoRound
  BY TaskIdentity, RoundAssumption DEF Authorized, NoRound, Rounds
<1>2. phase = "fitting" /\ tokens[Cid(t)] = round
  BY <1>1 DEF RoundInv, TokensCurrent
<1> QED BY <1>1, <1>2 DEF RoundInv, TasksInStep, RoundsSeparate, Authorized

\* The suffix of a task that trains has taken the steps of the task, and one
\* more is within the bound.
LEMMA TrainsTyped ==
  ASSUME RoundInv, NEW t \in Tasks, Leased(t), at[t] = "train", steps[t] < Batches,
         NEW k \in {0, 1}
  PROVE  Trains(suffix[Cid(t)], k) \in StateType
<1>1. suffix[Cid(t)] = State(clientModel, steps[t], steps[t])
  BY Admitted DEF Leased, InStep
<1>2. steps[t] \in Nat /\ steps[t] + 1 \in 0..Batches+1 /\ steps[t] + k \in 0..Batches+1
  BY RoundAssumption DEF RoundInv, TypeOK
<1>3. clientModel \in [round : 0..MaxRounds, from : SUBSET Clients]
  BY DEF RoundInv, TypeOK
<1>4. Trains(suffix[Cid(t)], k) = State(clientModel, steps[t] + 1, steps[t] + k)
  BY <1>1 DEF Trains, State
<1> QED BY <1>2, <1>3, <1>4, StateTyped

\* Every step keeps the variables in their types; the number of steps of a suffix
\* is bounded because it is in step with its task.
LEMMA TypeStep == RoundInv /\ [Next]_vars => TypeOK'
<1> SUFFICES ASSUME RoundInv, [Next]_vars PROVE TypeOK'
  OBVIOUS
<1> USE DEF RoundInv, thread, service, answers, models, task, TypeOK, Steps, Phases
<1>1. ASSUME NEW t \in Tasks, Start(t) PROVE TypeOK'
  BY <1>1, TaskIdentity DEF Start, Goes
<1>2. ASSUME NEW t \in Tasks, Acquire(t) PROVE TypeOK'
  <2>1. State(serverModel, 0, 0) \in StateType /\ Cid(t) \in Clients
    BY StateTyped, TaskIdentity, RoundAssumption
  <2>2. at' \in [Tasks -> Steps]
    BY <1>2 DEF Acquire, Goes
  <2>3. suffix' \in [Clients -> StateType]
    BY <1>2, <2>1 DEF Acquire
  <2> QED BY <1>2, <2>1, <2>2, <2>3 DEF Acquire
<1>3. ASSUME NEW t \in Tasks, Load(t) PROVE TypeOK'
  BY <1>3, TaskIdentity DEF Load, Goes, Leased, Authorized
<1>4. ASSUME NEW t \in Tasks, Train(t) PROVE TypeOK'
  <2>1. Trains(suffix[Cid(t)], 0) \in StateType /\ Trains(suffix[Cid(t)], 1) \in StateType
    BY <1>4, TrainsTyped DEF Train
  <2>2. at' \in [Tasks -> Steps]
    BY <1>4 DEF Train, TrainFails, Goes
  <2>3. suffix' \in [Clients -> StateType]
    BY <1>4, <2>1 DEF Train, TrainFails
  <2>4. steps[t] + 1 \in 0..Batches
    BY <1>4, RoundAssumption DEF Train
  <2>5. steps' \in [Tasks -> 0..Batches]
    BY <1>4, <2>4 DEF Train, TrainFails
  <2> QED BY <1>4, <2>2, <2>3, <2>5 DEF Train
<1>5. ASSUME NEW t \in Tasks, Trained(t) PROVE TypeOK'
  BY <1>5, TaskIdentity DEF Trained, Goes
<1>6. ASSUME NEW t \in Tasks, Upload(t) PROVE TypeOK'
  <2>1. State(base[t], steps[t], steps[t]) \in StateType
    BY StateTyped, RoundAssumption
  <2>2. at' \in [Tasks -> Steps]
    BY <1>6 DEF Upload, Goes
  <2>3. uploads' \in [Clients -> StateType]
    BY <1>6, <2>1 DEF Upload
  <2> QED BY <1>6, <2>2, <2>3 DEF Upload
<1>7. ASSUME NEW t \in Tasks, Commit(t) PROVE TypeOK'
  <2>1. Nothing \in StateType
    BY NothingTyped
  <2>2. at' \in [Tasks -> Steps]
    BY <1>7 DEF Commit, Goes
  <2>3. suffix' \in [Clients -> StateType] /\ completed' \in [Clients -> StateType]
    BY <1>7, <2>1, TaskIdentity DEF Commit
  <2> QED BY <1>7, <2>2, <2>3 DEF Commit
<1>8. ASSUME NEW t \in Tasks, Return(t) PROVE TypeOK'
  <2>1. Round(t) \in 0..MaxRounds
    BY TaskIdentity DEF Rounds
  <2> QED BY <1>8, <2>1, TaskIdentity DEF Return, Goes
<1>9. ASSUME NEW t \in Tasks, Raises(t) PROVE TypeOK'
  BY <1>9, TaskIdentity DEF Raises, Goes
<1>10. ASSUME NEW t \in Tasks, Abort(t) PROVE TypeOK'
  <2>1. suffix' \in [Clients -> StateType]
    BY <1>10, NothingTyped DEF Abort
  <2> QED BY <1>10, <2>1 DEF Abort, Goes
<1>11. ASSUME NEW t \in Tasks, WorkerDies(t) PROVE TypeOK'
  BY <1>11, TaskIdentity DEF WorkerDies, Goes
<1>12. ASSUME NEW S \in SUBSET Clients, Configure(S) PROVE TypeOK'
  <2>1. Nothing \in StateType
    BY NothingTyped
  <2>2. round + 1 \in 0..MaxRounds /\ NoRound \in 0..MaxRounds
    BY <1>12, RoundAssumption DEF Configure, NoRound
  <2> QED BY <1>12, <2>1, <2>2 DEF Configure
<1>13. ASSUME NEW c \in Clients, Receive(c) PROVE TypeOK'
  <2>1. round \in Rounds /\ <<c, round>> \in Tasks
    BY <1>13, TaskOf DEF Receive, RoundsSeparate
  <2>2. State(base[<<c, round>>], steps[<<c, round>>], steps[<<c, round>>]) \in StateType
    BY <2>1, StateTyped, RoundAssumption
  <2>3. results' \in [Clients -> StateType]
    BY <1>13, <2>2 DEF Receive
  <2>4. failures' \subseteq selected /\ selected' = selected
    BY <1>13 DEF Receive, Unanswered
  <2>5. UNCHANGED <<thread, service, task>>
    BY <1>13 DEF Receive
  <2> QED BY <2>3, <2>4, <2>5
<1>14. ASSUME NEW c \in Clients, ReceiveFailure(c) PROVE TypeOK'
  BY <1>14, TaskIdentity DEF ReceiveFailure, Unanswered
<1>15. CASE Collect
  <2>1. Nothing \in StateType /\ NoRound \in 0..MaxRounds
    BY NothingTyped, RoundAssumption DEF NoRound
  <2> QED BY <1>15, <2>1 DEF Collect
<1>16. CASE Aggregate
  <2>1. Nothing \in StateType
    BY NothingTyped
  <2>2. [round |-> round, from |-> Pairs] \in [round : 0..MaxRounds, from : SUBSET Clients]
    BY DEF Pairs, Prefixes
  <2> QED BY <1>16, <2>1, <2>2 DEF Aggregate, EndRound
<1>17. CASE Skip
  <2>1. Nothing \in StateType
    BY NothingTyped
  <2> QED BY <1>17, <2>1 DEF Skip, EndRound
<1>18. CASE Raise
  <2>1. Nothing \in StateType
    BY NothingTyped
  <2> QED BY <1>18, <2>1 DEF Raise, EndRound
<1>19. CASE Finished \/ UNCHANGED vars
  BY <1>19 DEF Finished, vars
<1> QED
  BY <1>1, <1>2, <1>3, <1>4, <1>5, <1>6, <1>7, <1>8, <1>9, <1>10, <1>11,
     <1>12, <1>13, <1>14, <1>15, <1>16, <1>17, <1>18, <1>19
  DEF Next, TaskStep, RoundStep

\* Tokens are given for the round that begins, and end before the collection.
LEMMA TokensStep == RoundInv /\ [Next]_vars => TokensCurrent'
<1> SUFFICES ASSUME RoundInv, [Next]_vars PROVE TokensCurrent'
  OBVIOUS
<1> USE DEF RoundInv, thread, service, answers, models, task, TokensCurrent, TypeOK, NoRound
<1>1. ASSUME NEW t \in Tasks, Start(t) PROVE TokensCurrent'
  BY <1>1 DEF Start, Goes
<1>2. ASSUME NEW t \in Tasks, Acquire(t) PROVE TokensCurrent'
  BY <1>2 DEF Acquire, Goes, Authorized
<1>3. ASSUME NEW t \in Tasks, Load(t) PROVE TokensCurrent'
  BY <1>3 DEF Load, Goes, Leased, Authorized
<1>4. ASSUME NEW t \in Tasks, Train(t) PROVE TokensCurrent'
  BY <1>4 DEF Train, Goes, Leased, Authorized, TrainFails
<1>5. ASSUME NEW t \in Tasks, Trained(t) PROVE TokensCurrent'
  BY <1>5 DEF Trained, Goes
<1>6. ASSUME NEW t \in Tasks, Upload(t) PROVE TokensCurrent'
  BY <1>6 DEF Upload, Goes, Leased, Authorized
<1>7. ASSUME NEW t \in Tasks, Commit(t) PROVE TokensCurrent'
  BY <1>7 DEF Commit, Goes, Leased, Authorized
<1>8. ASSUME NEW t \in Tasks, Return(t) PROVE TokensCurrent'
  BY <1>8 DEF Return, Goes
<1>9. ASSUME NEW t \in Tasks, Raises(t) PROVE TokensCurrent'
  BY <1>9 DEF Raises, Goes
<1>10. ASSUME NEW t \in Tasks, Abort(t) PROVE TokensCurrent'
  BY <1>10 DEF Abort, Goes, Leased, Authorized
<1>11. ASSUME NEW t \in Tasks, WorkerDies(t) PROVE TokensCurrent'
  BY <1>11 DEF WorkerDies, Goes
<1>12. ASSUME NEW S \in SUBSET Clients, Configure(S) PROVE TokensCurrent'
  BY <1>12 DEF Configure
<1>13. ASSUME NEW c \in Clients, Receive(c) PROVE TokensCurrent'
  BY <1>13 DEF Receive, Unanswered
<1>14. ASSUME NEW c \in Clients, ReceiveFailure(c) PROVE TokensCurrent'
  BY <1>14 DEF ReceiveFailure, Unanswered
<1>15. CASE Collect
  BY <1>15 DEF Collect
<1>16. CASE Aggregate
  BY <1>16 DEF Aggregate, EndRound
<1>17. CASE Skip
  BY <1>17 DEF Skip, EndRound
<1>18. CASE Raise
  BY <1>18 DEF Raise, EndRound
<1>19. CASE Finished \/ UNCHANGED vars
  BY <1>19 DEF Finished, vars
<1> QED
  BY <1>1, <1>2, <1>3, <1>4, <1>5, <1>6, <1>7, <1>8, <1>9, <1>10, <1>11,
     <1>12, <1>13, <1>14, <1>15, <1>16, <1>17, <1>18, <1>19
  DEF Next, TaskStep, RoundStep

\* A task of a later round has done nothing yet.
LEMMA TasksStep == RoundInv /\ [Next]_vars => TasksOfRounds'
<1> SUFFICES ASSUME RoundInv, [Next]_vars PROVE TasksOfRounds'
  OBVIOUS
<1> USE DEF RoundInv, thread, service, answers, models, task, TasksOfRounds, TypeOK
<1>1. ASSUME NEW t \in Tasks, Start(t) PROVE TasksOfRounds'
  BY <1>1, TaskIdentity DEF Start, Goes
<1>2. ASSUME NEW t \in Tasks, Acquire(t) PROVE TasksOfRounds'
  BY <1>2, TaskIdentity DEF Acquire, Goes, Authorized
<1>3. ASSUME NEW t \in Tasks, Load(t) PROVE TasksOfRounds'
  BY <1>3, TaskIdentity DEF Load, Goes, Leased, Authorized
<1>4. ASSUME NEW t \in Tasks, Train(t) PROVE TasksOfRounds'
  BY <1>4, TaskIdentity DEF Train, Goes, Leased, Authorized, TrainFails
<1>5. ASSUME NEW t \in Tasks, Trained(t) PROVE TasksOfRounds'
  BY <1>5, TaskIdentity DEF Trained, Goes
<1>6. ASSUME NEW t \in Tasks, Upload(t) PROVE TasksOfRounds'
  BY <1>6, TaskIdentity DEF Upload, Goes, Leased, Authorized
<1>7. ASSUME NEW t \in Tasks, Commit(t) PROVE TasksOfRounds'
  BY <1>7, TaskIdentity DEF Commit, Goes, Leased, Authorized
<1>8. ASSUME NEW t \in Tasks, Return(t) PROVE TasksOfRounds'
  BY <1>8, TaskIdentity DEF Return, Goes
<1>9. ASSUME NEW t \in Tasks, Raises(t) PROVE TasksOfRounds'
  BY <1>9, TaskIdentity DEF Raises, Goes
<1>10. ASSUME NEW t \in Tasks, Abort(t) PROVE TasksOfRounds'
  BY <1>10, TaskIdentity DEF Abort, Goes, Leased, Authorized
<1>11. ASSUME NEW t \in Tasks, WorkerDies(t) PROVE TasksOfRounds'
  BY <1>11, TaskIdentity DEF WorkerDies, Goes
<1>12. ASSUME NEW S \in SUBSET Clients, Configure(S) PROVE TasksOfRounds'
  <2>1. \A t \in Tasks : Round(t) \in Nat
    BY TaskIdentity DEF Rounds
  <2>2. round \in Nat
    BY RoundAssumption
  <2> QED BY <1>12, <2>1, <2>2 DEF Configure
<1>13. ASSUME NEW c \in Clients, Receive(c) PROVE TasksOfRounds'
  BY <1>13, TaskIdentity DEF Receive, Unanswered
<1>14. ASSUME NEW c \in Clients, ReceiveFailure(c) PROVE TasksOfRounds'
  BY <1>14, TaskIdentity DEF ReceiveFailure, Unanswered
<1>15. CASE Collect
  BY <1>15, TaskIdentity DEF Collect
<1>16. CASE Aggregate
  BY <1>16, TaskIdentity DEF Aggregate, EndRound
<1>17. CASE Skip
  BY <1>17, TaskIdentity DEF Skip, EndRound
<1>18. CASE Raise
  BY <1>18, TaskIdentity DEF Raise, EndRound
<1>19. CASE Finished \/ UNCHANGED vars
  BY <1>19 DEF Finished, vars
<1> QED
  BY <1>1, <1>2, <1>3, <1>4, <1>5, <1>6, <1>7, <1>8, <1>9, <1>10, <1>11,
     <1>12, <1>13, <1>14, <1>15, <1>16, <1>17, <1>18, <1>19
  DEF Next, TaskStep, RoundStep

\* Two tasks of one round are tasks of two clients.
LEMMA OtherTask ==
  ASSUME NEW t \in Tasks, NEW u \in Tasks, Round(u) = Round(t), u # t
  PROVE  Cid(u) # Cid(t)
BY TaskIdentity

\* Every step keeps the tasks of the current round in step with the service; a
\* task of an earlier round changes nothing but itself.
LEMMA InStepStep == RoundInv /\ [Next]_vars => TasksInStep'
<1> SUFFICES ASSUME RoundInv, [Next]_vars, phase' = "fitting",
                    NEW u \in Tasks, Round(u) = round'
             PROVE  InStep(u)'
  BY DEF TasksInStep
<1> USE DEF thread, service, answers, models, task
<1>0. TypeOK /\ TasksOfRounds /\ RoundsSeparate /\ Cid(u) \in Clients
  BY TaskIdentity DEF RoundInv
<1>a. ASSUME phase = "fitting", round' = round PROVE InStep(u)
  BY <1>a DEF RoundInv, TasksInStep
<1>1. ASSUME NEW t \in Tasks, Start(t) PROVE InStep(u)'
  <2>1. InStep(u) /\ phase = "fitting" /\ UNCHANGED <<clientModel, base>>
    BY <1>1, <1>a DEF Start
  <2> QED BY <1>1, <1>0, <2>1 DEF Start, Goes, InStep, WholeTask, TypeOK
<1>2. ASSUME NEW t \in Tasks, Acquire(t) PROVE InStep(u)'
  <2>1. InStep(u) /\ phase = "fitting" /\ UNCHANGED <<clientModel, base>>
    BY <1>2, <1>a DEF Acquire
  <2>2. Authorized(t)
    BY <1>2 DEF Acquire, Leased
  <2>3. InStep(t) /\ Round(t) = round /\ Cid(t) \in Clients
    BY <2>2, Admitted, TaskIdentity
  <2>4. CASE u = t
    <3>1. at'[u] \in {"load", "failed"} /\ UNCHANGED <<steps, uploads, completed>>
      BY <1>2, <1>0, <2>4 DEF Acquire, Goes, TypeOK
    <3>2. at'[u] = "load" => suffix'[Cid(u)] = State(clientModel, 0, 0)
      BY <1>2, <1>0, <2>4 DEF Acquire, Goes, TypeOK, RoundsSeparate
    <3>3. base[u] = clientModel /\ steps[u] = 0
      BY <1>2, <2>1, <2>4 DEF Acquire, InStep
    <3> QED BY <2>1, <3>1, <3>2, <3>3 DEF InStep
  <2>5. CASE u # t
    <3>1. Cid(u) # Cid(t)
      BY <1>2, <2>3, <2>5, OtherTask DEF Acquire
    <3>2. at'[u] = at[u] /\ suffix'[Cid(u)] = suffix[Cid(u)]
      BY <1>2, <1>0, <2>5, <3>1 DEF Acquire, Goes, TypeOK
    <3>3. UNCHANGED <<steps, uploads, completed>>
      BY <1>2 DEF Acquire
    <3> QED BY <2>1, <3>2, <3>3 DEF InStep, WholeTask
  <2> QED BY <2>4, <2>5
<1>3. ASSUME NEW t \in Tasks, Load(t) PROVE InStep(u)'
  <2>1. InStep(u) /\ phase = "fitting" /\ UNCHANGED <<clientModel, base>>
    BY <1>3, <1>a DEF Load
  <2> QED BY <1>3, <1>0, <2>1 DEF Load, Goes, InStep, WholeTask, TypeOK
<1>4. ASSUME NEW t \in Tasks, Train(t) PROVE InStep(u)'
  <2>1. InStep(u) /\ phase = "fitting" /\ UNCHANGED <<clientModel, base>>
    BY <1>4, <1>a DEF Train
  <2>2. Authorized(t)
    BY <1>4 DEF Train, Leased
  <2>3. InStep(t) /\ Round(t) = round /\ Cid(t) \in Clients
    BY <2>2, Admitted, TaskIdentity
  <2>4. CASE u = t
    <3>1. at[t] = "train" /\ suffix[Cid(t)] = State(clientModel, steps[t], steps[t])
      BY <1>4, <2>3 DEF Train, InStep
    <3>2. CASE /\ suffix' = [suffix EXCEPT ![Cid(t)] = Trains(@, 1)]
               /\ steps' = [steps EXCEPT ![t] = @ + 1] /\ UNCHANGED at
      <4>1. suffix'[Cid(t)] = State(clientModel, steps[t] + 1, steps[t] + 1)
        BY <3>1, <3>2, <2>3, <1>0 DEF Trains, State, TypeOK
      <4>2. steps'[t] = steps[t] + 1 /\ at'[t] = "train" /\ base'[t] = clientModel'
        BY <3>1, <3>2, <2>1, <2>3, <2>4, <1>0 DEF InStep, TypeOK
      <4> QED BY <4>1, <4>2, <2>1, <2>4 DEF InStep
    <3>3. CASE TrainFails(t)
      <4>1. at'[t] = "abort" /\ base'[t] = clientModel'
        BY <3>1, <3>3, <2>1, <2>3, <2>4, <1>0 DEF TrainFails, Goes, InStep, TypeOK
      <4> QED BY <4>1, <2>4 DEF InStep
    <3> QED BY <1>4, <3>2, <3>3 DEF Train
  <2>5. CASE u # t
    <3>1. Cid(u) # Cid(t)
      BY <1>4, <2>3, <2>5, OtherTask DEF Train
    <3> QED BY <1>4, <1>0, <2>1, <2>5, <3>1 DEF Train, Goes, TrainFails, InStep, WholeTask, TypeOK
  <2> QED BY <2>4, <2>5
<1>5. ASSUME NEW t \in Tasks, Trained(t) PROVE InStep(u)'
  <2>1. InStep(u) /\ phase = "fitting" /\ UNCHANGED <<clientModel, base>>
    BY <1>5, <1>a DEF Trained
  <2> QED BY <1>5, <1>0, <2>1 DEF Trained, Goes, InStep, WholeTask, TypeOK
<1>6. ASSUME NEW t \in Tasks, Upload(t) PROVE InStep(u)'
  <2>1. InStep(u) /\ phase = "fitting" /\ UNCHANGED <<clientModel, base>>
    BY <1>6, <1>a DEF Upload
  <2>2. Authorized(t)
    BY <1>6 DEF Upload, Leased
  <2>3. InStep(t) /\ Round(t) = round /\ Cid(t) \in Clients
    BY <2>2, Admitted, TaskIdentity
  <2>4. CASE u = t
    BY <1>6, <1>0, <2>1, <2>4 DEF Upload, Goes, InStep, WholeTask, TypeOK
  <2>5. CASE u # t
    <3>1. Cid(u) # Cid(t)
      BY <1>6, <2>3, <2>5, OtherTask DEF Upload
    <3> QED BY <1>6, <1>0, <2>1, <2>5, <3>1 DEF Upload, Goes, InStep, WholeTask, TypeOK
  <2> QED BY <2>4, <2>5
<1>7. ASSUME NEW t \in Tasks, Commit(t) PROVE InStep(u)'
  <2>1. InStep(u) /\ phase = "fitting" /\ UNCHANGED <<clientModel, base>>
    BY <1>7, <1>a DEF Commit
  <2>2. Authorized(t)
    BY <1>7 DEF Commit, Leased
  <2>3. InStep(t) /\ Round(t) = round /\ Cid(t) \in Clients
    BY <2>2, Admitted, TaskIdentity
  <2>4. CASE u = t
    BY <1>7, <1>0, <2>1, <2>4 DEF Commit, Goes, InStep, WholeTask, TypeOK
  <2>5. CASE u # t
    <3>1. Cid(u) # Cid(t)
      BY <1>7, <2>3, <2>5, OtherTask DEF Commit
    <3> QED BY <1>7, <1>0, <2>1, <2>5, <3>1 DEF Commit, Goes, InStep, WholeTask, TypeOK
  <2> QED BY <2>4, <2>5
<1>8. ASSUME NEW t \in Tasks, Return(t) PROVE InStep(u)'
  <2>1. InStep(u) /\ phase = "fitting" /\ UNCHANGED <<clientModel, base>>
    BY <1>8, <1>a DEF Return
  <2> QED BY <1>8, <1>0, <2>1 DEF Return, Goes, InStep, WholeTask, TypeOK
<1>9. ASSUME NEW t \in Tasks, Raises(t) PROVE InStep(u)'
  <2>1. InStep(u) /\ phase = "fitting" /\ UNCHANGED <<clientModel, base>>
    BY <1>9, <1>a DEF Raises
  <2> QED BY <1>9, <1>0, <2>1 DEF Raises, Goes, InStep, WholeTask, TypeOK
<1>10. ASSUME NEW t \in Tasks, Abort(t) PROVE InStep(u)'
  <2>1. InStep(u) /\ phase = "fitting" /\ UNCHANGED <<clientModel, base>>
    BY <1>10, <1>a DEF Abort
  <2>4. CASE u = t
    BY <1>10, <1>0, <2>1, <2>4 DEF Abort, Goes, InStep, WholeTask, TypeOK
  <2>5. CASE u # t
    <3>1. Leased(t) => Cid(u) # Cid(t)
      BY <1>10, <2>5, OtherTask, Admitted DEF Abort, Leased
    <3> QED BY <1>10, <1>0, <2>1, <2>5, <3>1, TaskIdentity DEF Abort, Goes, InStep, WholeTask, TypeOK
  <2> QED BY <2>4, <2>5
<1>11. ASSUME NEW t \in Tasks, WorkerDies(t) PROVE InStep(u)'
  <2>1. InStep(u) /\ phase = "fitting" /\ UNCHANGED <<clientModel, base>>
    BY <1>11, <1>a DEF WorkerDies
  <2> QED BY <1>11, <1>0, <2>1 DEF WorkerDies, Goes, InStep, WholeTask, TypeOK
<1>12. ASSUME NEW S \in SUBSET Clients, Configure(S) PROVE InStep(u)'
  <2>1. round \in Nat /\ Round(u) = round + 1
    BY <1>12, <1>0, RoundAssumption DEF Configure, TypeOK
  <2>2. at[u] = "none" /\ steps[u] = 0
    BY <2>1, <1>0 DEF TasksOfRounds
  <2>3. at'[u] \in {"none", "start"} /\ steps'[u] = 0
    BY <1>12, <2>1, <2>2, <1>0 DEF Configure, TypeOK
  <2>4. at'[u] = "start" => base'[u] = clientModel'
    BY <1>12, <2>1, <2>2 DEF Configure
  <2> QED BY <2>3, <2>4 DEF InStep
<1>13. ASSUME NEW c \in Clients, Receive(c) \/ ReceiveFailure(c) PROVE InStep(u)'
  BY <1>13, <1>a DEF Receive, ReceiveFailure, InStep, WholeTask
<1>14. CASE Collect \/ Aggregate \/ Skip \/ Raise
  BY <1>14 DEF Collect, Aggregate, Skip, Raise
<1>15. CASE Finished \/ UNCHANGED vars
  BY <1>15, <1>a DEF Finished, vars, InStep, WholeTask
<1> QED
  BY <1>1, <1>2, <1>3, <1>4, <1>5, <1>6, <1>7, <1>8, <1>9, <1>10, <1>11,
     <1>12, <1>13, <1>14, <1>15
  DEF Next, TaskStep, RoundStep

\* A reply that was received stays what it is: its task has ended, and nobody
\* else commits for its client in this round.
LEMMA ReceivedStep == RoundInv /\ [Next]_vars => Received'
<1> SUFFICES ASSUME RoundInv, [Next]_vars, phase' \in {"fitting", "collected"},
                    NEW c \in Clients, results'[c].some
             PROVE  /\ results'[c] = WholeTask' /\ completed'[c] = WholeTask'
                    /\ at'[<<c, round'>>] = "returned"
  BY DEF Received
<1> DEFINE Goal == /\ results'[c] = WholeTask' /\ completed'[c] = WholeTask'
                   /\ at'[<<c, round'>>] = "returned"
<1> USE DEF thread, service, answers, models, task
<1>0. TypeOK /\ RoundsSeparate
  BY DEF RoundInv
<1>a. ASSUME phase \in {"fitting", "collected"}, results[c].some
      PROVE  /\ results[c] = WholeTask /\ completed[c] = WholeTask
             /\ at[<<c, round>>] = "returned"
             /\ <<c, round>> \in Tasks /\ Cid(<<c, round>>) = c
  BY <1>a, TaskOf DEF RoundInv, Received, RoundsSeparate
<1>1. ASSUME NEW t \in Tasks, TaskStep(t) \/ WorkerDies(t) PROVE Goal
  <2>1. UNCHANGED <<phase, round, results, clientModel>>
    BY <1>1 DEF TaskStep, Start, Acquire, Load, Train, Trained, Upload, Commit, Return, Raises, Abort, WorkerDies
  <2>2. /\ results[c] = WholeTask /\ completed[c] = WholeTask
        /\ at[<<c, round>>] = "returned" /\ <<c, round>> \in Tasks /\ Cid(<<c, round>>) = c
    BY <2>1, <1>a
  <2>3. at[t] \notin {"none", "returned", "failed"}
    BY <1>1 DEF TaskStep, Start, Acquire, Load, Train, Trained, Upload, Commit, Return, Raises, Abort, WorkerDies
  <2>4. at'[<<c, round>>] = "returned"
    BY <1>1, <2>2, <2>3, <1>0 DEF TaskStep, Start, Acquire, Load, Train, Trained, Upload, Commit, Return, Raises, Abort, WorkerDies, TrainFails, Goes, TypeOK
  <2>5. completed'[c] = completed[c]
    <3>1. ASSUME Commit(t) PROVE Cid(t) # c
      <4>1. Round(t) = round
        BY <3>1, Admitted DEF Commit, Leased
      <4> QED BY <4>1, <2>2, <2>3, TaskIdentity
    <3>2. CASE Commit(t)
      BY <3>1, <3>2, <1>0, TaskIdentity DEF Commit, TypeOK
    <3>3. CASE ~Commit(t)
      BY <1>1, <3>3 DEF TaskStep, Start, Acquire, Load, Train, Trained, Upload, Return, Raises, Abort, WorkerDies
    <3> QED BY <3>2, <3>3
  <2> QED BY <2>1, <2>2, <2>4, <2>5 DEF WholeTask
<1>2. ASSUME NEW S \in SUBSET Clients, Configure(S) PROVE Goal
  BY <1>2 DEF Configure, Nothing
<1>3. ASSUME NEW d \in Clients, Receive(d) PROVE Goal
  <2>1. /\ phase = "fitting" /\ UNCHANGED <<round, clientModel, completed, at>>
        /\ round \in Rounds /\ at[<<d, round>>] = "returned"
    BY <1>3, <1>0 DEF Receive, RoundsSeparate
  <2>2. /\ <<d, round>> \in Tasks /\ Cid(<<d, round>>) = d /\ InStep(<<d, round>>)
    BY <2>1, TaskOf DEF RoundInv, TasksInStep
  <2>3. CASE c = d
    <3>1. completed[c] = WholeTask /\ (c \in Constrained => uploads[c] = WholeTask)
      BY <2>1, <2>2, <2>3 DEF InStep
    <3>2. State(base[<<c, round>>], steps[<<c, round>>], steps[<<c, round>>]) = WholeTask
      BY <2>1, <2>2, <2>3 DEF InStep, WholeTask
    <3>3. results[c].some \/ results'[c] = WholeTask
      BY <1>3, <2>3, <3>1, <3>2, <1>0 DEF Receive, TypeOK
    <3>4. ~results[c].some
      BY <1>3, <2>3 DEF Receive, Unanswered
    <3> QED BY <2>1, <2>3, <3>1, <3>3, <3>4 DEF WholeTask
  <2>4. CASE c # d
    <3>1. results'[c] = results[c]
      BY <1>3, <2>4, <1>0 DEF Receive, TypeOK
    <3> QED BY <1>a, <2>1, <3>1 DEF WholeTask
  <2> QED BY <2>3, <2>4
<1>4. ASSUME NEW d \in Clients, ReceiveFailure(d) PROVE Goal
  BY <1>4, <1>a DEF ReceiveFailure, WholeTask
<1>5. CASE Collect
  BY <1>5, <1>a DEF Collect, WholeTask
<1>6. CASE Aggregate \/ Skip \/ Raise
  BY <1>6 DEF Aggregate, Skip, Raise
<1>7. CASE Finished \/ UNCHANGED vars
  BY <1>7, <1>a DEF Finished, vars, WholeTask
<1> QED
  BY <1>1, <1>2, <1>3, <1>4, <1>5, <1>6, <1>7 DEF Next, RoundStep

\* Every step keeps the stages' models equal and the registry empty between
\* rounds.
LEMMA SeparateStep == RoundInv /\ [Next]_vars => RoundsSeparate'
<1> SUFFICES ASSUME RoundInv, [Next]_vars PROVE RoundsSeparate'
  OBVIOUS
<1> USE DEF thread, service, answers, models, task
<1>0. TypeOK /\ RoundsSeparate
  BY DEF RoundInv
<1>1. ASSUME NEW t \in Tasks, TaskStep(t) \/ WorkerDies(t) PROVE RoundsSeparate'
  <2>1. UNCHANGED <<phase, round, clientModel, serverModel>>
    BY <1>1 DEF TaskStep, Start, Acquire, Load, Train, Trained, Upload, Commit, Return, Raises, Abort, WorkerDies
  <2>2. phase # "fitting" => UNCHANGED completed
    <3>1. CASE Commit(t)
      BY <3>1, Admitted DEF Commit, Leased
    <3>2. CASE ~Commit(t)
      BY <1>1, <3>2 DEF TaskStep, Start, Acquire, Load, Train, Trained, Upload, Return, Raises, Abort, WorkerDies
    <3> QED BY <3>1, <3>2
  <2> QED BY <1>0, <2>1, <2>2 DEF RoundsSeparate
<1>2. ASSUME NEW S \in SUBSET Clients, Configure(S) PROVE RoundsSeparate'
  <2>1. round \in Nat /\ clientModel.round \in Nat /\ MaxRounds \in Nat
    BY <1>0, RoundAssumption DEF TypeOK
  <2> QED BY <1>2, <1>0, <2>1 DEF Configure, RoundsSeparate, Rounds
<1>3. ASSUME NEW d \in Clients, Receive(d) \/ ReceiveFailure(d) PROVE RoundsSeparate'
  BY <1>3, <1>0 DEF Receive, ReceiveFailure, RoundsSeparate
<1>4. CASE Collect
  BY <1>4, <1>0 DEF Collect, RoundsSeparate
<1>5. CASE Aggregate
  BY <1>5, <1>0, RoundAssumption DEF Aggregate, EndRound, RoundsSeparate, TypeOK
<1>6. CASE Skip \/ Raise
  BY <1>6, <1>0 DEF Skip, Raise, EndRound, RoundsSeparate
<1>7. CASE Finished \/ UNCHANGED vars
  BY <1>7, <1>0 DEF Finished, vars, RoundsSeparate
<1> QED
  BY <1>1, <1>2, <1>3, <1>4, <1>5, <1>6, <1>7 DEF Next, RoundStep

\* The inductive invariant holds in every reachable state.
THEOREM RoundInvariant == Spec => []RoundInv
<1>1. RoundInv /\ [Next]_vars => RoundInv'
  BY TypeStep, TokensStep, TasksStep, InStepStep, ReceivedStep, SeparateStep DEF RoundInv
<1> QED BY InitInv, <1>1, PTL DEF Spec

\* A prefix that the round thread received has had its suffix committed, so a
\* round never fails to find a pair (aggregate_owned's RuntimeError).
THEOREM PrefixesHaveSuffixes == Spec => []PrefixHasSuffix
<1>1. RoundInv => PrefixHasSuffix
  BY DEF RoundInv, Received, PrefixHasSuffix, Prefixes, Suffixes, WholeTask, State
<1> QED BY RoundInvariant, <1>1, PTL

\* No context has seen a round that has not begun.
ContextsPast == \A c \in Clients : context[c] <= round

\* A context enters the current round only with the return of a task that has
\* committed; a suffix stays committed as long as the round is fitting.
LEMMA ContextStep ==
  RoundInv /\ ContextsPast /\ ContextBehindSuffix /\ [Next]_vars
    => ContextsPast' /\ ContextBehindSuffix'
<1> SUFFICES ASSUME RoundInv, ContextsPast, ContextBehindSuffix, [Next]_vars, NEW c \in Clients
             PROVE  /\ context'[c] <= round'
                    /\ phase' = "fitting" /\ context'[c] = round' => completed'[c].some
  BY DEF ContextsPast, ContextBehindSuffix
<1> DEFINE Goal == /\ context'[c] <= round'
                   /\ phase' = "fitting" /\ context'[c] = round' => completed'[c].some
<1> USE DEF thread, service, answers, models, task
<1>0. /\ TypeOK /\ TasksOfRounds /\ context[c] <= round
      /\ phase = "fitting" /\ context[c] = round => completed[c].some
  BY DEF RoundInv, ContextsPast, ContextBehindSuffix
<1>1. ASSUME NEW t \in Tasks, Return(t) PROVE Goal
  <2>1. UNCHANGED <<phase, round, completed>> /\ at[t] = "return"
    BY <1>1 DEF Return
  <2>2. Round(t) <= round
    BY <2>1, <1>0, TaskIdentity, RoundAssumption DEF TasksOfRounds, TypeOK, Rounds
  <2>3. CASE Cid(t) = c
    <3>1. context'[c] = Round(t)
      BY <1>1, <2>3, <1>0 DEF Return, TypeOK
    <3>2. phase = "fitting" /\ Round(t) = round => completed[c] = WholeTask
      BY <2>1, <2>3 DEF RoundInv, TasksInStep, InStep
    <3> QED BY <2>1, <2>2, <3>1, <3>2 DEF WholeTask, State
  <2>4. CASE Cid(t) # c
    BY <1>1, <2>1, <2>4, <1>0 DEF Return, TypeOK
  <2> QED BY <2>3, <2>4
<1>2. ASSUME NEW t \in Tasks, Commit(t) PROVE Goal
  <2>1. UNCHANGED <<phase, round, context>> /\ suffix[Cid(t)].some
    BY <1>2 DEF Commit, Leased
  <2>2. completed'[c] = completed[c] \/ completed'[c] = suffix[Cid(t)]
    BY <1>2, <1>0 DEF Commit, TypeOK
  <2> QED BY <2>1, <2>2, <1>0
<1>3. ASSUME NEW t \in Tasks, TaskStep(t) \/ WorkerDies(t), ~Return(t), ~Commit(t) PROVE Goal
  BY <1>3, <1>0 DEF TaskStep, Start, Acquire, Load, Train, Trained, Upload, Raises, Abort, WorkerDies
<1>4. ASSUME NEW S \in SUBSET Clients, Configure(S) PROVE Goal
  <2>1. round \in Nat /\ context[c] \in Nat
    BY <1>0, RoundAssumption DEF TypeOK
  <2> QED BY <1>4, <2>1, <1>0 DEF Configure
<1>5. ASSUME NEW d \in Clients, Receive(d) \/ ReceiveFailure(d) PROVE Goal
  BY <1>5, <1>0 DEF Receive, ReceiveFailure
<1>6. CASE Collect \/ Aggregate \/ Skip \/ Raise
  BY <1>6, <1>0 DEF Collect, Aggregate, Skip, Raise
<1>7. CASE Finished \/ UNCHANGED vars
  BY <1>7, <1>0 DEF Finished, vars
<1> QED
  BY <1>1, <1>2, <1>3, <1>4, <1>5, <1>6, <1>7 DEF Next, RoundStep

\* The context a client carries to its next task never claims a round whose
\* suffix is not safe in the registry, whatever dies or is lost (the fit
\* handler updates it after the commit).
THEOREM ContextsBehindSuffixes == Spec => []ContextBehindSuffix
<1>1. Init => ContextsPast /\ ContextBehindSuffix
  BY RoundAssumption DEF Init, ContextsPast, ContextBehindSuffix
<1> QED BY <1>1, ContextStep, RoundInvariant, PTL DEF Spec

\* The halves that enter the global model belong to one task, which trained all
\* its batches from the model the round began with.
THEOREM PairsBelongTogether == Spec => PairsMatch
<1> DEFINE Matched == clientModel' # clientModel =>
       \A c \in clientModel'.from :
          /\ results[c] = completed[c]
          /\ results[c].base = clientModel
          /\ results[c].applied = Batches /\ results[c].processed = Batches
<1>1. RoundInv /\ [Next]_vars => [Matched]_vars
  <2> SUFFICES ASSUME RoundInv, [Next]_vars, clientModel' # clientModel PROVE Matched
    OBVIOUS
  <2>1. Aggregate
    BY DEF Next, TaskStep, RoundStep, Start, Acquire, Load, Train, Trained, Upload, Commit, Return, Raises, Abort, WorkerDies, Configure, Receive, ReceiveFailure,
       Collect, Skip, Raise, Finished, vars, thread, models, task, answers
  <2>2. phase = "collected" /\ clientModel'.from = Pairs
    BY <2>1 DEF Aggregate
  <2>3. ASSUME NEW c \in Pairs
        PROVE  results[c] = WholeTask /\ completed[c] = WholeTask
    BY <2>2 DEF RoundInv, Received, Pairs, Prefixes
  <2>4. /\ WholeTask.base = clientModel
        /\ WholeTask.applied = Batches /\ WholeTask.processed = Batches
    BY DEF WholeTask, State
  <2> QED BY <2>2, <2>3, <2>4
<1> QED BY RoundInvariant, <1>1, PTL DEF Spec, PairsMatch

\* Whoever is in the results was selected, and when the round is collected every
\* selected client has answered or failed.
Answered ==
  /\ phase \in {"fitting", "collected"} => Prefixes \subseteq selected
  /\ phase = "collected" => selected \subseteq Prefixes \cup failures

\* Answers come from selected clients, and Collect waits for all of them.
LEMMA AnsweredStep == RoundInv /\ Answered /\ [Next]_vars => Answered'
<1> SUFFICES ASSUME RoundInv, Answered, [Next]_vars PROVE Answered'
  OBVIOUS
<1> USE DEF thread, service, answers, models, task
<1>1. ASSUME NEW t \in Tasks, TaskStep(t) \/ WorkerDies(t) PROVE Answered'
  <2>1. UNCHANGED <<phase, selected, results, failures>>
    BY <1>1 DEF TaskStep, Start, Acquire, Load, Train, Trained, Upload, Commit, Return, Raises, Abort, WorkerDies
  <2> QED BY <2>1 DEF Answered, Prefixes
<1>2. ASSUME NEW S \in SUBSET Clients, Configure(S) PROVE Answered'
  <2>1. phase' # "collected" /\ \A c \in Clients : results'[c] = Nothing
    BY <1>2 DEF Configure
  <2> QED BY <2>1 DEF Answered, Prefixes, Nothing
<1>3. ASSUME NEW d \in Clients, Receive(d) \/ ReceiveFailure(d) PROVE Answered'
  <2>1. /\ UNCHANGED <<phase, selected>> /\ phase = "fitting" /\ d \in selected
        /\ \A c \in Clients : c # d => results'[c] = results[c]
    BY <1>3 DEF Receive, ReceiveFailure, Unanswered, RoundInv, TypeOK
  <2> QED BY <2>1 DEF Answered, Prefixes
<1>4. CASE Collect
  <2>1. /\ UNCHANGED <<selected, results, failures>> /\ phase = "fitting" /\ Unanswered = {}
        /\ selected \subseteq Clients
    BY <1>4 DEF Collect, RoundInv, TypeOK
  <2> QED BY <2>1 DEF Answered, Unanswered, Prefixes
<1>5. CASE Aggregate \/ Skip \/ Raise
  BY <1>5 DEF Aggregate, Skip, Raise, Answered
<1>6. CASE Finished \/ UNCHANGED vars
  BY <1>6 DEF Finished, vars, Answered, Prefixes
<1> QED BY <1>1, <1>2, <1>3, <1>4, <1>5, <1>6 DEF Next, RoundStep

\* With require_complete_round the global model is made of all the clients that
\* were selected, or stays what it was: no lost half and no failed task makes a
\* round of fewer (VirtualStrategy.aggregate_fit).
THEOREM AllIsAggregated == Spec => AllOrNothing
<1> DEFINE Whole == complete /\ clientModel' # clientModel => clientModel'.from = selected
<1>1. Init => Answered
  BY DEF Init, Answered
<1>2. RoundInv /\ Answered /\ [Next]_vars => [Whole]_vars
  <2> SUFFICES ASSUME RoundInv, Answered, [Next]_vars, complete, clientModel' # clientModel
               PROVE  clientModel'.from = selected
    OBVIOUS
  <2>1. Aggregate
    BY DEF Next, TaskStep, RoundStep, Start, Acquire, Load, Train, Trained, Upload, Commit, Return, Raises, Abort, WorkerDies, Configure, Receive, ReceiveFailure,
       Collect, Skip, Raise, Finished, vars, thread, models, task, answers
  <2>2. phase = "collected" /\ clientModel'.from = Prefixes \cap Suffixes /\ failures = {}
    BY <2>1 DEF Aggregate, Pairs, Incomplete
  <2>3. Prefixes \subseteq Suffixes
    BY <2>2 DEF RoundInv, Received, Prefixes, Suffixes, WholeTask, State
  <2> QED BY <2>2, <2>3 DEF Answered
<1> QED BY RoundInvariant, AnsweredStep, <1>1, <1>2, PTL DEF Spec, AllOrNothing

\* Every step is a step of GlobalModel, or none.
LEMMA GlobalStep == RoundInv /\ [Next]_vars => [Global!GlobalNext]_(Global!globalVars)
<1> SUFFICES ASSUME RoundInv, [Next]_vars
             PROVE  Global!GlobalNext \/ UNCHANGED <<round, Delivered, clientModel>>
  BY DEF Global!globalVars
<1> DEFINE Maps == Global!GlobalNext \/ UNCHANGED <<round, Delivered, clientModel>>
<1> USE DEF thread, service, answers, models, task
<1>0. TypeOK /\ TypeOK' /\ RoundsSeparate
  BY TypeStep DEF RoundInv
<1>a. ASSUME UNCHANGED <<phase, round, clientModel, results, completed>> PROVE Maps
  BY <1>a DEF Delivered, Prefixes, Suffixes
<1>1. ASSUME NEW t \in Tasks, Commit(t) PROVE Maps
  <2>1. phase = "fitting" /\ Leased(t) /\ Cid(t) \in Clients
    BY <1>1, Admitted, TaskIdentity DEF Commit, Leased
  <2>2. UNCHANGED <<phase, round, clientModel, results>> /\ Prefixes' = Prefixes
    BY <1>1 DEF Commit, Prefixes
  <2>3. CASE UNCHANGED completed
    BY <1>a, <2>2, <2>3
  <2>4. CASE completed' = [completed EXCEPT ![Cid(t)] = suffix[Cid(t)]]
    <3>1. Suffixes' = Suffixes \cup {Cid(t)}
      BY <2>1, <2>4, <1>0 DEF Suffixes, Leased, TypeOK
    <3>2. /\ Delivered = [prefix |-> Prefixes, suffix |-> Suffixes]
          /\ Delivered' = [prefix |-> Prefixes, suffix |-> Suffixes \cup {Cid(t)}]
      BY <2>1, <2>2, <3>1 DEF Delivered
    <3> QED BY <2>1, <2>2, <3>2 DEF Global!GlobalNext, Global!Deliver
  <2> QED BY <1>1, <2>3, <2>4 DEF Commit
<1>2. ASSUME NEW t \in Tasks, TaskStep(t) \/ WorkerDies(t) PROVE Maps
  <2>1. CASE Commit(t)
    BY <1>1, <2>1
  <2>2. CASE ~Commit(t)
    BY <1>2, <1>a, <2>2 DEF TaskStep, Start, Acquire, Load, Train, Trained, Upload, Return, Raises, Abort, WorkerDies
  <2> QED BY <2>1, <2>2
<1>3. ASSUME NEW S \in SUBSET Clients, Configure(S) PROVE Maps
  <2>1. Prefixes' = {} /\ Suffixes' = {}
    BY <1>3, <1>0 DEF Configure, RoundsSeparate, Prefixes, Suffixes, Nothing
  <2>2. Delivered' = Global!NoHalves
    BY <2>1 DEF Delivered, Global!NoHalves
  <2> QED BY <1>3, <2>2 DEF Configure, Global!GlobalNext, Global!BeginRound
<1>4. ASSUME NEW c \in Clients, Receive(c) PROVE Maps
  <2>1. phase = "fitting" /\ UNCHANGED <<phase, round, clientModel, completed>>
        /\ Suffixes' = Suffixes
    BY <1>4 DEF Receive, Suffixes
  <2>2. CASE UNCHANGED results
    BY <1>a, <2>1, <2>2
  <2>3. CASE \E state : state.some /\ results' = [results EXCEPT ![c] = state]
    <3>1. Prefixes' = Prefixes \cup {c}
      BY <2>3, <1>0 DEF Prefixes, TypeOK
    <3>2. /\ Delivered = [prefix |-> Prefixes, suffix |-> Suffixes]
          /\ Delivered' = [prefix |-> Prefixes \cup {c}, suffix |-> Suffixes]
      BY <2>1, <3>1 DEF Delivered
    <3> QED BY <2>1, <3>2 DEF Global!GlobalNext, Global!Deliver
  <2>4. State(base[<<c, round>>], steps[<<c, round>>], steps[<<c, round>>]).some
    BY DEF State
  <2> QED BY <1>4, <2>2, <2>3, <2>4 DEF Receive
<1>5. ASSUME NEW c \in Clients, ReceiveFailure(c) PROVE Maps
  BY <1>5, <1>a DEF ReceiveFailure
<1>6. CASE Collect
  BY <1>6 DEF Collect, Delivered, Prefixes, Suffixes
<1>7. CASE Aggregate
  <2>1. Delivered = [prefix |-> Prefixes, suffix |-> Suffixes] /\ Delivered' = Global!NoHalves
    BY <1>7 DEF Aggregate, Delivered, Global!NoHalves
  <2>2. Pairs # {} /\ clientModel' = [round |-> round, from |-> Pairs]
        /\ round' = round /\ clientModel.round < round
    BY <1>7, <1>0 DEF Aggregate, RoundsSeparate
  <2> QED BY <2>1, <2>2 DEF Pairs, Global!GlobalNext, Global!Publish
<1>8. CASE Skip \/ Raise
  <2>1. Delivered' = Global!NoHalves /\ UNCHANGED <<round, clientModel>>
    BY <1>8 DEF Skip, Raise, Delivered, Global!NoHalves
  <2> QED BY <2>1 DEF Global!GlobalNext, Global!Keep
<1>9. CASE Finished \/ UNCHANGED vars
  BY <1>9, <1>a DEF Finished, vars
<1> QED
  BY <1>2, <1>3, <1>4, <1>5, <1>6, <1>7, <1>8, <1>9 DEF Next, RoundStep

\* Missing halves are dropped together, and a round with no complete update
\* keeps the model: the rounds implement GlobalModel.
THEOREM RoundsImplementGlobal == Spec => ImplementsGlobal
<1>1. Init => Global!GlobalInit
  BY DEF Init, Delivered, Global!GlobalInit, Global!NoHalves, InitialModel,
         Global!InitialModel
<1> QED BY RoundInvariant, <1>1, GlobalStep, PTL DEF Spec, ImplementsGlobal, Global!GlobalSpec

-------------------------------------------------------------------------------
(* Why a run ends: every step is progress *)

\* How far a task has come; "abort" is behind every step that may raise, and
\* nothing is behind the two ends.
Rank(step) ==
  CASE step = "none" -> 0 [] step = "start" -> 1 [] step = "acquire" -> 2 [] step = "load" -> 3
    [] step = "train" -> 4 [] step = "upload" -> 5 [] step = "commit" -> 6 [] step = "return" -> 7
    [] step = "abort" -> 8 [] OTHER -> 9

\* How far the round thread has come within a round.
Turn(where) == CASE where = "fitting" -> 1 [] where = "collected" -> 2 [] OTHER -> 3

\* A task never goes back: what has failed or returned is never taken up again.
Onward(t) == Rank(at[t]) <= Rank(at'[t]) /\ steps[t] <= steps'[t]

\* What no step may do is to change something and bring nothing forward.  A round
\* comes after the last one, within it the round thread moves on, an answer is
\* awaited no longer, or a task comes further; and all of these are bounded.
StepsAreProgress ==
  [][/\ round <= round' /\ \A t \in Tasks : Onward(t)
     /\ \/ round < round'
        \/ round = round' /\ Turn(phase) < Turn(phase')
        \/ UNCHANGED <<round, phase>> /\ \E c \in Unanswered : Unanswered' = Unanswered \ {c}
        \/ /\ UNCHANGED <<round, phase, Unanswered>>
           /\ \E t \in Tasks : Rank(at[t]) < Rank(at'[t]) \/ steps[t] < steps'[t]]_vars

\* The ranks are numbers.
LEMMA RankIs == \A step : Rank(step) \in 0..9
  BY DEF Rank

\* A task that goes to a later step brings itself forward, and no other.
LEMMA GoesOnward ==
  ASSUME TypeOK, NEW t \in Tasks, NEW step, Goes(t, step), Rank(at[t]) < Rank(step), steps' = steps
  PROVE  (\A u \in Tasks : Onward(u)) /\ Rank(at[t]) < Rank(at'[t])
<1>1. at'[t] = step /\ \A u \in Tasks : u # t => at'[u] = at[u]
  BY DEF Goes, TypeOK
<1>2. ASSUME NEW u \in Tasks PROVE Onward(u)
  <2>1. steps'[u] = steps[u] /\ steps[u] \in Nat
    BY DEF TypeOK
  <2>2. Rank(at[u]) <= Rank(at'[u])
    <3>1. CASE u = t
      BY <1>1, <3>1, RankIs
    <3>2. CASE u # t
      BY <1>1, <3>2, RankIs
    <3> QED BY <3>1, <3>2
  <2> QED BY <2>1, <2>2 DEF Onward
<1> QED BY <1>1, <1>2

\* Every step of a task brings it forward: to a later step, or by a batch.
LEMMA TaskProgress ==
  ASSUME TypeOK, NEW t \in Tasks, TaskStep(t) \/ WorkerDies(t)
  PROVE  /\ UNCHANGED <<round, phase, Unanswered>> /\ \A u \in Tasks : Onward(u)
         /\ Rank(at[t]) < Rank(at'[t]) \/ steps[t] < steps'[t]
<1>1. UNCHANGED <<round, phase, selected, results, failures>>
  BY DEF TaskStep, Start, Acquire, Load, Train, Trained, Upload, Commit, Return, Raises, Abort, WorkerDies,
         thread, answers
<1>2. Unanswered' = Unanswered
  BY <1>1 DEF Unanswered
<1>3. CASE \E step : Goes(t, step) /\ Rank(at[t]) < Rank(step) /\ steps' = steps
  BY <1>1, <1>2, <1>3, GoesOnward
<1>4. CASE steps' = [steps EXCEPT ![t] = @ + 1] /\ at' = at
  <2>1. \A u \in Tasks : steps[u] \in Nat /\ steps'[u] = IF u = t THEN steps[u] + 1 ELSE steps[u]
    BY <1>4 DEF TypeOK
  <2>2. \A u \in Tasks : Onward(u)
    BY <1>4, <2>1, RankIs DEF Onward
  <2> QED BY <1>1, <1>2, <2>1, <2>2
<1>5. ASSUME at[t] \in Steps, Start(t) \/ Acquire(t) \/ Load(t) \/ Trained(t) \/ Upload(t) \/ Commit(t) \/ Return(t)
      PROVE  \E step : Goes(t, step) /\ Rank(at[t]) < Rank(step) /\ steps' = steps
  <2>1. CASE Start(t)
    <3>1. at[t] = "start" /\ steps' = steps /\ \E step \in {"failed", "acquire"} : Goes(t, step)
      BY <2>1 DEF Start
    <3> QED BY <3>1 DEF Rank
  <2>2. CASE Acquire(t)
    <3>1. at[t] = "acquire" /\ steps' = steps /\ \E step \in {"failed", "load"} : Goes(t, step)
      BY <2>2 DEF Acquire
    <3> QED BY <3>1 DEF Rank
  <2>3. CASE Load(t)
    <3>1. at[t] = "load" /\ steps' = steps /\ \E step \in {"abort", "train"} : Goes(t, step)
      BY <2>3 DEF Load
    <3> QED BY <3>1 DEF Rank
  <2>4. CASE Trained(t)
    <3>1. at[t] = "train" /\ steps' = steps /\ \E step \in {"upload", "commit"} : Goes(t, step)
      BY <2>4 DEF Trained
    <3> QED BY <3>1 DEF Rank
  <2>5. CASE Upload(t)
    <3>1. at[t] = "upload" /\ steps' = steps /\ \E step \in {"commit", "abort"} : Goes(t, step)
      BY <2>5 DEF Upload
    <3> QED BY <3>1 DEF Rank
  <2>6. CASE Commit(t)
    <3>1. at[t] = "commit" /\ steps' = steps /\ \E step \in {"return", "abort"} : Goes(t, step)
      BY <2>6 DEF Commit
    <3> QED BY <3>1 DEF Rank
  <2>7. CASE Return(t)
    <3>1. at[t] = "return" /\ steps' = steps /\ Goes(t, "returned")
      BY <2>7 DEF Return
    <3> QED BY <3>1 DEF Rank
  <2> QED BY <1>5, <2>1, <2>2, <2>3, <2>4, <2>5, <2>6, <2>7
<1>6. CASE Train(t)
  <2>1. CASE TrainFails(t)
    <3>1. at[t] = "train" /\ steps' = steps /\ Goes(t, "abort")
      BY <1>6, <2>1 DEF Train, TrainFails
    <3>2. Rank("train") < Rank("abort")
      BY DEF Rank
    <3> QED BY <1>3, <3>1, <3>2
  <2>2. CASE ~TrainFails(t)
    BY <1>4, <1>6, <2>2 DEF Train
  <2> QED BY <2>1, <2>2
<1>7. CASE Raises(t)
  <2>1. steps' = steps /\ \/ at[t] \in {"start", "acquire"} /\ Goes(t, "failed")
                          \/ at[t] \in {"load", "train", "upload", "commit"} /\ Goes(t, "abort")
    BY <1>7 DEF Raises
  <2>2. \E step : Goes(t, step) /\ Rank(at[t]) < Rank(step)
    BY <2>1 DEF Rank
  <2> QED BY <1>3, <2>1, <2>2
<1>8. CASE Abort(t) \/ WorkerDies(t)
  <2>1. steps' = steps /\ Goes(t, "failed") /\ at[t] \notin {"returned", "failed"} /\ at[t] \in Steps
    BY <1>8 DEF Abort, WorkerDies, TypeOK
  <2>2. Rank(at[t]) < Rank("failed")
    BY <2>1 DEF Rank, Steps
  <2> QED BY <1>3, <2>1, <2>2
<1> QED
  BY <1>3, <1>5, <1>6, <1>7, <1>8 DEF TaskStep, TypeOK

\* A step of the round thread begins a round, goes on within it, or has its answer.
LEMMA RoundProgress ==
  ASSUME RoundInv, RoundStep
  PROVE  /\ round <= round' /\ \A t \in Tasks : Onward(t)
         /\ \/ round < round'
            \/ round = round' /\ Turn(phase) < Turn(phase')
            \/ UNCHANGED <<round, phase>> /\ \E c \in Unanswered : Unanswered' = Unanswered \ {c}
<1>0. round \in Nat /\ at \in [Tasks -> Steps] /\ \A t \in Tasks : steps[t] \in Nat
  BY RoundAssumption DEF RoundInv, TypeOK
<1>1. ASSUME NEW S \in SUBSET Clients, Configure(S)
      PROVE  round' = round + 1 /\ \A t \in Tasks : Onward(t)
  <2>1. round' = round + 1 /\ steps' = steps
    BY <1>1 DEF Configure
  <2>2. ASSUME NEW t \in Tasks PROVE Rank(at[t]) <= Rank(at'[t])
    <3>1. CASE Round(t) = round + 1
      <4>1. at[t] = "none"
        BY <1>0, <3>1 DEF RoundInv, TasksOfRounds
      <4>2. Rank(at[t]) = 0
        BY <4>1 DEF Rank
      <4> QED BY <4>2, RankIs
    <3>2. CASE Round(t) # round + 1
      <4>1. at'[t] = at[t]
        BY <1>1, <3>2 DEF Configure
      <4> QED BY <4>1, RankIs
    <3> QED BY <3>1, <3>2
  <2> QED BY <1>0, <2>1, <2>2 DEF Onward
<1>2. ASSUME UNCHANGED <<at, steps>> PROVE \A t \in Tasks : Onward(t)
  BY <1>0, <1>2, RankIs DEF Onward
<1>3. ASSUME NEW c \in Clients, Receive(c) \/ ReceiveFailure(c)
      PROVE  UNCHANGED <<round, phase, at, steps>> /\ c \in Unanswered /\ Unanswered' = Unanswered \ {c}
  <2>1. /\ UNCHANGED <<round, phase, selected, at, steps>> /\ c \in Unanswered
    BY <1>3 DEF Receive, ReceiveFailure, thread, task
  <2>2. \/ failures' = failures \cup {c} /\ results' = results
        \/ failures' = failures /\ results'[c].some /\ \A d \in Clients \ {c} : results'[d] = results[d]
    BY <1>3 DEF Receive, ReceiveFailure, State, RoundInv, TypeOK
  <2>3. selected \subseteq Clients
    BY DEF RoundInv, TypeOK
  <2>4. Unanswered' = Unanswered \ {c}
    BY <2>1, <2>2, <2>3 DEF Unanswered
  <2> QED BY <2>1, <2>4
<1>4. ASSUME Collect \/ Aggregate \/ Skip \/ Raise
      PROVE  UNCHANGED <<round, at, steps>> /\ Turn(phase) < Turn(phase')
  <2>1. /\ UNCHANGED <<round, at, steps>>
        /\ \/ phase = "fitting" /\ phase' = "collected"
           \/ phase = "collected" /\ phase' \in {"between", "raised"}
    BY <1>4 DEF Collect, Aggregate, Skip, Raise, task
  <2> QED BY <2>1 DEF Turn
<1> QED
  BY <1>0, <1>1, <1>2, <1>3, <1>4 DEF RoundStep

\* The half of RunEnds that needs no fairness: a run has no step that it could
\* repeat for ever, a retry, a task taken up again, or an answer awaited anew.
\* With finitely many clients there are finitely many steps in all.
THEOREM EveryStepIsProgress == Spec => StepsAreProgress
<1>1. RoundInv /\ [Next]_vars =>
        [/\ round <= round' /\ \A t \in Tasks : Onward(t)
         /\ \/ round < round'
            \/ round = round' /\ Turn(phase) < Turn(phase')
            \/ UNCHANGED <<round, phase>> /\ \E c \in Unanswered : Unanswered' = Unanswered \ {c}
            \/ /\ UNCHANGED <<round, phase, Unanswered>>
               /\ \E t \in Tasks : Rank(at[t]) < Rank(at'[t]) \/ steps[t] < steps'[t]]_vars
  <2>1. ASSUME RoundInv, NEW t \in Tasks, TaskStep(t) \/ WorkerDies(t)
        PROVE  /\ round \in Nat /\ UNCHANGED <<round, phase, Unanswered>> /\ \A u \in Tasks : Onward(u)
               /\ Rank(at[t]) < Rank(at'[t]) \/ steps[t] < steps'[t]
    <3>1. TypeOK /\ round \in Nat
      BY <2>1, RoundAssumption DEF RoundInv, TypeOK
    <3> QED BY <2>1, <3>1, TaskProgress
  <2> QED BY <2>1, RoundProgress DEF Next, Finished
<1> QED BY <1>1, RoundInvariant, PTL DEF Spec, StepsAreProgress
===============================================================================
