------------------------------ MODULE SplitRound -------------------------------
(***************************************************************************)
(* The rounds of a virtual run, from configuration to aggregation.  In     *)
(* every round the selected clients are sent a task through Flower; the    *)
(* task trains its prefix against a leased suffix model by unary RPCs, and *)
(* its state and the suffix's come back on two different ways: the Flower  *)
(* reply (or an upload RPC) and the commit of the lease.  Any RPC may be   *)
(* refused, lost, or lose its reply; a task may raise or its worker die at *)
(* any step; the round thread may stop waiting for a task, which then goes *)
(* on beside the next round.  The lease service is abstracted to the       *)
(* effects of its calls (SuffixServicer and SuffixLease model it): calls   *)
(* of one task are served one after the other behind the replica lock.     *)
(***************************************************************************)
EXTENDS Naturals, FiniteSets

CONSTANTS
  Clients,          \* logical clients
  Constrained,      \* clients whose states travel by the paced RPC channel
  Batches,          \* len(source): the batches of a task
  Settings,         \* the pairs of settings of a run to consider: require_complete_round,
                    \* and whether round_timeout_sec is set
  MaxRounds         \* rounds: the length of the run

ASSUME RoundAssumption ==
  /\ IsFiniteSet(Clients) /\ Constrained \subseteq Clients
  /\ Batches \in Nat \ {0} /\ MaxRounds \in Nat
  /\ Settings \subseteq BOOLEAN \X BOOLEAN

VARIABLES
  setting,      \* the settings of this run
  round,        \* server_round
  phase,        \* where the round thread is
  selected,     \* the clients the round was configured for
  clientModel, serverModel,  \* client_parameters, server_parameters
  tokens,       \* tokens[c]: the round whose token is valid for c, or NoRound
  attempted,    \* clients whose suffix lease was tried in this round
  suffix,       \* suffix[c]: the live suffix of c, or Nothing
  completed,    \* completed[c]: the committed suffix of c, or Nothing
  uploads,      \* prefix_uploads
  results,      \* results[c]: the prefix state the round thread got, or Nothing
  failures,     \* the clients it got a failure for
  at,           \* at[t]: the step task t is in
  base,         \* base[t]: the model whose hash its configuration names
  steps,        \* steps[t]: batches it has finished
  context       \* context[c]: last_round in the client's Flower Context

service == <<attempted, suffix, completed, uploads>>
answers == <<results, failures>>
models  == <<setting, clientModel, serverModel>>
thread  == <<round, phase, selected, models, tokens>>
task    == <<at, base, steps, context>>
vars    == <<thread, service, answers, task>>

complete == setting[1]   \* require_complete_round
timed == setting[2]      \* round_timeout_sec is set

Rounds == 1..MaxRounds
NoRound == 0
Tasks == Clients \X Rounds
Cid(t) == t[1]
Round(t) == t[2]

InitialModel == [round |-> 0, from |-> {}]
Nothing == [base |-> InitialModel, applied |-> 0, processed |-> 0, some |-> FALSE]

\* A prefix or suffix state: the model it was trained from, the optimizer steps
\* applied to it, and the steps that were counted.
State(model, applied, processed) ==
  [base |-> model, applied |-> applied, processed |-> processed, some |-> TRUE]

\* One more optimizer step on a suffix, counted in _processed_steps or not.
Trains(state, counted) == State(state.base, state.applied + 1, state.processed + counted)

Steps == {"none",     \* the client is not selected in that round
          "start", "acquire", "load", "train", "upload", "commit",
          "return",   \* committed: the reply is on its way
          "abort",    \* the finally clause of fit
          "returned", "failed"}
Phases == {"between", "fitting", "collected", "raised"}

Init ==
  /\ setting \in Settings
  /\ round = 0 /\ phase = "between" /\ selected = {}
  /\ clientModel = InitialModel /\ serverModel = InitialModel
  /\ tokens = [c \in Clients |-> NoRound]
  /\ attempted = {}
  /\ suffix = [c \in Clients |-> Nothing] /\ completed = [c \in Clients |-> Nothing]
  /\ uploads = [c \in Clients |-> Nothing]
  /\ results = [c \in Clients |-> Nothing] /\ failures = {}
  /\ at = [t \in Tasks |-> "none"]
  /\ base = [t \in Tasks |-> InitialModel]
  /\ steps = [t \in Tasks |-> 0]
  /\ context = [c \in Clients |-> 0]

-------------------------------------------------------------------------------
(* Tasks *)

MutantAuthorized(t) ==        \* any token of the client is good enough
  tokens[Cid(t)] # NoRound

\* Is a call of task t admitted?  Tokens belong to one client and one round.
Authorized(t) == tokens[Cid(t)] = Round(t)

Leased(t) == Authorized(t) /\ suffix[Cid(t)].some

Goes(t, step) == at' = [at EXCEPT ![t] = step]

MutantStart(t) ==             \* the context is written before the training
  /\ at[t] = "start"
  /\ IF Round(t) <= context[Cid(t)]
       THEN Goes(t, "failed") /\ UNCHANGED context
       ELSE Goes(t, "acquire") /\ context' = [context EXCEPT ![Cid(t)] = Round(t)]
  /\ UNCHANGED <<thread, service, answers, base, steps>>

\* fit begins; a round is not replayed on a context that has seen it.
Start(t) ==
  /\ at[t] = "start"
  /\ Goes(t, IF Round(t) <= context[Cid(t)] THEN "failed" ELSE "acquire")
  /\ UNCHANGED <<thread, service, answers, base, steps, context>>

\* virtual_acquire; without its reply the task does not know of a lease and
\* leaves it to reconciliation.
Acquire(t) ==
  /\ at[t] = "acquire" /\ Authorized(t) /\ Cid(t) \notin attempted
  /\ attempted' = attempted \cup {Cid(t)}
  /\ \/ /\ suffix' = [suffix EXCEPT ![Cid(t)] = State(serverModel, 0, 0)]
        /\ Goes(t, "load") \/ Goes(t, "failed")
     \/ Goes(t, "failed") /\ UNCHANGED suffix
  /\ UNCHANGED <<thread, completed, uploads, answers, base, steps, context>>

\* The parameters of the task, or those virtual_download_state returns: their
\* hash must be the one the configuration names.
Load(t) ==
  /\ at[t] = "load"
  /\ Cid(t) \in Constrained => Leased(t)
  /\ Goes(t, IF Cid(t) \in Constrained /\ serverModel # base[t] THEN "abort" ELSE "train")
  /\ UNCHANGED <<thread, service, answers, base, steps, context>>

\* The step raises: before the optimizer step, after it but before it is
\* counted (_abort_step), or only its reply is lost.
TrainFails(t) ==
  /\ \/ UNCHANGED suffix
     \/ suffix' = [suffix EXCEPT ![Cid(t)] = Trains(@, 0)]
     \/ suffix' = [suffix EXCEPT ![Cid(t)] = Trains(@, 1)]
  /\ Goes(t, "abort")
  /\ UNCHANGED steps

\* One batch: prefix forward, train_tail, prefix backward.
Train(t) ==
  /\ at[t] = "train" /\ steps[t] < Batches /\ Leased(t)
  /\ \/ /\ suffix' = [suffix EXCEPT ![Cid(t)] = Trains(@, 1)]
        /\ steps' = [steps EXCEPT ![t] = @ + 1]
        /\ UNCHANGED at
     \/ TrainFails(t)
  /\ UNCHANGED <<thread, attempted, completed, uploads, answers, base, context>>

\* All declared batches are done, within the deadline.
Trained(t) ==
  /\ at[t] = "train" /\ steps[t] = Batches
  /\ Goes(t, IF Cid(t) \in Constrained THEN "upload" ELSE "commit")
  /\ UNCHANGED <<thread, service, answers, base, steps, context>>

\* virtual_upload_state.
Upload(t) ==
  /\ at[t] = "upload" /\ Leased(t)
  /\ uploads' = [uploads EXCEPT ![Cid(t)] = State(base[t], steps[t], steps[t])]
  /\ Goes(t, "commit") \/ Goes(t, "abort")
  /\ UNCHANGED <<thread, attempted, suffix, completed, answers, base, steps, context>>

MutantCommit(t) ==            \* the export is not awaited
  /\ at[t] = "commit" /\ Leased(t)
  /\ suffix' = [suffix EXCEPT ![Cid(t)] = Nothing]
  /\ \/ completed' = [completed EXCEPT ![Cid(t)] = suffix[Cid(t)]]
     \/ UNCHANGED completed
  /\ Goes(t, "return") \/ Goes(t, "abort")
  /\ UNCHANGED <<thread, attempted, uploads, answers, base, steps, context>>

\* virtual_commit exports the suffix and ends the lease; the export may raise.
Commit(t) ==
  /\ at[t] = "commit" /\ Leased(t)
  /\ suffix' = [suffix EXCEPT ![Cid(t)] = Nothing]
  /\ \/ /\ completed' = [completed EXCEPT ![Cid(t)] = suffix[Cid(t)]]
        /\ Goes(t, "return") \/ Goes(t, "abort")
     \/ Goes(t, "abort") /\ UNCHANGED completed
  /\ UNCHANGED <<thread, attempted, uploads, answers, base, steps, context>>

\* The context is updated after the commit and travels with the reply.
Return(t) ==
  /\ at[t] = "return"
  /\ context' = [context EXCEPT ![Cid(t)] = Round(t)]
  /\ Goes(t, "returned")
  /\ UNCHANGED <<thread, service, answers, base, steps>>

\* Any step raises without effect: the call is refused or not delivered, the
\* deadline has passed, a dropout is injected, a value is not finite.
Raises(t) ==
  /\ at[t] \in {"start", "acquire", "load", "train", "upload", "commit"}
  /\ Goes(t, IF at[t] \in {"start", "acquire"} THEN "failed" ELSE "abort")
  /\ UNCHANGED <<thread, service, answers, base, steps, context>>

MutantAbort(t) ==             \* its errors are raised again and again
  /\ at[t] = "abort" /\ Leased(t)
  /\ Goes(t, "failed")
  /\ suffix' = [suffix EXCEPT ![Cid(t)] = Nothing]
  /\ UNCHANGED <<thread, attempted, completed, uploads, answers, base, steps, context>>

\* virtual_abort, whose own errors are ignored.
Abort(t) ==
  /\ at[t] = "abort"
  /\ Goes(t, "failed")
  /\ \/ Leased(t) /\ suffix' = [suffix EXCEPT ![Cid(t)] = Nothing]
     \/ UNCHANGED suffix
  /\ UNCHANGED <<thread, attempted, completed, uploads, answers, base, steps, context>>

\* The worker dies: nothing is said to the suffix service.
WorkerDies(t) ==
  /\ at[t] \notin {"none", "returned", "failed"}
  /\ Goes(t, "failed")
  /\ UNCHANGED <<thread, service, answers, base, steps, context>>

TaskStep(t) ==
  \/ Start(t) \/ Acquire(t) \/ Load(t) \/ Train(t) \/ Trained(t) \/ Upload(t)
  \/ Commit(t) \/ Return(t) \/ Raises(t) \/ Abort(t)

-------------------------------------------------------------------------------
(* The round thread *)

\* configure_fit with prepare_round, configure_server_fit, initialize_server_models
\* and the dispatch; nobody may be available.
Configure(S) ==
  /\ phase = "between" /\ round < MaxRounds
  /\ round' = round + 1 /\ selected' = S
  /\ phase' = IF S = {} THEN "between" ELSE "fitting"
  /\ tokens' = [c \in Clients |-> IF c \in S THEN round + 1 ELSE NoRound]
  /\ uploads' = [c \in Clients |-> Nothing]
  /\ results' = [c \in Clients |-> Nothing] /\ failures' = {}
  /\ at' = [t \in Tasks |-> IF Cid(t) \in S /\ Round(t) = round + 1 THEN "start" ELSE at[t]]
  /\ base' = [t \in Tasks |-> IF Cid(t) \in S /\ Round(t) = round + 1 THEN clientModel
                              ELSE base[t]]
  /\ UNCHANGED <<models, attempted, suffix, completed, steps, context>>

Unanswered == {c \in selected : ~results[c].some /\ c \notin failures}

\* VirtualDispatchProxy.fit: the reply of the task, with the state it carries
\* or the one that was uploaded.
Receive(c) ==
  /\ phase = "fitting" /\ c \in Unanswered
  /\ at[<<c, round>>] = "returned"
  /\ IF c \in Constrained
       THEN IF uploads[c].some
              THEN results' = [results EXCEPT ![c] = uploads[c]] /\ UNCHANGED failures
              ELSE failures' = failures \cup {c} /\ UNCHANGED results
       ELSE /\ results' = [results EXCEPT ![c] =
                             State(base[<<c, round>>], steps[<<c, round>>], steps[<<c, round>>])]
            /\ UNCHANGED failures
  /\ UNCHANGED <<thread, service, task>>

\* The task failed, or the round thread no longer waits for it.
ReceiveFailure(c) ==
  /\ phase = "fitting" /\ c \in Unanswered
  /\ timed \/ at[<<c, round>>] = "failed"
  /\ failures' = failures \cup {c}
  /\ UNCHANGED <<thread, service, results, task>>

\* before_collect reconciles: the tokens end, live suffixes are aborted.
Collect ==
  /\ phase = "fitting" /\ Unanswered = {}
  /\ phase' = "collected"
  /\ tokens' = [c \in Clients |-> NoRound]
  /\ suffix' = [c \in Clients |-> Nothing]
  /\ UNCHANGED <<round, selected, models, attempted, completed, uploads, answers, task>>

Prefixes == {c \in Clients : results[c].some}
Suffixes == {c \in Clients : completed[c].some}

MutantPairs == Suffixes       \* a suffix needs no prefix

\* aggregate_owned: the updates with both halves.
Pairs == Prefixes \cap Suffixes

MutantIncomplete ==           \* the failures are not looked at
  complete /\ Cardinality(Prefixes) + Cardinality(failures) # Cardinality(selected)

\* VirtualStrategy.aggregate_fit refuses a partial round.
Incomplete ==
  complete /\ (failures # {} \/ Cardinality(Prefixes) # Cardinality(selected))

\* end_round, in the finally clause of VirtualServer.fit_round.
EndRound ==
  /\ attempted' = {}
  /\ suffix' = [c \in Clients |-> Nothing]
  /\ completed' = [c \in Clients |-> Nothing]

\* aggregate_server_fit and finalize_round: both halves of the logical model
\* become the aggregate.
Aggregate ==
  /\ phase = "collected" /\ ~Incomplete
  /\ Pairs # {}
  /\ clientModel' = [round |-> round, from |-> Pairs]
  /\ serverModel' = clientModel'
  /\ phase' = "between"
  /\ EndRound
  /\ UNCHANGED <<setting, round, selected, tokens, uploads, answers, task>>

\* No prefix or no suffix at all: the models stay.
Skip ==
  /\ phase = "collected" /\ ~Incomplete
  /\ Prefixes = {} \/ Suffixes = {}
  /\ phase' = "between"
  /\ EndRound
  /\ UNCHANGED <<round, selected, models, tokens, uploads, answers, task>>

\* aggregate_owned has nothing to divide when no client has both halves.
Unmatched == Prefixes # {} /\ Suffixes # {} /\ Pairs = {}
Unusable == Incomplete \/ Unmatched

Raise ==
  /\ phase = "collected" /\ Unusable
  /\ phase' = "raised"
  /\ EndRound
  /\ UNCHANGED <<round, selected, models, tokens, uploads, answers, task>>

Finished ==
  /\ phase = "raised" \/ (phase = "between" /\ round = MaxRounds)
  /\ UNCHANGED vars

RoundStep ==
  \/ \E S \in SUBSET Clients : Configure(S)
  \/ \E c \in Clients : Receive(c) \/ ReceiveFailure(c)
  \/ Collect \/ Aggregate \/ Skip \/ Raise

Next == (\E t \in Tasks : TaskStep(t) \/ WorkerDies(t)) \/ RoundStep \/ Finished

Spec == Init /\ [][Next]_vars

\* A task goes on until its own deadline, its worker may die; the round thread
\* gets an answer for every task from Flower.
FairSpec == Spec /\ WF_vars(RoundStep) /\ \A t \in Tasks : WF_vars(TaskStep(t))

-------------------------------------------------------------------------------
(* The inductive invariant *)

StateType == [base : [round : 0..MaxRounds, from : SUBSET Clients],
              applied : 0..Batches + 1, processed : 0..Batches + 1, some : BOOLEAN]

TypeOK ==
  /\ round \in 0..MaxRounds /\ phase \in Phases /\ selected \subseteq Clients
  /\ clientModel \in [round : 0..MaxRounds, from : SUBSET Clients]
  /\ serverModel \in [round : 0..MaxRounds, from : SUBSET Clients]
  /\ tokens \in [Clients -> 0..MaxRounds]
  /\ attempted \subseteq Clients
  /\ suffix \in [Clients -> StateType] /\ completed \in [Clients -> StateType]
  /\ uploads \in [Clients -> StateType] /\ results \in [Clients -> StateType]
  /\ failures \subseteq selected
  /\ at \in [Tasks -> Steps] /\ steps \in [Tasks -> 0..Batches]
  /\ base \in [Tasks -> [round : 0..MaxRounds, from : SUBSET Clients]]
  /\ context \in [Clients -> 0..MaxRounds]

\* Only tasks of the current round can be authorized, and only before Collect.
TokensCurrent == \A c \in Clients : tokens[c] # NoRound => tokens[c] = round /\ phase = "fitting"

TasksOfRounds ==
  \A t \in Tasks : /\ at[t] = "none" => steps[t] = 0
                   /\ Round(t) > round => at[t] = "none"

\* What a whole task makes of the model the round began with.
WholeTask == State(clientModel, Batches, Batches)

\* How far the suffix, the upload and the registry are for a task of the current
\* round that has not failed.
InStep(t) ==
  /\ at[t] # "none" => base[t] = clientModel
  /\ at[t] \in {"start", "acquire", "load"} => steps[t] = 0
  /\ at[t] \in {"load", "train", "upload", "commit"} =>
        suffix[Cid(t)] = State(clientModel, steps[t], steps[t])
  /\ at[t] \in {"upload", "commit", "return", "returned"} => steps[t] = Batches
  /\ at[t] \in {"commit", "return", "returned"} /\ Cid(t) \in Constrained =>
        uploads[Cid(t)] = WholeTask
  /\ at[t] \in {"return", "returned"} => completed[Cid(t)] = WholeTask

TasksInStep == phase = "fitting" => \A t \in Tasks : Round(t) = round => InStep(t)

Received ==
  phase \in {"fitting", "collected"} =>
     \A c \in Clients : results[c].some =>
        /\ results[c] = WholeTask /\ completed[c] = WholeTask
        /\ at[<<c, round>>] = "returned"

\* Between rounds the registry is empty; a model is made in its own round.
RoundsSeparate ==
  /\ serverModel = clientModel /\ clientModel.round <= round
  /\ phase \in {"fitting", "collected"} => round \in Rounds /\ clientModel.round < round
  /\ phase \in {"between", "raised"} => \A c \in Clients : completed[c] = Nothing

RoundInv ==
  /\ TypeOK /\ TokensCurrent /\ TasksOfRounds /\ TasksInStep /\ Received
  /\ RoundsSeparate

-------------------------------------------------------------------------------
(* Properties *)

\* The two halves a client contributes belong together: both were trained from
\* the model the round began with, and both through all batches of the task,
\* no step missing, doubled or applied without being counted.
PairsMatch ==
  [][clientModel' # clientModel =>
       \A c \in clientModel'.from :
          /\ results[c] = completed[c]
          /\ results[c].base = clientModel
          /\ results[c].applied = Batches /\ results[c].processed = Batches]_vars

\* A round whose updates have no client in common does not occur, so
\* aggregation never ends the run for it: a prefix that is received has had its
\* suffix committed, whatever was lost.
PrefixHasSuffix == phase \in {"fitting", "collected"} => Prefixes \subseteq Suffixes

\* require_complete_round: the model is made of all selected clients.
AllOrNothing ==
  [][complete /\ clientModel' # clientModel => clientModel'.from = selected]_vars

\* A context never runs ahead of the suffix: it says a round is done only when
\* the suffix of that round is safe in the registry.
ContextBehindSuffix ==
  \A c \in Clients : phase = "fitting" /\ context[c] = round => completed[c].some

\* Every round comes to its end.
RunEnds == <>(phase = "raised" \/ (phase = "between" /\ round = MaxRounds))

\* What GlobalModel calls delivered, in this round.
Delivered ==
  [prefix |-> IF phase \in {"fitting", "collected"} THEN Prefixes ELSE {},
   suffix |-> IF phase \in {"fitting", "collected"} THEN Suffixes ELSE {}]

Global == INSTANCE GlobalModel WITH halves <- Delivered, model <- clientModel

\* The promise of GlobalModel (README: missing pairs are dropped together, a round
\* with no complete update keeps the model): halves that never meet, late tasks
\* and lost replies leave no trace in the model.
ImplementsGlobal == Global!GlobalSpec
===============================================================================
