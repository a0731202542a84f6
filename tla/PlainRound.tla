------------------------------ MODULE PlainRound -------------------------------
(***************************************************************************)
(* Rounds of AutoSplit clients on the plain server, without leases: the    *)
(* suffix models are persistent objects of GrpcServerModelManager, which   *)
(* the round thread configures anew for every fit and every evaluation     *)
(* while executor threads run the clients' steps on them.  Nothing but the *)
(* wait for the clients' answers keeps the two apart: a client that leaves *)
(* is answered for at once, its step runs on in its thread.                *)
(* A "client" is a connection; a device that joins again is another one.   *)
(***************************************************************************)
EXTENDS Naturals, FiniteSets

CONSTANTS
  Clients,      \* bound: connections over the whole run
  Scopes,       \* the replica scopes to choose from
  Batches,      \* batches of a client's loader
  Concurrency,  \* execution_concurrency of a run with per-client replicas
  Raises,       \* a native step may raise
  MaxRounds     \* num_rounds

ASSUME PlainAssumption ==
  /\ Scopes \subseteq {"shared", "per_client"}
  /\ Batches \in Nat /\ Concurrency \in Nat \ {0} /\ MaxRounds \in Nat
  /\ Raises \in BOOLEAN

VARIABLES
  scope,       \* replica_scope_policy, fixed when the run starts
  round, phase,\* the round thread
  selected,    \* the clients instructed in this fit or evaluation
  toLoad, loading,  \* suffix models still to configure, and the one half done
  clientModel, serverModel, \* client_parameters and server_parameters
  results, failures,        \* answers of the clients
  exported,    \* collect_server_fit_results
  version, base, applied,   \* model_version; loaded parameters; steps applied since
  processed, inflight,      \* _processed_steps, _inflight_steps
  rpc,         \* rpc[c]: the step request of c and where it is on the server
  at,          \* at[c]: where client c is
  seen,        \* batches its loader has given in this fit
  trained,     \* the steps its prefix has taken
  context      \* _context_store: the keys of unconsumed prefix contexts

thread  == <<scope, round, phase, selected, toLoad, loading, clientModel, serverModel, results, failures, exported>>
suffix  == <<version, base, applied, processed, inflight>>
client  == <<at, seen, trained, context>>
vars    == <<thread, suffix, rpc, client>>

Rounds == 1..MaxRounds
Steps == Rounds \X Clients \X (1..Batches)      \* <<round_id, client_id, step_id>>

\* configure_server_fit: the common model has the empty id.
Common == "common"
Sids == Clients \cup {Common}
Sid(c) == IF scope = "shared" THEN Common ELSE c

\* server_concurrency is 1 unless every client has a replica of its own.
Lanes == IF scope = "shared" THEN 1 ELSE Concurrency

Initial == [round |-> 0, from |-> {}]
NoRequest == [at |-> "none"]
Running == {"begun", "applied"}

Init ==
  /\ scope \in Scopes
  /\ round = 0 /\ phase = "between" /\ selected = {} /\ toLoad = {} /\ loading = {}
  /\ clientModel = Initial /\ serverModel = Initial
  /\ results = {} /\ failures = {}
  /\ exported = [s \in Sids |-> [base |-> Initial, steps |-> {}]]
  /\ version = [s \in Sids |-> 0] /\ base = [s \in Sids |-> Initial]
  /\ applied = [s \in Sids |-> {}]
  /\ processed = [s \in Sids |-> {}] /\ inflight = [s \in Sids |-> {}]
  /\ rpc = [c \in Clients |-> NoRequest]
  /\ at = [c \in Clients |-> "away"]
  /\ seen = [c \in Clients |-> 0] /\ trained = [c \in Clients |-> {}]
  /\ context = [c \in Clients |-> {}]

-------------------------------------------------------------------------------
(* The client *)

Unanswered == selected \ (results \cup failures)

Join(c) ==
  /\ at[c] = "away"
  /\ at' = [at EXCEPT ![c] = "idle"]
  /\ UNCHANGED <<thread, suffix, rpc, seen, trained, context>>

\* fit with _prepare_round: the parameters are loaded, contexts of an earlier
\* round dropped.
StartFit(c) ==
  /\ phase = "fitting" /\ c \in Unanswered /\ at[c] = "idle"
  /\ at' = [at EXCEPT ![c] = "fit"]
  /\ seen' = [seen EXCEPT ![c] = 0] /\ trained' = [trained EXCEPT ![c] = {}]
  /\ context' = [context EXCEPT ![c] = {k \in @ : k[1] = round}]
  /\ UNCHANGED <<thread, suffix, rpc>>

\* _accept_batch: a batch the runtime cannot replay is skipped.
SkipBatch(c) ==
  /\ at[c] = "fit" /\ seen[c] < Batches
  /\ seen' = [seen EXCEPT ![c] = @ + 1]
  /\ UNCHANGED <<thread, suffix, rpc, at, trained, context>>

\* The prefix forward pass; its context is kept, the boundary sent.
Forward(c) ==
  /\ at[c] = "fit" /\ seen[c] < Batches
  /\ LET key == <<round, c, seen[c] + 1>>
     IN /\ context' = [context EXCEPT ![c] = @ \cup {key}]
        /\ rpc' = [rpc EXCEPT ![c] = [at |-> "queued", key |-> key]]
  /\ at' = [at EXCEPT ![c] = "sent"]
  /\ UNCHANGED <<thread, suffix, seen, trained>>

\* The gradient's identity is that of the step: its context is consumed and the
\* prefix takes the step.
Backward(c) ==
  /\ at[c] = "sent" /\ rpc[c].at = "ok" /\ rpc[c].key \in context[c]
  /\ context' = [context EXCEPT ![c] = @ \ {rpc[c].key}]
  /\ trained' = [trained EXCEPT ![c] = @ \cup {rpc[c].key}]
  /\ seen' = [seen EXCEPT ![c] = @ + 1]
  /\ rpc' = [rpc EXCEPT ![c] = NoRequest]
  /\ at' = [at EXCEPT ![c] = "fit"]
  /\ UNCHANGED <<thread, suffix>>

\* All batches are done: the prefix is exported; the binding of the message is
\* undone, with the contexts of the round.
Return(c) ==
  /\ at[c] = "fit" /\ seen[c] = Batches
  /\ at' = [at EXCEPT ![c] = "returned"]
  /\ context' = [context EXCEPT ![c] = {k \in @ : k[1] # round}]
  /\ UNCHANGED <<thread, suffix, rpc, seen, trained>>

\* The connection of c ends.  server_model_binding discards the contexts of the
\* round; the handler of c's request is cancelled, unless its thread runs.
Gone(c) ==
  /\ at' = [at EXCEPT ![c] = "gone"]
  /\ context' = [context EXCEPT ![c] = {k \in @ : k[1] # round}]
  /\ rpc' = [rpc EXCEPT ![c] = IF @.at \in Running THEN @ ELSE NoRequest]

\* The device or its connection fails at any time ...
Leave(c) ==
  /\ at[c] \notin {"away", "gone"}
  /\ Gone(c)
  /\ UNCHANGED <<thread, suffix, seen, trained>>

\* ... and a step that is answered with an error ends the client's fit, which
\* ends the connection.
StepRefused(c) ==
  /\ at[c] = "sent" /\ rpc[c].at = "error"
  /\ Gone(c)
  /\ UNCHANGED <<thread, suffix, seen, trained>>

ClientStep(c) ==
  StartFit(c) \/ SkipBatch(c) \/ Forward(c) \/ Backward(c) \/ Return(c) \/ StepRefused(c)

-------------------------------------------------------------------------------
(* The suffix, in an executor thread *)

\* What becomes of c's request: nobody waits for the answer when c has left.
Answer(c, a) ==
  rpc' = [rpc EXCEPT ![c] = IF at[c] = "gone" THEN NoRequest ELSE [@ EXCEPT !.at = a]]

\* _validate_wire_identity and _begin_step
Accepted(key, s) ==
  key[1] = version[s] /\ key \notin processed[s] \cup inflight[s]

\* A lane is free: the request is validated and entered.
BeginStep(c) ==
  /\ rpc[c].at = "queued"
  /\ Cardinality({d \in Clients : rpc[d].at \in Running}) < Lanes
  /\ LET s == Sid(c)  key == rpc[c].key
     IN IF Accepted(key, s)
          THEN /\ inflight' = [inflight EXCEPT ![s] = @ \cup {key}]
               /\ Answer(c, "begun")
          ELSE /\ Answer(c, "error")
               /\ UNCHANGED inflight
  /\ UNCHANGED <<thread, version, base, applied, processed, client>>

\* The optimizer takes the step.
ApplyStep(c) ==
  /\ rpc[c].at = "begun"
  /\ applied' = [applied EXCEPT ![Sid(c)] = @ \cup {rpc[c].key}]
  /\ rpc' = [rpc EXCEPT ![c].at = "applied"]
  /\ UNCHANGED <<thread, version, base, processed, inflight, client>>

\* _complete_step; the loss and the gradient go back.
CompleteStep(c) ==
  /\ rpc[c].at = "applied"
  /\ inflight' = [inflight EXCEPT ![Sid(c)] = @ \ {rpc[c].key}]
  /\ processed' = [processed EXCEPT ![Sid(c)] = @ \cup {rpc[c].key}]
  /\ Answer(c, "ok")
  /\ UNCHANGED <<thread, version, base, applied, client>>

MutantStepRaises(c) ==        \* a failed step is answered like any other
  /\ Raises /\ rpc[c].at \in Running
  /\ inflight' = [inflight EXCEPT ![Sid(c)] = @ \ {rpc[c].key}]
  /\ Answer(c, "ok")
  /\ UNCHANGED <<thread, version, base, applied, processed, client>>
\* The native step raises, before or after it has changed the model: _abort_step.
StepRaises(c) ==
  /\ Raises /\ rpc[c].at \in Running
  /\ inflight' = [inflight EXCEPT ![Sid(c)] = @ \ {rpc[c].key}]
  /\ Answer(c, "error")
  /\ UNCHANGED <<thread, version, base, applied, processed, client>>

ThreadStep(c) == BeginStep(c) \/ ApplyStep(c) \/ CompleteStep(c)

-------------------------------------------------------------------------------
(* The round thread *)

Idle == {c \in Clients : at[c] = "idle"}

\* initialize_server_models: the models of the instructed clients are to be
\* configured, one after the other.
Instruct(S) ==
  /\ S \subseteq Idle
  /\ selected' = S /\ results' = {} /\ failures' = {}
  /\ toLoad' = {Sid(c) : c \in S}
  /\ UNCHANGED <<scope, loading, clientModel, serverModel, exported, suffix, rpc, client>>

ConfigureFit(S) ==
  /\ phase = "between" /\ round < MaxRounds
  /\ round' = round + 1
  /\ phase' = IF S = {} THEN "fitted" ELSE "configuring"
  /\ Instruct(S)

\* _configure_common, first part: the identity of the round ...
ResetModel(s) ==
  /\ loading = {} /\ s \in toLoad
  /\ loading' = {s}
  /\ version' = [version EXCEPT ![s] = round]
  /\ processed' = [processed EXCEPT ![s] = {}]
  /\ inflight' = [inflight EXCEPT ![s] = {}]
  /\ UNCHANGED <<scope, round, phase, selected, toLoad, clientModel, serverModel, results, failures,
                 exported, base, applied, rpc, client>>

MutantLoadModel(s) ==         \* a persistent model keeps what it has
  /\ s \in loading
  /\ loading' = {} /\ toLoad' = toLoad \ {s}
  /\ base' = [base EXCEPT ![s] = serverModel]
  /\ phase' = IF toLoad = {s} THEN (IF phase = "configuring" THEN "fitting" ELSE "evaluating")
              ELSE phase
  /\ UNCHANGED <<scope, round, selected, clientModel, serverModel, results, failures, exported,
                 version, applied, processed, inflight, rpc, client>>
\* ... and second part: its parameters.  After the last one the clients are
\* instructed.
LoadModel(s) ==
  /\ s \in loading
  /\ loading' = {} /\ toLoad' = toLoad \ {s}
  /\ base' = [base EXCEPT ![s] = serverModel] /\ applied' = [applied EXCEPT ![s] = {}]
  /\ phase' = IF toLoad = {s} THEN (IF phase = "configuring" THEN "fitting" ELSE "evaluating")
              ELSE phase
  /\ UNCHANGED <<scope, round, selected, clientModel, serverModel, results, failures, exported,
                 version, processed, inflight, rpc, client>>

\* fit_clients: the reply of c, or the end of its connection ...
Receive(c) ==
  /\ phase = "fitting" /\ c \in Unanswered /\ at[c] = "returned"
  /\ results' = results \cup {c}
  /\ at' = [at EXCEPT ![c] = "idle"]
  /\ UNCHANGED <<scope, round, phase, selected, toLoad, loading, clientModel, serverModel, failures,
                 exported, suffix, rpc, seen, trained, context>>

MutantReceiveFailure(c) ==    \* an evaluation waits for a reply only
  /\ phase = "fitting" /\ c \in Unanswered /\ at[c] = "gone"
  /\ failures' = failures \cup {c}
  /\ UNCHANGED <<scope, round, phase, selected, toLoad, loading, clientModel, serverModel, results,
                 exported, suffix, rpc, client>>
\* ... which ends an evaluation of c, too.
ReceiveFailure(c) ==
  /\ phase \in {"fitting", "evaluating"} /\ c \in Unanswered /\ at[c] = "gone"
  /\ failures' = failures \cup {c}
  /\ UNCHANGED <<scope, round, phase, selected, toLoad, loading, clientModel, serverModel, results,
                 exported, suffix, rpc, client>>

\* collect_server_fit_results of the active models, whatever runs on them.
Collect ==
  /\ phase = "fitting" /\ Unanswered = {}
  /\ phase' = "collected"
  /\ exported' = [s \in Sids |-> IF s \in {Sid(c) : c \in selected}
                    THEN [base |-> base[s], steps |-> applied[s]] ELSE exported[s]]
  /\ UNCHANGED <<scope, round, selected, toLoad, loading, clientModel, serverModel, results, failures,
                 suffix, rpc, client>>

\* aggregate_fit ignores updates without examples.
Prefixes == {c \in results : trained[c] # {}}

\* _reassemble_named_state compares the states the two halves began with.
Diverged == scope = "per_client" /\ Prefixes # {} /\ clientModel # serverModel

Aggregated == [round |-> round, from |-> Prefixes]

\* aggregate_server_fit and finalize_round.  Per client both halves are the
\* reassembled model; the common suffix is published with whatever it took,
\* and the prefix only when a client returned one.
Published ==
  /\ clientModel' = IF Prefixes # {} THEN Aggregated ELSE clientModel
  /\ serverModel' = IF scope = "shared" \/ Prefixes # {} THEN Aggregated ELSE serverModel

Aggregate ==
  /\ phase = "collected"
  /\ IF Diverged THEN phase' = "raised" /\ UNCHANGED <<clientModel, serverModel>>
                 ELSE phase' = "fitted" /\ Published
  /\ UNCHANGED <<scope, round, selected, toLoad, loading, results, failures, exported, suffix, rpc, client>>

ConfigureEvaluate(S) ==
  /\ phase = "fitted"
  /\ phase' = IF S = {} THEN "between" ELSE "reconfiguring"
  /\ Instruct(S)
  /\ UNCHANGED round

\* evaluate of a client: evaluate_tail changes nothing.
Evaluate(c) ==
  /\ phase = "evaluating" /\ c \in Unanswered /\ at[c] = "idle"
  /\ results' = results \cup {c}
  /\ UNCHANGED <<scope, round, phase, selected, toLoad, loading, clientModel, serverModel, failures,
                 exported, suffix, rpc, client>>

\* aggregate_evaluate has nothing to divide by without a result; else end_round.
AggregateEvaluate ==
  /\ phase = "evaluating" /\ Unanswered = {}
  /\ phase' = IF results = {} THEN "raised" ELSE "between"
  /\ UNCHANGED <<scope, round, selected, toLoad, loading, clientModel, serverModel, results, failures,
                 exported, suffix, rpc, client>>

Finished ==
  /\ phase = "raised" \/ (phase = "between" /\ round = MaxRounds)
  /\ UNCHANGED vars

RoundStep ==
  \/ \E S \in SUBSET Clients : ConfigureFit(S) \/ ConfigureEvaluate(S)
  \/ \E s \in Sids : ResetModel(s) \/ LoadModel(s)
  \/ \E c \in Clients : Receive(c) \/ ReceiveFailure(c) \/ Evaluate(c)
  \/ Collect \/ Aggregate \/ AggregateEvaluate

Next ==
  \/ \E c \in Clients : Join(c) \/ Leave(c) \/ ClientStep(c) \/ ThreadStep(c) \/ StepRaises(c)
  \/ RoundStep \/ Finished

Spec == Init /\ [][Next]_vars

\* The round thread runs, and so do the devices that stay and the threads of
\* the executor.
FairSpec ==
  Spec /\ WF_vars(RoundStep) /\ \A c \in Clients : WF_vars(ClientStep(c)) /\ WF_vars(ThreadStep(c))

-------------------------------------------------------------------------------
(* Properties *)

\* What is aggregated was trained together: a client's prefix took no step that
\* the suffix exported with it did not take from the round's published model,
\* and a suffix of its own took no other, whatever steps failed, were skipped or
\* outlived their clients (train_tail, collect_server_fit_results).
HalvesInStep ==
  phase = "collected" => \A c \in Prefixes :
    /\ exported[Sid(c)].base = serverModel
    /\ trained[c] \subseteq exported[Sid(c)].steps
    /\ scope = "per_client" => exported[c].steps = trained[c]

\* A prefix context is that of the step its client waits for: none survives a
\* step that failed, a fit that ended or a connection that was lost
\* (PrefixContextStore, server_model_binding).
ContextsConsumed ==
  \A c \in Clients : context[c] \subseteq (IF at[c] = "sent" THEN {rpc[c].key} ELSE {})

\* A step is taken by both halves, or it leaves nothing behind that counts.
StepsWhole == HalvesInStep /\ ContextsConsumed

\* With replicas per client, an evaluation is of the model that was published,
\* prefix and suffix of the same aggregation and no step on top, though the
\* suffix objects were trained a moment ago (configure_server_evaluate).
EvaluatesPublished ==
  (phase = "evaluating" /\ scope = "per_client") => \A c \in Unanswered :
    /\ base[c] = serverModel /\ clientModel = serverModel
    /\ applied[c] = {}

\* The rounds are over in the end, or one has ended the run: no step, no failure
\* and no departure leaves the round thread waiting.
RunEnds == <>(phase = "raised" \/ (phase = "between" /\ round = MaxRounds))
===============================================================================
