----------------------------- MODULE SuffixLease ------------------------------
(***************************************************************************)
(* LeasedServerModelManager: the round's suffix replicas, leased one task  *)
(* at a time to RPC threads.  Every `with self.lock` section of the source *)
(* is one action; the work between two sections (building, exporting,      *)
(* releasing a model) touches only the thread's own model and is folded    *)
(* into the section that publishes its result.  A task identity is tried   *)
(* once per round, so a thread inside acquire or finish is named by it.    *)
(***************************************************************************)
EXTENDS Naturals, FiniteSets

CONSTANTS
  Sids,           \* suffix replica identities (cid, or one shared identity)
  Capacity,       \* capacity: leases that may exist at a time
  Retire,         \* TRUE iff a retire_model hook keeps completed slots idle
  PerClient,      \* per_client_models
  ModelCapacity,  \* model_capacity: logical models a per-client round may have
  MaxRounds       \* bound: rounds the server drives

ASSUME LeaseAssumption ==
  /\ IsFiniteSet(Sids)
  /\ Capacity \in Nat \ {0}
  /\ ModelCapacity \in Nat
  /\ MaxRounds \in Nat
  /\ Retire \in BOOLEAN
  /\ PerClient \in BOOLEAN
  /\ PerClient => ~Retire   \* __init__ refuses the combination

NoModel == 0   \* model ids are the manager's monotonic instance ids 1, 2, ...

VARIABLES
  configs,     \* identities configured for this round
  attempted, preparing, live, finishing, completed, failed,
  held,        \* held[s]: the model in live[s], or in the thread working on s
  idle,        \* retired slots kept for reuse within the round
  created,     \* _next_model_instance_id
  native,      \* models that exist: built and not yet released
  pc,          \* where the thread inside acquire(s) or finish(s) is
  server,      \* where the round thread is
  pending,     \* collect_server_fit_results: live identities still to abort
  byServer,    \* the identity whose finish the round thread is inside of
  rounds       \* rounds started so far (bounded by MaxRounds)

registry == <<attempted, preparing, live, finishing, completed, failed>>
slots    == <<held, idle, created, native>>
driver   == <<configs, server, pending, byServer, rounds>>
vars     == <<registry, slots, pc, driver>>

PcStates == {"out", "building", "configuring", "exporting", "stored",
             "discarding", "settled"}
ServerStates == {"between", "fitting", "collecting", "closing", "stopped"}

Init ==
  /\ configs = {} /\ attempted = {} /\ preparing = {} /\ live = {}
  /\ finishing = {} /\ completed = {} /\ failed = {}
  /\ held = [s \in Sids |-> NoModel]
  /\ idle = {} /\ created = 0 /\ native = {}
  /\ pc = [s \in Sids |-> "out"]
  /\ server = "between" /\ pending = {} /\ byServer = {} /\ rounds = 0

-------------------------------------------------------------------------------
(* acquire *)

MutantAdmissibleAgain(s) ==       \* only an identity in use is refused
  /\ s \notin preparing \cup live \cup finishing
  /\ s \in configs
  /\ Cardinality(live) + Cardinality(preparing) + Cardinality(finishing) < Capacity

\* The identity is refused for the rest of the round, whatever happens to it.
Admissible(s) ==
  /\ s \notin attempted
  /\ s \in configs
  /\ Cardinality(live) + Cardinality(preparing) + Cardinality(finishing) < Capacity

MutantTakeSlot(s) ==              \* always builds, whatever is idle
  /\ pc' = [pc EXCEPT ![s] = "building"]
  /\ UNCHANGED <<held, idle>>

\* An idle slot if there is one (which one is not told apart), else a build.
TakeSlot(s) ==
  \/ /\ idle = {}
     /\ pc' = [pc EXCEPT ![s] = "building"]
     /\ UNCHANGED <<held, idle>>
  \/ \E m \in idle :
       /\ idle' = idle \ {m}
       /\ held' = [held EXCEPT ![s] = m]
       /\ pc' = [pc EXCEPT ![s] = "configuring"]

\* First section of acquire.
AcquireAdmit(s) ==
  /\ Admissible(s)
  /\ attempted' = attempted \cup {s}
  /\ preparing' = preparing \cup {s}
  /\ TakeSlot(s)
  /\ UNCHANGED <<live, finishing, completed, failed, created, native, driver>>

\* factory().to_server_model() returns a new model with its own instance id.
AcquireBuild(s) ==
  /\ pc[s] = "building"
  /\ created' = created + 1
  /\ native' = native \cup {created + 1}
  /\ held' = [held EXCEPT ![s] = created + 1]
  /\ pc' = [pc EXCEPT ![s] = "configuring"]
  /\ UNCHANGED <<registry, idle, driver>>

\* configure_fit / configure_evaluate succeeded: the lease becomes live.
AcquirePublish(s) ==
  /\ pc[s] = "configuring"
  /\ preparing' = preparing \ {s}
  /\ live' = live \cup {s}
  /\ pc' = [pc EXCEPT ![s] = "out"]
  /\ UNCHANGED <<attempted, finishing, completed, failed, slots, driver>>

MutantAcquireFail(s) ==           \* gives the released model back to idle
  /\ pc[s] \in {"building", "configuring"}
  /\ native' = native \ {held[s]}
  /\ idle' = idle \cup ({held[s]} \ {NoModel})
  /\ held' = [held EXCEPT ![s] = NoModel]
  /\ preparing' = preparing \ {s}
  /\ failed' = failed \cup {s}
  /\ pc' = [pc EXCEPT ![s] = "out"]
  /\ UNCHANGED <<attempted, live, finishing, completed, created, driver>>

\* The factory or the configuration raised: the model, if any, is released
\* (never put back into idle) and the attempt is recorded as failed.
AcquireFail(s) ==
  /\ pc[s] \in {"building", "configuring"}
  /\ native' = native \ {held[s]}
  /\ held' = [held EXCEPT ![s] = NoModel]
  /\ preparing' = preparing \ {s}
  /\ failed' = failed \cup {s}
  /\ pc' = [pc EXCEPT ![s] = "out"]
  /\ UNCHANGED <<attempted, live, finishing, completed, idle, created, driver>>

-------------------------------------------------------------------------------
(* finish *)

\* First section of finish: the lease leaves live.  A second finish of the
\* same identity finds nothing in live and returns without effect.
FinishTake(s, success) ==
  /\ s \in live
  /\ live' = live \ {s}
  /\ finishing' = finishing \cup {s}
  /\ pc' = [pc EXCEPT ![s] = IF success THEN "exporting" ELSE "discarding"]
  /\ UNCHANGED <<attempted, preparing, completed, failed, slots>>

MutantFinishStore(s) ==           \* completed as soon as the update is stored
  /\ pc[s] = "exporting"
  /\ completed' = completed \cup {s}
  /\ pc' = [pc EXCEPT ![s] = "stored"]
  /\ UNCHANGED <<attempted, preparing, live, finishing, failed, slots, driver>>

\* get_fit_result, the finite and ownership checks and state_store.put passed.
FinishStore(s) ==
  /\ pc[s] = "exporting"
  /\ pc' = [pc EXCEPT ![s] = "stored"]
  /\ UNCHANGED <<registry, slots, driver>>

\* The stored update is completed; the model is retired into idle or released.
FinishCommit(s) ==
  /\ pc[s] = "stored"
  /\ completed' = completed \cup {s}
  /\ IF Retire THEN idle' = idle \cup {held[s]} /\ UNCHANGED native
               ELSE native' = native \ {held[s]} /\ UNCHANGED idle
  /\ held' = [held EXCEPT ![s] = NoModel]
  /\ pc' = [pc EXCEPT ![s] = "settled"]
  /\ UNCHANGED <<attempted, preparing, live, finishing, failed, created, driver>>

\* An abort, or an exception anywhere before the outcome was recorded (even
\* after the update was stored): released, and recorded as failed.
FinishFail(s) ==
  /\ pc[s] \in {"exporting", "stored", "discarding"}
  /\ failed' = failed \cup {s}
  /\ native' = native \ {held[s]}
  /\ held' = [held EXCEPT ![s] = NoModel]
  /\ pc' = [pc EXCEPT ![s] = "settled"]
  /\ UNCHANGED <<attempted, preparing, live, finishing, completed, idle, created>>

\* The `finally` section: a separate acquisition of the lock.
FinishLeave(s) ==
  /\ pc[s] = "settled"
  /\ finishing' = finishing \ {s}
  /\ byServer' = byServer \ {s}
  /\ pc' = [pc EXCEPT ![s] = "out"]
  /\ UNCHANGED <<attempted, preparing, live, completed, failed, slots,
                 configs, server, pending, rounds>>

\* finish called by an RPC thread.
RpcFinish(s) ==
  /\ \E success \in BOOLEAN : FinishTake(s, success)
  /\ UNCHANGED driver

-------------------------------------------------------------------------------
(* The round thread: initialize, collect, end *)

\* end_round: forget the round and release whatever is still materialised.
ForgetRound ==
  /\ preparing = {} /\ finishing = {}
  /\ native' = native \ (idle \cup {held[s] : s \in live})
  /\ held' = [s \in Sids |-> IF s \in live THEN NoModel ELSE held[s]]
  /\ idle' = {} /\ live' = {}
  /\ attempted' = {} /\ completed' = {} /\ failed' = {}
  /\ UNCHANGED <<preparing, finishing, created, pc>>

\* initialize_server_models: end_round first (a physical fit round ends only
\* here), then the new configurations.  A per-client population above
\* model_capacity is refused when configs is already assigned.
Initialize(S) ==
  /\ server \in {"between", "closing"} /\ byServer = {}
  /\ rounds < MaxRounds
  /\ ForgetRound
  /\ configs' = S
  /\ rounds' = rounds + 1
  /\ server' = IF PerClient /\ Cardinality(S) > ModelCapacity
                 THEN "closing" ELSE "fitting"
  /\ UNCHANGED <<pending, byServer>>

\* collect_server_fit_results takes a snapshot of live ...
CollectBegin ==
  /\ server = "fitting"
  /\ server' = "collecting"
  /\ pending' = live
  /\ UNCHANGED <<configs, byServer, rounds, registry, slots, pc>>

\* ... and finishes its leases one after the other; one that an RPC thread
\* finished in the meantime is skipped.
CollectAbort(s) ==
  /\ server = "collecting" /\ byServer = {}
  /\ s \in pending
  /\ pending' = pending \ {s}
  /\ IF s \in live THEN FinishTake(s, FALSE) /\ byServer' = {s}
                   ELSE UNCHANGED <<registry, slots, pc, byServer>>
  /\ UNCHANGED <<configs, server, rounds>>

\* An exception of that finish leaves the rest of the snapshot live.
FinishFails(s) ==
  /\ FinishFail(s)
  /\ UNCHANGED <<configs, byServer, rounds>>
  /\ \/ UNCHANGED <<server, pending>>
     \/ s \in byServer /\ server' = "closing" /\ pending' = {}

\* The last section returns the completed results, or raises because another
\* thread is inside acquire or finish; either way the round is over.
CollectReturn ==
  /\ server = "collecting" /\ pending = {} /\ byServer = {}
  /\ server' = "closing"
  /\ UNCHANGED <<configs, pending, byServer, rounds, registry, slots, pc>>

\* end_round, called by VirtualServer.fit_round's finally and at the end of
\* evaluate_round, which does not collect.
EndRound ==
  /\ server \in {"fitting", "closing"} /\ byServer = {}
  /\ ForgetRound
  /\ configs' = {}
  /\ server' = "between"
  /\ UNCHANGED <<pending, byServer, rounds>>

\* end_round raises while a lifecycle operation runs, and the run stops.
EndRoundRaises ==
  /\ server \in {"fitting", "closing"} /\ byServer = {}
  /\ preparing \cup finishing # {}
  /\ server' = "stopped"
  /\ UNCHANGED <<configs, pending, byServer, rounds, registry, slots, pc>>

\* Nothing is left to do: the rounds are over, or the run has stopped.
Finished ==
  /\ server = "stopped" \/ (server = "between" /\ rounds = MaxRounds)
  /\ \A s \in Sids : pc[s] = "out"
  /\ UNCHANGED vars

-------------------------------------------------------------------------------
AcquireStep(s) ==
  AcquireBuild(s) \/ AcquirePublish(s) \/ AcquireFail(s)

FinishStep(s) ==
  FinishStore(s) \/ FinishCommit(s) \/ FinishFails(s) \/ FinishLeave(s)

ServerStep ==
  \/ \E S \in SUBSET Sids : Initialize(S)
  \/ CollectBegin
  \/ \E s \in Sids : CollectAbort(s)
  \/ CollectReturn
  \/ EndRound
  \/ EndRoundRaises

Next ==
  \/ \E s \in Sids : \/ AcquireAdmit(s) \/ AcquireStep(s)
                     \/ RpcFinish(s) \/ FinishStep(s)
  \/ ServerStep
  \/ Finished

Spec == Init /\ [][Next]_vars

-------------------------------------------------------------------------------
(* Properties *)

TypeOK ==
  /\ configs \subseteq Sids /\ attempted \subseteq Sids
  /\ preparing \subseteq Sids /\ live \subseteq Sids /\ finishing \subseteq Sids
  /\ completed \subseteq Sids /\ failed \subseteq Sids
  /\ held \in [Sids -> Nat]
  /\ idle \subseteq Nat \ {NoModel} /\ native \subseteq Nat \ {NoModel}
  /\ created \in Nat
  /\ pc \in [Sids -> PcStates]
  /\ server \in ServerStates
  /\ pending \subseteq Sids /\ byServer \subseteq Sids /\ rounds \in Nat

\* The identities that own a slot: a model, or the right to build one.
Occupied == preparing \cup live \cup {s \in finishing : pc[s] # "settled"}

\* The registry sets name exactly the threads' positions, and a task that was
\* admitted is in one place until it is decided and decided once.
RegistryOK ==
  /\ preparing = {s \in Sids : pc[s] \in {"building", "configuring"}}
  /\ finishing = {s \in Sids : pc[s] \in {"exporting", "stored", "discarding", "settled"}}
  /\ \A s \in live : pc[s] = "out"
  /\ attempted = Occupied \cup completed \cup failed
  /\ completed \cap failed = {}
  /\ Occupied \cap (completed \cup failed) = {}
  /\ \A s \in Sids : pc[s] = "settled" => s \in completed \cup failed

\* A replica is private for the complete task: no two leases share a model, a
\* leased model is not an idle slot another acquire could pop, and a model
\* that was released is not referenced any more.  Nothing is leaked either:
\* a materialised model is leased or idle.  (The source updates idle and
\* finishing in two lock sections, and pops idle in a third.)
PrivateSlots ==
  /\ \A s \in Sids : held[s] # NoModel <=> s \in Occupied /\ pc[s] # "building"
  /\ \A s, t \in Occupied : s # t /\ held[s] # NoModel => held[s] # held[t]
  /\ \A s \in Sids : held[s] \notin idle
  /\ native = idle \cup {held[s] : s \in {t \in Sids : held[t] # NoModel}}
  /\ \A m \in native : m <= created

\* Admission compares the lease counts with the capacity and ignores the idle
\* slots; reusing an idle slot first is what keeps leases plus idle slots
\* within it.
SlotsBounded == Cardinality(Occupied) + Cardinality(idle) <= Capacity

\* Memory: never more native suffix models than the declared capacity.
CapacityHeld == Cardinality(native) <= Capacity

\* TaskLedger, as this module implements it: a task runs from its admission
\* until its outcome is recorded.
Ledger == INSTANCE TaskLedger WITH
  offered <- configs,
  status  <- [s \in Sids |-> IF s \in completed THEN "committed"
                             ELSE IF s \in failed THEN "failed"
                             ELSE IF s \in attempted THEN "running" ELSE "open"]

\* Every operation of the manager keeps that promise: no identity is tried
\* twice in a round, decided twice, or started above the capacity.
ImplementsLedger == Ledger!LedgerSpec
===============================================================================
