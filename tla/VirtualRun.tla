------------------------------ MODULE VirtualRun ------------------------------
(***************************************************************************)
(* One call of run_virtual, or of run_fedavg, which trains whole models on *)
(* the same engine: the constructor of the configuration derives           *)
(* how many client workers there may be, _admit_resources and              *)
(* initialize_ray lower that number to what the memory and the native Ray  *)
(* pool hold, the server is built with the slots and lanes that are left,  *)
(* the simulation runs and is judged, and whatever happens on the way an   *)
(* account of it is written and the service, the store and Ray are given   *)
(* back.  FedAvg has no suffixes, and so no memory bound and no service.   *)
(*                                                                         *)
(* Memory is counted in model states: a resident suffix takes four, the    *)
(* server itself three.  The training inside run_simulation is the subject *)
(* of the other modules; here it succeeds, is judged, or raises.  A frozen *)
(* configuration may be replayed on a machine whose own bound differs from *)
(* the recorded one.                                                       *)
(***************************************************************************)
EXTENDS Integers, FiniteSets, FiniteSetsExt

CONSTANTS Total,       \* virtual_clients.total
          Memory,      \* amounts of memory, in model states
          MaxFaults    \* writes that leave a truncated file and stops that raise

ASSUME VirtualAssumption == /\ Total \in Nat \ {0}
                            /\ Memory \subseteq Nat \ {0}
                            /\ MaxFaults \in Nat

None == 0
Given(x) == x # None
Or(x, y) == IF Given(x) THEN x ELSE y

Reports == {"validation", "model_metrics", "resource_metrics", "summary"}

VARIABLES pc,         \* where run_virtual or run_fedavg is
          cfg,        \* the configuration, as its constructor left it
          effective,  \* resources.effective_worker_capacity
          resident,   \* resources.max_resident_suffix_replicas
          free,       \* free memory of the server's GPU, None without one
          pool,       \* size of the native Ray pool
          built,      \* replica slots and execution lanes of the server built
          expected,   \* effective capacity of the frozen receipt
          files,      \* what each report says
          service, store, ray,
          faults, stops, outcome

limits == <<effective, resident, free, pool>>
held == <<service, store, ray>>
vars == <<pc, cfg, effective, resident, free, pool, built, expected, files,
          service, store, ray, faults, stops, outcome>>

-----------------------------------------------------------------------------
(* Resources and VirtualConfig.__post_init__                                *)

\* What a configuration file may say, and what it meets: participants is the
\* largest number of clients of a round, host what the machine has room for.
Options == [method : {"splitfleet", "fedavg"}, strict : BOOLEAN, requested : 0..Total, maxSuffix : 0..Total,
            maxResident : 0..Total, lanes : 0..Total, byRound : 0..Total,
            perClient : BOOLEAN, budget : {None} \cup Memory,
            participants : 1..Total]

Target(o) == Min({o.participants, Or(o.requested, o.participants)})

Derived(o, host) == IF o.strict THEN Target(o) ELSE Min({Target(o), host})

\* __post_init__ gives every client a logical suffix when each keeps its own.
Logical(o) == IF o.perClient THEN Or(o.maxSuffix, Total) ELSE o.maxSuffix

SuffixSlots(o, bound, workers) ==
    Min({Or(bound, Or(Logical(o), workers)), workers})

LaneLimit(o, bound, workers) ==
    Min({Or(o.lanes, workers), SuffixSlots(o, bound, workers)})

\* _validate_explicit_suffix_concurrency
LanesStillFit(o, bound, workers) ==
    /\ o.lanes <= SuffixSlots(o, bound, workers)
    /\ o.byRound <= SuffixSlots(o, bound, workers)

Constructs(o, host) ==
    /\ o.strict => o.requested \in 1..o.participants
    /\ o.maxResident <= Derived(o, host)
    /\ Given(Logical(o)) => o.maxResident <= Logical(o)
    /\ LanesStillFit(o, o.maxResident, Derived(o, host))
    /\ o.perClient => Logical(o) = Total

\* The size of every round's executor: server_concurrency or its override.
Lanes(o, bound, workers) ==
    CHOOSE n \in {LaneLimit(o, bound, workers), o.byRound} :
        n >= LaneLimit(o, bound, workers) /\ n >= o.byRound

Floor(slots) == 4 * slots + 3

Slots == SuffixSlots(cfg, resident, effective)

Fedavg == cfg.method = "fedavg"

-----------------------------------------------------------------------------
\* A host other than the machine's own is that of the run being replayed:
\* from_dict restores its capacity after the constructor has validated.
Init ==
    /\ pc = "claim"
    /\ cfg \in Options
    /\ \E host \in 1..Total : Constructs(cfg, host)
    /\ effective \in {Derived(cfg, host) : host \in {h \in 1..Total : Constructs(cfg, h)}}
    /\ resident = cfg.maxResident
    /\ free = None /\ pool = None
    /\ built = [slots |-> None, lanes |-> None]
    /\ expected \in {None, effective}
    /\ files = [f \in Reports |-> "absent"]
    /\ service = "none" /\ store = FALSE /\ ray = FALSE
    /\ faults = 0 /\ stops = 0
    /\ outcome = "running"

\* Any statement of the try block may raise: the run goes on in the handler.
Raise ==
    /\ pc' = "handler"
    /\ outcome' = "raised"

\* Evidence is created before the try block: a directory that exists, or a
\* frozen configuration that differs, ends the call with nothing written.
\* run_fedavg opens its store there too.
Claim ==
    /\ pc = "claim"
    /\ \/ pc' = (IF Fedavg THEN "native" ELSE "declared") /\ store' = Fedavg /\ UNCHANGED outcome
       \/ pc' = "ended" /\ outcome' = "refused" /\ UNCHANGED store
    /\ UNCHANGED <<cfg, limits, built, expected, files, service, ray, faults, stops>>

\* constrain_by_memory: a bound of the memory on the resident suffixes.
Bound(memory) == LET n == (memory - 3) \div 4 IN IF n < 0 THEN 0 ELSE n

SuffixBounded == Given(Logical(cfg)) \/ Given(resident)

Refuses(memory) ==
    /\ Given(memory) /\ Bound(memory) < Slots
    /\ \/ cfg.strict /\ ~SuffixBounded
       \/ Bound(memory) < 1

\* The resident bound is compared with the workers instead of the suffixes.
MutantConstrained(memory) ==
    IF ~Given(memory) \/ Bound(memory) >= Slots
    THEN [workers |-> effective, bound |-> resident]
    ELSE [workers |-> Min({Bound(memory), Target(cfg), effective}), bound |-> resident]

Constrained(memory) ==
    IF ~Given(memory) \/ Bound(memory) >= Slots
    THEN [workers |-> effective, bound |-> resident]
    ELSE IF SuffixBounded
         THEN [workers |-> effective, bound |-> Bound(memory)]
         ELSE [workers |-> Min({Bound(memory), Slots, Target(cfg), effective}),
               bound |-> resident]

\* One of the two memory bounds of _admit_resources, with the checks after it.
Constrain(memory, next) ==
    LET c == Constrained(memory)
        fits == /\ LanesStillFit(cfg, c.bound, c.workers)
                /\ Given(memory) => Floor(SuffixSlots(cfg, c.bound, c.workers)) <= memory
    IN IF Refuses(memory)
       THEN Raise /\ UNCHANGED <<effective, resident>>
       ELSE /\ effective' = c.workers
            /\ resident' = c.bound
            /\ IF fits THEN pc' = next /\ UNCHANGED outcome ELSE Raise

AdmitDeclared ==
    /\ pc = "declared"
    /\ Constrain(cfg.budget, "gpu")
    /\ UNCHANGED <<cfg, free, pool, built, expected, files, held, faults, stops>>

AdmitGpu ==
    /\ pc = "gpu"
    /\ \E memory \in {None} \cup Memory :
          /\ free' = memory
          /\ Constrain(memory, "native")
    /\ UNCHANGED <<cfg, pool, built, expected, files, held, faults, stops>>

\* initialize_ray: the pool Ray forms is adopted when it is smaller, and
\* refused when it is larger or the number of workers is part of the contract.
InitializeRay ==
    /\ pc = "native"
    /\ ray' = TRUE
    /\ \E actual \in 1..(Total + 1) :
          /\ pool' = actual
          /\ IF actual # effective /\ (cfg.strict \/ actual > effective)
             THEN Raise /\ UNCHANGED effective
             ELSE /\ effective' = Min({actual, Target(cfg), effective})
                  /\ IF LanesStillFit(cfg, resident, effective')
                     THEN pc' = "receipt" /\ UNCHANGED outcome
                     ELSE Raise
    /\ UNCHANGED <<cfg, resident, free, built, expected, files, service, store, faults, stops>>

\* Evidence.record_capacity_observation: a replay must get the same capacity.
RecordCapacity ==
    /\ pc = "receipt"
    /\ IF Given(expected) /\ expected # effective
       THEN Raise
       ELSE pc' = "build" /\ UNCHANGED outcome
    /\ UNCHANGED <<cfg, limits, built, expected, files, held, faults, stops>>

Build ==
    /\ pc = "build" /\ ~Fedavg
    /\ pc' = "start"
    /\ built' = [slots |-> Slots, lanes |-> Lanes(cfg, resident, effective)]
    /\ store' = TRUE
    /\ service' = "built"
    /\ UNCHANGED <<cfg, limits, expected, files, ray, faults, stops, outcome>>

\* run_fedavg builds Flower's own server and simulates; it judges nothing: an
\* incomplete or nonfinite training raises.
Train ==
    /\ pc = "build" /\ Fedavg
    /\ pc' = "models"
    /\ UNCHANGED <<cfg, limits, built, expected, files, held, faults, stops, outcome>>

\* Data, models, the policy or the training may raise anywhere in the try.
Fail ==
    /\ pc \in {"declared", "native", "build", "judge"}
    /\ Raise
    /\ UNCHANGED <<cfg, limits, built, expected, files, held, faults, stops>>

-----------------------------------------------------------------------------
(* The service lives inside the server application: its lifespan starts     *)
(* and stops it, and a start that fails stops it too.                       *)

Stopped == service' = "stopped" /\ UNCHANGED <<faults, stops>>

\* A drain that runs out of time leaves the loop running.
StopRaises ==
    /\ faults < MaxFaults
    /\ faults' = faults + 1
    /\ stops' = stops + 1
    /\ service' = "running"

Start ==
    /\ pc = "start"
    /\ \/ pc' = "simulate" /\ service' = "running" /\ UNCHANGED <<outcome, faults, stops>>
       \/ Raise /\ (Stopped \/ StopRaises)
    /\ UNCHANGED <<cfg, limits, built, expected, files, store, ray>>

Simulate ==
    /\ pc = "simulate"
    /\ \/ pc' = "judge" /\ Stopped /\ UNCHANGED outcome
       \/ Raise /\ (Stopped \/ StopRaises)
    /\ UNCHANGED <<cfg, limits, built, expected, files, store, ray>>

-----------------------------------------------------------------------------
(* The reports, written once each                                           *)

\* Evidence.write: open("x") creates the file before its text is in it.
Write(f, text, next) ==
    \/ /\ files' = [files EXCEPT ![f] = text]
       /\ pc' = next
       /\ UNCHANGED <<faults, outcome>>
    \/ /\ faults < MaxFaults
       /\ faults' = faults + 1
       /\ files' = [files EXCEPT ![f] = "partial"]
       /\ Raise

Judge ==
    /\ pc = "judge"
    /\ IF Fedavg THEN Write("validation", "passed", "summary")
       ELSE \E verdict \in {"passed", "failed"} : Write("validation", verdict, "models")
    /\ UNCHANGED <<cfg, limits, built, expected, held, stops>>

Measure ==
    /\ \/ pc = "models" /\ Write("model_metrics", "written", IF Fedavg THEN "judge" ELSE "resources")
       \/ pc = "resources" /\ Write("resource_metrics", "written", "summary")
    /\ UNCHANGED <<cfg, limits, built, expected, held, stops>>

Summarise ==
    /\ pc = "summary"
    /\ Write("summary", files["validation"], "verdict")
    /\ UNCHANGED <<cfg, limits, built, expected, held, stops>>

Verdict ==
    /\ pc = "verdict"
    /\ IF files["validation"] = "passed"
       THEN pc' = "cleanup" /\ outcome' = "returned"
       ELSE Raise
    /\ UNCHANGED <<cfg, limits, built, expected, files, held, faults, stops>>

\* The handler only accounts for a run that had not been judged.
MutantAccount(f, next) ==
    IF files["validation"] # "absent"
    THEN pc' = "cleanup" /\ UNCHANGED <<files, faults>>
    ELSE files' = [files EXCEPT ![f] = "failed"] /\ pc' = next /\ UNCHANGED faults

\* The except clause: what a report does not say yet it says now.
Account(f, next) ==
    IF files[f] # "absent"
    THEN pc' = next /\ UNCHANGED <<files, faults>>
    ELSE \/ /\ files' = [files EXCEPT ![f] = "failed"]
            /\ pc' = next
            /\ UNCHANGED faults
         \/ /\ faults < MaxFaults
            /\ faults' = faults + 1
            /\ files' = [files EXCEPT ![f] = "partial"]
            /\ pc' = "cleanup"

Handle ==
    /\ \/ pc = "handler" /\ Account("validation", "handler2")
       \/ pc = "handler2" /\ Account("summary", "cleanup")
    /\ UNCHANGED <<cfg, limits, built, expected, held, stops, outcome>>

\* A stop that failed once counts as done.
MutantCleanup ==
    /\ pc = "cleanup"
    /\ pc' = "ended"
    /\ IF stops = 0 THEN service' = "stopped" ELSE UNCHANGED service
    /\ store' = FALSE /\ ray' = FALSE
    /\ UNCHANGED <<cfg, limits, built, expected, files, faults, stops, outcome>>

\* The finally clause: a service still running is stopped first, and if that
\* raises neither the store nor Ray is given back.
Cleanup ==
    /\ pc = "cleanup"
    /\ pc' = "ended"
    /\ \/ /\ IF service = "running" THEN service' = "stopped" ELSE UNCHANGED service
          /\ store' = FALSE /\ ray' = FALSE
          /\ UNCHANGED <<faults, stops, outcome>>
       \/ /\ service = "running"
          /\ StopRaises
          /\ outcome' = "raised"
          /\ UNCHANGED <<store, ray>>
    /\ UNCHANGED <<cfg, limits, built, expected, files>>

Next ==
    \/ Claim \/ AdmitDeclared \/ AdmitGpu \/ InitializeRay \/ RecordCapacity
    \/ Build \/ Train \/ Fail \/ Start \/ Simulate
    \/ Judge \/ Measure \/ Summarise \/ Verdict \/ Handle \/ Cleanup

Spec == Init /\ [][Next]_vars

-----------------------------------------------------------------------------
\* A server that is built has a replica slot for every execution lane of every
\* round, a worker for every slot, an actor of the native pool for every
\* worker, and both memories hold its states and the optimizer's; a fixed
\* worker count is exactly what it asked for and a replay runs with the
\* capacity it recorded, however many bounds were applied in between
\* (runtime.py:93-390, config.py:127-220).
SlotsBacked ==
    Given(built.slots) =>
        /\ built.lanes \in 1..built.slots
        /\ built.slots <= effective
        /\ effective <= Min({pool, Target(cfg)})
        /\ \A memory \in {cfg.budget, free} : Given(memory) => Floor(built.slots) <= memory
        /\ cfg.strict => pool = Target(cfg) /\ effective = Target(cfg)
        /\ Given(expected) => effective = expected
        /\ Given(cfg.maxResident) => built.slots <= cfg.maxResident

\* The reports tell one story: a summary that says the run passed has every
\* other report beside it and belongs to a call that returned, and a call that
\* ended leaves a verdict and a summary unless one was cut short while it was
\* written (runtime.py:634-770).
ReportsAgree ==
    /\ files["summary"] = "passed" =>
           /\ files["validation"] = "passed"
           /\ files["model_metrics"] = "written"
           /\ Fedavg \/ files["resource_metrics"] = "written"
    /\ pc = "ended" /\ outcome # "refused" =>
           /\ outcome = "returned" <=> files["summary"] = "passed"
           /\ \/ \E f \in Reports : files[f] = "partial"
              \/ "absent" \notin {files["validation"], files["summary"]}

\* Nothing is held after the call, also when the simulation was cut short and
\* its own attempt to stop the service failed: only a service that could not be
\* stopped twice stays, with the store and Ray (runtime.py:771-779).
EndsClean ==
    pc = "ended" /\ stops < 2 => service # "running" /\ ~store /\ ~ray

\* However a call of run_virtual or run_fedavg ends, its files say how and
\* nothing it held is left to the next call.
EndsInOrder == ReportsAgree /\ EndsClean
===============================================================================
