---------------------------- MODULE SuffixServicer -----------------------------
(***************************************************************************)
(* LeasedSuffixServicer over LeasedServerModelManager (SuffixLease): RPC   *)
(* handlers are tasks of one event loop, so a handler runs without         *)
(* interruption from one await to the next and every such stretch is one   *)
(* action.  Handlers hand their blocking work to executor threads, whose   *)
(* steps are the actions of SuffixLease.  A handler may be cancelled at    *)
(* any await, by the client's deadline and by reconcile; the round thread  *)
(* runs reconcile on the loop before it collects.                          *)
(***************************************************************************)
EXTENDS SuffixLease

CONSTANTS
  Requests,      \* bound: handlers that may exist at a time
  Methods,       \* the RPC methods clients call, among Kinds
  Lanes,         \* concurrency: executions that may run at a time
  Impatient      \* TRUE iff before_collect's result(timeout=300) may expire

Kinds == {"virtual_acquire", "virtual_commit", "virtual_abort",
          "train_tail", "virtual_upload_state"}

ASSUME ServicerAssumption ==
  Lanes \in Nat \ {0} /\ Methods \subseteq Kinds /\ Impatient \in BOOLEAN

VARIABLES
  tokens,    \* tokens[s]: round whose token the client of s may use, or NoToken
  req,       \* req[r]: what handler r was asked and the await it is suspended in
  expired,   \* handlers whose deadline has cancelled them (it does so once)
  cancelling,\* handlers whose task was cancelled and has not yet noticed
  swallowed, \* handlers that noticed it while their executor future ran
  leases,    \* _leases
  freeSlots, \* _replica_slots
  freeControl, freeLanes,   \* _control_slots, _execution_slots
  job,       \* job[s]: the executor future of the handler that holds s's lock
  uploads,   \* prefix_uploads
  recon,     \* where reconcile is
  aborted    \* the round thread raised: no further round

lanes   == <<freeControl, freeLanes>>
round   == <<tokens, recon, aborted>>
loop    == <<lanes, round, req, expired, cancelling, swallowed, leases,
             freeSlots, uploads, job>>
svcVars == <<vars, loop>>

NoToken == 0
Awaits == {"idle",      \* no such handler
           "lock",      \* the replica lock
           "slot",      \* _replica_slots.acquire()
           "control",   \* a control slot for acquire_replica or finish_replica
           "lane",      \* an execution slot
           "run",       \* the shielded executor future
           "cleanup",   \* a control slot for the failed acquire's finish
           "cleaning"}  \* that finish's future
Jobs == Kinds \cup {"none", "done", "raised"}
NoHandler == [at |-> "idle"]
ReconStates == {"off", "gather", "finish", "done", "closed", "failed"}

\* The handlers that hold the lock of the replica they address.
Owns(r) == req[r].at \notin {"idle", "lock"}
LockFree(s) == \A r \in Requests : Owns(r) => req[r].sid # s

SvcInit ==
  /\ Init
  /\ tokens = [s \in Sids |-> NoToken]
  /\ req = [r \in Requests |-> NoHandler]
  /\ expired = {} /\ cancelling = {} /\ swallowed = {}
  /\ leases = {} /\ freeSlots = Capacity
  /\ freeControl = Capacity /\ freeLanes = Lanes
  /\ job = [s \in Sids |-> "none"]
  /\ uploads = {} /\ recon = "off" /\ aborted = FALSE

-------------------------------------------------------------------------------
(* Handlers, from one await to the next *)

\* Handler r returns or raises: it leaves _requests and gives up its lock.
Ends(r) ==
  /\ req' = [req EXCEPT ![r] = NoHandler]
  /\ expired' = expired \ {r}
  /\ swallowed' = swallowed \ {r}

Goes(r, await) ==
  /\ req' = [req EXCEPT ![r].at = await]
  /\ UNCHANGED <<expired, swallowed>>

\* UnaryRequest up to the replica lock, for a request whose token is valid
\* (any other is refused without effect).
Arrive(r, s, k) ==
  /\ req[r].at = "idle" /\ tokens[s] # NoToken
  /\ req' = [req EXCEPT ![r] = [at |-> "lock", sid |-> s, kind |-> k, token |-> tokens[s]]]
  /\ UNCHANGED <<vars, lanes, round, expired, cancelling, swallowed, leases, freeSlots, uploads, job>>

\* virtual_acquire reserves the attempt before it waits for capacity.
DispatchAcquire(r) ==
  IF req[r].sid \in leases \cup attempted
    THEN Ends(r) /\ UNCHANGED <<leases, uploads>>
    ELSE Goes(r, "slot") /\ leases' = leases \cup {req[r].sid} /\ UNCHANGED uploads

\* Everything else needs a live replica; an upload runs to its end at once.
DispatchOther(r) ==
  /\ UNCHANGED leases
  /\ CASE req[r].sid \notin live -> Ends(r) /\ UNCHANGED uploads
       [] req[r].sid \in live /\ req[r].kind = "virtual_upload_state" ->
            Ends(r) /\ uploads' = uploads \cup {req[r].sid}
       [] req[r].sid \in live /\ req[r].kind = "train_tail" ->
            Goes(r, "lane") /\ UNCHANGED uploads
       [] OTHER -> Goes(r, "control") /\ UNCHANGED uploads

\* The lock is taken, the token compared again, the request dispatched.
Dispatch(r) ==
  /\ req[r].at = "lock" /\ r \notin cancelling /\ LockFree(req[r].sid)
  /\ IF tokens[req[r].sid] # req[r].token
       THEN Ends(r) /\ UNCHANGED <<leases, uploads>>
       ELSE IF req[r].kind = "virtual_acquire" THEN DispatchAcquire(r)
                                           ELSE DispatchOther(r)
  /\ UNCHANGED <<vars, lanes, round, cancelling, freeSlots, job>>

TakeReplicaSlot(r) ==
  /\ req[r].at = "slot" /\ r \notin cancelling /\ freeSlots > 0
  /\ freeSlots' = freeSlots - 1
  /\ Goes(r, "control")
  /\ UNCHANGED <<vars, lanes, round, cancelling, leases, uploads, job>>

\* execute_control: a control slot is free, and with it a thread.
SubmitControl(r) ==
  /\ req[r].at \in {"control", "cleanup"} /\ r \notin cancelling /\ freeControl > 0
  /\ freeControl' = freeControl - 1
  /\ Goes(r, IF req[r].at = "control" THEN "run" ELSE "cleaning")
  /\ job' = [job EXCEPT ![req[r].sid] = IF req[r].at = "control" THEN req[r].kind
                                     ELSE "virtual_abort"]
  /\ UNCHANGED <<vars, round, cancelling, freeLanes, leases, freeSlots, uploads>>

\* execute, for train_tail.
SubmitExecution(r) ==
  /\ req[r].at = "lane" /\ r \notin cancelling /\ freeLanes > 0
  /\ freeLanes' = freeLanes - 1
  /\ Goes(r, "run")
  /\ job' = [job EXCEPT ![req[r].sid] = req[r].kind]
  /\ UNCHANGED <<vars, round, cancelling, freeControl, leases, freeSlots, uploads>>

MutantReleaseReplicaSlot(s) ==  \* even of a model that is still live
  IF s \in leases THEN leases' = leases \ {s} /\ freeSlots' = freeSlots + 1
                  ELSE UNCHANGED <<leases, freeSlots>>

\* _release_replica_slot: a model that is still live keeps its capacity.
ReleaseReplicaSlot(s) ==
  IF s \notin live /\ s \in leases
    THEN leases' = leases \ {s} /\ freeSlots' = freeSlots + 1
    ELSE UNCHANGED <<leases, freeSlots>>

\* The slot of the pool, released whatever the execution ended with.
ReturnSlot(r) ==
  IF req[r].kind = "train_tail"
    THEN freeLanes' = freeLanes + 1 /\ UNCHANGED freeControl
    ELSE freeControl' = freeControl + 1 /\ UNCHANGED freeLanes

\* The executor future is done: its slot is free, and the handler goes on.
\* An acquire that raised, or was cancelled meanwhile, finishes the replica.
Resume(r) ==
  LET s == req[r].sid
      failedAcquire == /\ req[r].kind = "virtual_acquire" /\ req[r].at = "run"
                       /\ job[s] = "raised" \/ r \in swallowed \cup cancelling
      endsLifecycle == \/ req[r].kind \in {"virtual_commit", "virtual_abort"}
                       \/ req[r].at = "cleaning"
  IN
  /\ req[r].at \in {"run", "cleaning"} /\ job[s] \in {"done", "raised"}
  /\ job' = [job EXCEPT ![s] = "none"]
  /\ ReturnSlot(r)
  /\ IF failedAcquire
       THEN /\ req' = [req EXCEPT ![r].at = "cleanup"]
            /\ swallowed' = swallowed \ {r} /\ UNCHANGED expired
       ELSE Ends(r)
  /\ cancelling' = cancelling \ {r}
  /\ IF endsLifecycle THEN ReleaseReplicaSlot(s) ELSE UNCHANGED <<leases, freeSlots>>
  /\ UNCHANGED <<vars, round, uploads>>

\* The client's deadline, or its closed channel, cancels the handler's task.
Deadline(r) ==
  /\ req[r].at # "idle" /\ r \notin expired
  /\ expired' = expired \cup {r}
  /\ cancelling' = cancelling \cup {r}
  /\ UNCHANGED <<vars, lanes, round, req, swallowed, leases, freeSlots,
                 uploads, job>>

MutantKeepsWaiting(r) ==        \* the deadline frees the running execution
  Ends(r) /\ UNCHANGED <<leases, freeSlots>>

\* A running future is shielded: the handler keeps waiting for it.
KeepsWaiting(r) ==
  /\ swallowed' = swallowed \cup {r}
  /\ UNCHANGED <<req, expired, leases, freeSlots>>

\* CancelledError at the await the handler is suspended in.
Cancelled(r) ==
  LET s == req[r].sid IN
  /\ r \in cancelling
  /\ cancelling' = cancelling \ {r}
  /\ CASE req[r].at \in {"lock", "lane"} -> Ends(r) /\ UNCHANGED <<leases, freeSlots>>
       [] req[r].at = "slot" ->
            Ends(r) /\ leases' = leases \ {s} /\ UNCHANGED freeSlots
       [] req[r].at = "control" /\ req[r].kind = "virtual_acquire" ->
            Goes(r, "cleanup") /\ UNCHANGED <<leases, freeSlots>>
       [] req[r].at = "cleanup" \/ (req[r].at = "control" /\ req[r].kind # "virtual_acquire") ->
            Ends(r) /\ ReleaseReplicaSlot(s)
       [] req[r].at \in {"run", "cleaning"} -> KeepsWaiting(r)
  /\ UNCHANGED <<vars, lanes, round, uploads, job>>

-------------------------------------------------------------------------------
(* Executor threads: the manager's calls, step by step *)

Outcome(s, result) == job' = [job EXCEPT ![s] = result]

RunAcquire(s) ==
  /\ job[s] = "virtual_acquire"
  /\ \/ pc[s] = "out" /\ AcquireAdmit(s) /\ UNCHANGED job
     \/ pc[s] = "out" /\ ~Admissible(s) /\ Outcome(s, "raised") /\ UNCHANGED vars
     \/ AcquireBuild(s) /\ UNCHANGED job
     \/ AcquirePublish(s) /\ Outcome(s, "done")
     \/ AcquireFail(s) /\ Outcome(s, "raised")

RunFinish(s) ==
  /\ job[s] \in {"virtual_commit", "virtual_abort"}
  /\ \/ pc[s] = "out" /\ FinishTake(s, job[s] = "virtual_commit") /\ UNCHANGED <<driver, job>>
     \/ pc[s] = "out" /\ s \notin live /\ Outcome(s, "done") /\ UNCHANGED vars
     \/ (FinishStore(s) \/ FinishCommit(s) \/ FinishFails(s)) /\ UNCHANGED job
     \/ /\ FinishLeave(s)
        /\ \/ Outcome(s, "done") /\ (s \in completed \/ job[s] = "virtual_abort")
           \/ Outcome(s, "raised") /\ s \in failed

RunExecution(s) ==
  /\ job[s] = "train_tail"
  /\ Outcome(s, "done") \/ Outcome(s, "raised")
  /\ UNCHANGED vars

Thread(s) ==
  /\ RunAcquire(s) \/ RunFinish(s) \/ RunExecution(s)
  /\ UNCHANGED <<lanes, round, req, expired, cancelling, swallowed, leases,
                 freeSlots, uploads>>

-------------------------------------------------------------------------------
(* The round thread, and reconcile on the loop *)

handlers == <<req, expired, swallowed>>

\* VirtualStrategy.configure_fit calls prepare_round, then the manager is
\* initialised; clients learn their tokens only after both, and never of a
\* round that is refused.
BeginRound(S) ==
  /\ server = "between" /\ ~aborted /\ recon = "off"
  /\ Initialize(S)
  /\ tokens' = [s \in Sids |-> IF s \in S /\ server' = "fitting" THEN rounds + 1 ELSE NoToken]
  /\ uploads' = {}
  /\ aborted' = (server' = "closing")
  /\ UNCHANGED <<handlers, lanes, cancelling, recon, leases, freeSlots, job>>

\* reconcile starts: before collect, and when the service stops (where the
\* RPC server cancels its handlers anyway).
ServiceStops ==
  \/ server = "stopped"
  \/ server = "between" /\ (aborted \/ rounds = MaxRounds)

MutantReconcileBegin ==         \* the tokens stay valid
  /\ (server = "fitting" /\ recon = "off") \/ (ServiceStops /\ recon \in {"off", "done"})
  /\ recon' = "gather"
  /\ cancelling' = {r \in Requests : req[r].at # "idle"}
  /\ UNCHANGED <<vars, handlers, lanes, tokens, aborted, leases, freeSlots, uploads, job>>

ReconcileBegin ==
  /\ (server = "fitting" /\ recon = "off") \/ (ServiceStops /\ recon \in {"off", "done"})
  /\ tokens' = [s \in Sids |-> NoToken]
  /\ cancelling' = {r \in Requests : req[r].at # "idle"}
  /\ recon' = "gather"
  /\ UNCHANGED <<vars, handlers, lanes, aborted, leases, freeSlots, uploads, job>>

\* gather and drain: every handler has ended, and with them the futures.
ReconcileGathered ==
  /\ recon = "gather" /\ \A r \in Requests : req[r].at = "idle"
  /\ recon' = "finish"
  /\ UNCHANGED <<vars, handlers, lanes, tokens, aborted, cancelling, leases, freeSlots,
                 uploads, job>>

\* One abort after the other for the models that are still live ...
ReconcileAbort(s) ==
  /\ recon = "finish" /\ s \in live /\ \A u \in Sids : job[u] = "none"
  /\ freeControl' = freeControl - 1
  /\ job' = [job EXCEPT ![s] = "virtual_abort"]
  /\ UNCHANGED <<vars, handlers, round, cancelling, freeLanes, leases, freeSlots, uploads>>

\* ... an exception of which ends the reconcile, and with it the run.
ReconcileAborted(s) ==
  /\ recon = "finish" /\ job[s] \in {"done", "raised"}
  /\ freeControl' = freeControl + 1
  /\ job' = [job EXCEPT ![s] = "none"]
  /\ IF job[s] = "raised"
       THEN /\ recon' = IF ServiceStops THEN "failed" ELSE "off"
            /\ server' = IF server = "fitting" THEN "closing" ELSE server
            /\ aborted' = TRUE
       ELSE UNCHANGED <<recon, server, aborted>>
  /\ UNCHANGED <<registry, slots, pc, configs, pending, byServer, rounds, handlers,
                 tokens, cancelling, freeLanes, leases, freeSlots, uploads>>

MutantReconcileReset ==         \* stop does not abort what is still live
  /\ recon = "finish" /\ (live = {} \/ ServiceStops) /\ \A s \in Sids : job[s] = "none"
  /\ leases' = {} /\ freeSlots' = Capacity
  /\ recon' = IF ServiceStops THEN "closed" ELSE "done"
  /\ UNCHANGED <<vars, handlers, lanes, tokens, aborted, cancelling, uploads, job>>

\* The leases are forgotten, the locks and the capacity semaphore replaced.
ReconcileReset ==
  /\ recon = "finish" /\ live = {} /\ \A s \in Sids : job[s] = "none"
  /\ leases' = {} /\ freeSlots' = Capacity
  /\ recon' = IF ServiceStops THEN "closed" ELSE "done"
  /\ UNCHANGED <<vars, handlers, lanes, tokens, aborted, cancelling, uploads, job>>

\* before_collect gives up after 300 seconds and raises; reconcile goes on.
GiveUp ==
  /\ Impatient /\ server = "fitting" /\ recon \in {"gather", "finish"}
  /\ server' = "closing" /\ aborted' = TRUE
  /\ UNCHANGED <<registry, slots, pc, configs, pending, byServer, rounds, handlers, lanes,
                 tokens, recon, cancelling, leases, freeSlots, uploads, job>>

Collect ==
  /\ \/ recon = "done" /\ CollectBegin /\ recon' = "off"
     \/ CollectReturn /\ UNCHANGED recon
  /\ UNCHANGED <<handlers, lanes, tokens, aborted, cancelling, leases, freeSlots,
                 uploads, job>>

\* VirtualServer.fit_round's finally.
CloseRound ==
  /\ server = "closing"
  /\ EndRound \/ EndRoundRaises
  /\ UNCHANGED loop

\* The service has stopped and no thread runs.
Stopped ==
  /\ recon \in {"closed", "failed"}
  /\ UNCHANGED svcVars

-------------------------------------------------------------------------------
HandlerStep(r) ==
  \/ Dispatch(r) \/ TakeReplicaSlot(r) \/ SubmitControl(r) \/ SubmitExecution(r)
  \/ Resume(r) \/ Cancelled(r)

RoundStep ==
  \/ \E S \in SUBSET Sids : BeginRound(S)
  \/ ReconcileBegin \/ ReconcileGathered \/ ReconcileReset
  \/ \E s \in Sids : ReconcileAbort(s) \/ ReconcileAborted(s)
  \/ GiveUp \/ Collect \/ CloseRound

SvcNext ==
  \/ \E r \in Requests : \/ \E s \in Sids, k \in Methods : Arrive(r, s, k)
                         \/ HandlerStep(r) \/ Deadline(r)
  \/ \E s \in Sids : Thread(s)
  \/ RoundStep
  \/ Stopped

SvcSpec == SvcInit /\ [][SvcNext]_svcVars

\* The loop runs every task that can run, and asyncio's semaphores are first
\* in, first out; gRPC deadlines expire; the manager's calls return; the round
\* thread gets its client results and goes on.  No fairness for Arrive.
SvcFairness ==
  /\ \A r \in Requests :
       /\ WF_svcVars(Deadline(r))
       /\ WF_svcVars(HandlerStep(r))
       /\ SF_svcVars(SubmitControl(r))
  /\ \A s \in Sids : WF_svcVars(Thread(s))
  /\ WF_svcVars(RoundStep)

SvcFairSpec == SvcSpec /\ SvcFairness

-------------------------------------------------------------------------------
(* Properties *)

SvcTypeOK ==
  /\ tokens \in [Sids -> 0..MaxRounds]
  /\ req \in [Requests -> {NoHandler} \cup
                [at : Awaits, sid : Sids, kind : Kinds, token : 1..MaxRounds]]
  /\ expired \subseteq Requests /\ cancelling \subseteq Requests
  /\ swallowed \subseteq Requests
  /\ \A r \in Requests : req[r].at = "idle" => r \notin expired \cup cancelling \cup swallowed
  /\ leases \subseteq Sids /\ uploads \subseteq Sids
  /\ freeSlots \in 0..Capacity /\ freeControl \in 0..Capacity /\ freeLanes \in 0..Lanes
  /\ job \in [Sids -> Jobs]
  /\ recon \in ReconStates /\ aborted \in BOOLEAN

Waiting(s, await) == \E r \in Requests : req[r].at = await /\ req[r].sid = s

\* The leases whose handler got past the capacity semaphore.
SlotOwners == {s \in leases : ~Waiting(s, "slot")}

\* No path through an acquire (deadline while queued, a failed build, a
\* cleanup that is cancelled itself) loses a replica slot or returns it twice,
\* and a model that exists is covered by a slot.
SlotsConserved ==
  /\ freeSlots + Cardinality(SlotOwners) = Capacity
  /\ server = "fitting" => preparing \cup live \cup finishing \subseteq SlotOwners

\* The loop's semaphore and the manager's own count agree: an acquire that
\* reached an executor thread is admitted.
AdmissionNeverRefused ==
  \A s \in Sids : job[s] = "virtual_acquire" /\ pc[s] = "out" => Admissible(s)

\* The bookkeeping of the capacity, which the loop's semaphore, the servicer's
\* leases and the manager's registry keep in three places.
CapacityAgreed == SvcTypeOK /\ SlotsConserved /\ AdmissionNeverRefused

\* A replica that is executing is live: not evicted between forward and
\* backward, whatever is cancelled meanwhile.
ExecutionOnLiveReplica ==
  \A s \in Sids : job[s] = "train_tail" => s \in live

\* Deadlines and reconciliation never free a running execution: as long as a
\* thread works for a replica, its handler (or reconcile) holds the lock and
\* the slot of the pool.
ExecutionOwned ==
  \A s \in Sids : job[s] # "none" =>
     recon = "finish" \/ Waiting(s, "run") \/ Waiting(s, "cleaning")

\* When results are collected nothing is left that could still change them:
\* no handler, no lease, no lifecycle operation (collect cannot raise).
ReconciledBeforeCollect ==
  server = "collecting" =>
     /\ \A r \in Requests : req[r].at = "idle"
     /\ preparing \cup live \cup finishing \cup leases = {}

\* No suffix model or slot survives the shutdown of the service.
NothingSurvives ==
  recon = "closed" => live = {} /\ preparing = {} /\ finishing = {} /\ leases = {}

\* Every request is answered, even one queued behind a replica or a capacity
\* that is not coming back in this round; and reconcile never waits for ever on
\* what it cancels, so the run comes to its end.
ServiceEnds ==
  /\ \A r \in Requests : req[r].at # "idle" ~> req[r].at = "idle"
  /\ <>(recon \in {"closed", "failed"})
===============================================================================
