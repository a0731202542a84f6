----------------------------- MODULE RequestGroups -----------------------------
(***************************************************************************)
(* ServerModelServicer and PlainSlStrategy: the clients of one round each  *)
(* send their batches, one at a time, to the server; a batch joins the     *)
(* request group of its server model, the first member leads the group,    *)
(* waits until the strategy marks it ready, runs it and answers everybody. *)
(* The handlers are tasks of one event loop: between two awaits they are   *)
(* not interrupted, and every such stretch is one action.  A group is      *)
(* named by its leader, who has no other request meanwhile.                *)
(***************************************************************************)
EXTENDS Naturals, FiniteSets

CONSTANTS
  Clients,     \* the clients selected for the round
  MaxLanes,    \* bound: execution lanes of the server
  MaxBatches   \* bound: batches of a client in the round

ASSUME GroupAssumption ==
  IsFiniteSet(Clients) /\ MaxLanes \in Nat /\ MaxBatches \in Nat

\* What a server can be started with: common_server_model (one model, else one
\* for each client), process_clients_as_batch, and execution_concurrency, 0
\* when there is no executor; and _streams_, how its clients call it: one
\* StreamRequest for the round, or, as the AutoSplit clients do, a UnaryRequest
\* for each batch.
Configs ==
  [common : BOOLEAN, batch : BOOLEAN, lanes : 0..MaxLanes, stream : BOOLEAN]

VARIABLES
  config,      \* how this server was started
  quota,       \* quota[c]: the batches client c will stream
  sent,        \* sent[c]: the batches it has streamed
  active,      \* _round_active_clients
  at,          \* at[c]: the await c, or the handler of its request, is in
  open,        \* requests_state: leaders of the groups not yet popped
  members,     \* members[l]: the clients whose requests group l holds
  ready,       \* groups whose _is_ready event is set
  answer,      \* answer[c]: what the event of c's request was set to
  cancelled,   \* handlers cancelled while their shielded execution runs
  freeLanes    \* _execution_slots

client == <<quota, sent>>
groups == <<open, members, ready>>
vars   == <<config, client, active, at, groups, answer, cancelled, freeLanes>>

Awaits == {"request",    \* the next request of the stream
           "group",      \* its group's _is_ready (a leader)
           "slot",       \* an execution slot (a leader)
           "execution",  \* the shielded executor future (a leader)
           "event",      \* the event of its request
           "closed",     \* the client had no more batches
           "failed"}     \* the handler was cancelled or raised
Answers == {"none", "result", "error"}

Init ==
  /\ config \in Configs
  /\ quota \in [Clients -> 0..MaxBatches]
  /\ sent = [c \in Clients |-> 0]
  /\ active = Clients
  /\ at = [c \in Clients |-> "request"]
  /\ open = {} /\ ready = {}
  /\ members = [c \in Clients |-> {}]
  /\ answer = [c \in Clients |-> "none"]
  /\ cancelled = {}
  /\ freeLanes = config.lanes

-------------------------------------------------------------------------------
(* The strategy *)

\* _cid_to_sid_mapping: do the requests of c and d go to the same model?
SameModel(c, d) == config.common \/ c = d

MutantJoinable(c) ==      \* ready groups are still joined
  {l \in open : SameModel(l, c)}

\* route_client_request: the groups a request of c can still join.
Joinable(c) == {l \in open : SameModel(l, c) /\ l \notin ready}

MutantComplete(l, batches, clients) ==     \* one batch may be missing
  ~config.batch \/ Cardinality(batches[l]) + 1 >= Cardinality(clients)

\* mark_ready_requests, for one group.
Complete(l, batches, clients) ==
  ~config.batch \/ Cardinality(batches[l]) = Cardinality(clients)

-------------------------------------------------------------------------------
(* Handlers *)

\* _compute_response up to its first await: route, add, mark_ready_requests.
Send(c) ==
  /\ at[c] = "request" /\ sent[c] < quota[c]
  /\ sent' = [sent EXCEPT ![c] = @ + 1]
  /\ answer' = [answer EXCEPT ![c] = "none"]
  /\ \/ /\ Joinable(c) = {}
        /\ open' = open \cup {c}
        /\ members' = [members EXCEPT ![c] = {c}]
        /\ at' = [at EXCEPT ![c] = "group"]
     \/ \E l \in Joinable(c) :
          /\ members' = [members EXCEPT ![l] = @ \cup {c}]
          /\ at' = [at EXCEPT ![c] = "event"]
          /\ UNCHANGED open
  /\ ready' = ready \cup {l \in open' : Complete(l, members', active)}
  /\ UNCHANGED <<quota, active, cancelled, freeLanes>>

MutantAnswered(l, result) ==   \* an error goes to the leader's own event only
  /\ answer' = [c \in Clients |-> IF c \in members[l] /\ c # l /\ result = "result"
                                  THEN result ELSE answer[c]]
  /\ open' = open \ {l} /\ ready' = ready \ {l}
  /\ members' = [members EXCEPT ![l] = {}]

\* The group of leader l is over: every event is set, and the group popped.
Answered(l, result) ==
  /\ answer' = [c \in Clients |-> IF c \in members[l] /\ c # l THEN result ELSE answer[c]]
  /\ open' = open \ {l} /\ ready' = ready \ {l}
  /\ members' = [members EXCEPT ![l] = {}]

\* The leader's part after its await: an exception, its own cancellation
\* included, is the answer of all members; the callback runs in any case.
Leads(l, result) ==
  /\ Answered(l, result)
  /\ at' = [at EXCEPT ![l] = IF result = "result" THEN "request" ELSE "failed"]

\* No executor: the model's method runs on the loop, and returns or raises.
RunInline(l) ==
  /\ at[l] = "group" /\ l \in ready /\ config.lanes = 0
  /\ \E result \in {"result", "error"} : Leads(l, result)
  /\ UNCHANGED <<client, active, cancelled, freeLanes>>

AwaitSlot(l) ==
  /\ at[l] = "group" /\ l \in ready /\ config.lanes > 0
  /\ at' = [at EXCEPT ![l] = "slot"]
  /\ UNCHANGED <<client, active, groups, answer, cancelled, freeLanes>>

Submit(l) ==
  /\ at[l] = "slot" /\ freeLanes > 0
  /\ freeLanes' = freeLanes - 1
  /\ at' = [at EXCEPT ![l] = "execution"]
  /\ UNCHANGED <<client, active, groups, answer, cancelled>>

\* The future is done; a leader cancelled meanwhile raises although the model
\* has processed the batches.
Executed(l) ==
  /\ at[l] = "execution"
  /\ freeLanes' = freeLanes + 1
  /\ cancelled' = cancelled \ {l}
  /\ \/ l \notin cancelled /\ Leads(l, "result")
     \/ Leads(l, "error")
  /\ UNCHANGED <<client, active>>

\* A member wakes up: it answers its client, or raises the group's error.
Wake(c) ==
  /\ at[c] = "event" /\ answer[c] # "none"
  /\ at' = [at EXCEPT ![c] = IF answer[c] = "result" THEN "request" ELSE "failed"]
  /\ UNCHANGED <<client, active, groups, answer, cancelled, freeLanes>>

MutantClose(c) ==              \* the groups are not looked at again
  /\ at[c] = "request" /\ sent[c] = quota[c]
  /\ at' = [at EXCEPT ![c] = "closed"]
  /\ active' = IF config.stream THEN active \ {c} ELSE active
  /\ UNCHANGED <<client, open, members, ready, answer, cancelled, freeLanes>>

\* The client has no more batches.  A stream is closed by DO_CLOSE_STREAM, which
\* calls mark_client_as_done; the server hears nothing of a client that made
\* unary requests, and counts it among the active ones for ever.
Close(c) ==
  /\ at[c] = "request" /\ sent[c] = quota[c]
  /\ at' = [at EXCEPT ![c] = "closed"]
  /\ \/ /\ config.stream
        /\ active' = active \ {c}
        /\ ready' = ready \cup {l \in open : Complete(l, members, active')}
     \/ ~config.stream /\ UNCHANGED <<active, ready>>
  /\ UNCHANGED <<client, open, members, answer, cancelled, freeLanes>>

\* The RPC of c is cancelled.  A client that did not close its stream stays
\* among the active ones, and what it added stays in its group.
Cancel(c) ==
  /\ at[c] \notin {"closed", "failed"} /\ c \notin cancelled
  /\ \/ /\ at[c] \in {"request", "event"}
        /\ at' = [at EXCEPT ![c] = "failed"]
        /\ UNCHANGED <<groups, answer, cancelled>>
     \/ /\ at[c] \in {"group", "slot"}
        /\ Leads(c, "error")
        /\ UNCHANGED cancelled
     \/ /\ at[c] = "execution"
        /\ cancelled' = cancelled \cup {c}
        /\ UNCHANGED <<at, groups, answer>>
  /\ UNCHANGED <<client, active, freeLanes>>

\* All streams have ended.
RoundOver ==
  /\ \A c \in Clients : at[c] \in {"closed", "failed"}
  /\ UNCHANGED vars

Handler(c) ==
  /\ \/ Send(c) \/ RunInline(c) \/ AwaitSlot(c) \/ Submit(c) \/ Executed(c)
     \/ Wake(c) \/ Close(c)
  /\ UNCHANGED config

Next ==
  \/ \E c \in Clients : Handler(c) \/ (Cancel(c) /\ UNCHANGED config)
  \/ RoundOver

Spec == Init /\ [][Next]_vars

\* The loop runs what can run, clients go on until their batches are sent,
\* executions return or raise.  Nothing forces a cancellation.
FairSpec == Spec /\ \A c \in Clients : WF_vars(Handler(c)) /\ SF_vars(Submit(c) /\ UNCHANGED config)

-------------------------------------------------------------------------------
(* Properties *)

TypeOK ==
  /\ config \in Configs
  /\ quota \in [Clients -> 0..MaxBatches] /\ sent \in [Clients -> 0..MaxBatches]
  /\ active \subseteq Clients
  /\ at \in [Clients -> Awaits]
  /\ open \subseteq Clients /\ members \in [Clients -> SUBSET Clients]
  /\ ready \subseteq open
  /\ answer \in [Clients -> Answers]
  /\ cancelled \subseteq {c \in Clients : at[c] = "execution"}
  /\ freeLanes \in 0..config.lanes

\* Every member that waits will be told: it has its answer, or it is in just
\* one group, and that group's leader still runs.  (The leader's handler can be
\* cancelled in three awaits, and its error must reach every event.)
WaitersLed ==
  \A c \in Clients : at[c] = "event" /\ answer[c] = "none" =>
     \E l \in open : /\ \A k \in open : c \in members[k] <=> k = l
                     /\ at[l] \in {"group", "slot", "execution"}

\* A group nobody leads is never left in requests_state, where the next
\* request would join it as a member and wait for ever.
OpenGroupsLed ==
  \A l \in open : l \in members[l] /\ at[l] \in {"group", "slot", "execution"}

\* Nobody is forgotten, among those who wait and those who will join them.
NobodyForgotten == TypeOK /\ WaitersLed /\ OpenGroupsLed

\* What _compute_group reads outside the lock is what was there when the
\* group became ready: a request never joins a group that may be running.
ReadyGroupsFrozen == [][\A l \in ready : l \in ready' => members'[l] = members[l]]_vars

\* The barrier of process_clients_as_batch on a common model: a ready group
\* has a request of every client that goes on, all with the same batch index.
LockStep ==
  config.batch /\ config.common => \A l \in ready :
     /\ {c \in Clients : at[c] \notin {"closed", "failed"}} \subseteq members[l]
     /\ \A c \in members[l] : sent[c] = sent[l]

\* Can the barrier of process_clients_as_batch open for every batch?  With a
\* model for each client a group has one member at most and waits for as many
\* as there are clients; and only a stream tells the server that a client with
\* fewer batches than the others is done.
BarrierCanOpen ==
  config.common /\ (config.stream \/ \A c, d \in Clients : quota[c] = quota[d])

\* Every client comes to its end, whatever the numbers of batches.  The barrier
\* needs everybody for this: it also stays shut when a client failed or was
\* cancelled, for mark_client_as_done runs only on the normal end of a stream.
StreamsEnd ==
  \A c \in Clients :
     \/ <>(at[c] \in {"closed", "failed"})
     \/ config.batch /\ (BarrierCanOpen => <>(\E d \in Clients : at[d] = "failed"))
===============================================================================
