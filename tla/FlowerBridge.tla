----------------------------- MODULE FlowerBridge ------------------------------
(***************************************************************************)
(* One connected client: AsyncGrpcBridge between the thread that calls a   *)
(* blocking GrpcClientProxy and the Join coroutine that talks to the       *)
(* client.  Each section under the bridge's condition variable is one      *)
(* action; the coroutine leaves the event loop only at awaits, and the     *)
(* event is set by a callback that call_soon_threadsafe queues there.  The *)
(* parent class GrpcBridge and the client manager are Flower's.            *)
(***************************************************************************)
EXTENDS Naturals

CONSTANTS
  MaxRequests,   \* bound: instructions sent to the client
  Timeouts       \* TRUE iff instructions have a timeout

ASSUME BridgeAssumption == MaxRequests \in Nat /\ Timeouts \in BOOLEAN

VARIABLES
  thread,        \* where the caller of the proxy is
  asked,         \* instructions it has sent, numbered 1, 2, ...
  outcome,       \* outcome[n]: what its request n returned
  status,        \* _status
  ins, res,      \* _ins_wrapper and _res_wrapper: instruction numbers
  bound,         \* TRUE iff _loop is set
  flag,          \* _instruction_available
  wakeups,       \* calls of flag.set queued on the loop
  join,          \* where the Join coroutine is
  inbox,         \* the instruction on its way to the client
  upstream,      \* the client's answer in request_iterator
  connected,     \* the RPC is not yet done
  registered     \* the proxy is known to the client manager

caller == <<thread, asked, outcome>>
bridge == <<status, ins, res>>
loop   == <<bound, flag, wakeups>>
peer   == <<inbox, upstream, connected>>
bridgeVars == <<caller, bridge, loop, join, peer, registered>>

Requests == 1..MaxRequests
None == 0          \* no instruction
Failed == MaxRequests + 1      \* GrpcBridgeClosed was raised

Statuses == {"awaiting_ins", "ins_available", "awaiting_res", "res_available", "closed"}
Joins == {"new", "registered",
          "turn",      \* about to look at the bridge
          "wait",      \* _instruction_available.wait()
          "answer",    \* the client's next message
          "ended"}

BridgeInit ==
  /\ thread = "idle" /\ asked = 0 /\ outcome = [n \in Requests |-> None]
  /\ status = "awaiting_ins" /\ ins = None /\ res = None
  /\ bound = FALSE /\ flag = FALSE /\ wakeups = 0
  /\ join = "new" /\ registered = FALSE
  /\ inbox = None /\ upstream = None /\ connected = TRUE

MutantWakes(next) ==           \* only the end of the bridge wakes the consumer
  wakeups' = IF bound /\ next = "closed" THEN wakeups + 1 ELSE wakeups

\* The additions of AsyncGrpcBridge to a transition.
Wakes(next) ==
  wakeups' = IF bound /\ next \in {"ins_available", "closed"} THEN wakeups + 1 ELSE wakeups

Transition(next) == status' = next /\ Wakes(next)

-------------------------------------------------------------------------------
(* The caller of the proxy: GrpcBridge.request *)

Request ==
  /\ thread = "idle" /\ asked < MaxRequests /\ join # "new"
  /\ asked' = asked + 1
  /\ \/ /\ status = "closed"
        /\ outcome' = [outcome EXCEPT ![asked'] = Failed]
        /\ UNCHANGED <<thread, status, ins, wakeups>>
     \/ /\ status = "awaiting_ins"
        /\ ins' = asked' /\ Transition("ins_available")
        /\ thread' = "waiting"
        /\ UNCHANGED outcome
  /\ UNCHANGED <<res, bound, flag, join, peer, registered>>

MutantReturn ==                \* the answer is not taken out of the bridge
  /\ thread = "waiting" /\ status \in {"closed", "res_available"}
  /\ thread' = "idle"
  /\ outcome' = [outcome EXCEPT ![asked] = IF status = "closed" THEN Failed ELSE res]
  /\ UNCHANGED <<asked, status, ins, res, loop, join, peer, registered>>

\* An answer the bridge was closed upon is lost.
Return ==
  /\ thread = "waiting"
  /\ thread' = "idle"
  /\ \/ /\ status = "closed"
        /\ outcome' = [outcome EXCEPT ![asked] = Failed]
        /\ UNCHANGED <<status, res, wakeups>>
     \/ /\ status = "res_available"
        /\ outcome' = [outcome EXCEPT ![asked] = res]
        /\ res' = None /\ Transition("awaiting_ins")
  /\ UNCHANGED <<asked, ins, bound, flag, join, peer, registered>>

-------------------------------------------------------------------------------
(* The event loop *)

CloseBridge == Transition("closed") /\ registered' = FALSE

\* Join ends, whatever the reason.
Ends == join' = "ended" /\ CloseBridge

Register ==
  /\ join = "new" /\ join' = "registered" /\ registered' = TRUE
  /\ UNCHANGED <<caller, bridge, loop, peer>>

\* The iterator starts: the bridge learns of the loop.
Bind ==
  /\ join = "registered" /\ join' = "turn" /\ bound' = TRUE
  /\ UNCHANGED <<caller, bridge, flag, wakeups, peer, registered>>

\* One turn of ins_wrapper_async_iterator: an available instruction is taken
\* and yielded, else the coroutine waits for the event it has just cleared.
Turn ==
  /\ join = "turn" /\ status # "closed"
  /\ flag' = FALSE
  /\ IF status = "ins_available"
       THEN /\ inbox' = ins /\ ins' = None /\ Transition("awaiting_res")
            /\ join' = "answer"
       ELSE join' = "wait" /\ UNCHANGED <<status, ins, wakeups, inbox>>
  /\ UNCHANGED <<caller, res, bound, upstream, connected, registered>>

TurnClosed ==
  /\ join = "turn" /\ status = "closed" /\ Ends
  /\ UNCHANGED <<caller, ins, res, bound, flag, peer>>

\* The callback that call_soon_threadsafe queued.
Wakeup ==
  /\ wakeups > 0 /\ wakeups' = wakeups - 1 /\ flag' = TRUE
  /\ UNCHANGED <<caller, bridge, bound, join, peer, registered>>

Woken ==
  /\ join = "wait" /\ flag /\ join' = "turn"
  /\ UNCHANGED <<caller, bridge, loop, peer, registered>>

\* set_res_wrapper, unless the bridge was closed.
Answer ==
  /\ join = "answer" /\ upstream # None
  /\ upstream' = None
  /\ \/ status = "closed" /\ Ends /\ UNCHANGED res
     \/ /\ status = "awaiting_res"
        /\ res' = upstream /\ Transition("res_available")
        /\ join' = "turn" /\ UNCHANGED registered
  /\ UNCHANGED <<caller, ins, bound, flag, inbox, connected>>

MutantExpire ==                \* the request fails, the connection goes on
  /\ Timeouts /\ join = "answer" /\ status = "awaiting_res"
  /\ res' = None /\ Transition("res_available") /\ join' = "turn"
  /\ UNCHANGED <<caller, ins, bound, flag, peer, registered>>

\* The instruction's timeout ends the RPC.
Expire ==
  /\ Timeouts /\ join = "answer" /\ Ends /\ connected' = FALSE
  /\ UNCHANGED <<caller, ins, res, bound, flag, inbox, upstream>>

\* The RPC is done: Join is cancelled, or its request_iterator stops ...
Cancelled ==
  /\ ~connected /\ join \in {"wait", "answer"} /\ Ends
  /\ UNCHANGED <<caller, ins, res, bound, flag, peer>>

\* ... and, before or after that, the done callback runs.
DoneCallback ==
  /\ ~connected /\ registered /\ CloseBridge
  /\ UNCHANGED <<caller, ins, res, bound, flag, join, peer>>

-------------------------------------------------------------------------------
(* The client *)

\* It carries out an instruction; its answer arrives if it is still connected.
Reply ==
  /\ inbox # None /\ inbox' = None
  /\ upstream' = IF connected THEN inbox ELSE upstream
  /\ UNCHANGED <<caller, bridge, loop, join, connected, registered>>

Disconnect ==
  /\ connected /\ connected' = FALSE
  /\ UNCHANGED <<caller, bridge, loop, join, inbox, upstream, registered>>

\* The last request has returned, and the connection is gone or idle.
Quiet ==
  /\ asked = MaxRequests /\ thread = "idle" /\ join \in {"wait", "ended"}
  /\ UNCHANGED bridgeVars

Caller == Request \/ Return

Loop ==
  \/ Register \/ Bind \/ Turn \/ TurnClosed \/ Wakeup \/ Woken \/ Answer \/ Cancelled
  \/ DoneCallback

BridgeNext == Caller \/ Loop \/ Expire \/ Reply \/ Disconnect \/ Quiet

BridgeSpec == BridgeInit /\ [][BridgeNext]_bridgeVars

\* Threads and the loop run what can run; a client answers what it received or
\* its connection ends (the channel's keepalive sees a dead one).
BridgeFairSpec ==
  /\ BridgeSpec
  /\ WF_bridgeVars(Return) /\ WF_bridgeVars(Wakeup) /\ WF_bridgeVars(DoneCallback) /\ WF_bridgeVars(Reply)
  /\ WF_bridgeVars(Register \/ Bind \/ Turn \/ TurnClosed \/ Woken \/ Answer \/ Cancelled)

-------------------------------------------------------------------------------
(* Properties *)

\* The two threads and the status agree, so no section of the bridge meets a
\* status it calls impossible ("This should not happen", invalid transition).
Handshake ==
  /\ thread = "idle" => status \in {"awaiting_ins", "closed"}
  /\ thread = "waiting" => status # "awaiting_ins"
  /\ join = "answer" => status \in {"awaiting_res", "closed"}
  /\ status = "awaiting_res" => join = "answer"

\* What is between the caller and the client belongs to the caller's current
\* instruction, as long as the bridge is open.
InTransit ==
  status # "closed" =>
     /\ status = "ins_available" => ins = asked
     /\ status = "res_available" => res = asked
     /\ inbox # None => inbox = asked /\ upstream = None
     /\ upstream # None => upstream = asked
     /\ inbox # None \/ upstream # None => status = "awaiting_res"

\* A request returns the answer to its own instruction or fails: an answer that
\* comes after a timeout or a disconnect is never taken for a later one.
OwnAnswer == \A n \in Requests : outcome[n] \in {None, n, Failed}

\* No instruction is put into the bridge without the sleeping consumer being told,
\* and no waiting caller survives the connection: every request returns.  The end
\* of a connection is noticed at whatever await Join is: the proxy can no longer
\* be sampled, and no caller can block on it.
RequestsReturn ==
  /\ \A n \in Requests : asked = n ~> outcome[n] # None
  /\ ~connected ~> ~registered /\ status = "closed"
===============================================================================
