----------------------------- MODULE PhysicalRun -----------------------------
(***************************************************************************)
(* The comparison on physical hosts (orchestrate_physical_multitask.py and *)
(* physical_multitask.py): a coordinator launches a server and one client  *)
(* process per worker over ssh, watches them, collects the result,         *)
(* validates it and only then goes on to the next run of the matrix.  A    *)
(* barrier thread of the coordinator releases the workers of a round once  *)
(* all of them have reached it.  Processes die, connections break and      *)
(* waits run out at any moment.                                            *)
(*                                                                         *)
(* A run is synchronous: the server sends a round to all workers and waits *)
(* for each to answer or to fail.  With a time budget it stops at the      *)
(* first round that ends too late and takes that round back.               *)
(***************************************************************************)
EXTENDS Naturals, FiniteSets

CONSTANTS
  Workers,    \* physical_workers(hosts)
  Rounds,     \* the rounds of a run; bound on the rounds of a timed run
  Attempts,   \* runs in the matrix
  MaxFaults   \* bound: deaths of a process and broken connections in a run

ASSUME PhysicalAssumption ==
  /\ IsFiniteSet(Workers) /\ Workers # {}
  /\ Rounds \in Nat \ {0} /\ Attempts \in Nat \ {0} /\ MaxFaults \in Nat

VARIABLES
  timed,     \* time_budget_sec is not None
  split,     \* a split client: reconnect_after_instruction is False
  attempt, coord, \* run_matrix and _run_one
  server, round, pending, \* the server process, its round, fits not answered
  fits,      \* fit_records: <<round, worker>>
  failures,  \* fit_failures is not empty
  commits,   \* rounds whose aggregate is the global model
  worker, at, \* each client process, and the round it is in
  linked,    \* its stream to the server has not broken since its instruction
  socket,    \* its connection to the barrier
  arrived,   \* history: <<round, worker>> announced to the barrier
  gate, gateRound, toRelease, records, error, \* the barrier thread
  faults

matrix == <<timed, split, attempt, coord>>
serverVars == <<server, round, pending, fits, failures, commits>>
workerVars == <<worker, at, linked, socket, arrived>>
barrierVars == <<gate, gateRound, toRelease, records, error>>
vars == <<matrix, serverVars, workerVars, barrierVars, faults>>

Exited == {"exit0", "exit1"}
InFit == {"fit", "connected", "waiting", "training"}
Alive(w) == worker[w] \notin Exited \union {"off"}
ServerUp == server \in {"booting", "ready", "collecting"}
Held == {w \in Workers : socket[w] = "held"}

Fresh(value) == [w \in Workers |-> value]

Init ==
  /\ timed \in BOOLEAN /\ split \in BOOLEAN /\ attempt = 1 /\ coord = "start"
  /\ server = "off" /\ round = 0 /\ pending = {} /\ fits = {} /\ failures = FALSE /\ commits = 0
  /\ worker = Fresh("off") /\ at = Fresh(0) /\ linked = Fresh(TRUE)
  /\ socket = Fresh("none") /\ arrived = {}
  /\ gate = "off" /\ gateRound = 1 /\ toRelease = {} /\ records = {} /\ error = FALSE
  /\ faults = 0

-------------------------------------------------------------------------------
(* The barrier thread *)

\* _serve leaves its loop with an error: every connection it holds is closed.
GateFails(closed) ==
  /\ gate' = "ended" /\ error' = TRUE
  /\ socket' = [w \in Workers |-> IF w \in closed THEN "eof" ELSE socket[w]]

\* As Accept, taking the end of the stream for the end of the message.
MutantAccept(w) ==
  /\ gate = "accept" /\ socket[w] \in {"queued", "cut"}
  /\ \/ /\ at[w] = gateRound
        /\ socket' = [socket EXCEPT ![w] = "held"]
        /\ IF Held \union {w} = Workers THEN gate' = "release" /\ toRelease' = Workers
                                        ELSE UNCHANGED <<gate, toRelease>>
        /\ UNCHANGED error
     \/ /\ at[w] # gateRound
        /\ GateFails(Held \union {w}) /\ UNCHANGED toRelease
  /\ UNCHANGED <<matrix, serverVars, worker, at, linked, arrived, gateRound, records, faults>>

\* A worker is let in when its message is whole and it names this round.
Accept(w) ==
  /\ gate = "accept" /\ socket[w] \in {"queued", "cut"}
  /\ \/ /\ socket[w] = "queued" /\ at[w] = gateRound
        /\ socket' = [socket EXCEPT ![w] = "held"]
        /\ IF Held \union {w} = Workers THEN gate' = "release" /\ toRelease' = Workers
                                        ELSE UNCHANGED <<gate, toRelease>>
        /\ UNCHANGED error
     \/ /\ socket[w] = "cut" \/ at[w] # gateRound
        /\ GateFails(Held \union {w}) /\ UNCHANGED toRelease
  /\ UNCHANGED <<matrix, serverVars, worker, at, linked, arrived, gateRound, records, faults>>

\* sendall and close, worker by worker; to a dead peer it may fail.
Release(w) ==
  /\ gate = "release" /\ w \in toRelease
  /\ \/ /\ socket' = [socket EXCEPT ![w] = "go"] /\ toRelease' = toRelease \ {w}
        /\ UNCHANGED <<gate, error>>
     \/ /\ ~Alive(w) /\ GateFails(toRelease) /\ UNCHANGED toRelease
  /\ UNCHANGED <<matrix, serverVars, worker, at, linked, arrived, gateRound, records, faults>>

\* The receipt of the round; the last one ends the thread, a timed run has none.
Receipt ==
  /\ gate = "release" /\ toRelease = {}
  /\ records' = records \union {gateRound}
  /\ IF (gateRound = Rounds /\ ~timed) \/ coord = "failed" THEN gate' = "ended" /\ UNCHANGED gateRound
                                     ELSE gate' = "accept" /\ gateRound' = gateRound + 1
  /\ UNCHANGED <<matrix, serverVars, workerVars, toRelease, error, faults>>

-------------------------------------------------------------------------------
(* The client processes *)

\* The process comes up and connects, once the server listens.
Join(w) ==
  /\ worker[w] = "boot" /\ server \in {"ready", "collecting"}
  /\ worker' = [worker EXCEPT ![w] = "idle"]
  /\ UNCHANGED <<matrix, serverVars, at, linked, socket, arrived, barrierVars, faults>>

\* _wait_for_round_release: connect; the listener takes it until it is closed.
Connect(w) ==
  /\ worker[w] = "fit" /\ coord # "failed"
  /\ worker' = [worker EXCEPT ![w] = "connected"]
  /\ UNCHANGED <<matrix, serverVars, at, linked, socket, arrived, barrierVars, faults>>

Announce(w) ==
  /\ worker[w] = "connected"
  /\ worker' = [worker EXCEPT ![w] = "waiting"]
  /\ socket' = [socket EXCEPT ![w] = IF coord = "failed" THEN "eof" ELSE "queued"]
  /\ arrived' = arrived \union {<<at[w], w>>}
  /\ UNCHANGED <<matrix, serverVars, at, linked, barrierVars, faults>>

Enter(w) ==
  /\ worker[w] = "waiting" /\ socket[w] = "go"
  /\ worker' = [worker EXCEPT ![w] = "training"]
  /\ socket' = [socket EXCEPT ![w] = "none"]
  /\ UNCHANGED <<matrix, serverVars, at, linked, arrived, barrierVars, faults>>

\* The reply reaches the server unless the stream broke meanwhile; then a split
\* client gives up and a native one connects again for the next instruction.
Reply(w) ==
  /\ worker[w] = "training"
  /\ IF linked[w]
     THEN /\ worker' = [worker EXCEPT ![w] = "idle"]
          /\ pending' = pending \ {w} /\ fits' = fits \union {<<at[w], w>>}
     ELSE /\ worker' = [worker EXCEPT ![w] = IF split \/ ~ServerUp THEN "exit1" ELSE "idle"]
          /\ UNCHANGED <<pending, fits>>
  /\ UNCHANGED <<matrix, server, round, failures, commits, at, linked, socket, arrived, barrierVars, faults>>

\* The process ends: released by no one, after 300 s, or sent home by the server.
Leave(w) ==
  /\ \/ /\ worker[w] = "waiting" /\ socket[w] \in {"eof", "queued", "held"}
        /\ worker' = [worker EXCEPT ![w] = "exit1"]
     \/ /\ worker[w] = "fit" /\ coord = "failed"
        /\ worker' = [worker EXCEPT ![w] = "exit1"]
     \/ /\ worker[w] \in {"boot", "idle"} /\ server \in Exited
        /\ worker' = [worker EXCEPT ![w] = IF worker[w] = "idle" THEN server ELSE "exit1"]
  /\ pending' = pending \ {w} /\ failures' = (failures \/ w \in pending)
  /\ UNCHANGED <<matrix, server, round, fits, commits, at, linked, socket, arrived, barrierVars, faults>>

\* Its stream breaks: the server counts a failure.  A split client that has had
\* an instruction does not come back, one in a fit finds out at its reply.
Break(w) ==
  /\ faults < MaxFaults /\ faults' = faults + 1
  /\ worker[w] \in InFit \union {"idle"} /\ linked[w] /\ ServerUp
  /\ IF worker[w] = "idle"
     THEN /\ worker' = [worker EXCEPT ![w] = IF split /\ at[w] > 0 THEN "exit1" ELSE "idle"]
          /\ UNCHANGED linked
     ELSE linked' = [linked EXCEPT ![w] = FALSE] /\ UNCHANGED worker
  /\ pending' = pending \ {w} /\ failures' = (failures \/ w \in pending)
  /\ UNCHANGED <<matrix, server, round, fits, commits, at, socket, arrived, barrierVars>>

\* It dies, perhaps between connecting to the barrier and its message.
Die(w) ==
  /\ faults < MaxFaults /\ faults' = faults + 1 /\ Alive(w)
  /\ socket' = [socket EXCEPT ![w] = IF worker[w] = "connected" THEN "cut" ELSE @]
  /\ worker' = [worker EXCEPT ![w] = "exit1"]
  /\ pending' = pending \ {w} /\ failures' = (failures \/ w \in pending)
  /\ UNCHANGED <<matrix, server, round, fits, commits, at, linked, arrived, barrierVars>>

-------------------------------------------------------------------------------
(* The server process *)

Listen ==
  /\ server = "booting" /\ server' = "ready"
  /\ UNCHANGED <<matrix, round, pending, fits, failures, commits, workerVars, barrierVars, faults>>

\* configure_fit waits for min_available_clients and sends the round to all.
ConfigureFit ==
  /\ server = "ready" /\ round < Rounds /\ \A w \in Workers : worker[w] = "idle"
  /\ server' = "collecting" /\ round' = round + 1 /\ pending' = Workers
  /\ worker' = [w \in Workers |-> "fit"] /\ at' = [w \in Workers |-> round + 1]
  /\ linked' = [w \in Workers |-> TRUE]
  /\ UNCHANGED <<matrix, fits, failures, commits, socket, arrived, barrierVars, faults>>

\* accept_failures is False: a round counts with all its updates or not at all.
Aggregated == \A w \in Workers : <<round, w>> \in fits

\* Every fit answered or failed.  A timed
\* run raises on a failure, and takes the round back when the budget is over.
AggregateFit ==
  /\ server = "collecting" /\ pending = {}
  /\ \/ /\ ~timed /\ server' = IF round = Rounds THEN "exit0" ELSE "ready"
        /\ commits' = IF Aggregated THEN commits + 1 ELSE commits
     \/ /\ timed /\ failures /\ server' = "exit1" /\ UNCHANGED commits
     \/ /\ timed /\ ~failures
        /\ \/ round < Rounds /\ server' = "ready" /\ commits' = commits + 1
           \/ server' = "exit0" /\ commits' \in {commits, commits + 1}
  /\ UNCHANGED <<matrix, round, pending, fits, failures, workerVars, barrierVars, faults>>

ServerDies ==
  /\ faults < MaxFaults /\ faults' = faults + 1
  /\ ServerUp /\ server' = "exit1"
  /\ linked' = [w \in Workers |-> FALSE]
  /\ UNCHANGED <<matrix, round, pending, fits, failures, commits, worker, at, socket, arrived, barrierVars>>

-------------------------------------------------------------------------------
(* The coordinator *)

Launch ==
  /\ coord = "start" /\ coord' = "listening"
  /\ server' = "booting" /\ round' = 0 /\ pending' = {} /\ fits' = {} /\ failures' = FALSE
  /\ commits' = 0
  /\ worker' = Fresh("boot") /\ at' = Fresh(0) /\ linked' = Fresh(TRUE)
  /\ socket' = Fresh("none") /\ arrived' = {}
  /\ gate' = "accept" /\ gateRound' = 1 /\ toRelease' = {} /\ records' = {} /\ error' = FALSE
  /\ faults' = 0
  /\ UNCHANGED <<timed, split, attempt>>

\* _wait_listen
Listening ==
  /\ coord = "listening" /\ server \in {"ready", "collecting"} /\ coord' = "watching"
  /\ UNCHANGED <<timed, split, attempt, serverVars, workerVars, barrierVars, faults>>

\* The server has ended well: the workers are waited for.
Reap ==
  /\ coord = "watching" /\ server = "exit0" /\ ~error /\ coord' = "reaping"
  /\ UNCHANGED <<timed, split, attempt, serverVars, workerVars, barrierVars, faults>>

\* As Valid, looking at the answers of the last round alone.
MutantValid ==
  /\ commits > 0 /\ (~timed => round = Rounds)
  /\ \A w \in Workers : <<round, w>> \in fits

\* validate_result, over the rounds the server attempted; a run that leaves the
\* model as it was is not valid either.
Valid ==
  /\ ~failures /\ commits > 0 /\ (~timed => round = Rounds)
  /\ \A r \in 1..round : r \in records /\ \A w \in Workers : <<r, w>> \in fits

\* Every worker has ended well and the report is valid: the next run, or the end.
Complete ==
  /\ coord = "reaping" /\ \A w \in Workers : worker[w] = "exit0"
  /\ Valid
  /\ gate' = "ended"
  /\ IF attempt < Attempts THEN attempt' = attempt + 1 /\ coord' = "start"
                           ELSE coord' = "finished" /\ UNCHANGED attempt
  /\ UNCHANGED <<timed, split, serverVars, workerVars, gateRound, toRelease, records, error, faults>>

\* As Amiss, watching the server alone.
MutantAmiss ==
  \/ coord \in {"listening", "watching"} /\ server = "exit1"
  \/ coord = "listening" /\ server = "exit0"
  \/ coord = "reaping" /\ \E w \in Workers : worker[w] = "exit1"
  \/ coord = "reaping" /\ (\A w \in Workers : worker[w] = "exit0") /\ ~Valid

\* What ends a run, other than a deadline.
Amiss ==
  \/ coord \in {"listening", "watching"} /\ server = "exit1"
  \/ coord = "listening" /\ server = "exit0"
  \/ coord = "watching" /\ (error \/ \E w \in Workers : worker[w] = "exit1")
  \/ coord = "reaping" /\ \E w \in Workers : worker[w] = "exit1"
  \/ coord = "reaping" /\ (\A w \in Workers : worker[w] = "exit0") /\ ~Valid

\* The matrix stops.  The barrier is stopped (a release under way goes on), the
\* server terminated and the clients too, but those an ssh command cannot reach.
GiveUp ==
  /\ coord' = "failed"
  /\ gate' = IF gate = "release" THEN gate ELSE "ended"
  /\ socket' = [w \in Workers |-> IF socket[w] = "go" \/ w \in toRelease THEN socket[w] ELSE "eof"]
  /\ server' = IF ServerUp THEN "exit1" ELSE server
  /\ linked' = Fresh(FALSE)
  /\ \E killed \in SUBSET {w \in Workers : Alive(w)} :
       worker' = [w \in Workers |-> IF w \in killed THEN "exit1" ELSE worker[w]]
  /\ UNCHANGED <<timed, split, attempt, round, pending, fits, failures, commits, at, arrived,
                 gateRound, toRelease, records, error, faults>>

Abort == Amiss /\ GiveUp
\* The port is taken, or a deadline passes: of listening, of the run, of a wait.
Deadline == coord \in {"listening", "watching", "reaping"} /\ GiveUp
PortTaken ==
  /\ coord = "start" /\ coord' = "failed"
  /\ UNCHANGED <<timed, split, attempt, serverVars, workerVars, barrierVars, faults>>

-------------------------------------------------------------------------------

Client(w) == Join(w) \/ Connect(w) \/ Announce(w) \/ Enter(w) \/ Reply(w) \/ Leave(w)
Server == Listen \/ ConfigureFit \/ AggregateFit
Barrier == (\E w \in Workers : Accept(w) \/ Release(w)) \/ Receipt
Coordinator == Launch \/ Listening \/ Reap \/ Complete \/ Abort

Next ==
  \/ \E w \in Workers : Client(w) \/ Break(w) \/ Die(w)
  \/ Server \/ ServerDies \/ Barrier \/ Coordinator \/ Deadline \/ PortTaken

Spec == Init /\ [][Next]_vars

\* Processes and threads get their turns, and a wait for the barrier runs out.
\* The deadlines of the coordinator are not needed.
FairSpec ==
  /\ Spec /\ WF_vars(Server) /\ WF_vars(Barrier) /\ WF_vars(Coordinator)
  /\ \A w \in Workers : WF_vars(Client(w))

-------------------------------------------------------------------------------
(* Properties *)

\* No worker trains in a round before every worker has announced itself for
\* that round: readiness is never carried over, nor claimed by a cut message.
ReleasedTogether ==
  \A w \in Workers : worker[w] = "training" =>
    \A v \in Workers : <<at[w], v>> \in arrived

\* A run counts as completed, and the next one starts, only when each process
\* ended well, nothing is left running that could come back with its identity,
\* and the model is made of rounds every worker took part in.
CompletedWhole ==
  (coord = "finished" \/ (coord = "start" /\ attempt > 1)) =>
    /\ server = "exit0" /\ \A w \in Workers : worker[w] = "exit0"
    /\ commits \in {round, round - 1} /\ commits > 0 /\ (~timed => commits = Rounds)
    /\ ~failures /\ fits = (1..round) \X Workers /\ ~error

\* A run comes to its end without its deadline: whatever dies or breaks, the
\* coordinator learns of it from an exit code or from the barrier.
RunEnds == <>(coord \in {"finished", "failed"})
===============================================================================
