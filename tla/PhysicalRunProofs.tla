--------------------------- MODULE PhysicalRunProofs ----------------------------
(***************************************************************************)
(* That a physical run releases its workers together and counts only when  *)
(* it was whole, for any number of workers, rounds, attempts and faults.   *)
(* RunInv ties four accounts of a round to each other, which different     *)
(* processes keep: what a worker does (Fitting), its connection to the     *)
(* barrier (Barred), the barrier thread (Gated), and the answers and       *)
(* commits of the server (Counted).                                        *)
(***************************************************************************)
EXTENDS PhysicalRun, TLAPS

Processes == {"off", "boot", "idle"} \cup InFit \cup Exited
Servers == {"off", "booting", "ready", "collecting"} \cup Exited
Sockets == {"none", "queued", "held", "go", "eof", "cut"}
Coords == {"start", "listening", "watching", "reaping", "finished", "failed"}

Typed ==
  /\ coord \in Coords /\ attempt \in Nat /\ attempt > 0
  /\ server \in Servers /\ round \in 0..Rounds /\ commits \in Nat
  /\ pending \subseteq Workers /\ fits \subseteq (1..round) \X Workers
  /\ worker \in [Workers -> Processes] /\ at \in [Workers -> Nat]
  /\ linked \in [Workers -> BOOLEAN] /\ socket \in [Workers -> Sockets]
  /\ gate \in {"off", "accept", "release", "ended"} /\ gateRound \in Nat
  /\ toRelease \subseteq Workers

\* A worker in a fit is in the round of the server, which waits for it as long as
\* their stream holds; when it broke, the run knows.
Fitting ==
  /\ \A w \in Workers : worker[w] \in InFit =>
       /\ at[w] = round /\ round > 0
       /\ linked[w] => w \in pending
       /\ linked[w] \/ failures \/ server = "exit1" \/ coord = "failed"
  /\ server \notin {"collecting", "exit1"} => pending = {}

\* A connection at the barrier is of a worker that waits behind it in the round
\* it announced, or has ended, and then the run knows.
Barred ==
  \A w \in Workers :
    /\ socket[w] \in {"queued", "held", "go"} => <<at[w], w>> \in arrived
    /\ socket[w] \in {"queued", "held", "go", "cut"} /\ worker[w] # "waiting" =>
         worker[w] \in Exited /\ (failures \/ server = "exit1" \/ coord = "failed")
    /\ socket[w] = "go" \/ worker[w] = "training" => \A v \in Workers : <<at[w], v>> \in arrived

\* What the barrier thread holds is of its round, and it releases all or nobody.
Gated ==
  /\ gate \in {"accept", "release"} => \A w \in Held : at[w] = gateRound
  /\ gate = "release" => /\ Held = toRelease
                         /\ \A v \in Workers : <<gateRound, v>> \in arrived

\* Rounds the server has finished.
Finished == IF server = "collecting" THEN round - 1 ELSE round
AllFits(n) == \A r \in 1..n : \A w \in Workers : <<r, w>> \in fits

\* The commits are the rounds that were whole; only a timed run may take its last
\* one back.
Counted ==
  /\ server = "collecting" => round > 0
  /\ server \in {"booting", "ready", "collecting", "exit0"} =>
       IF timed THEN commits = Finished \/ (server = "exit0" /\ commits = round - 1)
                ELSE AllFits(Finished) => commits = Finished

\* Where the coordinator is, the server has ended well and the barrier is over.
Ended ==
  /\ coord = "reaping" => server = "exit0" /\ (failures \/ ~error)
  /\ coord = "finished" \/ (coord = "start" /\ attempt > 1) => gate = "ended"

RunInv == Typed /\ Fitting /\ Barred /\ Gated /\ Counted /\ Ended /\ CompletedWhole

-------------------------------------------------------------------------------
(* Types *)

\* A round is a number, and so is the length of a run.
LEMMA RoundsNat == ASSUME Typed PROVE round \in Nat /\ Rounds \in Nat /\ round <= Rounds
  BY PhysicalAssumption DEF Typed

\* Nothing runs yet.
LEMMA FirstInv == Init => RunInv
  <1> SUFFICES ASSUME Init PROVE RunInv OBVIOUS
  <1>1. Typed BY PhysicalAssumption DEF Init, Fresh, Typed, Coords, Servers, Processes, Sockets
  <1>2. Fitting /\ Barred /\ Gated BY DEF Init, Fresh, Fitting, InFit, Barred, Gated
  <1>3. Counted /\ Ended /\ CompletedWhole BY DEF Init, Counted, Ended, CompletedWhole, Exited
  <1> QED BY <1>1, <1>2, <1>3 DEF RunInv

\* Every action keeps the types, given that a round begins only below the limit.
LEMMA TypedStep == ASSUME RunInv, [Next]_vars PROVE Typed'
  <1>0. Typed /\ round \in Nat /\ Rounds \in Nat /\ Rounds > 0
    BY RoundsNat, PhysicalAssumption DEF RunInv
  <1> USE DEF matrix, serverVars, workerVars, barrierVars
  <1>1. ASSUME NEW w \in Workers, Join(w) \/ Connect(w) \/ Announce(w) \/ Enter(w) PROVE Typed'
    BY <1>0, <1>1 DEF Join, Connect, Announce, Enter, Typed, Processes, InFit, Sockets
  <1>2. ASSUME NEW w \in Workers, Reply(w) PROVE Typed'
    <2>1. worker[w] \in InFit /\ at[w] = round /\ round > 0
      BY <1>2 DEF Reply, InFit, RunInv, Fitting
    <2> QED BY <1>0, <1>2, <2>1 DEF Reply, Typed, Processes, Exited
  <1>3. ASSUME NEW w \in Workers, Leave(w) PROVE Typed'
    BY <1>0, <1>3 DEF Leave, Typed, Processes, Exited
  <1>4. ASSUME NEW w \in Workers, Break(w) PROVE Typed'
    BY <1>0, <1>4 DEF Break, Typed, Processes, Exited
  <1>5. ASSUME NEW w \in Workers, Die(w) PROVE Typed'
    BY <1>0, <1>5 DEF Die, Typed, Processes, Exited, Sockets
  <1>6. CASE Listen BY <1>0, <1>6 DEF Listen, Typed, Servers
  <1>7. CASE ConfigureFit
    <2>1. round' \in 0..Rounds /\ (1..round) \subseteq 1..round' BY <1>0, <1>7 DEF ConfigureFit
    <2>2. /\ UNCHANGED <<coord, attempt, commits, fits, socket, gate, gateRound, toRelease>>
          /\ server' \in Servers /\ pending' \subseteq Workers
          /\ worker' \in [Workers -> Processes] /\ at' \in [Workers -> Nat]
          /\ linked' \in [Workers -> BOOLEAN]
      BY <1>0, <1>7 DEF ConfigureFit, Servers, Processes, InFit
    <2> QED BY <1>0, <2>1, <2>2 DEF Typed
  <1>8. CASE AggregateFit BY <1>0, <1>8 DEF AggregateFit, Typed, Servers, Exited
  <1>9. CASE ServerDies BY <1>0, <1>9 DEF ServerDies, Typed, Servers, Exited
  <1>10. ASSUME NEW w \in Workers, Accept(w) \/ Release(w) PROVE Typed'
    BY <1>0, <1>10 DEF Accept, Release, GateFails, Typed, Sockets
  <1>11. CASE Receipt BY <1>0, <1>11 DEF Receipt, Typed
  <1>12. CASE Launch
    BY <1>0, <1>12 DEF Launch, Fresh, Typed, Coords, Servers, Processes, Sockets
  <1>13. CASE Listening \/ Reap \/ Complete \/ PortTaken
    BY <1>0, <1>13 DEF Listening, Reap, Complete, PortTaken, Typed, Coords
  <1>14. CASE GiveUp BY <1>0, <1>14 DEF GiveUp, Fresh, Typed, Coords, Servers, Processes, Exited, Sockets
  <1>15. CASE UNCHANGED vars BY <1>0, <1>15 DEF vars, Typed
  <1> QED BY <1>1, <1>2, <1>3, <1>4, <1>5, <1>6, <1>7, <1>8, <1>9, <1>10, <1>11, <1>12, <1>13, <1>14, <1>15
             DEF Next, Client, Server, Barrier, Coordinator, Abort, Deadline

-------------------------------------------------------------------------------
(* The workers and the server *)

\* Fitting is inductive: a worker is in a fit only while the server has the round open.
LEMMA FittingStep == ASSUME RunInv, [Next]_vars PROVE Fitting'
  <1>0. Typed /\ Fitting /\ round \in Nat BY RoundsNat DEF RunInv
  <1> USE DEF matrix, serverVars, workerVars, barrierVars
  <1>1. ASSUME NEW w \in Workers, Join(w) PROVE Fitting'
    BY <1>0, <1>1 DEF Join, Fitting, Typed, InFit
  <1>2. ASSUME NEW w \in Workers, Connect(w) \/ Announce(w) \/ Enter(w) PROVE Fitting'
    <2>1. /\ worker[w] \in InFit /\ \A v \in Workers : v # w => worker'[v] = worker[v]
          /\ UNCHANGED <<at, round, linked, pending, failures, server, coord>>
      BY <1>0, <1>2 DEF Connect, Announce, Enter, Typed, InFit
    <2> QED BY <1>0, <2>1 DEF Fitting
  <1>3. ASSUME NEW w \in Workers, Reply(w) \/ Leave(w) \/ Break(w) \/ Die(w) PROVE Fitting'
    <2>1. /\ UNCHANGED <<at, round, server, coord>> /\ pending' \subseteq pending
          /\ \A v \in Workers : v # w => /\ worker'[v] = worker[v] /\ linked'[v] = linked[v]
                                         /\ v \in pending => v \in pending'
      BY <1>0, <1>3 DEF Reply, Leave, Break, Die, Typed
    <2>2. failures => failures'
      BY <1>3 DEF Reply, Leave, Break, Die
    <2>3. worker'[w] \in InFit =>
            \/ /\ worker[w] \in InFit /\ ~linked'[w]
               /\ (linked[w] => w \in pending) /\ (w \in pending => failures')
            \/ worker'[w] = worker[w] /\ linked'[w] = linked[w] /\ pending' = pending
      BY <1>0, <1>3 DEF Reply, Leave, Break, Die, Typed, InFit, Exited, Fitting
    <2> QED BY <1>0, <2>1, <2>2, <2>3 DEF Fitting
  <1>4. CASE ConfigureFit
    <2>1. round' > 0 /\ server' = "collecting" /\ pending' = Workers
          /\ \A w \in Workers : at'[w] = round' /\ linked'[w]
      BY <1>0, <1>4 DEF ConfigureFit
    <2> QED BY <2>1 DEF Fitting
  <1>5. CASE Listen \/ AggregateFit
    <2>1. /\ UNCHANGED <<worker, at, round, linked, pending, failures, coord>> /\ pending = {}
          /\ server # "exit1"
      BY <1>0, <1>5 DEF Listen, AggregateFit, Fitting
    <2> QED BY <1>0, <2>1 DEF Fitting
  <1>6. CASE ServerDies
    <2>1. /\ UNCHANGED <<worker, at, round>> /\ server' = "exit1" /\ \A w \in Workers : ~linked'[w]
      BY <1>6 DEF ServerDies
    <2> QED BY <1>0, <2>1 DEF Fitting
  <1>7. CASE GiveUp
    <2>1. /\ UNCHANGED <<at, round, pending>> /\ coord' = "failed" /\ \A w \in Workers : ~linked'[w]
          /\ server' \notin {"collecting", "exit1"} => server' = server
          /\ \A w \in Workers : worker'[w] \in InFit => worker'[w] = worker[w]
      BY <1>0, <1>7 DEF GiveUp, Fresh, InFit, ServerUp, Typed
    <2> QED BY <1>0, <2>1 DEF Fitting
  <1>8. CASE Launch
    <2>1. pending' = {} /\ \A w \in Workers : worker'[w] \notin InFit
      BY <1>8 DEF Launch, Fresh, InFit
    <2> QED BY <2>1 DEF Fitting
  <1>9. CASE (\E w \in Workers : Accept(w) \/ Release(w)) \/ Receipt
    <2>1. UNCHANGED <<worker, at, round, linked, pending, failures, server, coord>>
      BY <1>9 DEF Accept, Release, Receipt
    <2> QED BY <1>0, <2>1 DEF Fitting
  <1>10. CASE Listening \/ Reap \/ Complete \/ PortTaken
    <2>1. UNCHANGED <<worker, at, round, linked, pending, failures, server>> /\ coord # "failed"
      BY <1>10 DEF Listening, Reap, Complete, PortTaken
    <2> QED BY <1>0, <2>1 DEF Fitting
  <1>11. CASE UNCHANGED vars BY <1>0, <1>11 DEF vars, Fitting
  <1> QED BY <1>1, <1>2, <1>3, <1>4, <1>5, <1>6, <1>7, <1>8, <1>9, <1>10, <1>11
             DEF Next, Client, Server, Barrier, Coordinator, Abort, Deadline

\* Between the rounds no answer is under way, so the answers of a finished round
\* stay what they were when it was aggregated.
LEMMA CountedStep == ASSUME RunInv, [Next]_vars PROVE Counted'
  <1>0. Typed /\ Fitting /\ Counted /\ round \in Nat /\ commits \in Nat
    BY RoundsNat DEF RunInv, Typed
  <1> USE DEF matrix, serverVars, workerVars, barrierVars
  <1>1. ASSUME UNCHANGED <<server, round, commits, fits, timed>> PROVE Counted'
    BY <1>0, <1>1 DEF Counted, Finished, AllFits
  <1>2. ASSUME NEW w \in Workers, Reply(w) PROVE Counted'
    <2>1. UNCHANGED <<server, round, commits, timed>> BY <1>2 DEF Reply
    <2>2. ASSUME server' \in {"booting", "ready", "collecting", "exit0"}, AllFits(Finished)'
          PROVE  AllFits(Finished)
      <3>1. CASE fits' = fits BY Zenon, <2>1, <2>2, <3>1 DEF AllFits, Finished
      <3>2. CASE fits' # fits
        <4>1. fits' = fits \cup {<<at[w], w>>} /\ linked[w] /\ worker[w] \in InFit
          BY <1>2, <3>2 DEF Reply, InFit
        <4>2. at[w] = round /\ w \in pending BY <1>0, <4>1 DEF Fitting
        <4>3. server = "collecting" BY <1>0, <2>1, <2>2, <4>2 DEF Fitting
        <4>4. Finished' = round - 1 /\ Finished = round - 1 BY <2>1, <4>3 DEF Finished
        <4>5. ASSUME NEW r \in 1..(round - 1), NEW v \in Workers PROVE <<r, v>> \in fits
          <5>1. <<r, v>> \in fits' BY <2>2, <4>4 DEF AllFits
          <5>2. r # round BY <1>0
          <5> QED BY <4>1, <4>2, <5>1, <5>2
        <4> QED BY Zenon, <4>4, <4>5 DEF AllFits
      <3> QED BY <3>1, <3>2
    <2>3. Finished' = Finished BY <2>1 DEF Finished
    <2> QED BY <1>0, <2>1, <2>2, <2>3 DEF Counted
  <1>3. ASSUME NEW w \in Workers,
               Join(w) \/ Connect(w) \/ Announce(w) \/ Enter(w) \/ Leave(w) \/ Break(w) \/ Die(w)
        PROVE  Counted'
    BY <1>1, <1>3 DEF Join, Connect, Announce, Enter, Leave, Break, Die
  <1>4. CASE Listen
    <2>1. /\ UNCHANGED <<round, commits, fits, timed>> /\ server = "booting" /\ server' = "ready"
      BY <1>4 DEF Listen
    <2> QED BY <1>0, <2>1 DEF Counted, Finished, AllFits
  <1>5. CASE ConfigureFit
    <2>1. /\ UNCHANGED <<commits, fits, timed>> /\ server = "ready" /\ server' = "collecting"
          /\ round' = round + 1
      BY <1>5 DEF ConfigureFit
    <2>2. Finished' = Finished BY <1>0, <2>1 DEF Finished
    <2> QED BY <1>0, <2>1, <2>2 DEF Counted, AllFits
  <1>6. CASE AggregateFit
    <2>1. /\ UNCHANGED <<round, fits, timed>> /\ server = "collecting" /\ server' # "collecting"
          /\ round > 0 /\ Finished = round - 1 /\ Finished' = round
      BY <1>0, <1>6 DEF AggregateFit, Counted, Finished
    <2>2. CASE timed
      <3>1. \/ server' = "exit1"
            \/ server' = "ready" /\ commits' = commits + 1
            \/ server' = "exit0" /\ commits' \in {commits, commits + 1}
        BY <1>6, <2>2 DEF AggregateFit
      <3>2. commits = round - 1 BY <1>0, <2>1, <2>2 DEF Counted
      <3> QED BY <1>0, <2>1, <2>2, <3>1, <3>2 DEF Counted
    <2>3. CASE ~timed
      <3>1. commits' = IF Aggregated THEN commits + 1 ELSE commits BY <1>6, <2>3 DEF AggregateFit
      <3>2. ASSUME AllFits(round) PROVE commits' = round
        <4>1. AllFits(round - 1)
          <5>1. \A r \in 1..(round - 1) : r \in 1..round BY <1>0
          <5> QED BY Zenon, <3>2, <5>1 DEF AllFits
        <4>2. commits = round - 1 BY <1>0, <2>1, <2>3, <4>1 DEF Counted
        <4>3. Aggregated BY <1>0, <2>1, <3>2 DEF AllFits, Aggregated
        <4> QED BY <1>0, <3>1, <4>2, <4>3
      <3>3. AllFits(Finished)' => AllFits(round) BY Zenon, <2>1 DEF AllFits
      <3> QED BY <2>1, <2>3, <3>2, <3>3 DEF Counted
    <2> QED BY <2>2, <2>3
  <1>7. CASE ServerDies BY <1>7 DEF ServerDies, Counted
  <1>8. CASE GiveUp
    <2>1. CASE server' = "exit1" BY <2>1 DEF Counted
    <2>2. CASE server' # "exit1"
      <3>1. server' = server BY <1>8, <2>2 DEF GiveUp
      <3> QED BY <1>1, <1>8, <3>1 DEF GiveUp
    <2> QED BY <2>1, <2>2
  <1>9. CASE Launch BY <1>9 DEF Launch, Counted, Finished
  <1>10. CASE (\E w \in Workers : Accept(w) \/ Release(w)) \/ Receipt
    BY <1>1, <1>10 DEF Accept, Release, Receipt
  <1>11. CASE Listening \/ Reap \/ Complete \/ PortTaken
    BY <1>1, <1>11 DEF Listening, Reap, Complete, PortTaken
  <1>12. CASE UNCHANGED vars BY <1>1, <1>12 DEF vars
  <1> QED BY <1>2, <1>3, <1>4, <1>5, <1>6, <1>7, <1>8, <1>9, <1>10, <1>11, <1>12
             DEF Next, Client, Server, Barrier, Coordinator, Abort, Deadline

-------------------------------------------------------------------------------
(* The barrier *)

\* Why the run knows of a worker that has ended behind its connection.
Known == failures \/ server = "exit1" \/ coord = "failed"

\* What the run knows of an ended worker it does not forget within an attempt.
LEMMA KnownKept ==
  ASSUME [Next]_vars, ~Launch, Known
  PROVE  Known'
  <1> USE DEF matrix, serverVars, workerVars, barrierVars, Known
  <1>1. failures => failures'
    BY DEF Next, Client, Join, Connect, Announce, Enter, Reply, Leave, Break, Die, Server, Listen, ConfigureFit,
           AggregateFit, ServerDies, Barrier, Accept, Release, Receipt, Coordinator, Listening, Reap, Complete,
           Abort, Deadline, GiveUp, PortTaken, vars
  <1>2. server = "exit1" => server' = "exit1"
    BY DEF Next, Client, Join, Connect, Announce, Enter, Reply, Leave, Break, Die, Server, Listen, ConfigureFit,
           AggregateFit, ServerDies, ServerUp, Barrier, Accept, Release, Receipt, Coordinator, Listening, Reap,
           Complete, Abort, Deadline, GiveUp, PortTaken, vars
  <1>3. coord = "failed" => coord' = "failed"
    BY DEF Next, Client, Join, Connect, Announce, Enter, Reply, Leave, Break, Die, Server, Listen, ConfigureFit,
           AggregateFit, ServerDies, Barrier, Accept, Release, Receipt, Coordinator, Listening, Reap,
           Complete, Abort, Deadline, GiveUp, PortTaken, vars
  <1> QED BY <1>1, <1>2, <1>3

\* A worker in a fit that ends has failed its fit.
LEMMA EndedKnown ==
  ASSUME RunInv, NEW w \in Workers, worker[w] \in InFit, Leave(w) \/ Die(w)
  PROVE  Known'
  <1>1. /\ failures' = (failures \/ w \in pending) /\ server' = server /\ coord' = coord
    BY DEF Leave, Die, matrix
  <1>2. failures \/ w \in pending \/ server = "exit1" \/ coord = "failed"
    BY DEF RunInv, Fitting
  <1> QED BY <1>1, <1>2 DEF Known

\* Barred is inductive: a connection waits at the barrier only for a worker that asked.
LEMMA BarredStep == ASSUME RunInv, [Next]_vars PROVE Barred'
  <1>0. Typed /\ Fitting /\ Barred /\ Gated BY DEF RunInv
  <1> USE DEF matrix, serverVars, workerVars, barrierVars
  <1>k. ~Launch /\ Known => Known' BY KnownKept
  <1>1. CASE Launch
    <2>1. \A w \in Workers : socket'[w] = "none" /\ worker'[w] = "boot" BY <1>1 DEF Launch, Fresh
    <2> QED BY <2>1 DEF Barred
  <1>2. ASSUME ~Launch, UNCHANGED <<worker, at, socket, arrived>> PROVE Barred'
    BY <1>0, <1>k, <1>2 DEF Barred, Known
  <1>3. ASSUME NEW w \in Workers, Join(w) \/ Connect(w) \/ Reply(w) PROVE Barred'
    <2>1. /\ UNCHANGED <<at, socket, arrived>> /\ ~Launch
          /\ worker[w] \notin Exited \cup {"waiting"} /\ worker'[w] # "training"
          /\ \A v \in Workers : v # w => worker'[v] = worker[v]
      BY <1>0, <1>3 DEF Join, Connect, Reply, Launch, Typed, Exited
    <2> QED BY <1>0, <1>k, <2>1 DEF Barred, Known
  <1>4. ASSUME NEW w \in Workers, Announce(w) PROVE Barred'
    <2>1. /\ at' = at /\ arrived' = arrived \cup {<<at[w], w>>} /\ ~Launch
          /\ worker'[w] = "waiting" /\ socket'[w] \in {"eof", "queued"}
          /\ \A v \in Workers : v # w => worker'[v] = worker[v] /\ socket'[v] = socket[v]
      BY <1>0, <1>4 DEF Announce, Launch, Typed
    <2> QED BY <1>0, <1>k, <2>1 DEF Barred, Known
  <1>5. ASSUME NEW w \in Workers, Enter(w) PROVE Barred'
    <2>1. /\ UNCHANGED <<at, arrived>> /\ ~Launch /\ socket[w] = "go"
          /\ socket'[w] = "none"
          /\ \A v \in Workers : v # w => worker'[v] = worker[v] /\ socket'[v] = socket[v]
      BY <1>0, <1>5 DEF Enter, Launch, Typed
    <2> QED BY <1>0, <1>k, <2>1 DEF Barred, Known
  <1>6. ASSUME NEW w \in Workers, Leave(w) \/ Die(w) PROVE Barred'
    <2>1. /\ UNCHANGED <<at, arrived>> /\ ~Launch /\ worker'[w] \in Exited
          /\ socket'[w] # socket[w] => socket'[w] = "cut" /\ worker[w] \in InFit
          /\ \A v \in Workers : v # w => worker'[v] = worker[v] /\ socket'[v] = socket[v]
      BY <1>0, <1>6 DEF Leave, Die, Launch, Typed, Exited, InFit
    <2>2. worker[w] \in InFit => Known' BY <1>6, EndedKnown
    <2>3. socket'[w] \in {"queued", "held", "go", "cut"} => Known'
      BY <1>0, <1>k, <2>1, <2>2 DEF Barred, Known, InFit
    <2> QED BY <1>0, <1>k, <2>1, <2>3 DEF Barred, Known, Exited
  <1>7. ASSUME NEW w \in Workers, Break(w) PROVE Barred'
    <2>1. /\ UNCHANGED <<at, socket, arrived>> /\ ~Launch
          /\ worker'[w] = worker[w] \/ (worker[w] = "idle" /\ worker'[w] # "training")
          /\ \A v \in Workers : v # w => worker'[v] = worker[v]
      BY <1>0, <1>7 DEF Break, Launch, Typed, Exited
    <2> QED BY <1>0, <1>k, <2>1 DEF Barred, Known, Exited
  <1>8. CASE ConfigureFit
    <2>1. /\ UNCHANGED <<socket, arrived>>
          /\ \A w \in Workers : worker[w] = "idle" /\ worker'[w] = "fit"
      BY <1>8 DEF ConfigureFit
    <2> QED BY <1>0, <2>1 DEF Barred, Exited
  <1>9. ASSUME NEW w \in Workers, Accept(w) PROVE Barred'
    <2>1. /\ UNCHANGED <<worker, at, arrived>> /\ ~Launch
          /\ \A v \in Workers : socket'[v] \in {socket[v], "eof"}
                                \/ (socket[v] = "queued" /\ socket'[v] = "held")
      BY <1>0, <1>9 DEF Accept, GateFails, Launch, Typed, Held
    <2> QED BY <1>0, <1>k, <2>1 DEF Barred, Known
  <1>10. ASSUME NEW w \in Workers, Release(w) PROVE Barred'
    <2>1. /\ UNCHANGED <<worker, at, arrived>> /\ ~Launch
          /\ \A v \in Workers : socket'[v] \in {socket[v], "eof"}
                                \/ (v = w /\ socket'[v] = "go")
      BY <1>0, <1>10 DEF Release, GateFails, Launch, Typed
    <2>2. socket[w] = "held" /\ at[w] = gateRound /\ \A v \in Workers : <<gateRound, v>> \in arrived
      BY <1>0, <1>10 DEF Release, Gated, Held
    <2> QED BY <1>0, <1>k, <2>1, <2>2 DEF Barred, Known
  <1>11. CASE GiveUp
    <2>1. /\ UNCHANGED <<at, arrived>> /\ coord' = "failed"
          /\ \A w \in Workers : /\ socket'[w] \in {socket[w], "eof"}
                                /\ worker'[w] = worker[w] \/ worker'[w] \in Exited
      BY <1>0, <1>11 DEF GiveUp, Typed, Exited
    <2> QED BY <1>0, <2>1 DEF Barred, Exited
  <1>12. CASE Listen \/ AggregateFit \/ ServerDies
    <2>1. UNCHANGED <<worker, at, socket, arrived>> /\ ~Launch
      BY <1>0, <1>12 DEF Listen, AggregateFit, ServerDies, Launch, ServerUp
    <2> QED BY <1>2, <2>1
  <1>13. CASE Receipt \/ Listening \/ Reap \/ Complete \/ PortTaken
    <2>1. UNCHANGED <<worker, at, socket, arrived>> /\ (~Launch \/ UNCHANGED serverVars)
      BY <1>13 DEF Receipt, Listening, Reap, Complete, PortTaken
    <2> QED BY <1>1, <1>2, <2>1
  <1>14. CASE UNCHANGED vars BY <1>1, <1>2, <1>14 DEF vars
  <1> QED BY <1>1, <1>3, <1>4, <1>5, <1>6, <1>7, <1>8, <1>9, <1>10, <1>11, <1>12, <1>13, <1>14
             DEF Next, Client, Server, Barrier, Coordinator, Abort, Deadline

\* Gated is inductive: what the gate has opened it opened for everybody.
LEMMA GatedStep == ASSUME RunInv, [Next]_vars PROVE Gated'
  <1>0. Typed /\ Fitting /\ Barred /\ Gated BY DEF RunInv
  <1> USE DEF matrix, serverVars, workerVars, barrierVars
  <1>1. CASE Launch
    <2>1. gate' = "accept" /\ \A w \in Workers : socket'[w] = "none" BY <1>1 DEF Launch, Fresh
    <2> QED BY <2>1 DEF Gated, Held
  <1>2. ASSUME UNCHANGED <<at, gate, gateRound, toRelease>>, arrived \subseteq arrived',
               \A w \in Workers : socket'[w] = "held" <=> socket[w] = "held"
        PROVE  Gated'
    <2>1. Held' = Held BY <1>2 DEF Held
    <2> QED BY <1>0, <1>2, <2>1 DEF Gated
  <1>3. ASSUME NEW w \in Workers, Client(w) \/ Break(w) \/ Die(w) PROVE Gated'
    <2>1. UNCHANGED <<at, gate, gateRound, toRelease>> /\ arrived \subseteq arrived'
      BY <1>3 DEF Client, Join, Connect, Announce, Enter, Reply, Leave, Break, Die
    <2>2. \A v \in Workers : socket'[v] = socket[v]
            \/ (v = w /\ (worker[w] = "connected" \/ socket[w] = "go") /\ socket'[v] # "held")
      BY <1>0, <1>3 DEF Client, Join, Connect, Announce, Enter, Reply, Leave, Break, Die, Typed
    <2>3. worker[w] = "connected" => socket[w] # "held" BY <1>0 DEF Barred, Exited
    <2> QED BY <1>2, <2>1, <2>2, <2>3
  <1>4. CASE ConfigureFit
    <2>1. UNCHANGED <<gate, gateRound, toRelease, arrived, socket>>
          /\ \A w \in Workers : worker[w] = "idle"
      BY <1>4 DEF ConfigureFit
    <2>2. Held = {} /\ Held' = {} BY <1>0, <2>1 DEF Barred, Held, Exited
    <2> QED BY <1>0, <2>1, <2>2 DEF Gated
  <1>5. ASSUME NEW w \in Workers, Accept(w) PROVE Gated'
    <2>0. /\ UNCHANGED <<at, arrived, gateRound>> /\ gate = "accept" /\ \A v \in Held : at[v] = gateRound
      BY <1>0, <1>5 DEF Accept, Gated
    <2>1. CASE gate' = "ended" BY <2>1 DEF Gated
    <2>2. CASE gate' # "ended"
      <3>1. /\ socket[w] = "queued" /\ at[w] = gateRound /\ socket' = [socket EXCEPT ![w] = "held"]
            /\ IF Held \cup {w} = Workers THEN gate' = "release" /\ toRelease' = Workers
                                          ELSE UNCHANGED <<gate, toRelease>>
        BY <1>5, <2>2 DEF Accept, GateFails
      <3>2. Held' = Held \cup {w} BY <1>0, <3>1 DEF Held, Typed
      <3>3. \A v \in Held' : at[v] = gateRound /\ <<at[v], v>> \in arrived
        BY <1>0, <2>0, <3>1, <3>2 DEF Barred, Held
      <3>4. CASE Held \cup {w} = Workers
        <4>1. gate' = "release" /\ toRelease' = Workers /\ Held' = Workers BY <3>1, <3>2, <3>4
        <4> QED BY <2>0, <3>3, <4>1 DEF Gated
      <3>5. CASE Held \cup {w} # Workers
        <4>1. gate' = "accept" BY <2>0, <3>1, <3>5
        <4> QED BY <2>0, <3>3, <4>1 DEF Gated
      <3> QED BY <3>4, <3>5
    <2> QED BY <2>1, <2>2
  <1>6. ASSUME NEW w \in Workers, Release(w) PROVE Gated'
    <2>1. CASE gate' = "ended" BY <2>1 DEF Gated
    <2>2. CASE gate' # "ended"
      <3>1. /\ UNCHANGED <<at, arrived, gateRound>> /\ gate = "release" /\ gate' = "release"
            /\ socket' = [socket EXCEPT ![w] = "go"] /\ toRelease' = toRelease \ {w}
        BY <1>6, <2>2 DEF Release, GateFails
      <3>2. Held' = Held \ {w} BY <1>0, <3>1 DEF Held, Typed
      <3> QED BY <1>0, <3>1, <3>2 DEF Gated
    <2> QED BY <2>1, <2>2
  <1>7. CASE Receipt
    <2>1. /\ UNCHANGED <<socket, toRelease>> /\ gate = "release" /\ toRelease = {}
          /\ gate' # "release"
      BY <1>7 DEF Receipt
    <2>2. Held' = {} BY <1>0, <2>1 DEF Gated, Held
    <2> QED BY <2>1, <2>2 DEF Gated
  <1>8. CASE GiveUp
    <2>1. CASE gate' = "ended" BY <2>1 DEF Gated
    <2>2. CASE gate' # "ended"
      <3>1. /\ UNCHANGED <<at, arrived, gateRound, toRelease>> /\ gate = "release" /\ gate' = "release"
            /\ \A w \in Workers : socket'[w] = IF socket[w] = "go" \/ w \in toRelease THEN socket[w] ELSE "eof"
        BY <1>8, <2>2 DEF GiveUp
      <3>2. Held' = Held BY <1>0, <3>1 DEF Gated, Held
      <3> QED BY <1>0, <3>1, <3>2 DEF Gated
    <2> QED BY <2>1, <2>2
  <1>9. CASE Complete BY <1>9 DEF Complete, Gated
  <1>10. CASE Listen \/ AggregateFit \/ ServerDies \/ Listening \/ Reap \/ PortTaken \/ UNCHANGED vars
    BY <1>2, <1>10 DEF Listen, AggregateFit, ServerDies, Listening, Reap, PortTaken, vars
  <1> QED BY <1>1, <1>3, <1>4, <1>5, <1>6, <1>7, <1>8, <1>9, <1>10
             DEF Next, Server, Barrier, Coordinator, Abort, Deadline

-------------------------------------------------------------------------------
(* The end of a run *)

\* When the server has ended well, only a worker of a run that failed still has a
\* connection at the barrier.
LEMMA NobodyAtBarrier ==
  ASSUME RunInv, coord = "reaping", ~failures, NEW w \in Workers
  PROVE  socket[w] \notin {"queued", "held", "go", "cut"}
  <1>1. server = "exit0" /\ pending = {} BY DEF RunInv, Ended, Fitting
  <1>2. worker[w] \notin InFit BY <1>1 DEF RunInv, Fitting
  <1> QED BY <1>1, <1>2 DEF RunInv, Barred, InFit

\* Ended is inductive: the coordinator collects only what has ended.
LEMMA EndedStep == ASSUME RunInv, [Next]_vars PROVE Ended'
  <1>0. Typed /\ Ended /\ Gated /\ CompletedWhole BY DEF RunInv
  <1> USE DEF matrix, serverVars, workerVars, barrierVars
  <1>1. CASE GiveUp BY <1>1 DEF GiveUp, Ended
  <1>2. CASE PortTaken BY <1>2 DEF PortTaken, Ended
  <1>3. CASE Launch BY <1>3 DEF Launch, Ended
  <1>4. CASE Listening BY <1>4 DEF Listening, Ended
  <1>5. CASE Reap BY <1>5 DEF Reap, Ended
  <1>6. CASE Complete BY <1>6 DEF Complete, Ended
  <1>7. ASSUME NEW w \in Workers, Client(w) \/ Break(w) \/ Die(w) PROVE Ended'
    <2>1. UNCHANGED <<coord, attempt, server, gate, error>>
      BY <1>7 DEF Client, Join, Connect, Announce, Enter, Reply, Leave, Break, Die
    <2>2. failures => failures'
      BY <1>7 DEF Client, Join, Connect, Announce, Enter, Reply, Leave, Break, Die
    <2> QED BY <1>0, <2>1, <2>2 DEF Ended
  <1>8. CASE Server \/ ServerDies
    <2>1. /\ UNCHANGED <<coord, attempt, gate, error, failures>> /\ server # "exit0"
      BY <1>8 DEF Server, Listen, ConfigureFit, AggregateFit, ServerDies, ServerUp
    <2> QED BY <1>0, <2>1 DEF Ended
  <1>9. ASSUME NEW w \in Workers, Accept(w) \/ Release(w) PROVE Ended'
    <2>1. /\ UNCHANGED <<coord, attempt, server, failures>> /\ gate # "ended"
          /\ socket[w] \in {"queued", "held", "cut"}
      BY <1>0, <1>9 DEF Accept, Release, Gated, Held
    <2>2. coord = "reaping" => failures BY <2>1, NobodyAtBarrier
    <2> QED BY <1>0, <2>1, <2>2 DEF Ended
  <1>10. CASE Receipt
    <2>1. UNCHANGED <<coord, attempt, server, failures, error>> /\ gate # "ended"
      BY <1>10 DEF Receipt
    <2> QED BY <1>0, <2>1 DEF Ended
  <1>11. CASE UNCHANGED vars BY <1>0, <1>11 DEF vars, Ended
  <1> QED BY <1>1, <1>2, <1>3, <1>4, <1>5, <1>6, <1>7, <1>8, <1>9, <1>10, <1>11
             DEF Next, Barrier, Coordinator, Abort, Deadline

\* What validate_result lets through was aggregated from the answers of every worker.
LEMMA CompleteWhole == ASSUME RunInv, Complete PROVE CompletedWhole'
  <1>0. Typed /\ Ended /\ Counted /\ round \in Nat /\ Rounds \in Nat
    BY RoundsNat DEF RunInv
  <1>1. /\ coord = "reaping" /\ (\A w \in Workers : worker[w] = "exit0") /\ Valid
        /\ UNCHANGED <<timed, server, round, commits, failures, fits, worker, error>>
    BY DEF Complete, serverVars, workerVars
  <1>2. server = "exit0" /\ ~failures /\ ~error BY <1>0, <1>1 DEF Ended, Valid
  <1>3. fits = (1..round) \X Workers BY <1>0, <1>1 DEF Typed, Valid
  <1>4. AllFits(Finished) /\ Finished = round BY <1>1, <1>2 DEF AllFits, Finished, Valid
  <1>5. commits > 0 /\ (~timed => round = Rounds) BY <1>1 DEF Valid
  <1>6. IF timed THEN commits = round \/ commits = round - 1 ELSE commits = round
    BY <1>0, <1>2, <1>4 DEF Counted
  <1> QED BY <1>0, <1>1, <1>2, <1>3, <1>5, <1>6 DEF CompletedWhole

\* And nothing changes a run that is complete.
LEMMA WholeStep == ASSUME RunInv, [Next]_vars PROVE CompletedWhole'
  <1>0. Typed /\ Ended /\ CompletedWhole BY DEF RunInv
  <1> USE DEF matrix, serverVars, workerVars, barrierVars
  <1>1. CASE Complete BY <1>1, CompleteWhole
  <1>2. CASE Launch \/ Listening \/ Reap \/ PortTaken \/ GiveUp
    BY <1>2 DEF Launch, Listening, Reap, PortTaken, GiveUp, CompletedWhole
  <1> DEFINE Whole == coord = "finished" \/ (coord = "start" /\ attempt > 1)
  <1>3. ASSUME UNCHANGED <<coord, attempt>>, ~Whole PROVE CompletedWhole'
    BY <1>3 DEF CompletedWhole
  <1>4. ASSUME Whole
        PROVE  server = "exit0" /\ gate = "ended" /\ \A w \in Workers : worker[w] = "exit0"
    BY <1>0, <1>4 DEF Ended, CompletedWhole
  <1>5. ASSUME NEW w \in Workers, Client(w) \/ Break(w) \/ Die(w) PROVE UNCHANGED <<coord, attempt>> /\ ~Whole
    <2>1. UNCHANGED <<coord, attempt>> /\ worker[w] # "exit0"
      BY <1>5 DEF Client, Join, Connect, Announce, Enter, Reply, Leave, Break, Die, Alive, Exited, InFit
    <2> QED BY <1>4, <2>1
  <1>6. CASE Server \/ ServerDies
    <2>1. UNCHANGED <<coord, attempt>> /\ server # "exit0"
      BY <1>6 DEF Server, Listen, ConfigureFit, AggregateFit, ServerDies, ServerUp
    <2> QED BY <1>3, <1>4, <2>1
  <1>7. CASE Barrier
    <2>1. UNCHANGED <<coord, attempt>> /\ gate # "ended"
      BY <1>7 DEF Barrier, Accept, Release, Receipt
    <2> QED BY <1>3, <1>4, <2>1
  <1>8. CASE UNCHANGED vars BY <1>0, <1>8 DEF vars, CompletedWhole
  <1> QED BY <1>1, <1>2, <1>3, <1>5, <1>6, <1>7, <1>8 DEF Next, Coordinator, Abort, Deadline

\* The inductive invariant of the physical runs, type correctness included.
THEOREM RunInvariant == Spec => []RunInv
  <1>1. RunInv /\ [Next]_vars => RunInv'
    BY TypedStep, FittingStep, BarredStep, GatedStep, CountedStep, EndedStep, WholeStep DEF RunInv
  <1> QED BY FirstInv, <1>1, PTL DEF Spec

\* No worker trains in a round before every worker has announced itself for that
\* round, whoever dies, breaks off or is given up meanwhile (_serve).
THEOREM ReleasesTogether == Spec => []ReleasedTogether
  <1>1. RunInv => ReleasedTogether BY DEF RunInv, Barred, ReleasedTogether
  <1> QED BY <1>1, RunInvariant, PTL

\* A run counts only when every process ended well and the model is made of
\* rounds in which every worker took part (_run_one, validate_result).
THEOREM CompletedIsWhole == Spec => []CompletedWhole
  <1>1. RunInv => CompletedWhole BY DEF RunInv
  <1> QED BY <1>1, RunInvariant, PTL
================================================================================
