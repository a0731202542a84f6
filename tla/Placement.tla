------------------------------- MODULE Placement -------------------------------
(***************************************************************************)
(* The adaptive placement of a run: before every round the Greedy policy   *)
(* gives each selected client one cut out of the feasible ones, and after  *)
(* it the outcomes come back, the measured costs first, then the failures. *)
(* The state is saved after the costs and read again by the next process.  *)
(* Costs are abstracted to the round that measured them, so the cut that   *)
(* minimises the score may be any feasible one.  Two kinds of run:         *)
(*   virtual   Flower's simulation: a client keeps its identity, failures  *)
(*             name it, and the state file lives in a fresh directory;     *)
(*   otherwise the Flower bidi server: every connection is a new identity, *)
(*             and a restarted server finds the state file.                *)
(* No code of the repository supplies the memory limits of the check, so   *)
(* the peaks it would compare with them are left out.                      *)
(***************************************************************************)
EXTENDS Naturals, FiniteSets

CONSTANTS
  Clients,      \* logical clients
  Boundaries,   \* the admitted training cuts, the catalog
  Cooldown,     \* failure_cooldown_rounds
  Evaluates,    \* clients are sampled for evaluation
  NumRounds,    \* num_rounds, for each kind of run considered: virtual or not
  MaxConns      \* bound: connections of a client over all processes

ASSUME PlacementAssumption ==
  /\ IsFiniteSet(Boundaries)
  /\ Cooldown \in Nat \ {0} /\ MaxConns \in Nat \ {0}
  /\ DOMAIN NumRounds \subseteq BOOLEAN /\ \A v \in DOMAIN NumRounds : NumRounds[v] \in Nat
  /\ Evaluates \in BOOLEAN

VARIABLES
  virtual,    \* which kind of run this is
  stage,      \* where the round thread is
  round,      \* server_round
  conn,       \* conn[c]: the number of c's connection, which makes its cid
  plan,       \* plan[c]: the assignment of the round, or NoCut
  planned,    \* planned[c]: the connection it was made for, whose proxy the result names
  outcome,    \* outcome[c]: what came of c's fit
  until,      \* _blacklist_until, 0 for no entry
  banned,     \* _invalid_client_boundaries
  tables,     \* cost_tables: tables[cid], or NoTable
  restored,   \* _saved_tables
  file,       \* the file at state_path
  clock,      \* rounds planned by all processes: the stamp of a measurement
  failedAt,   \* history: the last round of this process c failed with a cut
  unfit,      \* history: the cuts c was incompatible with in this process
  learned,    \* history: the measurements <<c, cut, stamp>> fed to the policy
  rejoined    \* history: the clients that came back to a running server

memory == <<until, banned, tables, restored>>
history == <<failedAt, unfit, learned, rejoined>>
vars == <<virtual, stage, round, conn, plan, planned, outcome, memory, file, clock, history>>

Cids == Clients \X (1..MaxConns)
Keys == Cids \X Boundaries
Cid(c) == <<c, conn[c]>>
MaxRounds == NumRounds[virtual]
Kinds == DOMAIN NumRounds

NoCut == "none"
NoTable == [b \in {} |-> 0]
Stamps == 0..(MaxRounds * MaxConns)
Table == [Boundaries -> Stamps]
Anchors == [b \in Boundaries |-> 0]      \* every cost interpolated from the calibration

\* What a fit comes to, and how _classify_placement_failure reads a failure.
Failed == {"runtime", "abi", "network"}
Outcomes == {"success", "no_examples"} \cup Failed

Asked == {c \in Clients : plan[c] # NoCut}

MutantLastTableOfAny(c) ==    \* the table is looked up by the connection alone
  LET known == {i \in Cids : tables[i] # NoTable}
  IN IF known = {} THEN restored[c]
     ELSE tables[CHOOSE i \in known : \A k \in known : k[2] <= i[2]]
\* state_dict: the restored tables, overwritten in the order of cost_tables,
\* which is the order in which the connections were first planned.
LastTable(c) ==
  LET mine == {n \in 1..MaxConns : tables[<<c, n>>] # NoTable}
  IN IF mine = {} THEN restored[c]
     ELSE tables[<<c, CHOOSE n \in mine : \A k \in mine : k <= n>>]
StateDict == [tables |-> [c \in Clients |-> LastTable(c)], until |-> until, banned |-> banned]

NoState == [tables |-> [c \in Clients |-> NoTable], until |-> [k \in Keys |-> 0], banned |-> {}]

Init ==
  /\ virtual \in Kinds
  /\ stage = "between" /\ round = 0 /\ clock = 0
  /\ conn = [c \in Clients |-> 1] /\ planned = conn
  /\ plan = [c \in Clients |-> NoCut] /\ outcome = [c \in Clients |-> "none"]
  /\ until = NoState.until /\ banned = {} /\ tables = [i \in Cids |-> NoTable]
  /\ restored = NoState.tables
  /\ file = NoState
  /\ failedAt = [k \in Clients \X Boundaries |-> 0] /\ unfit = {}
  /\ learned = {} /\ rejoined = {}

-------------------------------------------------------------------------------
(* The feasibility filter *)

MutantCooling(i, b, r) == r < until[<<i, b>>]       \* an off-by-one
Cooling(i, b, r) == r <= until[<<i, b>>]

\* FeasibilityFilter.check
Feasible(i, r) == {b \in Boundaries : <<i, b>> \notin banned /\ ~Cooling(i, b, r)}

\* observe_failure: what a failure of this kind makes of the blacklist entry.
AfterFailure(u, kind, r) == IF kind = "runtime" THEN r + Cooldown ELSE u

-------------------------------------------------------------------------------
(* A round *)

\* configure_fit with plan_round: one call for all the selected clients, which
\* raises when a client has no feasible cut and ends the run.
Plan(S) ==
  /\ stage = "between" /\ round < MaxRounds
  /\ round' = round + 1 /\ clock' = clock + 1
  /\ outcome' = [c \in Clients |-> "none"]
  /\ planned' = [c \in Clients |-> IF c \in S THEN conn[c] ELSE planned[c]]
  /\ IF \E c \in S : Feasible(Cid(c), round + 1) = {}
       THEN /\ stage' = "stopped"
            /\ plan' = [c \in Clients |-> NoCut]
            /\ UNCHANGED tables
       ELSE /\ stage' = IF S = {} THEN "evaluating" ELSE "fitting"
            /\ plan' \in [Clients -> Boundaries \cup {NoCut}]
            /\ \A c \in Clients : IF c \in S THEN plan'[c] \in Feasible(Cid(c), round + 1)
                                             ELSE plan'[c] = NoCut
            /\ tables' = [i \in Cids |->
                 IF i[1] \in S /\ i = Cid(i[1]) /\ tables[i] = NoTable
                   THEN IF restored[i[1]] # NoTable THEN restored[i[1]] ELSE Anchors
                   ELSE tables[i]]
  /\ UNCHANGED <<virtual, conn, until, banned, restored, file, history>>

\* How the fit of a client ends, seen from outside the policy.
Ends(c, o) ==
  /\ outcome' = [outcome EXCEPT ![c] = o]
  /\ failedAt' = IF o = "runtime" THEN [failedAt EXCEPT ![<<c, plan[c]>>] = round] ELSE failedAt
  /\ unfit' = IF o = "abi" THEN unfit \cup {<<c, plan[c]>>} ELSE unfit

\* The fit of a client returns or fails.
Report(c, o) ==
  /\ stage = "fitting" /\ c \in Asked /\ outcome[c] = "none"
  /\ Ends(c, o)
  /\ UNCHANGED <<virtual, stage, round, conn, plan, planned, memory, file, clock, learned, rejoined>>

\* Flower's Join registers every stream under a fresh uuid; a fit that was
\* under way on the old stream has failed.
Reconnect(c) ==
  /\ ~virtual /\ stage \in {"between", "fitting"} /\ conn[c] < MaxConns
  /\ conn' = [conn EXCEPT ![c] = @ + 1] /\ rejoined' = rejoined \cup {c}
  /\ IF stage = "fitting" /\ c \in Asked /\ outcome[c] = "none"
       THEN Ends(c, "runtime")
       ELSE UNCHANGED <<outcome, failedAt, unfit>>
  /\ UNCHANGED <<virtual, stage, round, plan, planned, memory, file, clock, learned>>

\* A client whose connection changed under its fit has not succeeded.
Succeeded == {c \in Asked : outcome[c] = "success"}

\* aggregate_fit, first half: observe_round replaces the costs of the executed
\* cuts and saves the state, also when there is nothing to observe.
Observe ==
  /\ stage = "fitting" /\ \A c \in Asked : outcome[c] # "none"
  /\ stage' = "observed"
  /\ tables' = [i \in Cids |->
       IF i[1] \in Succeeded /\ i[2] = planned[i[1]]
         THEN [tables[i] EXCEPT ![plan[i[1]]] = clock] ELSE tables[i]]
  /\ learned' = learned \cup {<<c, plan[c], clock>> : c \in Succeeded}
  /\ UNCHANGED <<virtual, round, conn, plan, planned, outcome, until, banned, restored, clock, failedAt, unfit, rejoined>>
  /\ file' = StateDict'

\* _failure_cid: the exception of a virtual client carries its cid; the one a
\* Flower proxy raises carries none, and the policy is not told.
Named == IF virtual THEN {c \in Asked : outcome[c] \in Failed} ELSE {}

\* aggregate_fit, second half: observe_failure for every failure that is named.
ObserveFailures ==
  /\ stage = "observed"
  /\ stage' = "evaluating"
  /\ until' = [k \in Keys |->
       LET c == k[1][1]
       IN IF c \in Named /\ k = <<Cid(c), plan[c]>>
            THEN AfterFailure(until[k], outcome[c], round) ELSE until[k]]
  /\ banned' = banned \cup {<<Cid(c), plan[c]>> : c \in {d \in Named : outcome[d] = "abi"}}
  /\ UNCHANGED <<virtual, round, conn, plan, planned, outcome, tables, restored, file, clock, history>>

\* aggregate_evaluate passes what the policy's observe_evaluation does not take.
Passed == {"round_id", "executions"}
Taken == {"round_id", "feedback"}

MutantEvaluate ==             \* the policy is called without evaluation clients too
  /\ stage = "evaluating"
  /\ stage' = IF Passed # Taken THEN "stopped"
              ELSE IF round = MaxRounds THEN "done" ELSE "between"
  /\ UNCHANGED <<virtual, round, conn, plan, planned, outcome, memory, file, clock, history>>
\* evaluate_round; the policy's cuts for evaluation change nothing.
Evaluate ==
  /\ stage = "evaluating"
  /\ stage' = IF Evaluates /\ Passed # Taken THEN "stopped"
              ELSE IF round = MaxRounds THEN "done" ELSE "between"
  /\ UNCHANGED <<virtual, round, conn, plan, planned, outcome, memory, file, clock, history>>

\* The process dies, or the round raises elsewhere.
Crash ==
  /\ stage \notin {"done", "down"}
  /\ stage' = "down"
  /\ UNCHANGED <<virtual, round, conn, plan, planned, outcome, memory, file, clock, history>>

\* A new server with the same state_path: warm_start reads the file, the
\* rounds count from 1, and every client joins anew.
Restart ==
  /\ ~virtual /\ stage \in {"down", "done"} /\ \A c \in Clients : conn[c] < MaxConns
  /\ stage' = "between" /\ round' = 0
  /\ conn' = [c \in Clients |-> conn[c] + 1]
  /\ plan' = [c \in Clients |-> NoCut] /\ outcome' = [c \in Clients |-> "none"]
  /\ planned' = conn'
  /\ until' = file.until /\ banned' = file.banned
  /\ tables' = [i \in Cids |-> NoTable] /\ restored' = file.tables
  /\ failedAt' = [k \in Clients \X Boundaries |-> 0] /\ unfit' = {}
  /\ UNCHANGED <<virtual, file, clock, learned, rejoined>>

Next ==
  \/ \E S \in SUBSET Clients : Plan(S)
  \/ \E c \in Clients : Reconnect(c) \/ \E o \in Outcomes : Report(c, o)
  \/ Observe \/ ObserveFailures \/ Evaluate \/ Crash \/ Restart

Spec == Init /\ [][Next]_vars

-------------------------------------------------------------------------------
(* Properties *)

\* A cut a virtual client may not be given: it failed with it no longer than
\* failure_cooldown_rounds rounds ago, or is incompatible with it.
Barred(c, b, r) ==
  \/ failedAt[<<c, b>>] # 0 /\ r <= failedAt[<<c, b>>] + Cooldown
  \/ <<c, b>> \in unfit

\* "failures update feasibility": a cut a client has failed with is not given
\* to it again for failure_cooldown_rounds rounds, and one it is incompatible
\* with never, whatever happened in between; and it never has more cuts cooling
\* down than that, so that passing failures alone exhaust no larger catalog.
\* (Between connections the identity changes and the policy is not told: the
\* promise is the virtual run's.)
FailedCutsAvoided ==
  virtual =>
    /\ stage = "fitting" => \A c \in Asked : outcome[c] = "none" => ~Barred(c, plan[c], round)
    /\ stage = "between" => \A c \in Clients :
         Cardinality({b \in Boundaries : Cooling(Cid(c), b, round + 1)}) <= Cooldown

\* The run ends early only for the reason plan_round gives: a client has no
\* feasible cut left.
StopsOnlyWhenInfeasible ==
  stage = "stopped" => \E c \in Clients : Feasible(Cid(c), round) = {}

\* The filter is neither too weak nor too strong: what has failed is avoided for
\* as long as promised, and nothing else ends the run (FeasibilityFilter.feasible
\* and observe_failure, plan_round).
FeasibilitySound == FailedCutsAvoided /\ StopsOnlyWhenInfeasible

\* "No client's observations update another client's table": every cost in
\* memory and in the file was measured with that cut on that client, also when
\* its connection was replaced under the round or by a restart.
PrivateCosts ==
  \A c \in Clients, b \in Boundaries :
    \A t \in {tables[<<c, n>>] : n \in 1..MaxConns} \cup {restored[c], file.tables[c]} :
      t # NoTable /\ t[b] # 0 => <<c, b, t[b]>> \in learned

\* A measurement that was fed to the policy is in the state file until a later
\* one replaces it, across crashes, restarts and rounds without the client.  A
\* client that rejoins a running server is another one to the policy: its next
\* plan starts from the calibration or the restored file again.
LearningKept ==
  \A m \in learned : m[1] \notin rejoined =>
    \/ \E later \in learned : later[1] = m[1] /\ later[2] = m[2] /\ later[3] > m[3]
    \/ file.tables[m[1]] # NoTable /\ file.tables[m[1]][m[2]] = m[3]

\* What a client taught the policy stays with it, and with it only.
LearningSound == PrivateCosts /\ LearningKept
===============================================================================
