--------------------------- MODULE CheckpointProofs ----------------------------
(***************************************************************************)
(* What TLC checks of Placement and Checkpoint on small instances, for     *)
(* every value of the constants.  PlacementInv has three parts: what the   *)
(* filter of a virtual run knows of each failure and when (Remembered),    *)
(* where the latest cost of each cut is kept (Costed), and what the state  *)
(* file still lacks in which stage (Saved).  CheckpointInv adds how far    *)
(* the checkpoint of the round has come.                                   *)
(***************************************************************************)
EXTENDS Checkpoint, FiniteSetTheorems, WellFoundedInduction, TLAPS

Stages == {"between", "fitting", "observed", "evaluating", "stopped", "done", "down"}
Costs == [Boundaries -> Nat]
States == [tables : [Clients -> Costs \cup {NoTable}], until : [Keys -> Nat],
           banned : SUBSET Keys]

Typed ==
  /\ virtual \in Kinds /\ stage \in Stages /\ round \in 0..MaxRounds /\ clock \in Nat
  /\ stage \in {"fitting", "observed", "evaluating"} => round > 0
  /\ conn \in [Clients -> 1..MaxConns] /\ planned \in [Clients -> 1..MaxConns]
  /\ plan \in [Clients -> Boundaries \cup {NoCut}]
  /\ outcome \in [Clients -> Outcomes \cup {"none"}]
  /\ until \in [Keys -> Nat] /\ banned \subseteq Keys
  /\ tables \in [Cids -> Costs \cup {NoTable}]
  /\ restored \in [Clients -> Costs \cup {NoTable}]
  /\ file \in States
  /\ failedAt \in [Clients \X Boundaries -> Nat] /\ unfit \subseteq Clients \X Boundaries
  /\ learned \subseteq Clients \X Boundaries \X Nat /\ rejoined \subseteq Clients

-------------------------------------------------------------------------------
(* The failures of a virtual run *)

\* The outcomes of the round have not been passed to observe_failure yet.
Unheard == stage \in {"fitting", "observed"}

\* The entry a failure makes, when it is known.
Entry(f) == IF f = 0 THEN 0 ELSE f + Cooldown

\* What the filter knows of c and b, but for an outcome it has not heard.
Recorded(c, b) ==
  /\ until[<<Cid(c), b>>] = Entry(failedAt[<<c, b>>])
       \/ (Unheard /\ outcome[c] = "runtime" /\ b = plan[c])
  /\ <<c, b>> \in unfit =>
       <<Cid(c), b>> \in banned \/ (Unheard /\ outcome[c] = "abi" /\ b = plan[c])

\* A client fails at most once a round, so its failures have different rounds.
Remembered ==
  /\ \A c \in Clients : conn[c] = 1 /\ planned[c] = 1
  /\ rejoined = {} /\ clock = round
  /\ \A c \in Clients, b \in Boundaries : failedAt[<<c, b>>] <= round
  /\ \A c \in Clients, b, d \in Boundaries :
       b # d /\ failedAt[<<c, b>>] = failedAt[<<c, d>>] => failedAt[<<c, b>>] = 0
  /\ stage # "down" => \A c \in Clients, b \in Boundaries : Recorded(c, b)
  /\ Unheard => /\ \A c \in Clients : outcome[c] # "none" => c \in Asked
                /\ \A c \in Clients : outcome[c] = "runtime" => failedAt[<<c, plan[c]>>] = round
  /\ stage = "fitting" => \A c \in Clients : outcome[c] = "none" =>
       /\ \A b \in Boundaries : failedAt[<<c, b>>] < round
       /\ c \in Asked => ~Barred(c, plan[c], round)

\* The state file has what the policy knows until the next failures are observed.
Saved ==
  /\ stage = "observed" => file.until = until /\ file.banned = banned
  /\ stage = "evaluating" /\ Asked # {} /\ (\A c \in Asked : outcome[c] \notin Failed) =>
       file.until = until /\ file.banned = banned

-------------------------------------------------------------------------------
(* The measured costs *)

\* state_dict of one client, for any tables: LastTable(c) is Latest(tables, restored, c).
Latest(T, R, c) ==
  LET mine == {n \in 1..MaxConns : T[<<c, n>>] # NoTable}
  IN IF mine = {} THEN R[c] ELSE T[<<c, CHOOSE n \in mine : \A k \in mine : k <= n>>]

\* What state_dict says of a client that has kept its connection.
Current(c) == IF tables[Cid(c)] # NoTable THEN tables[Cid(c)] ELSE restored[c]
Holds(t, m) == t # NoTable /\ t[m[2]] >= m[3]

Costed ==
  /\ \A m \in learned : m[3] \in 1..clock /\ (stage = "fitting" => m[3] < clock)
  /\ stage = "fitting" => clock > 0 /\ \A c \in Asked : tables[<<c, planned[c]>>] # NoTable
  /\ \A c \in Clients \ rejoined :
       /\ stage = "fitting" /\ c \in Asked => planned[c] = conn[c]
       /\ \A n \in 1..MaxConns : tables[<<c, n>>] # NoTable => n = conn[c]
  /\ \A m \in learned : m[1] \notin rejoined =>
       Holds(file.tables[m[1]], m) /\ Holds(Current(m[1]), m)

PlacementInv ==
  /\ Typed /\ (virtual => Remembered /\ Saved) /\ Costed /\ PrivateCosts

-------------------------------------------------------------------------------
(* The checkpoint of the round *)

\* Nothing is moved before all is written, nothing published before all is moved.
Staged ==
  /\ pending \in Nat /\ pointer \in 0..MaxRounds /\ pointer <= round
  /\ copies \in [1..MaxRounds -> States]
  /\ (pending # 0 \/ pointer # 0 \/ placed # {}) => virtual
  /\ \A f \in placed : f \in Nat \X Parts /\ f[1] <= round
  /\ Unheard => pointer < round
  /\ stage # "down" =>
       /\ pending > 0 => Due /\ pointer # round
       /\ pending > 1 => copies[round] = file
       /\ \A p \in Parts : <<round, p>> \in placed /\ pointer # round => pending = 3

CheckpointInv == PlacementInv /\ Staged /\ CheckpointUsable

-------------------------------------------------------------------------------
(* Types, and the tables a state file is made of *)

\* NumRounds has a number for each kind of run.
LEMMA RoundsNat == ASSUME virtual \in Kinds PROVE MaxRounds \in Nat
  BY PlacementAssumption DEF MaxRounds, Kinds

\* With a cut to measure, a table is never mistaken for no table.
LEMMA TableNotEmpty == ASSUME NEW t \in Costs, Boundaries # {} PROVE t # NoTable
  <1>1. DOMAIN t = Boundaries BY DEF Costs
  <1>2. DOMAIN NoTable = {} BY DEF NoTable
  <1> QED BY <1>1, <1>2

\* The current connection of a client is one of its cids.
LEMMA CidIn == ASSUME Typed, NEW c \in Clients PROVE Cid(c) \in Cids
  BY DEF Typed, Cid, Cids

\* A client that was asked has a cut of the catalog.
LEMMA AskedCut == ASSUME Typed, NEW c \in Asked PROVE c \in Clients /\ plan[c] \in Boundaries
  BY DEF Typed, Asked

\* The greatest of a client's connections exists: the first one when counted from MaxConns down.
LEMMA LatestOfMine ==
  ASSUME NEW M \in SUBSET (1..MaxConns), M # {}
  PROVE  (CHOOSE n \in M : \A k \in M : k <= n) \in M
  <1>0. MaxConns \in Nat BY PlacementAssumption
  <1> DEFINE D == {MaxConns - n : n \in M}
  <1>1. D \subseteq Nat BY <1>0
  <1>2. PICK d \in D : \A y \in D : ~(<<y, d>> \in OpToRel(<, Nat))
    <2>1. IsWellFoundedOn(OpToRel(<, Nat), Nat) BY NatLessThanWellFounded
    <2>2. D # {} OBVIOUS
    <2> HIDE DEF D
    <2> QED BY <1>1, <2>1, <2>2, WFMin
  <1>3. PICK n \in M : d = MaxConns - n BY <1>2
  <1>4. \A k \in M : k <= n
    <2> SUFFICES ASSUME NEW k \in M PROVE k <= n OBVIOUS
    <2>1. MaxConns - k \in D /\ MaxConns - k \in Nat /\ d \in Nat BY <1>0, <1>1
    <2>2. ~(MaxConns - k < d) BY <1>2, <2>1 DEF OpToRel
    <2> QED BY <2>2, <1>0, <1>3
  <1> QED BY <1>4

\* state_dict takes a client's table from its own connections or from the restored state,
\* and with one connection planned there is only one to take.
LEMMA LatestIs ==
  ASSUME NEW T, NEW R, NEW c \in Clients
  PROVE  /\ Latest(T, R, c) \in {T[<<c, n>>] : n \in 1..MaxConns} \cup {R[c]}
         /\ \A m \in 1..MaxConns :
              (\A n \in 1..MaxConns : T[<<c, n>>] # NoTable => n = m) =>
                Latest(T, R, c) = IF T[<<c, m>>] # NoTable THEN T[<<c, m>>] ELSE R[c]
  <1> DEFINE mine == {n \in 1..MaxConns : T[<<c, n>>] # NoTable}
             latest == CHOOSE n \in mine : \A k \in mine : k <= n
  <1>0. Latest(T, R, c) = IF mine = {} THEN R[c] ELSE T[<<c, latest>>] BY DEF Latest
  <1>1. mine # {} => latest \in mine
    <2>1. mine \in SUBSET (1..MaxConns) OBVIOUS
    <2> HIDE DEF mine
    <2> QED BY <2>1, LatestOfMine
  <1> HIDE DEF latest
  <1>2. Latest(T, R, c) \in {T[<<c, n>>] : n \in 1..MaxConns} \cup {R[c]} BY <1>0, <1>1
  <1>3. ASSUME NEW m \in 1..MaxConns, \A n \in 1..MaxConns : T[<<c, n>>] # NoTable => n = m
        PROVE  Latest(T, R, c) = IF T[<<c, m>>] # NoTable THEN T[<<c, m>>] ELSE R[c]
    BY <1>0, <1>1, <1>3
  <1> QED BY <1>2, <1>3

\* Typed at the start.
LEMMA TypedInit == Init => Typed
  <1> SUFFICES ASSUME Init PROVE Typed OBVIOUS
  <1>1. MaxRounds \in Nat BY RoundsNat DEF Init
  <1>2. 1 \in 1..MaxConns BY PlacementAssumption
  <1>3. file \in States BY DEF Init, NoState, States
  <1> QED BY <1>1, <1>2, <1>3 DEF Init, Typed, NoState, Stages, Outcomes, Failed

\* Every action keeps the types; a plan opens a round the run has left.
LEMMA PlanTyped == ASSUME Typed, NEW S \in SUBSET Clients, Plan(S) PROVE Typed'
  <1>1. MaxRounds \in Nat /\ MaxRounds' = MaxRounds BY RoundsNat DEF Typed, Plan, MaxRounds
  <1>2. round' \in 0..MaxRounds' /\ round' > 0 BY <1>1 DEF Typed, Plan
  <1>3. Anchors \in Costs BY DEF Anchors, Costs
  <1>4. tables' \in [Cids -> Costs \cup {NoTable}] BY <1>3 DEF Typed, Plan, Cids
  <1>5. plan' \in [Clients -> Boundaries \cup {NoCut}] BY DEF Plan
  <1>6. stage' \in Stages BY DEF Plan, Stages
  <1>7. planned' \in [Clients -> 1..MaxConns] /\ outcome' \in [Clients -> Outcomes \cup {"none"}]
    BY DEF Typed, Plan
  <1> QED BY <1>2, <1>4, <1>5, <1>6, <1>7 DEF Typed, Plan, history, Kinds

\* The end of a fit keeps the types of the outcome and of the history.
LEMMA EndsTyped ==
  ASSUME Typed, NEW c \in Asked, NEW o \in Outcomes, Ends(c, o)
  PROVE  /\ outcome' \in [Clients -> Outcomes \cup {"none"}]
         /\ failedAt' \in [Clients \X Boundaries -> Nat] /\ unfit' \subseteq Clients \X Boundaries
  <1>1. c \in Clients /\ plan[c] \in Boundaries BY AskedCut
  <1>2. round \in Nat BY RoundsNat DEF Typed
  <1> QED BY <1>1, <1>2 DEF Typed, Ends

\* The length of the run depends on its kind alone.
LEMMA SameRounds == ASSUME virtual' = virtual PROVE MaxRounds' = MaxRounds BY DEF MaxRounds

\* An outcome is one of Outcomes.
LEMMA ReportTyped == ASSUME Typed, NEW c \in Clients, NEW o \in Outcomes, Report(c, o) PROVE Typed'
  <1>1. MaxRounds' = MaxRounds BY SameRounds DEF Report
  <1>2. c \in Asked /\ Ends(c, o) BY DEF Report
  <1> QED BY <1>1, <1>2, EndsTyped DEF Typed, Report, memory, Kinds

\* A fit that was under way has failed.
LEMMA ReconnectTyped == ASSUME Typed, NEW c \in Clients, Reconnect(c) PROVE Typed'
  <1>1. MaxRounds' = MaxRounds BY SameRounds DEF Reconnect
  <1>2. conn' \in [Clients -> 1..MaxConns] BY PlacementAssumption DEF Reconnect, Typed
  <1>3. /\ outcome' \in [Clients -> Outcomes \cup {"none"}]
        /\ failedAt' \in [Clients \X Boundaries -> Nat] /\ unfit' \subseteq Clients \X Boundaries
    <2>1. CASE stage = "fitting" /\ c \in Asked /\ outcome[c] = "none"
      <3>1. "runtime" \in Outcomes BY DEF Outcomes, Failed
      <3> QED BY <2>1, <3>1, EndsTyped DEF Reconnect
    <2>2. CASE ~(stage = "fitting" /\ c \in Asked /\ outcome[c] = "none")
      BY <2>2 DEF Reconnect, Typed
    <2> QED BY <2>1, <2>2
  <1> QED BY <1>1, <1>2, <1>3 DEF Typed, Reconnect, memory, Kinds

\* What state_dict writes for a client is a table or none.
LEMMA DictTyped ==
  ASSUME NEW T \in [Cids -> Costs \cup {NoTable}], NEW R \in [Clients -> Costs \cup {NoTable}],
         NEW c \in Clients
  PROVE  Latest(T, R, c) \in Costs \cup {NoTable}
  <1>1. Latest(T, R, c) \in {T[<<c, n>>] : n \in 1..MaxConns} \cup {R[c]} BY LatestIs
  <1>2. \A n \in 1..MaxConns : <<c, n>> \in Cids BY DEF Cids
  <1> QED BY <1>1, <1>2

\* What observe_round makes of the costs and of the file.
LEMMA ObserveMoves ==
  ASSUME Typed, Observe
  PROVE  /\ tables' = [i \in Cids |->
              IF i[1] \in Succeeded /\ i[2] = planned[i[1]]
                THEN [tables[i] EXCEPT ![plan[i[1]]] = clock] ELSE tables[i]]
         /\ file' = [tables |-> [c \in Clients |-> Latest(tables', restored, c)],
                     until |-> until, banned |-> banned]
  <1>1. file' = StateDict' /\ restored' = restored /\ until' = until /\ banned' = banned BY DEF Observe
  <1>2. StateDict' = [tables |-> [c \in Clients |-> LastTable(c)'], until |-> until', banned |-> banned']
    BY DEF StateDict
  <1>3. ASSUME NEW c \in Clients PROVE LastTable(c)' = Latest(tables', restored, c)
    <2>1. LastTable(c)' = Latest(tables', restored', c) BY DEF LastTable, Latest
    <2> QED BY <1>1, <2>1
  <1>4. [c \in Clients |-> LastTable(c)'] = [c \in Clients |-> Latest(tables', restored, c)] BY <1>3
  <1>5. tables' = [i \in Cids |->
          IF i[1] \in Succeeded /\ i[2] = planned[i[1]]
            THEN [tables[i] EXCEPT ![plan[i[1]]] = clock] ELSE tables[i]]
    BY DEF Observe
  <1> QED BY <1>1, <1>2, <1>4, <1>5

\* An executed cut was planned, so its client has a table to write the cost in.
LEMMA ObserveTyped == ASSUME Typed, Costed, Observe PROVE Typed'
  <1>1. MaxRounds' = MaxRounds BY SameRounds DEF Observe
  <1>2. clock \in Nat BY DEF Typed
  <1>3. tables' \in [Cids -> Costs \cup {NoTable}]
    <2>1. ASSUME NEW i \in Cids, i[1] \in Succeeded, i[2] = planned[i[1]]
          PROVE  [tables[i] EXCEPT ![plan[i[1]]] = clock] \in Costs \cup {NoTable}
      <3>1. i[1] \in Asked BY <2>1 DEF Succeeded
      <3>2. i = <<i[1], planned[i[1]]>> BY <2>1 DEF Cids
      <3>3. stage = "fitting" BY DEF Observe
      <3>4. tables[i] # NoTable BY <3>1, <3>2, <3>3 DEF Costed
      <3>5. tables[i] \in Costs BY <3>4 DEF Typed
      <3> QED BY <1>2, <3>5 DEF Costs
    <2>2. \A i \in Cids : tables[i] \in Costs \cup {NoTable} BY DEF Typed
    <2>3. \A i \in Cids : (IF i[1] \in Succeeded /\ i[2] = planned[i[1]]
                              THEN [tables[i] EXCEPT ![plan[i[1]]] = clock] ELSE tables[i])
                            \in Costs \cup {NoTable}
      BY <2>1, <2>2
    <2> QED BY <2>3, ObserveMoves
  <1>4. file' \in States
    <2>1. restored \in [Clients -> Costs \cup {NoTable}] /\ until \in [Keys -> Nat] /\ banned \subseteq Keys
      BY DEF Typed
    <2>2. \A c \in Clients : Latest(tables', restored, c) \in Costs \cup {NoTable} BY <1>3, <2>1, DictTyped
    <2>3. [c \in Clients |-> Latest(tables', restored, c)] \in [Clients -> Costs \cup {NoTable}] BY <2>2
    <2> QED BY <2>1, <2>3, ObserveMoves DEF States
  <1>5. learned' \subseteq Clients \X Boundaries \X Nat
    <2>1. \A c \in Succeeded : c \in Clients /\ plan[c] \in Boundaries BY AskedCut DEF Succeeded
    <2>2. learned \subseteq Clients \X Boundaries \X Nat BY DEF Typed
    <2>3. {<<c, plan[c], clock>> : c \in Succeeded} \subseteq Clients \X Boundaries \X Nat BY <1>2, <2>1
    <2> QED BY <2>2, <2>3 DEF Observe
  <1> QED BY <1>1, <1>3, <1>4, <1>5 DEF Typed, Observe, Kinds, Stages

\* The entries are of connections that were asked.
LEMMA FailuresTyped == ASSUME Typed, ObserveFailures PROVE Typed'
  <1>1. MaxRounds' = MaxRounds BY SameRounds DEF ObserveFailures
  <1>2. round \in Nat /\ round + Cooldown \in Nat BY RoundsNat, PlacementAssumption DEF Typed
  <1>3. until' \in [Keys -> Nat] BY <1>2 DEF ObserveFailures, Typed, AfterFailure
  <1>4. banned' \subseteq Keys
    <2>1. \A c \in Named : c \in Asked BY DEF Named
    <2> QED BY <2>1, AskedCut, CidIn DEF ObserveFailures, Typed, Keys
  <1>5. round > 0 BY DEF Typed, ObserveFailures
  <1> QED BY <1>1, <1>3, <1>4, <1>5 DEF Typed, ObserveFailures, Kinds, Stages, history

\* Only the stage changes.
LEMMA EvaluateTyped == ASSUME Typed, Evaluate PROVE Typed'
  <1>1. MaxRounds' = MaxRounds BY SameRounds DEF Evaluate
  <1> QED BY <1>1 DEF Typed, Evaluate, Kinds, Stages, history, memory

\* Only the stage changes.
LEMMA CrashTyped == ASSUME Typed, Crash PROVE Typed'
  <1>1. MaxRounds' = MaxRounds BY SameRounds DEF Crash
  <1> QED BY <1>1 DEF Typed, Crash, Kinds, Stages, history, memory

\* What is read from the file was typed when it was written.
LEMMA RestartTyped == ASSUME Typed, Restart PROVE Typed'
  <1>1. MaxRounds' = MaxRounds BY SameRounds DEF Restart
  <1>2. MaxRounds \in Nat BY RoundsNat DEF Typed
  <1>3. conn' \in [Clients -> 1..MaxConns] BY PlacementAssumption DEF Restart, Typed
  <1>4. /\ tables' \in [Cids -> Costs \cup {NoTable}] /\ until' \in [Keys -> Nat]
        /\ restored' \in [Clients -> Costs \cup {NoTable}] /\ banned' \subseteq Keys
    BY DEF Restart, Typed, States
  <1> QED BY <1>1, <1>2, <1>3, <1>4 DEF Typed, Restart, Kinds, Stages, Outcomes

-------------------------------------------------------------------------------
(* Private costs *)

\* No table, no cost.
LEMMA PrivateInit == Init => PrivateCosts
  <1> SUFFICES ASSUME Init PROVE PrivateCosts OBVIOUS
  <1>1. ASSUME NEW c \in Clients
        PROVE  /\ \A n \in 1..MaxConns : tables[<<c, n>>] = NoTable
               /\ restored[c] = NoTable /\ file.tables[c] = NoTable
    BY DEF Init, NoState, Cids
  <1> SUFFICES ASSUME NEW c \in Clients,
                      NEW t \in {tables[<<c, n>>] : n \in 1..MaxConns} \cup {restored[c], file.tables[c]}
               PROVE  t = NoTable
    BY DEF PrivateCosts
  <1>2. CASE t \in {tables[<<c, n>>] : n \in 1..MaxConns} BY <1>1, <1>2
  <1>3. CASE t \in {restored[c], file.tables[c]} BY <1>1, <1>3
  <1> QED BY <1>2, <1>3

\* PrivateCosts only looks at the tables, the restored ones and the file.
LEMMA PrivateFrame ==
  ASSUME PrivateCosts, UNCHANGED <<tables, restored, file>>, learned \subseteq learned'
  PROVE  PrivateCosts'
  BY DEF PrivateCosts

\* A new table is the client's restored one or the calibration, which was measured on nobody.
LEMMA PlanPrivate == ASSUME Typed, PrivateCosts, NEW S \in SUBSET Clients, Plan(S) PROVE PrivateCosts'
  <1>1. UNCHANGED <<restored, file, learned>> BY DEF Plan, history
  <1>2. ASSUME NEW c \in Clients, NEW n \in 1..MaxConns
        PROVE  tables'[<<c, n>>] \in {tables[<<c, n>>], restored[c], Anchors}
    BY DEF Plan, Cids
  <1>3. ASSUME NEW b \in Boundaries PROVE Anchors[b] = 0 BY DEF Anchors
  <1> SUFFICES ASSUME NEW c \in Clients, NEW b \in Boundaries,
                      NEW t \in {tables'[<<c, n>>] : n \in 1..MaxConns} \cup {restored[c], file.tables[c]},
                      t # NoTable, t[b] # 0
               PROVE  <<c, b, t[b]>> \in learned
    BY <1>1 DEF PrivateCosts
  <1>4. t \in {tables[<<c, n>>] : n \in 1..MaxConns} \cup {restored[c], file.tables[c]}
    BY <1>2, <1>3
  <1> QED BY <1>4 DEF PrivateCosts

\* A measured cost is written under the client's own cid, and the file is made of its own tables.
LEMMA ObservePrivate == ASSUME Typed, Costed, PrivateCosts, Observe PROVE PrivateCosts'
  <1>1. learned \subseteq learned' /\ restored' = restored BY DEF Observe
  <1>2. ASSUME NEW c \in Clients, NEW n \in 1..MaxConns, NEW b \in Boundaries,
               tables'[<<c, n>>] # NoTable, tables'[<<c, n>>][b] # 0
        PROVE  <<c, b, tables'[<<c, n>>][b]>> \in learned'
    <2>1. <<c, n>> \in Cids BY DEF Cids
    <2>2. CASE c \in Succeeded /\ n = planned[c]
      <3>1. c \in Asked BY <2>2 DEF Succeeded
      <3>2. tables[<<c, n>>] \in Costs /\ tables[<<c, n>>] # NoTable
        BY <2>1, <2>2, <3>1 DEF Costed, Typed, Observe
      <3>3. tables'[<<c, n>>] = [tables[<<c, n>>] EXCEPT ![plan[c]] = clock]
        BY <2>1, <2>2, ObserveMoves
      <3>4. <<c, plan[c], clock>> \in learned' BY <2>2 DEF Observe
      <3>5. CASE b = plan[c] BY <3>2, <3>3, <3>4, <3>5 DEF Costs
      <3>6. CASE b # plan[c]
        <4>1. tables'[<<c, n>>][b] = tables[<<c, n>>][b] BY <3>2, <3>3, <3>6 DEF Costs
        <4> QED BY <1>1, <1>2, <4>1, <3>2 DEF PrivateCosts
      <3> QED BY <3>5, <3>6
    <2>3. CASE ~(c \in Succeeded /\ n = planned[c])
      <3>1. tables'[<<c, n>>] = tables[<<c, n>>] BY <2>1, <2>3, ObserveMoves
      <3> QED BY <1>1, <1>2, <3>1 DEF PrivateCosts
    <2> QED BY <2>2, <2>3
  <1>3. ASSUME NEW c \in Clients
        PROVE  file'.tables[c] \in {tables'[<<c, n>>] : n \in 1..MaxConns} \cup {restored[c]}
    BY ObserveMoves, LatestIs
  <1> SUFFICES ASSUME NEW c \in Clients, NEW b \in Boundaries,
                      NEW t \in {tables'[<<c, n>>] : n \in 1..MaxConns} \cup {restored[c]},
                      t # NoTable, t[b] # 0
               PROVE  <<c, b, t[b]>> \in learned'
    BY <1>1, <1>3 DEF PrivateCosts
  <1>4. CASE t = restored[c] BY <1>1, <1>4 DEF PrivateCosts
  <1>5. CASE t \in {tables'[<<c, n>>] : n \in 1..MaxConns} BY <1>2, <1>5
  <1> QED BY <1>4, <1>5

\* The restored tables are the file's.
LEMMA RestartPrivate == ASSUME Typed, PrivateCosts, Restart PROVE PrivateCosts'
  <1>1. /\ \A c \in Clients, n \in 1..MaxConns : tables'[<<c, n>>] = NoTable
        /\ restored' = file.tables /\ UNCHANGED <<file, learned>>
    BY DEF Restart, Cids
  <1> QED BY <1>1 DEF PrivateCosts

\* PrivateCosts is inductive, given Typed and Costed.
LEMMA PrivateStep ==
  ASSUME Typed, Costed, PrivateCosts, [Next]_vars PROVE PrivateCosts'
  <1>1. ASSUME NEW S \in SUBSET Clients, Plan(S) PROVE PrivateCosts' BY <1>1, PlanPrivate
  <1>2. ASSUME NEW c \in Clients, Reconnect(c) PROVE PrivateCosts'
    BY <1>2, PrivateFrame DEF Reconnect, memory
  <1>3. ASSUME NEW c \in Clients, NEW o \in Outcomes, Report(c, o) PROVE PrivateCosts'
    BY <1>3, PrivateFrame DEF Report, memory
  <1>4. CASE Observe BY <1>4, ObservePrivate
  <1>5. CASE ObserveFailures BY <1>5, PrivateFrame DEF ObserveFailures, history
  <1>6. CASE Evaluate BY <1>6, PrivateFrame DEF Evaluate, history, memory
  <1>7. CASE Crash BY <1>7, PrivateFrame DEF Crash, history, memory
  <1>8. CASE Restart BY <1>8, RestartPrivate
  <1>9. CASE UNCHANGED vars BY <1>9, PrivateFrame DEF vars, memory, history
  <1> QED BY <1>1, <1>2, <1>3, <1>4, <1>5, <1>6, <1>7, <1>8, <1>9 DEF Next

-------------------------------------------------------------------------------
(* Where the costs are kept *)

\* Nothing was learned yet.
LEMMA CostedInit == Init => Costed
  <1> SUFFICES ASSUME Init PROVE Costed OBVIOUS
  <1>1. learned = {} /\ stage = "between" /\ tables = [i \in Cids |-> NoTable] BY DEF Init
  <1> QED BY <1>1 DEF Costed, Cids

\* The first three parts of Costed and the fourth, which the actions that touch no
\* cost keep together.
LEMMA CostedFrame ==
  ASSUME Typed, Costed, UNCHANGED <<tables, restored, file, learned, clock, planned, plan>>,
         rejoined \subseteq rejoined',
         \A c \in Clients \ rejoined' : conn'[c] = conn[c],
         stage' = "fitting" => stage = "fitting"
  PROVE  Costed'
  <1>1. (\A m \in learned : m[3] \in 1..clock /\ (stage = "fitting" => m[3] < clock))'
    BY DEF Costed
  <1>2. (stage = "fitting" => clock > 0 /\ \A c \in Asked : tables[<<c, planned[c]>>] # NoTable)'
    BY DEF Costed, Asked
  <1>3. (\A c \in Clients \ rejoined :
           /\ stage = "fitting" /\ c \in Asked => planned[c] = conn[c]
           /\ \A n \in 1..MaxConns : tables[<<c, n>>] # NoTable => n = conn[c])'
    BY DEF Costed, Asked
  <1>4. ASSUME NEW m \in learned, m[1] \notin rejoined'
        PROVE  Holds(file.tables[m[1]], m) /\ Holds(Current(m[1])', m)
    <2>1. m[1] \in Clients /\ m[1] \notin rejoined BY <1>4 DEF Typed
    <2>2. Current(m[1])' = Current(m[1]) BY <1>4, <2>1 DEF Current, Cid
    <2> QED BY <2>1, <2>2 DEF Costed
  <1>5. (\A m \in learned : m[1] \notin rejoined =>
           Holds(file.tables[m[1]], m) /\ Holds(Current(m[1]), m))'
    BY <1>4 DEF Holds
  <1> QED BY <1>1, <1>2, <1>3, <1>5 DEF Costed

\* A plan makes a table for the connection it asks, from the restored one if there is one,
\* and loses no cost by it.
LEMMA PlanCosted == ASSUME Typed, Costed, NEW S \in SUBSET Clients, Plan(S) PROVE Costed'
  <1>0. /\ UNCHANGED <<conn, restored, file, learned, rejoined>> /\ clock' = clock + 1
        /\ clock \in Nat
    BY DEF Plan, history, Typed
  <1>1. ASSUME NEW c \in Clients, NEW n \in 1..MaxConns, tables'[<<c, n>>] # tables[<<c, n>>]
        PROVE  /\ c \in S /\ n = conn[c] /\ tables[<<c, n>>] = NoTable
               /\ tables'[<<c, n>>] = IF restored[c] # NoTable THEN restored[c] ELSE Anchors
    BY <1>1 DEF Plan, Cids, Cid
  <1>2. (\A m \in learned : m[3] \in 1..clock /\ (stage = "fitting" => m[3] < clock))'
    BY <1>0 DEF Costed, Typed
  <1>3. ASSUME stage' = "fitting", NEW c \in Asked'
        PROVE  /\ c \in S /\ c \in Clients /\ planned'[c] = conn[c]
               /\ tables'[<<c, conn[c]>>] # NoTable
    <2>1. c \in S /\ c \in Clients /\ plan'[c] \in Boundaries
      BY <1>3 DEF Plan, Asked, Feasible
    <2>2. planned'[c] = conn[c] BY <2>1 DEF Plan
    <2>3. <<c, conn[c]>> \in Cids BY <2>1 DEF Typed, Cids
    <2>4. Anchors # NoTable
      <3>1. Anchors \in Costs BY DEF Anchors, Costs
      <3> QED BY <2>1, <3>1, TableNotEmpty
    <2>5. tables'[<<c, conn[c]>>] = IF tables[<<c, conn[c]>>] # NoTable THEN tables[<<c, conn[c]>>]
                                    ELSE IF restored[c] # NoTable THEN restored[c] ELSE Anchors
      BY <1>3, <2>1, <2>3 DEF Plan, Cid
    <2> QED BY <2>1, <2>2, <2>4, <2>5
  <1>4. (stage = "fitting" => clock > 0 /\ \A c \in Asked : tables[<<c, planned[c]>>] # NoTable)'
    <2>1. clock' > 0 BY <1>0
    <2>2. ASSUME stage' = "fitting", NEW c \in Asked' PROVE tables'[<<c, planned'[c]>>] # NoTable
      BY <1>3, <2>2
    <2> QED BY <2>1, <2>2
  <1>5. (\A c \in Clients \ rejoined :
           /\ stage = "fitting" /\ c \in Asked => planned[c] = conn[c]
           /\ \A n \in 1..MaxConns : tables[<<c, n>>] # NoTable => n = conn[c])'
    <2> SUFFICES ASSUME NEW c \in Clients \ rejoined, NEW n \in 1..MaxConns, tables'[<<c, n>>] # NoTable
                 PROVE  n = conn[c]
      BY <1>0, <1>3
    <2> QED BY <1>1 DEF Costed
  <1>6. ASSUME NEW m \in learned, m[1] \notin rejoined
        PROVE  Holds(file.tables[m[1]], m) /\ Holds(Current(m[1])', m)
    <2>1. m[1] \in Clients /\ conn[m[1]] \in 1..MaxConns BY DEF Typed
    <2>2. Holds(Current(m[1]), m) BY <1>6 DEF Costed
    <2>3. Current(m[1])' = Current(m[1])
      BY <1>0, <1>1, <2>1, <2>2 DEF Current, Cid, Holds
    <2> QED BY <1>6, <2>2, <2>3 DEF Costed
  <1>7. (\A m \in learned : m[1] \notin rejoined =>
           Holds(file.tables[m[1]], m) /\ Holds(Current(m[1]), m))'
    BY <1>0, <1>6 DEF Holds
  <1> QED BY <1>2, <1>4, <1>5, <1>7 DEF Costed

\* The new costs replace older ones in memory, and the file then says what the memory says.
LEMMA ObserveCosted == ASSUME Typed, Costed, Observe PROVE Costed'
  <1>0. /\ UNCHANGED <<conn, plan, planned, restored, rejoined, clock>> /\ clock \in Nat /\ clock > 0
        /\ stage = "fitting" /\ stage' = "observed"
        /\ learned' = learned \cup {<<c, plan[c], clock>> : c \in Succeeded}
    BY DEF Observe, Typed, Costed
  <1>1. (\A m \in learned : m[3] \in 1..clock /\ (stage = "fitting" => m[3] < clock))'
    BY <1>0 DEF Costed
  <1>2. ASSUME NEW c \in Clients, NEW n \in 1..MaxConns
        PROVE  tables'[<<c, n>>] = IF c \in Succeeded /\ n = planned[c]
                 THEN [tables[<<c, n>>] EXCEPT ![plan[c]] = clock] ELSE tables[<<c, n>>]
    BY ObserveMoves DEF Cids
  <1>3. ASSUME NEW c \in Clients, c \notin rejoined
        PROVE  /\ \A n \in 1..MaxConns : tables'[<<c, n>>] # NoTable => n = conn[c]
               /\ file'.tables[c] = Current(c)'
    <2>1. \A n \in 1..MaxConns : tables[<<c, n>>] # NoTable => n = conn[c]
      BY <1>3 DEF Costed
    <2>2. c \in Succeeded => planned[c] = conn[c]
      BY <1>0, <1>3 DEF Costed, Succeeded
    <2>3. \A n \in 1..MaxConns : tables'[<<c, n>>] # NoTable => n = conn[c]
      BY <1>2, <2>1, <2>2
    <2>4. conn[c] \in 1..MaxConns BY DEF Typed
    <2>5. Latest(tables', restored, c)
            = IF tables'[<<c, conn[c]>>] # NoTable THEN tables'[<<c, conn[c]>>] ELSE restored[c]
      BY <2>3, <2>4, LatestIs
    <2>6. file'.tables[c] = Latest(tables', restored, c) BY ObserveMoves
    <2> QED BY <1>0, <2>3, <2>5, <2>6 DEF Current, Cid
  <1>4. (\A c \in Clients \ rejoined :
           /\ stage = "fitting" /\ c \in Asked => planned[c] = conn[c]
           /\ \A n \in 1..MaxConns : tables[<<c, n>>] # NoTable => n = conn[c])'
    BY <1>0, <1>3
  <1>5. ASSUME NEW c \in Succeeded, c \notin rejoined
        PROVE  /\ c \in Clients /\ plan[c] \in Boundaries /\ Current(c) \in Costs
               /\ Current(c)' = [Current(c) EXCEPT ![plan[c]] = clock]
               /\ Current(c)' # NoTable
    <2>1. c \in Asked BY DEF Succeeded
    <2>2. c \in Clients /\ plan[c] \in Boundaries BY <2>1, AskedCut
    <2>3. planned[c] = conn[c] /\ conn[c] \in 1..MaxConns BY <1>0, <1>5, <2>1, <2>2 DEF Costed, Typed
    <2>4. tables[<<c, conn[c]>>] # NoTable BY <1>0, <2>1, <2>3 DEF Costed
    <2>5. tables[<<c, conn[c]>>] \in Costs BY <2>2, <2>3, <2>4 DEF Typed, Cids
    <2>6. tables'[<<c, conn[c]>>] = [tables[<<c, conn[c]>>] EXCEPT ![plan[c]] = clock]
      BY <1>2, <2>2, <2>3
    <2>7. tables'[<<c, conn[c]>>] # NoTable
      <3>1. tables'[<<c, conn[c]>>] \in Costs BY <1>0, <2>5, <2>6 DEF Costs
      <3> QED BY <2>2, <3>1, TableNotEmpty
    <2> QED BY <1>0, <2>2, <2>4, <2>5, <2>6, <2>7 DEF Current, Cid
  <1>6. ASSUME NEW c \in Clients, c \notin rejoined, c \notin Succeeded
        PROVE  Current(c)' = Current(c)
    <2>1. conn[c] \in 1..MaxConns BY DEF Typed
    <2> QED BY <1>0, <1>2, <1>6, <2>1 DEF Current, Cid
  <1>7. ASSUME NEW m \in learned', m[1] \notin rejoined
        PROVE  m[1] \in Clients /\ Holds(Current(m[1])', m)
    <2>1. CASE m \in learned
      <3>1. m[1] \in Clients /\ m[2] \in Boundaries /\ m[3] \in Nat /\ m[3] < clock
        BY <1>0, <2>1 DEF Typed, Costed
      <3>2. Holds(Current(m[1]), m) BY <1>7, <2>1 DEF Costed
      <3>3. CASE m[1] \in Succeeded
        <4> DEFINE t == Current(m[1])
                   u == Current(m[1])'
        <4>1. t \in Costs /\ u = [t EXCEPT ![plan[m[1]]] = clock] /\ u # NoTable BY <1>5, <1>7, <3>3
        <4>2. t[m[2]] >= m[3] BY <3>2 DEF Holds
        <4> HIDE DEF t, u
        <4>3. u[m[2]] >= m[3] BY <1>0, <3>1, <4>1, <4>2 DEF Costs
        <4> QED BY <3>1, <4>1, <4>3 DEF Holds, u
      <3>4. CASE m[1] \notin Succeeded BY <1>6, <1>7, <3>1, <3>2, <3>4
      <3> QED BY <3>3, <3>4
    <2>2. CASE m \notin learned
      <3>1. PICK c \in Succeeded : m = <<c, plan[c], clock>> BY <1>0, <1>7, <2>2
      <3>2. c \notin rejoined BY <1>7, <3>1
      <3>3. Current(c)'[plan[c]] = clock /\ Current(c)' # NoTable /\ c \in Clients
        BY <1>5, <3>2 DEF Costs
      <3> QED BY <1>0, <3>1, <3>3 DEF Holds
    <2> QED BY <2>1, <2>2
  <1>8. (\A m \in learned : m[1] \notin rejoined =>
           Holds(file.tables[m[1]], m) /\ Holds(Current(m[1]), m))'
    <2> SUFFICES ASSUME NEW m \in learned', m[1] \notin rejoined
                 PROVE  Holds(file'.tables[m[1]], m) /\ Holds(Current(m[1])', m)
      BY <1>0 DEF Holds
    <2> QED BY <1>3, <1>7
  <1> QED BY <1>0, <1>1, <1>4, <1>8 DEF Costed

\* What the new process starts from is what the file held.
LEMMA RestartCosted == ASSUME Typed, Costed, Restart PROVE Costed'
  <1>0. /\ UNCHANGED <<file, learned, clock, rejoined>> /\ stage' = "between"
        /\ restored' = file.tables
        /\ \A c \in Clients, n \in 1..MaxConns : tables'[<<c, n>>] = NoTable
    BY DEF Restart, Cids
  <1>1. ASSUME NEW m \in learned, m[1] \notin rejoined
        PROVE  Holds(file.tables[m[1]], m) /\ Holds(Current(m[1])', m)
    <2>1. m[1] \in Clients BY DEF Typed
    <2>2. conn'[m[1]] \in 1..MaxConns BY <2>1, RestartTyped DEF Typed
    <2>3. Current(m[1])' = file.tables[m[1]] BY <1>0, <2>1, <2>2 DEF Current, Cid
    <2> QED BY <1>1, <2>3 DEF Costed
  <1>2. (\A m \in learned : m[1] \notin rejoined =>
           Holds(file.tables[m[1]], m) /\ Holds(Current(m[1]), m))'
    BY <1>0, <1>1 DEF Holds
  <1> QED BY <1>0, <1>2 DEF Costed

\* Costed is inductive, given Typed.
LEMMA CostedStep == ASSUME Typed, Costed, [Next]_vars PROVE Costed'
  <1>1. ASSUME NEW S \in SUBSET Clients, Plan(S) PROVE Costed' BY <1>1, PlanCosted
  <1>2. ASSUME NEW c \in Clients, Reconnect(c) PROVE Costed'
    <2>1. \A d \in Clients \ rejoined' : conn'[d] = conn[d] BY <1>2 DEF Reconnect, Typed
    <2> QED BY <1>2, <2>1, CostedFrame DEF Reconnect, memory
  <1>3. ASSUME NEW c \in Clients, NEW o \in Outcomes, Report(c, o) PROVE Costed'
    BY <1>3, CostedFrame DEF Report, memory
  <1>4. CASE Observe BY <1>4, ObserveCosted
  <1>5. CASE ObserveFailures BY <1>5, CostedFrame DEF ObserveFailures, history
  <1>6. CASE Evaluate BY <1>6, CostedFrame DEF Evaluate, history, memory
  <1>7. CASE Crash BY <1>7, CostedFrame DEF Crash, history, memory
  <1>8. CASE Restart BY <1>8, RestartCosted
  <1>9. CASE UNCHANGED vars BY <1>9, CostedFrame DEF vars, memory, history
  <1> QED BY <1>1, <1>2, <1>3, <1>4, <1>5, <1>6, <1>7, <1>8, <1>9 DEF Next

-------------------------------------------------------------------------------
(* The failures of a virtual run *)

\* Nobody has failed yet.
LEMMA RememberedInit == Init => Remembered /\ Saved
  <1> SUFFICES ASSUME Init PROVE Remembered /\ Saved OBVIOUS
  <1>1. 1 \in 1..MaxConns BY PlacementAssumption
  <1>2. \A c \in Clients, b \in Boundaries : until[<<Cid(c), b>>] = 0 /\ failedAt[<<c, b>>] = 0
    BY <1>1 DEF Init, NoState, Cid, Keys, Cids
  <1>3. /\ \A c \in Clients : conn[c] = 1 /\ planned[c] = 1
        /\ rejoined = {} /\ clock = 0 /\ round = 0 /\ stage = "between" /\ unfit = {}
    BY DEF Init
  <1>4. \A c \in Clients, b \in Boundaries : Recorded(c, b) BY <1>2, <1>3 DEF Recorded, Entry
  <1>5. Saved BY <1>3 DEF Saved
  <1>6. \A c \in Clients, b \in Boundaries : failedAt[<<c, b>>] <= round
    <2>1. round = 0 /\ 0 <= 0 BY <1>3
    <2> QED BY <1>2, <2>1
  <1>7. ~Unheard BY <1>3 DEF Unheard
  <1> QED BY <1>2, <1>3, <1>4, <1>5, <1>6, <1>7 DEF Remembered

\* The steps by which no outcome is made or heard, and no process ends.
LEMMA RememberedFrame ==
  ASSUME Remembered, UNCHANGED <<conn, planned, rejoined, clock, round, failedAt, unfit,
                                 until, banned, outcome, plan>>,
         \/ stage' = stage
         \/ stage' = "down"
         \/ stage = "fitting" /\ stage' = "observed"
         \/ ~Unheard /\ stage' \in {"between", "stopped", "done"} /\ stage # "down"
  PROVE  Remembered'
  <1>1. (stage # "down" => \A c \in Clients, b \in Boundaries : Recorded(c, b))'
    BY DEF Remembered, Recorded, Unheard, Cid
  <1> QED BY <1>1 DEF Remembered, Unheard, Asked, Barred

\* Between the rounds every failure has been heard, so what the filter lets through is not barred.
LEMMA CooledNotBarred ==
  ASSUME Typed, Remembered, ~Unheard, stage # "down", NEW c \in Clients,
         NEW b \in Feasible(Cid(c), round + 1)
  PROVE  ~Barred(c, b, round + 1)
  <1>1. b \in Boundaries /\ <<Cid(c), b>> \notin banned /\ ~(round + 1 <= until[<<Cid(c), b>>])
    BY DEF Feasible, Cooling
  <1>2. until[<<Cid(c), b>>] = Entry(failedAt[<<c, b>>]) /\ <<c, b>> \notin unfit
    BY <1>1 DEF Remembered, Recorded
  <1> QED BY <1>1, <1>2 DEF Barred, Entry

\* Only a cut the filter lets through is planned.
LEMMA PlanRemembered ==
  ASSUME Typed, virtual, Remembered, NEW S \in SUBSET Clients, Plan(S) PROVE Remembered'
  <1>0. /\ UNCHANGED <<conn, until, banned, failedAt, unfit, rejoined>>
        /\ round' = round + 1 /\ clock' = clock + 1 /\ round \in Nat
        /\ outcome' = [c \in Clients |-> "none"] /\ stage' # "observed"
        /\ stage = "between" /\ ~Unheard
    BY RoundsNat DEF Plan, history, Typed, Unheard
  <1>1. \A c \in Clients : conn[c] = 1 /\ planned'[c] = 1 BY DEF Plan, Remembered
  <1>2. clock' = round' BY <1>0 DEF Remembered
  <1>3. \A c \in Clients, b \in Boundaries : failedAt[<<c, b>>] < round'
    <2> SUFFICES ASSUME NEW c \in Clients, NEW b \in Boundaries PROVE failedAt[<<c, b>>] < round + 1
      BY <1>0
    <2>1. failedAt[<<c, b>>] \in Nat /\ failedAt[<<c, b>>] <= round BY DEF Typed, Remembered
    <2> QED BY <1>0, <2>1
  <1>4. \A c \in Clients, b \in Boundaries : Recorded(c, b)'
    BY <1>0 DEF Remembered, Recorded, Cid
  <1>5. ASSUME stage' = "fitting", NEW c \in Asked', c \in Clients PROVE ~Barred(c, plan[c], round)'
    <2>1. c \in S /\ plan'[c] \in Feasible(Cid(c), round + 1) BY <1>5 DEF Plan, Asked
    <2>2. ~Barred(c, plan'[c], round + 1) BY <1>0, <1>5, <2>1, CooledNotBarred
    <2> QED BY <1>0, <2>2 DEF Barred
  <1>6. \A c \in Clients, b, d \in Boundaries :
          b # d /\ failedAt[<<c, b>>] = failedAt[<<c, d>>] => failedAt[<<c, b>>] = 0
    BY DEF Remembered
  <1>7. \A c \in Clients : outcome'[c] = "none" BY <1>0
  <1>8. \A c \in Clients, b \in Boundaries : failedAt[<<c, b>>] <= round'
    <2> SUFFICES ASSUME NEW c \in Clients, NEW b \in Boundaries PROVE failedAt[<<c, b>>] <= round + 1
      BY <1>0
    <2>1. failedAt[<<c, b>>] \in Nat /\ failedAt[<<c, b>>] <= round BY DEF Typed, Remembered
    <2> QED BY <1>0, <2>1
  <1> QED
    <2>1. (Unheard => /\ \A c \in Clients : outcome[c] # "none" => c \in Asked
                      /\ \A c \in Clients : outcome[c] = "runtime" => failedAt[<<c, plan[c]>>] = round)'
      BY <1>7
    <2>2. (stage = "fitting" => \A c \in Clients : outcome[c] = "none" =>
            /\ \A b \in Boundaries : failedAt[<<c, b>>] < round
            /\ c \in Asked => ~Barred(c, plan[c], round))'
      BY <1>0, <1>3, <1>5
    <2> QED BY <1>0, <1>1, <1>2, <1>4, <1>6, <1>8, <2>1, <2>2 DEF Remembered

\* A fit that ends for the first time in this round makes an entry of this round only.
LEMMA ReportRemembered ==
  ASSUME Typed, virtual, Remembered, NEW d \in Clients, NEW o \in Outcomes, Report(d, o) PROVE Remembered'
  <1>0. /\ UNCHANGED <<virtual, stage, round, conn, plan, planned, until, banned, clock, rejoined>>
        /\ stage = "fitting" /\ Unheard /\ d \in Asked /\ outcome[d] = "none"
        /\ plan[d] \in Boundaries /\ round \in Nat /\ round > 0 /\ Unheard' /\ Asked' = Asked
    BY AskedCut, RoundsNat DEF Report, memory, Unheard, Typed, Asked
  <1>1. /\ outcome' = [outcome EXCEPT ![d] = o]
        /\ failedAt' = IF o = "runtime" THEN [failedAt EXCEPT ![<<d, plan[d]>>] = round] ELSE failedAt
        /\ unfit' = IF o = "abi" THEN unfit \cup {<<d, plan[d]>>} ELSE unfit
    BY DEF Report, Ends
  <1>2. ASSUME NEW c \in Clients, c # d
        PROVE  /\ outcome'[c] = outcome[c]
               /\ \A b \in Boundaries : /\ failedAt'[<<c, b>>] = failedAt[<<c, b>>]
                                        /\ <<c, b>> \in unfit' <=> <<c, b>> \in unfit
    BY <1>1, <1>2 DEF Typed
  <1>3. ASSUME NEW b \in Boundaries
        PROVE  /\ failedAt'[<<d, b>>] = IF o = "runtime" /\ b = plan[d] THEN round ELSE failedAt[<<d, b>>]
               /\ <<d, b>> \in unfit' <=> (<<d, b>> \in unfit \/ (o = "abi" /\ b = plan[d]))
    BY <1>0, <1>1 DEF Typed
  <1>4. outcome'[d] = o /\ o # "none" BY <1>1 DEF Typed, Outcomes, Failed
  <1>5. \A b \in Boundaries : failedAt[<<d, b>>] \in Nat /\ failedAt[<<d, b>>] < round
    BY <1>0 DEF Remembered, Typed
  <1>6. \A c \in Clients, b \in Boundaries : failedAt'[<<c, b>>] <= round
    <2> SUFFICES ASSUME NEW c \in Clients, NEW b \in Boundaries PROVE failedAt'[<<c, b>>] <= round
      OBVIOUS
    <2>1. failedAt[<<c, b>>] <= round /\ round <= round BY <1>0 DEF Remembered
    <2> QED BY <1>2, <1>3, <2>1
  <1>7. \A c \in Clients, b, e \in Boundaries :
          b # e /\ failedAt'[<<c, b>>] = failedAt'[<<c, e>>] => failedAt'[<<c, b>>] = 0
    <2> SUFFICES ASSUME NEW c \in Clients, NEW b \in Boundaries, NEW e \in Boundaries, b # e,
                        failedAt'[<<c, b>>] = failedAt'[<<c, e>>]
                 PROVE  failedAt'[<<c, b>>] = 0
      OBVIOUS
    <2>1. CASE c # d BY <1>2, <2>1 DEF Remembered
    <2>2. CASE c = d /\ o # "runtime" BY <1>3, <2>2 DEF Remembered
    <2>3. CASE c = d /\ o = "runtime" BY <1>0, <1>3, <1>5, <2>3 DEF Remembered
    <2> QED BY <2>1, <2>2, <2>3
  <1>8. \A c \in Clients, b \in Boundaries : Recorded(c, b)'
    <2> SUFFICES ASSUME NEW c \in Clients, NEW b \in Boundaries PROVE Recorded(c, b)' OBVIOUS
    <2>0. Recorded(c, b) BY <1>0 DEF Remembered
    <2>1. CASE c # d BY <1>0, <1>2, <2>0, <2>1 DEF Recorded, Cid
    <2>2. CASE c = d BY <1>0, <1>3, <1>4, <2>0, <2>2 DEF Recorded, Cid
    <2> QED BY <2>1, <2>2
  <1>9. \A c \in Clients : outcome'[c] = "runtime" => failedAt'[<<c, plan[c]>>] = round
    <2> SUFFICES ASSUME NEW c \in Clients, outcome'[c] = "runtime" PROVE failedAt'[<<c, plan[c]>>] = round
      OBVIOUS
    <2>1. CASE c = d BY <1>0, <1>3, <1>4, <2>1
    <2>2. CASE c # d
      <3>1. c \in Asked /\ failedAt[<<c, plan[c]>>] = round BY <1>0, <1>2, <2>2 DEF Remembered
      <3> QED BY <1>2, <2>2, <3>1, AskedCut
    <2> QED BY <2>1, <2>2
  <1>10. ASSUME NEW c \in Clients, outcome'[c] = "none"
         PROVE  /\ \A b \in Boundaries : failedAt'[<<c, b>>] < round
                /\ c \in Asked => ~Barred(c, plan[c], round)'
    <2>1. c # d /\ outcome[c] = "none" BY <1>2, <1>4, <1>10
    <2>2. c \in Asked => plan[c] \in Boundaries BY AskedCut
    <2> QED BY <1>0, <1>2, <2>1, <2>2 DEF Remembered, Barred
  <1>11. \A c \in Clients : outcome'[c] # "none" => c \in Asked
    BY <1>0, <1>2 DEF Remembered
  <1> QED BY <1>0, <1>6, <1>7, <1>8, <1>9, <1>10, <1>11 DEF Remembered

\* observe_failure records every outcome that was still unheard.
LEMMA FailuresRemembered ==
  ASSUME Typed, virtual, Remembered, ObserveFailures PROVE Remembered'
  <1>0. /\ UNCHANGED <<virtual, round, conn, plan, planned, outcome, clock, failedAt, unfit, rejoined>>
        /\ stage = "observed" /\ stage' = "evaluating" /\ Unheard /\ ~Unheard'
        /\ Named = {c \in Asked : outcome[c] \in Failed} /\ round \in Nat
    BY RoundsNat DEF ObserveFailures, history, Unheard, Named, Typed
  <1>1. ASSUME NEW c \in Clients, NEW b \in Boundaries PROVE Recorded(c, b)'
    <2>0. /\ Recorded(c, b) /\ <<Cid(c), b>> \in Keys /\ Cid(c)' = Cid(c) /\ Cid(c)[1] = c
          /\ \A d \in Clients : Cid(d) = Cid(c) => d = c
      BY <1>0, CidIn DEF Remembered, Keys, Cid
    <2>1. outcome[c] \in {"runtime", "abi"} => c \in Named
      BY <1>0 DEF Remembered, Failed
    <2>2. until'[<<Cid(c), b>>] = IF c \in Named /\ b = plan[c]
            THEN AfterFailure(until[<<Cid(c), b>>], outcome[c], round) ELSE until[<<Cid(c), b>>]
      BY <2>0 DEF ObserveFailures
    <2>3. <<Cid(c), b>> \in banned' <=>
            (<<Cid(c), b>> \in banned \/ (c \in Named /\ outcome[c] = "abi" /\ b = plan[c]))
      <3>1. banned' = banned \cup {<<Cid(d), plan[d]>> : d \in {e \in Named : outcome[e] = "abi"}}
        BY DEF ObserveFailures
      <3>2. \A d \in Named : d \in Clients BY DEF Named, Asked
      <3> QED BY <2>0, <3>1, <3>2
    <2>4. until'[<<Cid(c), b>>] = Entry(failedAt[<<c, b>>])
      <3>1. CASE outcome[c] = "runtime" /\ b = plan[c]
        <4>1. failedAt[<<c, b>>] = round /\ round > 0
          BY <1>0, <3>1 DEF Remembered, Typed
        <4> QED BY <1>0, <2>1, <2>2, <3>1, <4>1 DEF AfterFailure, Entry
      <3>2. CASE ~(outcome[c] = "runtime" /\ b = plan[c])
        <4>1. until[<<Cid(c), b>>] = Entry(failedAt[<<c, b>>]) BY <2>0, <3>2 DEF Recorded
        <4> QED BY <2>2, <3>2, <4>1 DEF AfterFailure
      <3> QED BY <3>1, <3>2
    <2>5. <<c, b>> \in unfit => <<Cid(c), b>> \in banned'
      BY <2>0, <2>1, <2>3 DEF Recorded
    <2> QED BY <1>0, <2>0, <2>4, <2>5 DEF Recorded
  <1> QED BY <1>0, <1>1 DEF Remembered

\* Remembered is inductive in a virtual run.
LEMMA RememberedStep ==
  ASSUME Typed, virtual, Remembered, [Next]_vars PROVE virtual' /\ Remembered'
  <1>1. ASSUME NEW S \in SUBSET Clients, Plan(S) PROVE virtual' /\ Remembered'
    <2>1. virtual' BY <1>1 DEF Plan
    <2> QED BY <1>1, <2>1, PlanRemembered
  <1>2. ASSUME NEW c \in Clients, Reconnect(c) PROVE FALSE BY <1>2 DEF Reconnect
  <1>3. ASSUME NEW c \in Clients, NEW o \in Outcomes, Report(c, o) PROVE virtual' /\ Remembered'
    <2>1. virtual' BY <1>3 DEF Report
    <2> QED BY <1>3, <2>1, ReportRemembered
  <1>4. CASE Observe
    <2>1. virtual' BY <1>4 DEF Observe
    <2> QED BY <1>4, <2>1, RememberedFrame DEF Observe
  <1>5. CASE ObserveFailures
    <2>1. virtual' BY <1>5 DEF ObserveFailures
    <2> QED BY <1>5, <2>1, FailuresRemembered
  <1>6. CASE Evaluate
    <2>1. virtual' BY <1>6 DEF Evaluate
    <2>2. ~Unheard /\ stage' \in {"between", "stopped", "done"} /\ stage # "down"
      BY <1>6 DEF Evaluate, Unheard
    <2> QED BY <1>6, <2>1, <2>2, RememberedFrame DEF Evaluate, history, memory
  <1>7. CASE Crash
    <2>1. virtual' BY <1>7 DEF Crash
    <2> QED BY <1>7, <2>1, RememberedFrame DEF Crash, history, memory
  <1>8. CASE Restart BY <1>8 DEF Restart
  <1>9. CASE UNCHANGED vars
    <2>1. virtual' BY <1>9 DEF vars
    <2> QED BY <1>9, <2>1, RememberedFrame DEF vars, memory, history
  <1> QED BY <1>1, <1>2, <1>3, <1>4, <1>5, <1>6, <1>7, <1>8, <1>9 DEF Next

\* Saved only looks at two stages.
LEMMA SavedFrame ==
  ASSUME Saved, UNCHANGED <<until, banned, file, outcome, plan>>,
         stage' \notin {"observed", "evaluating"} \/ stage' = stage
  PROVE  Saved'
  BY DEF Saved, Asked

\* Without a failure there is nothing to observe after the file was written.
LEMMA SavedStep ==
  ASSUME Typed, virtual, Saved, [Next]_vars PROVE Saved'
  <1>1. ASSUME NEW S \in SUBSET Clients, Plan(S) PROVE Saved'
    <2>1. stage' # "observed" BY <1>1 DEF Plan
    <2>2. stage' = "evaluating" => Asked' = {} BY <1>1 DEF Plan, Asked
    <2> QED BY <2>1, <2>2 DEF Saved
  <1>2. ASSUME NEW c \in Clients, Reconnect(c) PROVE FALSE BY <1>2 DEF Reconnect
  <1>3. ASSUME NEW c \in Clients, NEW o \in Outcomes, Report(c, o) PROVE Saved'
    BY <1>3 DEF Report, Saved
  <1>4. CASE Observe BY <1>4, ObserveMoves DEF Observe, Saved
  <1>5. CASE ObserveFailures
    <2> SUFFICES ASSUME \A c \in Asked : outcome[c] \notin Failed
                 PROVE  file'.until = until' /\ file'.banned = banned'
      BY <1>5 DEF Saved, ObserveFailures, Asked
    <2>1. Named = {} BY DEF Named
    <2>2. until' = until
      <3>1. \A k \in Keys : until'[k] = until[k] BY <1>5, <2>1 DEF ObserveFailures
      <3>2. until \in [Keys -> Nat] /\ until' \in [Keys -> Nat]
        BY <1>5, FailuresTyped DEF Typed
      <3> QED BY <3>1, <3>2
    <2>3. banned' = banned BY <1>5, <2>1 DEF ObserveFailures
    <2> QED BY <1>5, <2>2, <2>3 DEF Saved, ObserveFailures
  <1>6. CASE Evaluate BY <1>6, SavedFrame DEF Evaluate, memory
  <1>7. CASE Crash BY <1>7, SavedFrame DEF Crash, memory
  <1>8. CASE Restart BY <1>8 DEF Restart
  <1>9. CASE UNCHANGED vars BY <1>9, SavedFrame DEF vars, memory
  <1> QED BY <1>1, <1>2, <1>3, <1>4, <1>5, <1>6, <1>7, <1>8, <1>9 DEF Next

\* Typed is inductive, given Costed.
LEMMA TypedStep == ASSUME Typed, Costed, [Next]_vars PROVE Typed'
  <1>1. CASE UNCHANGED vars
    <2>1. MaxRounds' = MaxRounds BY <1>1, SameRounds DEF vars
    <2> QED BY <1>1, <2>1 DEF Typed, vars, memory, history, Kinds
  <1> QED BY <1>1, PlanTyped, ReconnectTyped, ReportTyped, ObserveTyped, FailuresTyped, EvaluateTyped,
             CrashTyped, RestartTyped DEF Next

\* A run never changes its kind.
LEMMA SameKind == ASSUME [Next]_vars PROVE virtual' = virtual
  BY DEF Next, Plan, Reconnect, Report, Observe, ObserveFailures, Evaluate, Crash, Restart, vars

\* The first states satisfy PlacementInv.
LEMMA PlacementInit == Init => PlacementInv
  BY TypedInit, RememberedInit, CostedInit, PrivateInit DEF PlacementInv

\* PlacementInv is inductive.
LEMMA PlacementStep == PlacementInv /\ [Next]_vars => PlacementInv'
  <1> SUFFICES ASSUME PlacementInv, [Next]_vars PROVE PlacementInv' OBVIOUS
  <1>1. Typed' /\ Costed' /\ PrivateCosts'
    BY TypedStep, CostedStep, PrivateStep DEF PlacementInv
  <1>2. virtual' => Remembered' /\ Saved'
    BY RememberedStep, SavedStep, SameKind DEF PlacementInv
  <1> QED BY <1>1, <1>2 DEF PlacementInv

-------------------------------------------------------------------------------
(* The filter and what was learned *)

\* The cuts cooling down for a client failed in different ones of the last
\* Cooldown rounds.
LEMMA FewCooling ==
  ASSUME Typed, Remembered, stage = "between", NEW c \in Clients
  PROVE  Cardinality({b \in Boundaries : Cooling(Cid(c), b, round + 1)}) <= Cooldown
  <1> DEFINE C == {b \in Boundaries : Cooling(Cid(c), b, round + 1)}
             I == (round + 1 - Cooldown)..round
  <1>0. round \in Nat /\ Cooldown \in Nat /\ Cooldown # 0 BY RoundsNat, PlacementAssumption DEF Typed
  <1>1. ASSUME NEW b \in C
        PROVE  failedAt[<<c, b>>] \in I /\ failedAt[<<c, b>>] # 0
    <2>1. b \in Boundaries /\ round + 1 <= until[<<Cid(c), b>>] BY DEF Cooling
    <2>2. until[<<Cid(c), b>>] = Entry(failedAt[<<c, b>>]) /\ failedAt[<<c, b>>] <= round
      BY <2>1 DEF Remembered, Recorded, Unheard
    <2>3. failedAt[<<c, b>>] \in Nat BY <2>1 DEF Typed
    <2> QED BY <1>0, <2>1, <2>2, <2>3 DEF Entry
  <1>2. \A b, d \in C : failedAt[<<c, b>>] = failedAt[<<c, d>>] => b = d
    BY <1>1 DEF Remembered
  <1>3. IsFiniteSet(I) /\ Cardinality(I) = Cooldown
    <2>1. round + 1 - Cooldown \in Int /\ round \in Int BY <1>0
    <2>2. IsFiniteSet(I) /\ Cardinality(I) =
            IF round + 1 - Cooldown > round THEN 0 ELSE round - (round + 1 - Cooldown) + 1
      BY <2>1, FS_Interval
    <2> QED BY <1>0, <2>2
  <1>4. IsFiniteSet(C)
    <2>1. C \subseteq Boundaries /\ IsFiniteSet(Boundaries) BY PlacementAssumption
    <2> HIDE DEF C
    <2> QED BY <2>1, FS_Subset
  <1>5. [b \in C |-> failedAt[<<c, b>>]] \in Injection(C, I)
    <2> DEFINE f == [b \in C |-> failedAt[<<c, b>>]]
    <2>1. f \in [C -> I] BY <1>1
    <2>2. \A b, d \in C : f[b] = f[d] => b = d BY <1>2
    <2> HIDE DEF C, I, f
    <2>3. f \in Injection(C, I) BY <2>1, <2>2 DEF Injection, IsInjective
    <2> QED BY <2>3 DEF f
  <1>6. Cardinality(C) <= Cardinality(I)
    <2> HIDE DEF C, I
    <2> QED BY <1>3, <1>4, <1>5, FS_Injection
  <1> QED BY <1>3, <1>6

\* PlacementInv implies FailedCutsAvoided.
LEMMA FailedAvoided == PlacementInv => FailedCutsAvoided
  <1> SUFFICES ASSUME PlacementInv, virtual
               PROVE  /\ stage = "fitting" => \A c \in Asked : outcome[c] = "none" => ~Barred(c, plan[c], round)
                      /\ stage = "between" => \A c \in Clients :
                           Cardinality({b \in Boundaries : Cooling(Cid(c), b, round + 1)}) <= Cooldown
    BY DEF FailedCutsAvoided
  <1>1. Typed /\ Remembered BY DEF PlacementInv
  <1>2. stage = "fitting" => \A c \in Asked : outcome[c] = "none" => ~Barred(c, plan[c], round)
    BY <1>1 DEF Remembered, Asked
  <1> QED BY <1>1, <1>2, FewCooling

\* Only plan_round stops a run whose clients are not sampled for evaluation.
LEMMA StopsStep ==
  ASSUME ~Evaluates, StopsOnlyWhenInfeasible, [Next]_vars PROVE StopsOnlyWhenInfeasible'
  <1>1. ASSUME NEW S \in SUBSET Clients, Plan(S) PROVE StopsOnlyWhenInfeasible'
    BY <1>1 DEF Plan, StopsOnlyWhenInfeasible, Feasible, Cooling, Cid
  <1>2. ASSUME stage' # "stopped" PROVE StopsOnlyWhenInfeasible'
    BY <1>2 DEF StopsOnlyWhenInfeasible
  <1>3. CASE UNCHANGED vars
    BY <1>3 DEF vars, memory, StopsOnlyWhenInfeasible, Feasible, Cooling, Cid
  <1>4. ASSUME NEW c \in Clients, Reconnect(c) PROVE stage' # "stopped" BY <1>4 DEF Reconnect
  <1>5. ASSUME NEW c \in Clients, NEW o \in Outcomes, Report(c, o) PROVE stage' # "stopped"
    BY <1>5 DEF Report
  <1>6. Evaluate => stage' # "stopped" BY DEF Evaluate
  <1>7. Observe \/ ObserveFailures \/ Crash \/ Restart => stage' # "stopped"
    BY DEF Observe, ObserveFailures, Crash, Restart
  <1> QED BY <1>1, <1>2, <1>3, <1>4, <1>5, <1>6, <1>7 DEF Next

\* PlacementInv implies LearningKept: a higher stamp in the file was learned too.
LEMMA LearnedKept == PlacementInv => LearningKept
  <1> SUFFICES ASSUME PlacementInv, NEW m \in learned, m[1] \notin rejoined
               PROVE  \/ \E later \in learned : later[1] = m[1] /\ later[2] = m[2] /\ later[3] > m[3]
                      \/ file.tables[m[1]] # NoTable /\ file.tables[m[1]][m[2]] = m[3]
    BY DEF LearningKept
  <1>0. Typed /\ Costed /\ PrivateCosts BY DEF PlacementInv
  <1> DEFINE t == file.tables[m[1]]
  <1>1. m[1] \in Clients /\ m[2] \in Boundaries /\ m[3] \in Nat /\ m[3] > 0
    BY <1>0 DEF Typed, Costed
  <1>2. t # NoTable /\ t[m[2]] >= m[3] BY <1>0 DEF Costed, Holds
  <1>3. t[m[2]] \in Nat
    <2>1. t \in Costs BY <1>0, <1>1, <1>2 DEF Typed, States
    <2> HIDE DEF t
    <2> QED BY <1>1, <2>1 DEF Costs
  <1>4. CASE t[m[2]] # m[3]
    <2>1. t[m[2]] > m[3] /\ t[m[2]] # 0
      <3> HIDE DEF t
      <3> QED BY <1>1, <1>2, <1>3, <1>4
    <2>2. <<m[1], m[2], t[m[2]]>> \in learned BY <1>0, <1>1, <1>2, <2>1 DEF PrivateCosts
    <2> QED BY <2>1, <2>2
  <1> QED BY <1>2, <1>4

-------------------------------------------------------------------------------
(* The checkpoint of the round *)

\* Three files make a checkpoint.
LEMMA ThreeParts == Cardinality(Parts) = 3
  <1>1. IsFiniteSet({}) /\ Cardinality({}) = 0 BY FS_EmptySet
  <1>2. IsFiniteSet({"model"}) /\ Cardinality({"model"}) = 1 BY FS_Singleton
  <1>3. IsFiniteSet({"model", "controller"}) /\ Cardinality({"model", "controller"}) = 2
    <2>1. {"model", "controller"} = {"model"} \cup {"controller"} /\ "controller" \notin {"model"} OBVIOUS
    <2> QED BY <1>2, <2>1, FS_AddElement
  <1>4. Cardinality({"model", "controller"} \cup {"record"}) = 3
    <2>1. "record" \notin {"model", "controller"} OBVIOUS
    <2> QED BY <1>3, <2>1, FS_AddElement
  <1>5. Parts = {"model", "controller"} \cup {"record"} BY DEF Parts
  <1> QED BY <1>4, <1>5

\* The first states satisfy CheckpointInv.
LEMMA CheckpointsInit == CheckpointInit => CheckpointInv
  <1> SUFFICES ASSUME CheckpointInit PROVE CheckpointInv OBVIOUS
  <1>1. PlacementInv BY PlacementInit DEF CheckpointInit
  <1>2. MaxRounds \in Nat /\ round = 0 /\ stage = "between" /\ pending = 0 /\ placed = {} /\ pointer = 0
    BY <1>1, RoundsNat DEF CheckpointInit, Init, PlacementInv, Typed
  <1>3. copies \in [1..MaxRounds -> States]
    <2>1. NoState \in States BY DEF NoState, States
    <2> QED BY <2>1 DEF CheckpointInit
  <1>4. Staged BY <1>2, <1>3 DEF Staged, Unheard
  <1>5. CheckpointUsable BY <1>2 DEF CheckpointUsable, PointerComplete, ControllerCopyCurrent
  <1> QED BY <1>1, <1>4, <1>5 DEF CheckpointInv

\* Rounds are numbers up to the length of the run.
LEMMA RoundsOf == ASSUME Typed PROVE MaxRounds \in Nat /\ round \in Nat /\ round <= MaxRounds
  BY RoundsNat DEF Typed

\* Writing files changes nothing of the run.
LEMMA PlacementKept == ASSUME PlacementInv, UNCHANGED vars PROVE PlacementInv'
  BY PlacementStep

\* What the pointer names stays usable when only other files change.
LEMMA UsableFrame ==
  ASSUME CheckpointUsable, UNCHANGED <<vars, pointer>>, placed \subseteq placed',
         pointer # 0 => copies'[pointer] = copies[pointer]
  PROVE  CheckpointUsable'
  <1>1. PointerComplete' BY DEF CheckpointUsable, PointerComplete
  <1>2. ControllerCopyCurrent'
    BY DEF CheckpointUsable, ControllerCopyCurrent, vars, memory, history, Cid
  <1> QED BY <1>1, <1>2 DEF CheckpointUsable

\* A checkpoint is due in a round that has begun and whose failures were heard.
LEMMA DueRound == ASSUME Typed, Due PROVE round \in 1..MaxRounds /\ ~Unheard /\ virtual /\ Asked # {}
  BY RoundsOf DEF Due, Typed, Unheard

\* Writing files does not change what is due.
LEMMA DueKept == ASSUME UNCHANGED vars PROVE Due' = Due /\ Unheard' = Unheard /\ MaxRounds' = MaxRounds
  BY DEF vars, Due, Unheard, Asked, MaxRounds, history, memory

\* Writing touches the pending directory and the copy of this round only, which the pointer does
\* not name.
LEMMA WriteChecked == ASSUME CheckpointInv, Write PROVE CheckpointInv'
  <1>0. Typed /\ Staged /\ Due /\ PlacementInv BY DEF CheckpointInv, PlacementInv, Write
  <1>1. /\ UNCHANGED <<vars, placed, pointer>> /\ pointer # round /\ pending < 3 /\ pending' = pending + 1
        /\ copies' = IF pending' = 2 THEN [copies EXCEPT ![round] = file] ELSE copies
        /\ round' = round /\ virtual' = virtual /\ stage' = stage /\ file' = file
    BY ThreeParts DEF Write, vars
  <1>2. Due' = Due /\ Unheard' = Unheard /\ MaxRounds' = MaxRounds BY <1>1, DueKept
  <1>3. round \in 1..MaxRounds /\ virtual /\ file \in States /\ pending \in Nat
    BY <1>0, DueRound DEF Typed, Staged
  <1>4. copies' \in [1..MaxRounds -> States] BY <1>0, <1>1, <1>3 DEF Staged
  <1>5. pending' > 1 => copies'[round] = file
    <2>1. CASE pending' = 2 BY <1>0, <1>1, <1>3, <2>1 DEF Staged
    <2>2. CASE pending' # 2 BY <1>0, <1>1, <1>3, <2>2 DEF Staged, Due
    <2> QED BY <2>1, <2>2
  <1>6. \A p \in Parts : <<round, p>> \notin placed
    BY <1>0, <1>1 DEF Staged, Due
  <1>7. Staged' BY <1>0, <1>1, <1>2, <1>3, <1>4, <1>5, <1>6 DEF Staged
  <1>8. CheckpointUsable'
    <2>1. pointer # 0 => copies'[pointer] = copies[pointer]
      BY <1>0, <1>1, <1>3 DEF Staged
    <2> QED BY <1>1, <2>1, UsableFrame DEF CheckpointInv
  <1> QED BY <1>0, <1>1, <1>7, <1>8, PlacementKept DEF CheckpointInv

\* A part is moved when all three are complete.
LEMMA MoveChecked == ASSUME CheckpointInv, NEW p \in Parts, Move(p) PROVE CheckpointInv'
  <1>0. Typed /\ Staged /\ Due /\ PlacementInv BY DEF CheckpointInv, PlacementInv, Move
  <1>1. /\ UNCHANGED <<vars, pending, copies, pointer>> /\ pointer # round /\ pending = 3
        /\ placed' = placed \cup {<<round, p>>}
        /\ round' = round /\ virtual' = virtual /\ stage' = stage /\ file' = file
    BY ThreeParts DEF Move, vars
  <1>2. Due' = Due /\ Unheard' = Unheard /\ MaxRounds' = MaxRounds BY <1>1, DueKept
  <1>3. round \in Nat /\ virtual BY <1>0, RoundsOf, DueRound
  <1>4. \A f \in placed' : f \in Nat \X Parts /\ f[1] <= round BY <1>0, <1>1, <1>3 DEF Staged
  <1>5. Staged' BY <1>0, <1>1, <1>2, <1>3, <1>4 DEF Staged
  <1>6. CheckpointUsable' BY <1>1, UsableFrame DEF CheckpointInv
  <1> QED BY <1>0, <1>1, <1>5, <1>6, PlacementKept DEF CheckpointInv

\* What is published has three parts, and its copy of the controller is what the policy
\* knows: without failures the file has missed nothing.
LEMMA PublishChecked == ASSUME CheckpointInv, Publish PROVE CheckpointInv'
  <1>0. Typed /\ Staged /\ Due /\ PlacementInv BY DEF CheckpointInv, PlacementInv, Publish
  <1>1. /\ UNCHANGED <<vars, placed, copies>> /\ pointer # round /\ {round} \X Parts \subseteq placed
        /\ pointer' = round /\ pending' = 0
        /\ round' = round /\ virtual' = virtual /\ stage' = stage /\ file' = file
    BY DEF Publish, vars
  <1>2. Due' = Due /\ Unheard' = Unheard /\ MaxRounds' = MaxRounds BY <1>1, DueKept
  <1>3. round \in 1..MaxRounds /\ ~Unheard /\ virtual /\ Asked # {} BY <1>0, DueRound
  <1>4. stage = "evaluating" /\ \A c \in Asked : outcome[c] \notin Failed BY <1>0 DEF Due
  <1>5. Staged' BY <1>0, <1>1, <1>2, <1>3, RoundsOf DEF Staged
  <1>6. copies[round] = file
    <2>1. <<round, "model">> \in placed /\ "model" \in Parts BY <1>1 DEF Parts
    <2> QED BY <1>0, <1>1, <1>4, <2>1 DEF Staged
  <1>7. Remembered /\ Saved /\ Costed BY <1>0, <1>3 DEF PlacementInv
  <1>8. file.until = until /\ file.banned = banned BY <1>3, <1>4, <1>7 DEF Saved
  <1>9. ASSUME NEW c \in Clients, NEW b \in Boundaries
        PROVE  /\ failedAt[<<c, b>>] \in 1..round =>
                    file.until[<<Cid(c), b>>] = failedAt[<<c, b>>] + Cooldown
               /\ \A m \in learned : m[1] = c /\ m[2] = b /\ m[3] <= round =>
                    file.tables[c][b] >= m[3]
               /\ <<c, b>> \in unfit => <<Cid(c), b>> \in file.banned
    <2>1. Recorded(c, b) /\ rejoined = {} BY <1>4, <1>7 DEF Remembered
    <2>2. until[<<Cid(c), b>>] = Entry(failedAt[<<c, b>>]) /\ (<<c, b>> \in unfit => <<Cid(c), b>> \in banned)
      BY <1>3, <2>1 DEF Recorded
    <2>3. \A m \in learned : Holds(file.tables[m[1]], m) BY <1>7, <2>1 DEF Costed
    <2>4. failedAt[<<c, b>>] \in 1..round => Entry(failedAt[<<c, b>>]) = failedAt[<<c, b>>] + Cooldown
      BY DEF Entry
    <2> QED BY <1>8, <2>2, <2>3, <2>4 DEF Holds
  <1>10. ControllerCopyCurrent'
    <2>1. UNCHANGED <<failedAt, learned, unfit, copies, conn>>
      BY <1>1 DEF vars, history
    <2> QED BY <1>1, <1>6, <1>9, <2>1 DEF ControllerCopyCurrent, Cid
  <1>11. PointerComplete' BY <1>1 DEF PointerComplete
  <1> QED BY <1>0, <1>1, <1>5, <1>10, <1>11, PlacementKept DEF CheckpointInv, CheckpointUsable

\* What a step of the run may do to a round that is still to be published.
LEMMA RunMoves ==
  ASSUME Typed, [Next]_vars
  PROVE  /\ \/ round' = round
            \/ round' = round + 1 /\ stage = "between" /\ stage' # "down"
            \/ ~virtual
         /\ Unheard' => Unheard \/ round' = round + 1 \/ ~virtual
         /\ stage = "down" /\ virtual => stage' = "down"
  <1>1. ASSUME NEW S \in SUBSET Clients, Plan(S)
        PROVE  round' = round + 1 /\ stage = "between" /\ stage' # "down" BY <1>1 DEF Plan
  <1>2. ASSUME NEW c \in Clients, Reconnect(c) PROVE ~virtual BY <1>2 DEF Reconnect
  <1>3. ASSUME NEW c \in Clients, NEW o \in Outcomes, Report(c, o)
        PROVE  round' = round /\ stage' = stage BY <1>3 DEF Report
  <1>4. Observe => round' = round /\ stage = "fitting" BY DEF Observe
  <1>5. ObserveFailures => round' = round /\ stage = "observed" /\ stage' = "evaluating"
    BY DEF ObserveFailures
  <1>6. Evaluate => round' = round /\ stage = "evaluating" /\ stage' \notin {"fitting", "observed"}
    BY DEF Evaluate
  <1>7. Crash => round' = round /\ stage' = "down" BY DEF Crash
  <1>8. Restart => ~virtual BY DEF Restart
  <1>9. UNCHANGED vars => round' = round /\ stage' = stage BY DEF vars
  <1> QED BY <1>1, <1>2, <1>3, <1>4, <1>5, <1>6, <1>7, <1>8, <1>9 DEF Next, Unheard

\* While a checkpoint is due the run only ends, so its round stays the current one.
LEMMA RunStaged ==
  ASSUME CheckpointInv, [Next]_vars, PlacementInv', UNCHANGED directory, virtual,
         UNCHANGED vars \/ (Due => pointer = round \/ stage' = "down")
  PROVE  Staged'
  <1>0. Typed /\ Staged /\ Typed' BY DEF CheckpointInv, PlacementInv
  <1>1. /\ UNCHANGED <<pending, placed, copies, pointer>> /\ virtual' = virtual
        /\ MaxRounds' = MaxRounds
    BY SameKind, SameRounds DEF directory
  <1>2. round \in Nat /\ pointer \in Nat /\ pointer <= round BY <1>0, RoundsOf DEF Staged
  <1>3. (round' = round) \/ (round' = round + 1 /\ stage = "between" /\ stage' # "down")
    BY <1>0, RunMoves
  <1>4. Unheard' => pointer < round'
    BY <1>0, <1>2, <1>3, RunMoves DEF Staged
  <1>5. \A f \in placed : f \in Nat \X Parts /\ f[1] <= round' BY <1>0, <1>2, <1>3 DEF Staged
  <1>6. ASSUME stage' # "down"
        PROVE  /\ pending > 0 => Due' /\ pointer # round'
               /\ pending > 1 => copies[round'] = file'
               /\ \A p \in Parts : <<round', p>> \in placed /\ pointer # round' => pending = 3
    <2>0. stage # "down" BY <1>0, <1>6, RunMoves
    <2>1. CASE UNCHANGED vars
      BY <1>0, <1>6, <2>0, <2>1, DueKept DEF Staged, vars
    <2>2. CASE Due => pointer = round
      <3>1. ~(pending > 0) /\ pending \in Nat BY <1>0, <2>0, <2>2 DEF Staged
      <3>2. ASSUME NEW p \in Parts, <<round', p>> \in placed PROVE pointer = round'
        <4>1. round' <= round BY <1>0, <3>2 DEF Staged
        <4>2. round' = round BY <1>2, <1>3, <4>1
        <4> QED BY <1>0, <2>0, <3>1, <3>2, <4>2 DEF Staged
      <3> QED BY <3>1, <3>2
    <2> QED BY <1>6, <2>1, <2>2
  <1>7. pointer <= round' BY <1>2, <1>3
  <1> QED BY <1>0, <1>1, <1>4, <1>5, <1>6, <1>7 DEF Staged

\* What is learned or fails later is of a later round than the published one.
LEMMA RunCurrent ==
  ASSUME CheckpointInv, [Next]_vars, UNCHANGED directory, virtual
  PROVE  ControllerCopyCurrent'
  <1> SUFFICES ASSUME pointer # 0, NEW c \in Clients, NEW b \in Boundaries
               PROVE  LET copy == copies[pointer]
                      IN /\ failedAt'[<<c, b>>] \in 1..pointer =>
                              copy.until[<<Cid(c)', b>>] = failedAt'[<<c, b>>] + Cooldown
                         /\ \A m \in learned' : m[1] = c /\ m[2] = b /\ m[3] <= pointer =>
                              copy.tables[c][b] >= m[3]
                         /\ pointer = round' /\ <<c, b>> \in unfit' => <<Cid(c)', b>> \in copy.banned
    BY DEF ControllerCopyCurrent, directory
  <1>0. /\ Typed /\ Staged /\ ControllerCopyCurrent /\ pointer \in Nat /\ round \in Nat /\ pointer <= round
        /\ clock = round
    BY RoundsOf DEF CheckpointInv, PlacementInv, Staged, CheckpointUsable, Remembered
  <1> DEFINE copy == copies[pointer]
  <1>1. /\ failedAt[<<c, b>>] \in 1..pointer => copy.until[<<Cid(c), b>>] = failedAt[<<c, b>>] + Cooldown
        /\ \A m \in learned : m[1] = c /\ m[2] = b /\ m[3] <= pointer => copy.tables[c][b] >= m[3]
        /\ pointer = round /\ <<c, b>> \in unfit => <<Cid(c), b>> \in copy.banned
    BY <1>0 DEF ControllerCopyCurrent
  <1> HIDE DEF copy
  <1>2. Cid(c)' = Cid(c)
    <2>1. conn' = conn
      BY DEF Next, Plan, Reconnect, Report, Observe, ObserveFailures, Evaluate, Crash, Restart, vars
    <2> QED BY <2>1 DEF Cid
  <1>3. failedAt'[<<c, b>>] \in 1..pointer => failedAt'[<<c, b>>] = failedAt[<<c, b>>]
    <2>1. ASSUME NEW d \in Clients, NEW o \in Outcomes, Report(d, o)
          PROVE  failedAt'[<<c, b>>] \in {failedAt[<<c, b>>], round} /\ pointer < round
      <3>1. pointer < round BY <1>0, <2>1 DEF Staged, Unheard, Report
      <3> QED BY <2>1, <3>1, <1>0 DEF Report, Ends, Typed
    <2>2. (\E d \in Clients, o \in Outcomes : Report(d, o)) \/ failedAt' = failedAt
      BY DEF Next, Plan, Reconnect, Observe, ObserveFailures, Evaluate, Crash, Restart, vars, history
    <2> QED BY <1>0, <2>1, <2>2
  <1>4. ASSUME NEW m \in learned' PROVE m \in learned \/ ~(m[3] <= pointer)
    <2>1. CASE Observe
      <3>1. pointer < round BY <1>0, <2>1 DEF Staged, Unheard, Observe
      <3>2. m \in learned \/ m[3] = clock BY <2>1 DEF Observe
      <3> QED BY <1>0, <3>1, <3>2
    <2>2. Observe \/ learned' = learned
      BY DEF Next, Plan, Reconnect, Report, ObserveFailures, Evaluate, Crash, Restart, vars, history
    <2> QED BY <2>1, <2>2
  <1>5. pointer = round' => round' = round /\ (unfit' = unfit \/ pointer < round)
    <2>1. (\E S \in SUBSET Clients : Plan(S)) => round' = round + 1 BY DEF Plan
    <2>2. (\E d \in Clients, o \in Outcomes : Report(d, o)) => pointer < round /\ round' = round
      BY <1>0 DEF Report, Staged, Unheard
    <2>3. \/ \E S \in SUBSET Clients : Plan(S)
          \/ \E d \in Clients, o \in Outcomes : Report(d, o)
          \/ unfit' = unfit /\ round' = round
      BY DEF Next, Reconnect, Observe, ObserveFailures, Evaluate, Crash, Restart, vars, history
    <2> QED BY <1>0, <2>1, <2>2, <2>3
  <1>6. pointer = round' => pointer = round /\ unfit' = unfit BY <1>0, <1>5
  <1> QED BY <1>1, <1>2, <1>3, <1>4, <1>6 DEF copy

\* The rest of the run keeps CheckpointInv.
LEMMA RunChecked ==
  ASSUME CheckpointInv, [Next]_vars, UNCHANGED directory,
         UNCHANGED vars \/ (Due => pointer = round \/ stage' = "down")
  PROVE  CheckpointInv'
  <1>1. PlacementInv' BY PlacementStep DEF CheckpointInv
  <1>2. PointerComplete' BY DEF CheckpointInv, CheckpointUsable, PointerComplete, directory
  <1>3. CASE virtual
    BY <1>1, <1>2, <1>3, RunStaged, RunCurrent DEF CheckpointInv, CheckpointUsable
  <1>4. CASE ~virtual
    <2>0. /\ Staged /\ pending = 0 /\ pointer = 0 /\ placed = {} /\ ~virtual'
          /\ virtual' = virtual
      BY <1>4, SameKind DEF CheckpointInv, Staged
    <2>1. UNCHANGED <<pending, placed, copies, pointer>> BY DEF directory
    <2>2. MaxRounds' = MaxRounds BY <2>0, SameRounds
    <2>3. Typed' BY <1>1 DEF PlacementInv
    <2>4. round' \in Nat /\ (Unheard' => round' > 0) BY <2>2, <2>3, RoundsOf, RoundsNat DEF Typed, Unheard
    <2>5. Staged' BY <2>0, <2>1, <2>2, <2>4 DEF Staged
    <2>6. ControllerCopyCurrent' BY <2>0, <2>1 DEF ControllerCopyCurrent
    <2> QED BY <1>1, <1>2, <2>5, <2>6 DEF CheckpointInv, CheckpointUsable
  <1> QED BY <1>3, <1>4

\* CheckpointInv is inductive.
LEMMA CheckpointStep == CheckpointInv /\ [CheckpointNext]_<<vars, directory>> => CheckpointInv'
  <1> SUFFICES ASSUME CheckpointInv, [CheckpointNext]_<<vars, directory>> PROVE CheckpointInv' OBVIOUS
  <1>1. CASE Write BY <1>1, WriteChecked
  <1>2. ASSUME NEW p \in Parts, Move(p) PROVE CheckpointInv' BY <1>2, MoveChecked
  <1>3. CASE Publish BY <1>3, PublishChecked
  <1>4. CASE Run BY <1>4, RunChecked DEF Run
  <1>5. CASE UNCHANGED <<vars, directory>> BY <1>5, RunChecked
  <1> QED BY <1>1, <1>2, <1>3, <1>4, <1>5 DEF CheckpointNext

\* The invariant of the placement with its checkpoints, type correctness included, in every run.
THEOREM CheckpointInvariant == CheckpointSpec => []CheckpointInv
  BY CheckpointsInit, CheckpointStep, PTL DEF CheckpointSpec

\* "Publishing the pointer last leaves the previous checkpoint usable if a process dies":
\* whenever it dies, for any number of clients, cuts and rounds (CheckpointUsable).
THEOREM PointerUsable == CheckpointSpec => []CheckpointUsable
  BY CheckpointInvariant, PTL DEF CheckpointInv

\* A client's measurements stay with it and with it only, across crashes, restarts and
\* replaced connections (LearningSound).
THEOREM LearningIsSound == CheckpointSpec => []LearningSound
  <1>1. CheckpointInv => LearningSound
    BY LearnedKept DEF CheckpointInv, PlacementInv, LearningSound
  <1> QED BY <1>1, CheckpointInvariant, PTL

\* A cut a virtual client has failed with is not given to it again while it cools down,
\* and no more cuts cool down than that takes (FailedCutsAvoided).
THEOREM CutsAreAvoided == CheckpointSpec => []FailedCutsAvoided
  <1>1. CheckpointInv => FailedCutsAvoided BY FailedAvoided DEF CheckpointInv
  <1> QED BY <1>1, CheckpointInvariant, PTL

\* And only a client without a feasible cut ends the run early, if no client is sampled for
\* evaluation: observe_evaluation takes other arguments than aggregate_evaluate passes, so
\* that with Evaluates the first round ends the run (FeasibilitySound).
THEOREM FilterIsSound == ~Evaluates /\ CheckpointSpec => []FeasibilitySound
  <1> SUFFICES ASSUME ~Evaluates PROVE CheckpointSpec => []FeasibilitySound OBVIOUS
  <1>1. CheckpointInit => StopsOnlyWhenInfeasible
    BY DEF CheckpointInit, Init, StopsOnlyWhenInfeasible
  <1>2. StopsOnlyWhenInfeasible /\ [CheckpointNext]_<<vars, directory>> => StopsOnlyWhenInfeasible'
    <2>1. [CheckpointNext]_<<vars, directory>> => [Next]_vars
      BY DEF CheckpointNext, Write, Move, Publish, Run
    <2> QED BY <2>1, StopsStep
  <1>3. CheckpointSpec => []StopsOnlyWhenInfeasible
    BY <1>1, <1>2, PTL DEF CheckpointSpec
  <1>4. FailedCutsAvoided /\ StopsOnlyWhenInfeasible => FeasibilitySound BY DEF FeasibilitySound
  <1> QED BY <1>3, <1>4, CutsAreAvoided, PTL
================================================================================
