------------------------------ MODULE RequestProofs ------------------------------
(***************************************************************************)
(* The two ways a server and its clients ask each other, for any number of *)
(* them: the batches the clients of a round stream to the server, and the  *)
(* instructions the server has a client carry out.                         *)
(*                                                                         *)
(* RequestGroups: RoundInv is inductive.  Its parts say who is in a group  *)
(* (Membership), who holds a lane (Lanes), and, when one model takes       *)
(* everybody's batches together, that a group is only ready with a request *)
(* of each client the server counts (Everybody) and that nobody is ever    *)
(* more than one batch ahead (Paced).                                      *)
(*                                                                         *)
(* FlowerBridge: BridgeInv adds to OwnAnswer what is on its way through    *)
(* the bridge (InTransit).                                                 *)
(***************************************************************************)
EXTENDS RequestGroups, FlowerBridge, FiniteSetTheorems, TLAPS

Leading == {"group", "slot", "execution"}
Ended   == {"closed", "failed"}

Typed ==
  /\ config \in Configs
  /\ quota \in [Clients -> 0..MaxBatches] /\ sent \in [Clients -> Nat]
  /\ \A c \in Clients : sent[c] <= quota[c]
  /\ active \subseteq Clients
  /\ at \in [Clients -> Awaits]
  /\ open \subseteq Clients /\ members \in [Clients -> SUBSET Clients]
  /\ ready \subseteq open
  /\ answer \in [Clients -> Answers]

\* A group is open while its leader runs; it holds the leader and requests
\* that have no answer yet, or whose handlers were cancelled.
Membership ==
  /\ \A l \in open : l \in members[l]
  /\ \A c \in Clients : c \in open <=> at[c] \in Leading
  /\ \A l \in open : \A c \in members[l] \ {l} :
        at[c] = "failed" \/ (at[c] = "event" /\ answer[c] = "none")
  /\ \A k, l \in open : members[k] \cap members[l] # {} => k = l

\* Nobody waits for an answer outside the groups.
Awaited ==
  \A c \in Clients : at[c] = "event" /\ answer[c] = "none" =>
     \E l \in open : c \in members[l]

\* Executions hold the lanes that are not free, and run ready groups.
Executing == {c \in Clients : at[c] = "execution"}
Lanes ==
  /\ freeLanes \in Nat /\ freeLanes + Cardinality(Executing) = config.lanes
  /\ cancelled \subseteq Executing
  /\ \A c \in Clients : at[c] \in {"slot", "execution"} => c \in ready

\* What the strategy counts: only the end of a stream makes a client inactive.
Counted ==
  active = IF config.stream THEN {c \in Clients : at[c] # "closed"} ELSE Clients

Barrier == config.batch /\ config.common

\* One group at a time, ready with the requests of everybody not yet closed.
Everybody ==
  Barrier => /\ \A k, l \in open : k = l
             /\ \A l \in ready : {c \in Clients : at[c] # "closed"} \subseteq members[l]

Grouped(c) == \E l \in open : c \in members[l]

\* As long as nobody failed outside a group (after that, none becomes ready),
\* everybody is at the same batch: in the group with it, or about to send it.
Intact == \A c \in Clients : at[c] = "failed" => Grouped(c)
Batch(c) == IF Grouped(c) THEN sent[c] ELSE sent[c] + 1
Paced ==
  Barrier /\ Intact =>
     \A c, d \in {e \in Clients : at[e] # "closed"} : Batch(c) = Batch(d)

RoundInv == Typed /\ Membership /\ Awaited /\ Lanes /\ Counted /\ Everybody /\ Paced

\* Executions are as many as the lanes taken, when one begins or ends.
LEMMA LanesCounted ==
  ASSUME GroupAssumption, NEW E \in SUBSET Clients, NEW c
  PROVE  /\ IsFiniteSet(E) /\ Cardinality(E) \in Nat
         /\ c \notin E => Cardinality(E \cup {c}) = Cardinality(E) + 1
         /\ c \in E => Cardinality(E \ {c}) = Cardinality(E) - 1
<1>1. IsFiniteSet(E) /\ Cardinality(E) \in Nat
  BY FS_Subset, FS_CardinalityType DEF GroupAssumption
<1> QED BY <1>1, FS_AddElement, FS_RemoveElement

\* A group of active clients that is as large as the set of them is that set.
LEMMA CompleteIsEverybody ==
  ASSUME GroupAssumption, NEW A \in SUBSET Clients, NEW M \in SUBSET A,
         Cardinality(M) = Cardinality(A)
  PROVE  M = A
<1>1. IsFiniteSet(A)
  BY FS_Subset DEF GroupAssumption
<1> QED BY <1>1, FS_Subset

\* The leader's wait goes on, in another await.
LEMMA LeaderMovesOn ==
  ASSUME RoundInv, NEW l \in open, NEW a \in Leading, at' = [at EXCEPT ![l] = a],
         UNCHANGED <<client, active, groups, answer, config>>
  PROVE  Typed' /\ Membership' /\ Awaited' /\ Counted' /\ Everybody' /\ Paced'
<1> USE DEF RoundInv, Leading, client, groups
<1>0. /\ \A c \in Clients : at'[c] = IF c = l THEN a ELSE at[c]
      /\ at[l] \in Leading /\ l \in Clients
  BY DEF Typed, Membership
<1>1. Typed'
  BY <1>0 DEF Typed, Awaits
<1>2. Membership'
  BY <1>0 DEF Typed, Membership
<1>3. Awaited'
  BY <1>0 DEF Typed, Membership, Awaited
<1>4. \A c \in Clients : at'[c] \in Ended \/ at[c] \in Ended => at'[c] = at[c]
  BY <1>0 DEF Ended
<1>5. Counted'
  BY <1>4 DEF Counted, Ended, Typed
<1>6. Everybody'
  BY <1>4 DEF Everybody, Barrier, Ended, Typed
<1>7. Paced'
  BY <1>4 DEF Paced, Barrier, Intact, Batch, Grouped, Ended, Typed
<1> QED BY <1>1, <1>2, <1>3, <1>5, <1>6, <1>7

\* The leader's group is over: its members have the result, or it has failed.
LEMMA GroupOver ==
  ASSUME RoundInv, NEW l \in open, NEW result \in {"result", "error"},
         result = "result" => l \in ready,
         Leads(l, result), UNCHANGED <<client, active, config>>
  PROVE  Typed' /\ Membership' /\ Awaited' /\ Counted' /\ Everybody' /\ Paced'
<1> USE DEF RoundInv, Leading, client, groups
<1>0. /\ \A c \in Clients : /\ c # l => at'[c] = at[c]
                            /\ answer'[c] = IF c \in members[l] /\ c # l THEN result ELSE answer[c]
                            /\ members'[c] = IF c = l THEN {} ELSE members[c]
      /\ at[l] \in Leading /\ l \in Clients /\ at'[l] \in {"request", "failed"}
      /\ at'[l] = "request" => result = "result"
      /\ open' = open \ {l} /\ ready' = ready \ {l}
  BY DEF Typed, Membership, Leads, Answered
<1>1. Typed'
  BY <1>0 DEF Typed, Awaits, Answers, Leads, Answered
<1>2. Membership'
  BY <1>0 DEF Typed, Membership
<1>3. Awaited'
  BY <1>0 DEF Typed, Membership, Awaited
<1>4. \A c \in Clients : at'[c] = "closed" <=> at[c] = "closed"
  BY <1>0
<1>5. Counted'
  BY <1>4 DEF Counted, Typed
<1>6. Everybody'
  BY <1>0, <1>4 DEF Everybody, Barrier, Typed
<1>7. \A c \in Clients : Grouped(c)' <=> (Grouped(c) /\ c \notin members[l])
  BY <1>0 DEF Grouped, Membership, Typed
<1>8. Paced'
  <2> SUFFICES ASSUME Barrier, Intact',
                      NEW c \in Clients, NEW d \in Clients, at[c] # "closed", at[d] # "closed"
               PROVE  Batch(c)' = Batch(d)'
    BY <1>4 DEF Paced, Barrier
  <2>1. at'[l] = "request" /\ l \in ready
    BY <1>0, <1>7 DEF Intact, Membership
  <2>2. c \in members[l] /\ d \in members[l]
    BY <2>1 DEF Everybody
  <2>3. Intact
    BY <1>0, <1>7, <2>1 DEF Intact, Grouped
  <2>4. sent[c] = sent[d]
    BY <2>2, <2>3 DEF Paced, Batch, Grouped
  <2> QED BY <1>7, <2>2, <2>4 DEF Batch
<1> QED BY <1>1, <1>2, <1>3, <1>5, <1>6, <1>8

\* A handler sends a batch: it leads a new group or joins one of its model.
LEMMA SendKeeps ==
  ASSUME RoundInv, GroupAssumption, NEW c \in Clients, Send(c), config' = config
  PROVE  RoundInv'
<1> USE DEF RoundInv, Leading
<1>0. /\ at[c] = "request" /\ sent[c] < quota[c] /\ c \notin open /\ ~Grouped(c)
      /\ \A d \in Clients : d # c => answer'[d] = answer[d] /\ sent'[d] = sent[d] /\ at'[d] = at[d]
      /\ answer'[c] = "none" /\ sent'[c] = sent[c] + 1
  BY DEF Send, Typed, Membership, Grouped
<1> DEFINE Enters(l) ==
        /\ open' = open \cup {l} /\ l \notin ready
        /\ \A k \in Clients : members'[k] = IF k # l THEN members[k]
                                            ELSE IF l = c THEN {c} ELSE members[l] \cup {c}
        /\ IF l = c THEN Joinable(c) = {} /\ at'[c] = "group"
                    ELSE l \in Joinable(c) /\ at'[c] = "event"
<1>1. \E l \in Clients : Enters(l)
  <2>1. CASE Joinable(c) = {} /\ open' = open \cup {c}
             /\ members' = [members EXCEPT ![c] = {c}] /\ at' = [at EXCEPT ![c] = "group"]
    <3>1. Enters(c)
      BY <1>0, <2>1 DEF Typed
    <3> QED BY <3>1
  <2>2. ASSUME NEW l \in Joinable(c), members' = [members EXCEPT ![l] = @ \cup {c}],
               at' = [at EXCEPT ![c] = "event"], open' = open
        PROVE  \E k \in Clients : Enters(k)
    <3>1. l \in open /\ l \notin ready /\ l \in Clients
      BY DEF Joinable, Typed
    <3>2. Enters(l)
      BY <1>0, <2>2, <3>1 DEF Typed
    <3> QED BY <3>1, <3>2
  <2> QED BY <2>1, <2>2 DEF Send
<1>2. PICK l \in Clients : Enters(l)
  BY <1>1
<1>3. /\ l # c => l \in open
      /\ ready \subseteq ready' /\ ready' \subseteq open'
  BY <1>2 DEF Send, Joinable, Typed
<1>4. Typed'
  <2>1. members' \in [Clients -> SUBSET Clients] /\ at' \in [Clients -> Awaits]
    BY DEF Send, Typed, Joinable, Awaits
  <2> QED BY <1>0, <1>2, <1>3, <2>1 DEF Send, Typed, Configs, Answers
<1>5. Membership'
  BY <1>0, <1>2, <1>3 DEF Membership, Typed, Grouped
<1>6. Awaited'
  BY <1>0, <1>2, <1>3 DEF Awaited, Typed
<1>7. Lanes'
  <2>1. Executing' = Executing
    BY <1>0, <1>2 DEF Executing
  <2> QED BY <1>0, <1>2, <1>3, <2>1 DEF Lanes, Send, Typed
<1>8. Counted'
  BY <1>0, <1>2 DEF Counted, Send, Typed
<1>9. Barrier => ready = {} /\ (open = {} \/ (l \in open /\ open = {l}))
  <2> SUFFICES ASSUME Barrier PROVE ready = {} /\ (open = {} \/ (l \in open /\ open = {l}))
    OBVIOUS
  <2>1. ready = {}
    BY <1>0 DEF Everybody, Grouped, Typed
  <2>2. Joinable(c) = open
    BY <2>1 DEF Joinable, SameModel, Barrier
  <2> QED BY <1>2, <2>1, <2>2 DEF Everybody
<1>10. Barrier => open' = {l}
  BY <1>2, <1>9
<1>11. Everybody'
  <2> SUFFICES ASSUME Barrier, l \in ready'
               PROVE  {d \in Clients : at'[d] # "closed"} \subseteq members'[l]
    BY <1>0, <1>10, <1>3 DEF Everybody, Barrier, Send
  <2>1. Complete(l, members', active)
    BY <1>9 DEF Send
  <2>2. members'[l] \subseteq active
    BY <1>0, <1>2, <1>5, <1>8, <1>10 DEF Membership, Counted, Send, Typed
  <2>3. members'[l] = active
    BY <2>1, <2>2, CompleteIsEverybody DEF Complete, Barrier, Typed
  <2> QED BY <1>8, <2>3 DEF Counted, Send
<1>12. \A d \in Clients : Grouped(d)' <=> (Grouped(d) \/ d = c)
  <2>1. \A k \in open, d \in Clients : d \in members'[k] <=> (d \in members[k] \/ (k = l /\ d = c))
    BY <1>0, <1>2 DEF Typed
  <2>2. \A d \in Clients : l = c => (d \in members'[l] <=> d = c)
    BY <1>2
  <2> QED BY <1>2, <1>3, <2>1, <2>2 DEF Grouped
<1>13. Paced'
  <2> SUFFICES ASSUME Barrier, Intact',
                      NEW d \in Clients, NEW e \in Clients, at'[d] # "closed", at'[e] # "closed"
               PROVE  Batch(d)' = Batch(e)'
    BY <1>0 DEF Paced, Barrier
  <2>1. Intact
    BY <1>0, <1>12 DEF Intact
  <2>2. \A f \in Clients : Batch(f)' = Batch(f)
    BY <1>0, <1>12 DEF Batch
  <2> QED BY <1>0, <2>1, <2>2 DEF Paced
<1> QED BY <1>4, <1>5, <1>6, <1>7, <1>8, <1>11, <1>13

\* The model's method runs on the loop.
LEMMA RunInlineKeeps ==
  ASSUME RoundInv, NEW l \in Clients, RunInline(l), config' = config
  PROVE  RoundInv'
<1> USE DEF RoundInv, Leading
<1>1. PICK result \in {"result", "error"} : Leads(l, result)
  BY DEF RunInline
<1>2. l \in open /\ l \in ready /\ UNCHANGED <<client, active, config>>
  BY DEF RunInline, Typed
<1>3. Typed' /\ Membership' /\ Awaited' /\ Counted' /\ Everybody' /\ Paced'
  BY <1>1, <1>2, GroupOver
<1>4. Lanes'
  <2>1. \A d \in Clients : at'[d] = "execution" <=> at[d] = "execution"
    BY <1>1 DEF RunInline, Leads, Typed
  <2>2. Executing' = Executing
    BY <2>1 DEF Executing
  <2> QED BY <1>1, <1>2, <2>2 DEF Lanes, RunInline, Leads, Answered, Typed
<1> QED BY <1>3, <1>4

LEMMA AwaitSlotKeeps ==
  ASSUME RoundInv, NEW l \in Clients, AwaitSlot(l), config' = config
  PROVE  RoundInv'
<1> USE DEF RoundInv, Leading
<1>1. l \in open /\ at' = [at EXCEPT ![l] = "slot"] /\ l \in ready
  BY DEF AwaitSlot, Typed
<1>2. Typed' /\ Membership' /\ Awaited' /\ Counted' /\ Everybody' /\ Paced'
  BY <1>1, LeaderMovesOn DEF AwaitSlot
<1>3. Lanes'
  <2>1. Executing' = Executing
    BY <1>1 DEF Executing, AwaitSlot, Typed
  <2> QED BY <1>1, <2>1 DEF Lanes, AwaitSlot, groups, Typed
<1> QED BY <1>2, <1>3

LEMMA SubmitKeeps ==
  ASSUME RoundInv, GroupAssumption, NEW l \in Clients, Submit(l), config' = config
  PROVE  RoundInv'
<1> USE DEF RoundInv, Leading
<1>1. l \in open /\ at' = [at EXCEPT ![l] = "execution"] /\ at[l] = "slot"
  BY DEF Submit, Membership
<1>2. Typed' /\ Membership' /\ Awaited' /\ Counted' /\ Everybody' /\ Paced'
  BY <1>1, LeaderMovesOn DEF Submit
<1>3. Lanes'
  <2>1. Executing' = Executing \cup {l} /\ l \notin Executing /\ Executing \subseteq Clients
    BY <1>1 DEF Executing, Typed
  <2>2. Cardinality(Executing') = Cardinality(Executing) + 1 /\ Cardinality(Executing) \in Nat
    BY <2>1, LanesCounted
  <2>3. freeLanes' \in Nat /\ freeLanes' + Cardinality(Executing') = config.lanes
    BY <2>2 DEF Lanes, Submit
  <2> QED BY <1>1, <2>1, <2>3 DEF Lanes, Submit, groups, Typed
<1> QED BY <1>2, <1>3

\* An execution ends, for a leader that is still there or was cancelled.
LEMMA ExecutedKeeps ==
  ASSUME RoundInv, GroupAssumption, NEW l \in Clients, Executed(l), config' = config
  PROVE  RoundInv'
<1> USE DEF RoundInv, Leading
<1>1. PICK result \in {"result", "error"} : Leads(l, result)
  BY DEF Executed
<1>2. l \in open /\ l \in ready /\ UNCHANGED <<client, active, config>>
  BY DEF Executed, Lanes, Typed
<1>3. Typed' /\ Membership' /\ Awaited' /\ Counted' /\ Everybody' /\ Paced'
  BY <1>1, <1>2, GroupOver
<1>4. Lanes'
  <2>1. \A d \in Clients : at'[d] = "execution" <=> (at[d] = "execution" /\ d # l)
    BY <1>1 DEF Leads, Typed
  <2>2. Executing' = Executing \ {l} /\ l \in Executing /\ Executing \subseteq Clients
    BY <2>1 DEF Executing, Executed
  <2>3. Cardinality(Executing') = Cardinality(Executing) - 1 /\ Cardinality(Executing) \in Nat
    BY <2>2, LanesCounted
  <2>4. freeLanes' \in Nat /\ freeLanes' + Cardinality(Executing') = config.lanes
    BY <2>3 DEF Lanes, Executed, Typed, Configs
  <2> QED BY <1>1, <1>2, <2>2, <2>4 DEF Lanes, Executed, Leads, Answered, Typed
<1> QED BY <1>3, <1>4

\* A member wakes up, which its group has left behind.
LEMMA WakeKeeps ==
  ASSUME RoundInv, NEW c \in Clients, Wake(c), config' = config
  PROVE  RoundInv'
<1> USE DEF RoundInv, Leading, client, groups
<1>1. /\ at[c] = "event" /\ answer[c] # "none" /\ at'[c] \in {"request", "failed"}
      /\ \A d \in Clients : d # c => at'[d] = at[d]
      /\ ~Grouped(c)
  BY DEF Wake, Typed, Membership, Grouped
<1>2. Typed'
  BY DEF Wake, Typed, Awaits
<1>3. Membership' /\ Awaited'
  BY <1>1 DEF Wake, Typed, Membership, Awaited
<1>4. Lanes'
  <2>1. Executing' = Executing
    BY <1>1 DEF Executing
  <2> QED BY <1>1, <2>1 DEF Lanes, Wake
<1>5. Counted' /\ Everybody'
  BY <1>1 DEF Wake, Typed, Counted, Everybody, Barrier
<1>6. Paced'
  BY <1>1 DEF Wake, Paced, Barrier, Intact, Batch, Grouped
<1> QED BY <1>2, <1>3, <1>4, <1>5, <1>6

\* A client has no more batches: its going can complete a group.
LEMMA CloseKeeps ==
  ASSUME RoundInv, GroupAssumption, NEW c \in Clients, Close(c), config' = config
  PROVE  RoundInv'
<1> USE DEF RoundInv, Leading, client
<1>1. /\ at[c] = "request" /\ at'[c] = "closed" /\ ~Grouped(c)
      /\ \A d \in Clients : d # c => at'[d] = at[d]
      /\ UNCHANGED <<open, members, answer, cancelled, freeLanes, client>>
      /\ ready \subseteq ready' /\ ready' \subseteq open
  BY DEF Close, Typed, Membership, Grouped
<1>2. Typed'
  BY <1>1 DEF Close, Typed, Awaits
<1>3. Membership' /\ Awaited'
  BY <1>1 DEF Typed, Membership, Awaited
<1>4. Lanes'
  <2>1. Executing' = Executing
    BY <1>1 DEF Executing
  <2> QED BY <1>1, <2>1 DEF Lanes
<1>5. Counted'
  BY <1>1 DEF Close, Typed, Counted
<1>6. Everybody'
  <2> SUFFICES ASSUME Barrier, NEW l \in ready'
               PROVE  {d \in Clients : at'[d] # "closed"} \subseteq members[l]
    BY <1>1 DEF Everybody, Barrier
  <2>1. CASE l \in ready
    BY <1>1, <2>1 DEF Everybody
  <2>2. CASE l \notin ready
    <3>1. config.stream /\ Complete(l, members, active')
      BY <2>2 DEF Close
    <3>2. members[l] \subseteq active'
      BY <1>1, <1>3, <1>5, <3>1 DEF Membership, Counted, Typed, Grouped
    <3>3. members[l] = active'
      BY <1>2, <3>1, <3>2, CompleteIsEverybody DEF Complete, Barrier, Typed
    <3> QED BY <1>5, <3>1, <3>3 DEF Counted
  <2> QED BY <2>1, <2>2
<1>7. Paced'
  BY <1>1 DEF Paced, Barrier, Intact, Batch, Grouped
<1> QED BY <1>2, <1>3, <1>4, <1>5, <1>6, <1>7

\* An RPC is cancelled, in any of its awaits.
LEMMA CancelKeeps ==
  ASSUME RoundInv, NEW c \in Clients, Cancel(c), config' = config
  PROVE  RoundInv'
<1> USE DEF RoundInv, Leading, client, groups
<1>1. CASE at[c] \in {"request", "event"} /\ at' = [at EXCEPT ![c] = "failed"]
           /\ UNCHANGED <<groups, answer, cancelled>>
  <2>1. at'[c] = "failed" /\ \A d \in Clients : d # c => at'[d] = at[d]
    BY <1>1 DEF Typed
  <2>2. Typed' /\ Membership' /\ Awaited'
    BY <1>1, <2>1 DEF Cancel, Typed, Awaits, Membership, Awaited
  <2>3. Lanes'
    <3>1. Executing' = Executing
      BY <1>1, <2>1 DEF Executing
    <3> QED BY <1>1, <2>1, <3>1 DEF Lanes, Cancel
  <2>4. Counted' /\ Everybody'
    BY <1>1, <2>1 DEF Cancel, Counted, Everybody, Barrier
  <2>5. Paced'
    BY <1>1, <2>1 DEF Cancel, Paced, Barrier, Intact, Batch, Grouped
  <2> QED BY <2>2, <2>3, <2>4, <2>5
<1>2. CASE at[c] \in {"group", "slot"} /\ Leads(c, "error") /\ UNCHANGED cancelled
  <2>1. Typed' /\ Membership' /\ Awaited' /\ Counted' /\ Everybody' /\ Paced'
    BY <1>2, GroupOver DEF Cancel, Membership
  <2>2. Lanes'
    <3>1. \A d \in Clients : at'[d] = "execution" <=> at[d] = "execution"
      BY <1>2 DEF Leads, Typed
    <3>2. Executing' = Executing
      BY <3>1 DEF Executing
    <3> QED BY <1>2, <3>2 DEF Lanes, Cancel, Leads, Answered, Typed
  <2> QED BY <2>1, <2>2
<1>3. CASE at[c] = "execution" /\ cancelled' = cancelled \cup {c}
           /\ UNCHANGED <<at, groups, answer>>
  BY <1>3 DEF Cancel, Typed, Membership, Awaited, Lanes, Executing, Counted, Everybody,
     Barrier, Paced, Intact, Batch, Grouped
<1> QED BY <1>1, <1>2, <1>3 DEF Cancel

LEMMA RoundInit == Init => RoundInv
<1> SUFFICES ASSUME Init PROVE RoundInv
  OBVIOUS
<1>1. Executing = {}
  BY DEF Init, Executing
<1>2. Lanes
  BY <1>1, FS_EmptySet DEF Init, Lanes, Configs
<1>3. Typed /\ Membership /\ Awaited /\ Counted /\ Everybody
  BY DEF Init, Typed, Awaits, Answers, Membership, Leading, Awaited, Counted, Everybody
<1>4. Paced
  BY DEF Init, Paced, Batch, Grouped
<1> QED BY <1>2, <1>3, <1>4 DEF RoundInv

LEMMA RoundStep ==
  ASSUME GroupAssumption, RoundInv, [Next]_vars
  PROVE  RoundInv'
<1>1. CASE UNCHANGED vars
  BY <1>1 DEF vars, client, groups, RoundInv, Typed, Membership, Awaited, Lanes, Executing,
     Counted, Everybody, Barrier, Paced, Intact, Batch, Grouped
<1>2. ASSUME NEW c \in Clients, Handler(c) PROVE RoundInv'
  BY <1>2, SendKeeps, RunInlineKeeps, AwaitSlotKeeps, SubmitKeeps, ExecutedKeeps, WakeKeeps,
     CloseKeeps DEF Handler
<1>3. ASSUME NEW c \in Clients, Cancel(c), config' = config PROVE RoundInv'
  BY <1>3, CancelKeeps
<1> QED BY <1>1, <1>2, <1>3 DEF Next, RoundOver

LEMMA RoundInvariant == Spec => []RoundInv
<1> USE GroupAssumption
<1>1. Init => RoundInv
  BY RoundInit
<1>2. RoundInv /\ [Next]_vars => RoundInv'
  BY RoundStep
<1> QED BY <1>1, <1>2, PTL DEF Spec

\* _process_request answers every request it took: a handler that waits for
\* its event is in one group of requests_state, whose leader is still running,
\* and no group stays there without one, whatever is cancelled or raises.
THEOREM NobodyIsForgotten == Spec => []NobodyForgotten
<1>1. RoundInv => NobodyForgotten
  <2> SUFFICES ASSUME RoundInv PROVE NobodyForgotten
    OBVIOUS
  <2>1. Executing \subseteq Clients
    BY DEF Executing
  <2>2. freeLanes \in 0..config.lanes
    <3>1. Cardinality(Executing) \in Nat
      BY <2>1, LanesCounted, GroupAssumption
    <3> QED BY <3>1, GroupAssumption DEF RoundInv, Lanes, Typed, Configs
  <2>3. sent \in [Clients -> 0..MaxBatches]
    BY GroupAssumption DEF RoundInv, Typed
  <2>4. TypeOK
    BY <2>2, <2>3 DEF RoundInv, Typed, TypeOK, Lanes, Executing
  <2>5. OpenGroupsLed
    BY DEF RoundInv, Membership, OpenGroupsLed, Leading, Typed
  <2>6. WaitersLed
    BY <2>5 DEF RoundInv, Membership, Awaited, WaitersLed, OpenGroupsLed, Typed
  <2> QED BY <2>4, <2>5, <2>6 DEF NobodyForgotten
<1> QED BY <1>1, RoundInvariant, PTL

\* process_clients_as_batch is a barrier: the group that mark_ready_requests
\* opens has the same batch of every client that goes on.
THEOREM ReadyInLockStep == Spec => []LockStep
<1>1. RoundInv => LockStep
  <2> SUFFICES ASSUME RoundInv, config.batch, config.common, NEW l \in ready
               PROVE  /\ {c \in Clients : at[c] \notin {"closed", "failed"}} \subseteq members[l]
                      /\ \A c \in members[l] : sent[c] = sent[l]
    BY DEF LockStep
  <2>1. {c \in Clients : at[c] # "closed"} \subseteq members[l]
    BY DEF RoundInv, Everybody, Barrier
  <2>2. l \in open /\ l \in members[l] /\ members[l] \subseteq Clients
    BY DEF RoundInv, Typed, Membership
  <2>3. \A c \in members[l] : Grouped(c) /\ at[c] # "closed"
    BY <2>2 DEF RoundInv, Membership, Grouped, Leading, Typed
  <2>4. Intact
    BY <2>1, <2>2 DEF Intact, Grouped
  <2>5. \A c \in members[l] : Batch(c) = sent[c]
    BY <2>3 DEF Batch
  <2>6. \A c \in members[l] : Batch(c) = Batch(l)
    BY <2>2, <2>3, <2>4 DEF RoundInv, Paced, Barrier
  <2> QED BY <2>1, <2>2, <2>5, <2>6
<1> QED BY <1>1, RoundInvariant, PTL

\* _compute_group reads the requests of a group outside the lock: what it reads
\* is what was there when the group became ready.
THEOREM ReadyGroupsAreFrozen == Spec => ReadyGroupsFrozen
<1>1. RoundInv /\ [Next]_vars => [\A l \in ready : l \in ready' => members'[l] = members[l]]_vars
  <2> SUFFICES ASSUME RoundInv, Next, NEW l \in ready, l \in ready'
               PROVE  members'[l] = members[l]
    OBVIOUS
  <2>0. l \in Clients /\ members \in [Clients -> SUBSET Clients]
    BY DEF RoundInv, Typed
  <2>1. ASSUME NEW c \in Clients, Send(c) PROVE members'[l] = members[l]
    BY <2>0, <2>1 DEF Send, Joinable, RoundInv, Membership, Leading, Typed
  <2>2. ASSUME NEW c \in Clients, NEW result, Leads(c, result) PROVE members'[l] = members[l]
    BY <2>0, <2>2 DEF Leads, Answered
  <2> QED BY <2>1, <2>2 DEF Next, Handler, RunInline, AwaitSlot, Submit, Executed, Wake, Close,
           Cancel, RoundOver, vars, groups
<1> QED BY <1>1, RoundInvariant, PTL DEF Spec, ReadyGroupsFrozen

-------------------------------------------------------------------------------
(* FlowerBridge *)

\* The types the argument needs.
BridgeTyped ==
  /\ thread \in {"idle", "waiting"} /\ asked \in Nat
  /\ outcome \in [Requests -> Nat]
  /\ status \in Statuses

\* OwnAnswer is inductive together with what is on its way through the bridge.
BridgeInv == BridgeTyped /\ Handshake /\ InTransit /\ OwnAnswer

\* A new bridge holds nothing.
LEMMA BridgeFirst == BridgeInit => BridgeInv
  BY BridgeAssumption DEF BridgeInit, BridgeInv, BridgeTyped, Handshake, InTransit, OwnAnswer, Requests,
     Statuses, None

\* Every section of the bridge, every turn of the loop and every step of the
\* client keeps the invariant.
LEMMA BridgeStep == BridgeInv /\ [BridgeNext]_bridgeVars => BridgeInv'
<1> SUFFICES ASSUME BridgeInv, [BridgeNext]_bridgeVars PROVE BridgeInv'
  OBVIOUS
<1> USE BridgeAssumption DEF BridgeInv, BridgeTyped, Handshake, InTransit, OwnAnswer, Requests,
      Statuses, None, Failed, caller, bridge, loop, peer
<1>1. CASE Request
  <2>1. /\ thread = "idle" /\ asked' = asked + 1 /\ asked' \in Requests /\ asked' \in Nat
        /\ UNCHANGED <<res, join, inbox, upstream>>
    BY <1>1 DEF Request
  <2>2. \/ /\ status = "closed" /\ UNCHANGED <<thread, status, ins>>
           /\ outcome' = [outcome EXCEPT ![asked'] = Failed]
        \/ /\ status = "awaiting_ins" /\ ins' = asked' /\ status' = "ins_available"
           /\ thread' = "waiting" /\ outcome' = outcome
    BY <1>1 DEF Request, Transition
  <2>3. outcome' \in [Requests -> Nat] /\ OwnAnswer'
    <3>1. CASE outcome' = outcome
      BY <3>1
    <3>2. CASE outcome' = [outcome EXCEPT ![asked'] = Failed]
      <4>1. \A n \in Requests : outcome'[n] = IF n = asked' THEN Failed ELSE outcome[n]
        BY <3>2
      <4> QED BY <2>1, <3>2, <4>1
    <3> QED BY <2>2, <3>1, <3>2
  <2>4. BridgeTyped'
    BY <2>1, <2>2, <2>3
  <2>5. Handshake' /\ InTransit'
    BY <2>1, <2>2
  <2> QED BY <2>3, <2>4, <2>5
<1>2. CASE Return
  <2>1. /\ thread = "waiting" /\ thread' = "idle" /\ UNCHANGED <<asked, ins, join, inbox, upstream>>
        /\ \/ /\ status = "closed" /\ status' = "closed" /\ outcome' = [outcome EXCEPT ![asked] = Failed]
           \/ /\ status = "res_available" /\ status' = "awaiting_ins"
              /\ outcome' = [outcome EXCEPT ![asked] = res] /\ res = asked
    BY <1>2 DEF Return, Transition
  <2>2. outcome' \in [Requests -> Nat] /\ OwnAnswer'
    <3>1. PICK value \in {Failed, asked} : outcome' = [outcome EXCEPT ![asked] = value]
      BY <2>1
    <3>2. value \in Nat /\ value \in {Failed, asked}
      BY <2>1, <3>1
    <3>3. outcome' \in [Requests -> Nat]
      BY <3>1, <3>2
    <3>4. ASSUME NEW n \in Requests PROVE outcome'[n] \in {None, n, Failed}
      <4>1. CASE n = asked
        BY <3>1, <3>2, <4>1
      <4>2. CASE n # asked
        BY <3>1, <4>2
      <4> QED BY <4>1, <4>2
    <3> QED BY <3>3, <3>4
  <2>3. BridgeTyped'
    BY <2>1, <2>2
  <2>4. Handshake' /\ InTransit'
    BY <2>1
  <2> QED BY <2>2, <2>3, <2>4
<1>3. CASE Turn
  BY <1>3 DEF Turn, Transition
<1>4. CASE Answer
  BY <1>4 DEF Answer, Transition, Ends, CloseBridge
<1>5. CASE TurnClosed \/ Expire \/ Cancelled
  BY <1>5 DEF TurnClosed, Expire, Cancelled, Ends, CloseBridge, Transition
<1>6. CASE DoneCallback
  BY <1>6 DEF DoneCallback, CloseBridge, Transition
<1>7. CASE Register \/ Bind \/ Wakeup \/ Woken
  BY <1>7 DEF Register, Bind, Wakeup, Woken
<1>8. CASE Reply
  BY <1>8 DEF Reply
<1>9. CASE Disconnect
  BY <1>9 DEF Disconnect
<1>10. CASE Quiet \/ UNCHANGED bridgeVars
  BY <1>10 DEF Quiet, bridgeVars
<1> QED
  BY <1>1, <1>2, <1>3, <1>4, <1>5, <1>6, <1>7, <1>8, <1>9, <1>10 DEF BridgeNext, Caller, Loop

\* The bridge's invariant, over all interleavings of the proxy's thread, the
\* loop and the client.
LEMMA BridgeInvariant == BridgeSpec => []BridgeInv
<1> QED
  BY BridgeFirst, BridgeStep, PTL DEF BridgeSpec

\* The status machine of Flower's bridge is never driven into a transition it
\* calls impossible, although the consumer no longer waits on its condition.
THEOREM HandshakeHolds == BridgeSpec => []Handshake
<1>1. BridgeInv => Handshake
  BY DEF BridgeInv
<1> QED
  BY <1>1, BridgeInvariant, PTL

\* An answer is never taken for another instruction's, whatever times out or
\* disconnects.
THEOREM AnswersAreOwn == BridgeSpec => []OwnAnswer
<1>1. BridgeInv => OwnAnswer
  BY DEF BridgeInv
<1> QED
  BY <1>1, BridgeInvariant, PTL
===============================================================================
