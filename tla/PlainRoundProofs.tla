--------------------------- MODULE PlainRoundProofs ----------------------------
(***************************************************************************)
(* What TLC checks of PlainRound on a few clients, for every value of the  *)
(* constants.  Nothing locks the suffix models against the round thread,   *)
(* so the invariant says who can still be at work in which phase (Placed), *)
(* what the models have been given (Configured), and how far the two       *)
(* halves of a client are apart at each point of its step (InStep).        *)
(***************************************************************************)
EXTENDS PlainRound, TLAPS

Places == {"away", "idle", "fit", "sent", "returned", "gone"}
PhaseNames == {"between", "configuring", "fitting", "collected", "fitted",
               "reconfiguring", "evaluating", "raised"}
Models == [round : Nat, from : SUBSET Clients]
Asked  == {"queued", "begun", "applied", "ok", "error"}    \* a request that exists
Busy   == {"fit", "sent", "returned"}                      \* a fit that has begun
Loading == {"configuring", "reconfiguring"}

Typed ==
  /\ scope \in {"shared", "per_client"} /\ phase \in PhaseNames
  /\ round \in 0..MaxRounds /\ (phase \in {"configuring", "fitting"} => round \in Rounds)
  /\ selected \subseteq Clients /\ results \subseteq selected /\ failures \subseteq selected
  /\ clientModel \in Models /\ serverModel \in Models
  /\ exported \in [Sids -> [base : Models, steps : SUBSET Steps]]
  /\ base \in [Sids -> Models] /\ applied \in [Sids -> SUBSET Steps]
  /\ rpc \in [Clients -> {NoRequest} \cup [at : Asked, key : Steps]]
  /\ at \in [Clients -> Places] /\ seen \in [Clients -> Nat]
  /\ trained \in [Clients -> SUBSET Steps] /\ context \in [Clients -> SUBSET Steps]

\* A fit is in progress only for a client the round thread waits for; a
\* request outlives its client only while a thread is inside of it, and never
\* one that has answered.
Placed ==
  /\ \A c \in Clients :
       /\ at[c] \in Busy => phase = "fitting" /\ c \in Unanswered
       /\ at[c] = "sent" => rpc[c].at \in Asked /\ rpc[c].key[1] = round
       /\ at[c] = "gone" => rpc[c].at \in Running \cup {"none"}
       /\ at[c] \notin {"sent", "gone"} => rpc[c].at = "none"
  /\ \A c \in selected : at[c] # "away"
  /\ phase \in Loading => results = {}
  /\ \A c \in results : rpc[c].at = "none"
  /\ phase \in {"reconfiguring", "evaluating"} => \A c \in selected : rpc[c].at = "none"

\* Client c has not begun, or has nothing to train.
Untouched(c) ==
  \/ phase \in {"reconfiguring", "evaluating"}
  \/ phase \in {"configuring", "fitting"} /\ at[c] = "idle" /\ c \in Unanswered

\* What has been configured holds the published model, and with a suffix per
\* client no step on top until the client begins.
Configured ==
  /\ loading \subseteq toLoad /\ (toLoad # {} => phase \in Loading)
  /\ phase \in Loading \cup {"fitting", "evaluating"} =>
       \A c \in selected : Sid(c) \notin toLoad => base[Sid(c)] = serverModel
  /\ scope = "per_client" =>
       /\ clientModel = serverModel
       /\ \A c \in selected :
            Sid(c) \notin toLoad /\ Untouched(c) => applied[c] = {}

\* Between two steps the halves of a client have taken the same ones; within
\* one the suffix is at most that step ahead.
Settled(c) == at[c] \in {"fit", "returned"} \/ (phase = "fitting" /\ c \in results)
InStep ==
  \A c \in Clients :
    /\ Settled(c) \/ at[c] = "sent" => trained[c] \subseteq applied[Sid(c)]
    /\ Settled(c) /\ scope = "per_client" => applied[c] \subseteq trained[c]
    /\ at[c] = "sent" =>
         /\ scope = "per_client" => applied[c] \subseteq (trained[c] \cup {rpc[c].key})
         /\ rpc[c].at \in {"applied", "ok"} => rpc[c].key \in applied[Sid(c)]

PlainInv == Typed /\ Placed /\ Configured /\ InStep /\ HalvesInStep /\ ContextsConsumed

--------------------------------------------------------------------------------
(* Every step keeps the invariant *)

\* A run that has not begun.
LEMMA PlainInit == Init => PlainInv
<1> SUFFICES ASSUME Init PROVE PlainInv
  OBVIOUS
<1> USE DEF Init
<1>1. Initial \in Models
  BY DEF Initial, Models
<1>2. Typed
  <2>1. NoRequest \in {NoRequest} \cup [at : Asked, key : Steps]
    OBVIOUS
  <2>2. 0 \in 0..MaxRounds /\ phase \in PhaseNames /\ "away" \in Places
        /\ scope \in {"shared", "per_client"} /\ phase \notin {"configuring", "fitting"}
    BY PlainAssumption DEF PhaseNames, Places
  <2> HIDE DEF NoRequest
  <2> QED BY <1>1, <2>1, <2>2 DEF Typed
<1>3. \A c \in Clients : rpc[c].at = "none" /\ at[c] = "away"
  BY DEF NoRequest
<1>4. Placed
  BY <1>3 DEF Placed, Busy
<1>5. Configured
  BY DEF Configured, Loading
<1>6. InStep
  BY <1>3 DEF InStep, Settled
<1>7. HalvesInStep /\ ContextsConsumed
  BY DEF HalvesInStep, ContextsConsumed
<1> QED BY <1>2, <1>4, <1>5, <1>6, <1>7 DEF PlainInv

\* The key of a request.
LEMMA Requested ==
  ASSUME Typed, NEW c \in Clients, rpc[c].at # "none"
  PROVE  /\ rpc[c] \in [at : Asked, key : Steps] /\ rpc[c].at \in Asked /\ rpc[c].key \in Steps
         /\ \A a : [rpc[c] EXCEPT !.at = a] = [at |-> a, key |-> rpc[c].key]
BY DEF Typed, NoRequest

\* The suffix a client trains on.
LEMMA SidKnown == ASSUME NEW c \in Clients PROVE Sid(c) \in Sids
  BY DEF Sid, Sids

\* The request of c changes in the thread that works on it, which may have
\* taken the step.
LEMMA RequestMoves ==
  ASSUME PlainInv, NEW c \in Clients, rpc[c].at # "none",
         UNCHANGED <<thread, client, base>>,
         NEW x, rpc' = [rpc EXCEPT ![c] = x],
         IF x = NoRequest THEN at[c] = "gone"
           ELSE /\ x \in [at : Asked, key : Steps] /\ x.key = rpc[c].key
                /\ at[c] = "gone" => x.at \in Running,
         \/ applied' = applied
         \/ applied' = [applied EXCEPT ![Sid(c)] = @ \cup {rpc[c].key}],
         x # NoRequest /\ x.at \in {"applied", "ok"} => rpc[c].key \in applied'[Sid(c)]
  PROVE  PlainInv'
<1> USE DEF PlainInv, thread, client
<1>1. /\ rpc[c].key \in Steps /\ Sid(c) \in Sids /\ at[c] \in {"sent", "gone"} /\ c \notin results
      /\ phase \in {"reconfiguring", "evaluating"} => c \notin selected
  BY Requested, SidKnown DEF Placed
<1>2. rpc'[c] = x /\ \A d \in Clients \ {c} : rpc'[d] = rpc[d]
  BY DEF Typed
<1>3. /\ applied' \in [Sids -> SUBSET Steps]
      /\ \A s \in Sids \ {Sid(c)} : applied'[s] = applied[s]
      /\ applied[Sid(c)] \subseteq applied'[Sid(c)]
      /\ applied'[Sid(c)] \subseteq applied[Sid(c)] \cup {rpc[c].key}
  BY <1>1 DEF Typed
<1>4. Typed'
  <2>1. rpc' \in [Clients -> {NoRequest} \cup [at : Asked, key : Steps]]
    BY DEF Typed
  <2> QED BY <1>3, <2>1 DEF Typed
<1>5. /\ at[c] = "sent" => x.at \in Asked /\ x.key = rpc[c].key
      /\ at[c] = "gone" => x.at \in Running \cup {"none"}
  BY <1>1 DEF NoRequest
<1>6. Placed'
  BY <1>1, <1>2, <1>5 DEF Placed, Unanswered
<1>7. \A d \in Clients : Sid(d)' = Sid(d) /\ Sid(d) \in Sids
  BY SidKnown DEF Sid
<1>8. Configured'
  <2>1. ASSUME scope = "per_client", NEW d \in selected, Sid(d) \notin toLoad, Untouched(d)
        PROVE  applied'[d] = {}
    <3>1. d # c /\ d \in Clients
      BY <1>1, <2>1 DEF Untouched, Typed
    <3>2. d \in Sids /\ d # Sid(c)
      BY <2>1, <3>1 DEF Sid, Sids
    <3> QED BY <1>3, <2>1, <3>2 DEF Configured
  <2> QED BY <1>7, <2>1 DEF Configured, Typed, Untouched, Unanswered
<1>9. InStep'
  <2> SUFFICES ASSUME NEW d \in Clients
               PROVE  /\ (Settled(d) \/ at[d] = "sent") => trained[d] \subseteq applied'[Sid(d)]
                      /\ (Settled(d) /\ scope = "per_client") => applied'[d] \subseteq trained[d]
                      /\ at[d] = "sent" =>
                           /\ scope = "per_client" =>
                                applied'[d] \subseteq (trained[d] \cup {rpc'[d].key})
                           /\ rpc'[d].at \in {"applied", "ok"} => rpc'[d].key \in applied'[Sid(d)]
    BY <1>7 DEF InStep, Settled
  <2>1. applied[Sid(d)] \subseteq applied'[Sid(d)]
    BY <1>3, <1>7
  <2>2. (scope = "per_client" /\ d # c) => applied'[d] = applied[d]
    BY <1>3 DEF Sid, Sids
  <2>3. CASE d # c
    BY <1>2, <2>1, <2>2, <2>3 DEF InStep
  <2>4. CASE d = c
    <3>1. ~Settled(c)
      BY <1>1 DEF Settled
    <3>2. scope = "per_client" => Sid(c) = c
      BY DEF Sid
    <3>3. at[c] = "sent" => x # NoRequest /\ x.key = rpc[c].key
      OBVIOUS
    <3>4. (at[c] = "sent" /\ scope = "per_client") =>
             applied'[c] \subseteq (trained[c] \cup {rpc'[c].key})
      BY <1>2, <1>3, <3>2, <3>3 DEF InStep
    <3> QED BY <1>2, <2>1, <2>4, <3>1, <3>3, <3>4 DEF InStep
  <2> QED BY <2>3, <2>4
<1>10. HalvesInStep'
  BY <1>7 DEF HalvesInStep, Prefixes, Typed
<1>11. ContextsConsumed'
  BY <1>2, <1>5 DEF ContextsConsumed
<1> QED BY <1>4, <1>6, <1>8, <1>9, <1>10, <1>11

\* Every step of an executor thread.
LEMMA ThreadKeeps ==
  ASSUME PlainInv, NEW c \in Clients, ThreadStep(c) \/ StepRaises(c)
  PROVE  PlainInv'
<1> USE DEF PlainInv
<1> DEFINE key == rpc[c].key
<1>1. rpc[c].at # "none"
  BY DEF ThreadStep, StepRaises, BeginStep, ApplyStep, CompleteStep, Running
<1>2. /\ key \in Steps /\ at[c] \in {"sent", "gone"} /\ Sid(c) \in Sids
      /\ \A a : [rpc[c] EXCEPT !.at = a] = [at |-> a, key |-> key]
      /\ at[c] = "gone" => rpc[c].at \in Running
  BY <1>1, Requested, SidKnown DEF Placed
<1>3. \A a \in Asked : [at |-> a, key |-> key] \in [at : Asked, key : Steps]
                       /\ [at |-> a, key |-> key] # NoRequest
  BY <1>2 DEF NoRequest
<1>4. UNCHANGED <<thread, client, base>>
  BY DEF ThreadStep, StepRaises, BeginStep, ApplyStep, CompleteStep
<1>5. ASSUME NEW a \in Asked, Answer(c, a), applied' = applied, a # "applied",
             a = "ok" => key \in applied[Sid(c)], a \in Running => at[c] = "sent"
      PROVE  PlainInv'
  <2>1. CASE at[c] = "gone"
    <3>1. rpc' = [rpc EXCEPT ![c] = NoRequest]
      BY <1>5, <2>1 DEF Answer
    <3> QED BY <1>1, <1>4, <1>5, <2>1, <3>1, RequestMoves
  <2>2. CASE at[c] # "gone"
    <3>1. rpc' = [rpc EXCEPT ![c] = [at |-> a, key |-> key]]
      BY <1>2, <1>5, <2>2 DEF Answer
    <3> QED BY <1>1, <1>3, <1>4, <1>5, <2>2, <3>1, RequestMoves
  <2> QED BY <2>1, <2>2
<1>6. CASE BeginStep(c)
  <2>1. at[c] = "sent" /\ applied' = applied
    BY <1>2, <1>6 DEF BeginStep, Running
  <2>2. Answer(c, "begun") \/ Answer(c, "error")
    BY <1>6 DEF BeginStep
  <2> QED BY <1>5, <2>1, <2>2 DEF Asked, Running
<1>7. CASE ApplyStep(c)
  <2>1. rpc' = [rpc EXCEPT ![c] = [at |-> "applied", key |-> key]]
    BY <1>2, <1>7 DEF ApplyStep, Typed
  <2>2. applied' = [applied EXCEPT ![Sid(c)] = @ \cup {key}] /\ key \in applied'[Sid(c)]
    BY <1>2, <1>7 DEF ApplyStep, Typed
  <2>3. "applied" \in Asked /\ "applied" \in Running
    BY DEF Asked, Running
  <2> QED BY <1>1, <1>3, <1>4, <2>1, <2>2, <2>3, RequestMoves
<1>8. CASE CompleteStep(c)
  <2>1. Answer(c, "ok") /\ applied' = applied /\ rpc[c].at = "applied"
    BY <1>8 DEF CompleteStep
  <2>2. at[c] = "sent" => key \in applied[Sid(c)]
    BY <2>1 DEF InStep
  <2>3. CASE at[c] = "sent"
    BY <1>5, <2>1, <2>2, <2>3 DEF Asked, Running
  <2>4. CASE at[c] = "gone"
    <3>1. rpc' = [rpc EXCEPT ![c] = NoRequest]
      BY <2>1, <2>4 DEF Answer
    <3> QED BY <1>1, <1>4, <2>1, <2>4, <3>1, RequestMoves
  <2> QED BY <1>2, <2>3, <2>4
<1>9. CASE StepRaises(c)
  <2>1. Answer(c, "error") /\ applied' = applied
    BY <1>9 DEF StepRaises
  <2> QED BY <1>5, <2>1 DEF Asked, Running
<1> QED BY <1>6, <1>7, <1>8, <1>9 DEF ThreadStep

\* Client c, and nobody else, moves, with whatever it carries.
LEMMA ClientMoves ==
  ASSUME PlainInv, NEW c \in Clients, NEW p, at' = [at EXCEPT ![c] = p],
         UNCHANGED <<thread, suffix>>, Typed', p # "away",
         \A d \in Clients \ {c} : /\ trained'[d] = trained[d] /\ context'[d] = context[d]
                                  /\ rpc'[d] = rpc[d],
         p \in Busy => /\ phase = "fitting" /\ c \in Unanswered
                       /\ trained'[c] \subseteq applied[Sid(c)],
         p = "sent" => /\ rpc'[c].at \in Asked /\ rpc'[c].key[1] = round
                       /\ scope = "per_client" => applied[c] \subseteq (trained'[c] \cup {rpc'[c].key})
                       /\ rpc'[c].at \in {"applied", "ok"} => rpc'[c].key \in applied[Sid(c)],
         p = "gone" => rpc'[c].at \in Running \cup {"none"},
         p \notin {"sent", "gone"} => rpc'[c].at = "none",
         (p \in {"fit", "returned"} /\ scope = "per_client") => applied[c] \subseteq trained'[c],
         (p = "idle" /\ c \in selected) => at[c] = "idle",
         rpc[c].at = "none" => (rpc'[c].at = "none" \/ p = "sent"),
         c \in results => trained'[c] = trained[c],
         context'[c] \subseteq (IF p = "sent" THEN {rpc'[c].key} ELSE {})
  PROVE  PlainInv'
<1> USE DEF PlainInv, thread, suffix
<1>1. at'[c] = p /\ \A d \in Clients \ {c} : at'[d] = at[d]
  BY DEF Typed
<1>2. Placed'
  <2>1. \A d \in selected : d # c => rpc'[d] = rpc[d] /\ at'[d] = at[d]
    BY <1>1 DEF Typed
  <2>2. c \in results => rpc'[c].at = "none"
    BY DEF Placed, Unanswered, Busy
  <2>3. (phase \in {"reconfiguring", "evaluating"} /\ c \in selected) => rpc'[c].at = "none"
    BY DEF Placed, Busy
  <2>4. Unanswered' = Unanswered
    BY DEF Unanswered
  <2>5. ASSUME NEW d \in Clients
        PROVE  /\ at'[d] \in Busy => phase' = "fitting" /\ d \in Unanswered'
               /\ at'[d] = "sent" => rpc'[d].at \in Asked /\ rpc'[d].key[1] = round'
               /\ at'[d] = "gone" => rpc'[d].at \in Running \cup {"none"}
               /\ at'[d] \notin {"sent", "gone"} => rpc'[d].at = "none"
    <3>1. CASE d = c
      BY <1>1, <2>4, <3>1
    <3>2. CASE d # c
      BY <1>1, <2>4, <3>2 DEF Placed
    <3> QED BY <3>1, <3>2
  <2>6. \A d \in selected' : at'[d] # "away"
    BY <1>1, <2>1 DEF Placed
  <2>7. \A d \in results' : rpc'[d].at = "none"
    BY <2>1, <2>2 DEF Placed, Typed
  <2>8. phase' \in {"reconfiguring", "evaluating"} => \A d \in selected' : rpc'[d].at = "none"
    BY <2>1, <2>3 DEF Placed
  <2> QED BY <2>5, <2>6, <2>7, <2>8 DEF Placed
<1>3. Configured'
  <2>1. \A d \in selected : Untouched(d)' => Untouched(d)
    BY <1>1 DEF Untouched, Unanswered
  <2> QED BY <2>1 DEF Configured, Sid
<1>4. InStep'
  <2> SUFFICES ASSUME NEW d \in Clients
               PROVE  /\ (Settled(d)' \/ at'[d] = "sent") => trained'[d] \subseteq applied[Sid(d)]
                      /\ (Settled(d)' /\ scope = "per_client") => applied[d] \subseteq trained'[d]
                      /\ at'[d] = "sent" =>
                           /\ scope = "per_client" =>
                                applied[d] \subseteq (trained'[d] \cup {rpc'[d].key})
                           /\ rpc'[d].at \in {"applied", "ok"} => rpc'[d].key \in applied[Sid(d)]
    BY DEF InStep, Sid
  <2>1. CASE d # c
    BY <1>1, <2>1 DEF InStep, Settled
  <2>2. CASE d = c /\ c \in results
    <3>1. p \notin Busy
      BY <2>2 DEF Unanswered
    <3> QED BY <1>1, <2>2, <3>1 DEF InStep, Settled, Busy
  <2>3. CASE d = c /\ c \notin results
    BY <1>1, <2>3 DEF Settled, Busy
  <2> QED BY <2>1, <2>2, <2>3
<1>5. HalvesInStep'
  <2>1. \A d \in results : d \in Clients /\ trained'[d] = trained[d]
    BY DEF Typed
  <2>2. Prefixes' = Prefixes /\ Prefixes \subseteq results
    BY <2>1 DEF Prefixes
  <2>3. \A d : Sid(d)' = Sid(d)
    BY DEF Sid
  <2> HIDE DEF PlainInv
  <2>4. HalvesInStep
    BY DEF PlainInv
  <2> QED BY <2>1, <2>2, <2>3, <2>4 DEF HalvesInStep
<1>6. ContextsConsumed'
  BY <1>1 DEF ContextsConsumed
<1> QED BY <1>2, <1>3, <1>4, <1>5, <1>6

\* A device connects.
LEMMA JoinKeeps ==
  ASSUME PlainInv, NEW c \in Clients, Join(c)
  PROVE  PlainInv'
<1> USE DEF PlainInv
<1>1. UNCHANGED <<thread, suffix>> /\ UNCHANGED <<rpc, trained, context>> /\ at[c] = "away"
      /\ at' = [at EXCEPT ![c] = "idle"]
  BY DEF Join
<1>2. Typed'
  BY DEF Typed, Places, Join, thread, suffix
<1>3. rpc[c].at = "none" /\ context[c] = {} /\ c \notin selected
  BY <1>1 DEF Placed, ContextsConsumed
<1> QED BY <1>1, <1>2, <1>3, ClientMoves DEF Busy, Typed

\* The client drops what it kept of an earlier round.
LEMMA StartFitKeeps ==
  ASSUME PlainInv, NEW c \in Clients, StartFit(c)
  PROVE  PlainInv'
<1> USE DEF PlainInv
<1>1. /\ UNCHANGED <<thread, suffix>> /\ UNCHANGED rpc /\ at[c] = "idle" /\ phase = "fitting"
      /\ c \in Unanswered /\ at' = [at EXCEPT ![c] = "fit"]
      /\ trained' = [trained EXCEPT ![c] = {}]
      /\ context' = [context EXCEPT ![c] = {k \in @ : k[1] = round}]
  BY DEF StartFit
<1>2. Typed'
  <2>2. seen' \in [Clients -> Nat] /\ at' \in [Clients -> Places]
        /\ trained' \in [Clients -> SUBSET Steps]
    BY DEF Typed, Places, StartFit
  <2>3. context' \in [Clients -> SUBSET Steps]
    BY <1>1 DEF Typed
  <2> QED BY <1>1, <2>2, <2>3 DEF Typed, thread, suffix
<1>3. rpc[c].at = "none" /\ context[c] = {}
  BY <1>1 DEF Placed, ContextsConsumed
<1>4. /\ trained'[c] = {} /\ context'[c] = {}
      /\ \A d \in Clients \ {c} : trained'[d] = trained[d] /\ context'[d] = context[d]
  BY <1>1, <1>3 DEF Typed
<1>5. scope = "per_client" => applied[c] = {}
  BY <1>1 DEF Configured, Untouched, Loading, Unanswered
<1>6. c \notin results
  BY <1>1 DEF Unanswered
<1> QED BY <1>1, <1>2, <1>3, <1>4, <1>5, <1>6, ClientMoves

\* A batch nobody trains on leaves the halves as they are.
LEMMA SkipBatchKeeps ==
  ASSUME PlainInv, NEW c \in Clients, SkipBatch(c)
  PROVE  PlainInv'
<1> USE DEF PlainInv
<1>1. /\ UNCHANGED <<thread, suffix>> /\ UNCHANGED <<rpc, at, trained, context>> /\ at[c] = "fit"
  BY DEF SkipBatch
<1>2. seen' \in [Clients -> Nat]
  BY DEF SkipBatch, Typed
<1>3. Typed'
  BY <1>1, <1>2 DEF Typed, thread, suffix
<1>4. at' = [at EXCEPT ![c] = "fit"]
  BY <1>1 DEF Typed
<1>5. /\ phase = "fitting" /\ c \in Unanswered /\ trained[c] \subseteq applied[Sid(c)]
      /\ scope = "per_client" => applied[c] \subseteq trained[c]
      /\ rpc[c].at = "none" /\ context[c] = {}
  BY <1>1 DEF Placed, InStep, Settled, ContextsConsumed, Busy
<1> QED BY <1>1, <1>3, <1>4, <1>5, ClientMoves

\* One context, and one request with the same key.
LEMMA ForwardKeeps ==
  ASSUME PlainInv, NEW c \in Clients, Forward(c)
  PROVE  PlainInv'
<1> USE DEF PlainInv
<1> DEFINE key == <<round, c, seen[c] + 1>>
<1>1. /\ UNCHANGED <<thread, suffix>> /\ UNCHANGED <<seen, trained>> /\ at[c] = "fit"
      /\ context' = [context EXCEPT ![c] = @ \cup {key}]
      /\ rpc' = [rpc EXCEPT ![c] = [at |-> "queued", key |-> key]]
      /\ at' = [at EXCEPT ![c] = "sent"]
  BY DEF Forward
<1>2. /\ phase = "fitting" /\ c \in Unanswered /\ trained[c] \subseteq applied[Sid(c)]
      /\ scope = "per_client" => applied[c] \subseteq trained[c]
      /\ context[c] = {} /\ round \in Rounds
  BY <1>1 DEF Placed, InStep, Settled, ContextsConsumed, Busy, Typed
<1>3. key \in Steps /\ key[1] = round
  <2>1. seen[c] + 1 \in 1..Batches
    BY PlainAssumption DEF Forward, Typed
  <2> QED BY <1>2, <2>1 DEF Steps
<1> HIDE DEF key
<1>4. [at |-> "queued", key |-> key] \in [at : Asked, key : Steps]
  BY <1>3 DEF Asked
<1>5. Typed'
  BY <1>1, <1>3, <1>4 DEF Typed, Places, thread, suffix
<1>6. /\ rpc'[c] = [at |-> "queued", key |-> key] /\ context'[c] = {key}
      /\ \A d \in Clients \ {c} : rpc'[d] = rpc[d] /\ context'[d] = context[d]
  BY <1>1, <1>2 DEF Typed
<1>7. /\ rpc'[c].key = key /\ rpc'[c].at \in Asked /\ rpc'[c].at \notin {"applied", "ok"}
  BY <1>6 DEF Asked
<1> QED BY <1>1, <1>2, <1>3, <1>5, <1>6, <1>7, ClientMoves

\* The prefix takes the step the suffix has taken.
LEMMA BackwardKeeps ==
  ASSUME PlainInv, NEW c \in Clients, Backward(c)
  PROVE  PlainInv'
<1> USE DEF PlainInv
<1> DEFINE key == rpc[c].key
<1>1. /\ UNCHANGED <<thread, suffix>> /\ at[c] = "sent" /\ rpc[c].at = "ok"
      /\ context' = [context EXCEPT ![c] = @ \ {key}]
      /\ trained' = [trained EXCEPT ![c] = @ \cup {key}]
      /\ rpc' = [rpc EXCEPT ![c] = NoRequest]
      /\ at' = [at EXCEPT ![c] = "fit"]
  BY DEF Backward
<1>2. /\ phase = "fitting" /\ c \in Unanswered /\ c \notin results
      /\ trained[c] \subseteq applied[Sid(c)] /\ key \in applied[Sid(c)]
      /\ scope = "per_client" => applied[c] \subseteq (trained[c] \cup {key})
      /\ context[c] \subseteq {key} /\ key \in Steps
  BY <1>1, Requested DEF Placed, InStep, Settled, ContextsConsumed, Busy, Unanswered
<1>3. seen' \in [Clients -> Nat]
  BY DEF Backward, Typed
<1>4. /\ trained'[c] = trained[c] \cup {key} /\ context'[c] = {} /\ rpc'[c] = NoRequest
      /\ \A d \in Clients \ {c} : /\ trained'[d] = trained[d] /\ context'[d] = context[d]
                                  /\ rpc'[d] = rpc[d]
  BY <1>1, <1>2 DEF Typed
<1>5. Typed'
  <2>1. NoRequest \in {NoRequest} \cup [at : Asked, key : Steps]
    OBVIOUS
  <2>2. rpc' \in [Clients -> {NoRequest} \cup [at : Asked, key : Steps]]
    BY <1>1, <2>1 DEF Typed
  <2>3. at' \in [Clients -> Places] /\ trained' \in [Clients -> SUBSET Steps]
        /\ context' \in [Clients -> SUBSET Steps]
    BY <1>1, <1>2 DEF Typed, Places
  <2> QED BY <1>1, <1>3, <2>2, <2>3 DEF Typed, thread, suffix
<1>6. rpc'[c].at = "none"
  BY <1>4 DEF NoRequest
<1>7. trained'[c] \subseteq applied[Sid(c)] /\ (scope = "per_client" => applied[c] \subseteq trained'[c])
  BY <1>2, <1>4
<1> QED BY <1>1, <1>2, <1>4, <1>5, <1>6, <1>7, ClientMoves

\* Nothing is left to wait for.
LEMMA ReturnKeeps ==
  ASSUME PlainInv, NEW c \in Clients, Return(c)
  PROVE  PlainInv'
<1> USE DEF PlainInv
<1>1. /\ UNCHANGED <<thread, suffix>> /\ UNCHANGED <<rpc, seen, trained>> /\ at[c] = "fit"
      /\ context' = [context EXCEPT ![c] = {k \in @ : k[1] # round}]
      /\ at' = [at EXCEPT ![c] = "returned"]
  BY DEF Return
<1>2. /\ phase = "fitting" /\ c \in Unanswered /\ trained[c] \subseteq applied[Sid(c)]
      /\ scope = "per_client" => applied[c] \subseteq trained[c]
      /\ rpc[c].at = "none" /\ context[c] = {}
  BY <1>1 DEF Placed, InStep, Settled, ContextsConsumed, Busy
<1>3. Typed'
  <2>1. context' \in [Clients -> SUBSET Steps]
    BY <1>1 DEF Typed
  <2> QED BY <1>1, <2>1 DEF Typed, Places, thread, suffix
<1>4. context'[c] = {} /\ \A d \in Clients \ {c} : context'[d] = context[d]
  BY <1>1, <1>2 DEF Typed
<1> QED BY <1>1, <1>2, <1>3, <1>4, ClientMoves

\* The contexts go with the client; only its running step stays.
LEMMA GoneKeeps ==
  ASSUME PlainInv, NEW c \in Clients, Leave(c) \/ StepRefused(c)
  PROVE  PlainInv'
<1> USE DEF PlainInv
<1>1. /\ UNCHANGED <<thread, suffix>> /\ UNCHANGED <<seen, trained>>
      /\ context' = [context EXCEPT ![c] = {k \in @ : k[1] # round}]
      /\ at' = [at EXCEPT ![c] = "gone"]
      /\ rpc' = [rpc EXCEPT ![c] = IF @.at \in Running THEN @ ELSE NoRequest]
  BY DEF Leave, StepRefused, Gone
<1>2. rpc'[c] \in {rpc[c], NoRequest} /\ rpc'[c].at \in Running \cup {"none"}
      /\ \A d \in Clients \ {c} : rpc'[d] = rpc[d]
  BY <1>1 DEF Typed, NoRequest
<1>3. context'[c] = {} /\ \A d \in Clients \ {c} : context'[d] = context[d]
  <2>1. \A k \in context[c] : k[1] = round
    BY DEF ContextsConsumed, Placed
  <2> QED BY <1>1, <2>1 DEF Typed
<1>4. Typed'
  <2>1. context' \in [Clients -> SUBSET Steps]
    BY <1>1 DEF Typed
  <2>2. rpc' \in [Clients -> {NoRequest} \cup [at : Asked, key : Steps]]
    <3> HIDE DEF NoRequest
    <3> QED BY <1>1 DEF Typed
  <2> QED BY <1>1, <2>1, <2>2 DEF Typed, Places, thread, suffix
<1>5. rpc[c].at = "none" => rpc'[c].at = "none"
  BY <1>2 DEF NoRequest
<1> QED BY <1>1, <1>2, <1>3, <1>4, <1>5, ClientMoves DEF Busy

\* The clients of a fit or of an evaluation are chosen.
LEMMA InstructKeeps ==
  ASSUME PlainInv, NEW S, ConfigureFit(S) \/ ConfigureEvaluate(S)
  PROVE  PlainInv'
<1> USE DEF PlainInv
<1>1. /\ phase \in {"between", "fitted"} /\ S \subseteq Clients /\ \A c \in S : at[c] = "idle"
      /\ selected' = S /\ results' = {} /\ failures' = {} /\ toLoad' = {Sid(c) : c \in S}
      /\ phase' \in Loading \cup {"between", "fitted"} /\ (phase' \notin Loading => S = {})
      /\ UNCHANGED <<scope, loading, clientModel, serverModel, exported, suffix, rpc, client>>
  BY DEF ConfigureFit, ConfigureEvaluate, Instruct, Idle, Loading
<1>2. round' \in 0..MaxRounds /\ (phase' = "configuring" => round' \in Rounds)
  BY PlainAssumption DEF ConfigureFit, ConfigureEvaluate, Typed, Rounds
<1>3. Typed'
  BY <1>1, <1>2 DEF Typed, PhaseNames, Loading, suffix, client
<1>4. \A c \in Clients : at[c] \notin Busy
  BY <1>1 DEF Placed
<1>5. Placed'
  BY <1>1, <1>3, <1>4 DEF Placed, Busy, client, Loading
<1>6. Configured'
  <2>1. toLoad = {} /\ loading = {}
    BY <1>1 DEF Configured, Loading
  <2>2. \A c \in selected' : Sid(c)' = Sid(c) /\ Sid(c) \in toLoad'
    BY <1>1 DEF Sid
  <2>3. toLoad' # {} => phase' \in Loading
    BY <1>1
  <2> QED BY <1>1, <2>1, <2>2, <2>3 DEF Configured
<1>7. InStep'
  BY <1>1, <1>4 DEF InStep, Settled, Busy, client, Loading
<1>8. HalvesInStep' /\ ContextsConsumed'
  BY <1>1 DEF HalvesInStep, ContextsConsumed, client, Loading
<1> QED BY <1>3, <1>5, <1>6, <1>7, <1>8

\* The identity of the round, before the parameters.
LEMMA ResetModelKeeps ==
  ASSUME PlainInv, NEW s \in Sids, ResetModel(s)
  PROVE  PlainInv'
<1> USE DEF PlainInv, ResetModel, client
<1>1. Typed'
  BY DEF Typed
<1>2. Placed'
  BY DEF Placed, Unanswered
<1>3. Configured'
  BY DEF Configured, Untouched, Unanswered, Sid
<1>4. InStep' /\ HalvesInStep' /\ ContextsConsumed'
  BY DEF InStep, Settled, HalvesInStep, ContextsConsumed, Sid, Prefixes
<1> QED BY <1>1, <1>2, <1>3, <1>4

\* The last model configured lets the clients begin.
LEMMA LoadModelKeeps ==
  ASSUME PlainInv, NEW s \in Sids, LoadModel(s)
  PROVE  PlainInv'
<1> USE DEF PlainInv
<1>1. /\ s \in loading /\ loading' = {} /\ toLoad' = toLoad \ {s}
      /\ base' = [base EXCEPT ![s] = serverModel] /\ applied' = [applied EXCEPT ![s] = {}]
      /\ UNCHANGED <<scope, round, selected, clientModel, serverModel, results, failures, exported,
                     rpc, client>>
  BY DEF LoadModel
<1>2. /\ phase \in Loading /\ results = {}
      /\ \/ phase' = phase
         \/ phase = "configuring" /\ phase' = "fitting" /\ toLoad' = {}
         \/ phase = "reconfiguring" /\ phase' = "evaluating" /\ toLoad' = {}
      /\ toLoad' # {} => phase' = phase
  BY <1>1 DEF LoadModel, Configured, Placed, Loading
<1>3. Typed'
  BY <1>1, <1>2 DEF Typed, PhaseNames, client
<1>4. \A c \in Clients : at[c] \notin Busy
  BY <1>2 DEF Placed, Loading
<1>5. Placed'
  BY <1>1, <1>2, <1>4 DEF Placed, Busy, client, Loading
<1>6. Configured'
  <2>1. /\ base'[s] = serverModel /\ applied'[s] = {}
        /\ \A u \in Sids \ {s} : base'[u] = base[u] /\ applied'[u] = applied[u]
    BY <1>1 DEF Typed
  <2>2. \A c \in selected : Sid(c)' = Sid(c) /\ Sid(c) \in Sids /\ (scope = "per_client" => Sid(c) = c)
    BY <1>1, SidKnown DEF Sid, Typed
  <2>3. \A c \in selected : Untouched(c)' => Untouched(c)
    BY <1>1, <1>2 DEF Untouched, Unanswered, client
  <2>4. ASSUME NEW c \in selected, Sid(c) \notin toLoad'
        PROVE  /\ base'[Sid(c)] = serverModel
               /\ scope = "per_client" /\ Untouched(c)' => applied'[c] = {}
    <3>1. CASE Sid(c) = s
      BY <2>1, <2>2, <3>1
    <3>2. CASE Sid(c) # s
      <4>1. Sid(c) \notin toLoad
        BY <1>1, <2>4, <3>2
      <4> QED BY <1>2, <2>1, <2>2, <2>3, <3>2, <4>1 DEF Configured
    <3> QED BY <3>1, <3>2
  <2>5. scope = "per_client" => clientModel = serverModel
    BY DEF Configured
  <2> QED BY <1>1, <1>2, <2>2, <2>4, <2>5 DEF Configured
<1>7. InStep'
  BY <1>1, <1>2, <1>4 DEF InStep, Settled, Busy, client
<1>8. HalvesInStep' /\ ContextsConsumed'
  BY <1>1, <1>2 DEF HalvesInStep, ContextsConsumed, client, Loading
<1> QED BY <1>3, <1>5, <1>6, <1>7, <1>8

\* The reply of a client whose halves are in step.
LEMMA ReceiveKeeps ==
  ASSUME PlainInv, NEW c \in Clients, Receive(c)
  PROVE  PlainInv'
<1> USE DEF PlainInv
<1>1. /\ phase = "fitting" /\ c \in Unanswered /\ at[c] = "returned" /\ results' = results \cup {c}
      /\ at' = [at EXCEPT ![c] = "idle"]
      /\ UNCHANGED <<scope, round, phase, selected, toLoad, loading, clientModel, serverModel, failures,
                     exported, suffix, rpc, seen, trained, context>>
  BY DEF Receive
<1>2. at'[c] = "idle" /\ \A d \in Clients \ {c} : at'[d] = at[d]
  BY <1>1 DEF Typed
<1>3. Unanswered' = Unanswered \ {c} /\ c \in selected
  BY <1>1 DEF Unanswered
<1>4. Typed'
  BY <1>1, <1>3 DEF Typed, Places, suffix
<1>5. rpc[c].at = "none" /\ context[c] = {}
  BY <1>1 DEF Placed, ContextsConsumed
<1>6. Placed'
  BY <1>1, <1>2, <1>3, <1>5 DEF Placed, Busy, Loading, Typed
<1>7. \A d \in selected : Untouched(d)' => Untouched(d)
  BY <1>1, <1>2, <1>3 DEF Untouched, Typed
<1>8. Configured'
  BY <1>1, <1>7 DEF Configured, Sid, suffix
<1>9. InStep'
  <2>1. /\ trained[c] \subseteq applied[Sid(c)]
        /\ scope = "per_client" => applied[c] \subseteq trained[c]
    BY <1>1 DEF InStep, Settled
  <2>2. \A d \in Clients \ {c} : Settled(d)' <=> Settled(d)
    BY <1>1, <1>2 DEF Settled
  <2> QED BY <1>1, <1>2, <2>1, <2>2 DEF InStep, Sid, suffix
<1>10. HalvesInStep' /\ ContextsConsumed'
  BY <1>1, <1>2, <1>5 DEF HalvesInStep, ContextsConsumed
<1> QED BY <1>4, <1>6, <1>8, <1>9, <1>10

\* A client that has left is not aggregated.
LEMMA ReceiveFailureKeeps ==
  ASSUME PlainInv, NEW c \in Clients, ReceiveFailure(c)
  PROVE  PlainInv'
<1> USE DEF PlainInv
<1>1. /\ phase \in {"fitting", "evaluating"} /\ c \in Unanswered /\ at[c] = "gone"
      /\ failures' = failures \cup {c}
      /\ UNCHANGED <<scope, round, phase, selected, toLoad, loading, clientModel, serverModel, results,
                     exported, suffix, rpc, client>>
  BY DEF ReceiveFailure
<1>2. Unanswered' = Unanswered \ {c} /\ c \in selected
  BY <1>1 DEF Unanswered
<1>3. Typed'
  BY <1>1, <1>2 DEF Typed, suffix, client
<1>4. Placed'
  BY <1>1, <1>2 DEF Placed, Busy, client
<1>5. \A d \in selected : Untouched(d)' => Untouched(d)
  BY <1>1, <1>2 DEF Untouched, client
<1>6. Configured'
  BY <1>1, <1>5 DEF Configured, Sid, suffix
<1>7. InStep' /\ HalvesInStep' /\ ContextsConsumed'
  BY <1>1 DEF InStep, Settled, Sid, HalvesInStep, ContextsConsumed, suffix, client
<1> QED BY <1>3, <1>4, <1>6, <1>7

\* An evaluation trains nothing.
LEMMA EvaluateKeeps ==
  ASSUME PlainInv, NEW c \in Clients, Evaluate(c)
  PROVE  PlainInv'
<1> USE DEF PlainInv
<1>1. /\ phase = "evaluating" /\ c \in Unanswered /\ results' = results \cup {c}
      /\ UNCHANGED <<scope, round, phase, selected, toLoad, loading, clientModel, serverModel, failures,
                     exported, suffix, rpc, client>>
  BY DEF Evaluate
<1>2. Unanswered' = Unanswered \ {c} /\ c \in selected
  BY <1>1 DEF Unanswered
<1>3. Typed'
  BY <1>1, <1>2 DEF Typed, suffix, client
<1>4. Placed'
  BY <1>1, <1>2 DEF Placed, client, Loading
<1>5. Configured'
  BY <1>1 DEF Configured, Untouched, Sid, suffix
<1>6. InStep' /\ HalvesInStep' /\ ContextsConsumed'
  BY <1>1 DEF InStep, Settled, Sid, HalvesInStep, ContextsConsumed, suffix, client
<1> QED BY <1>3, <1>4, <1>5, <1>6

\* No client is at work when the suffixes are exported.
LEMMA CollectKeeps ==
  ASSUME PlainInv, Collect
  PROVE  PlainInv'
<1> USE DEF PlainInv
<1>1. /\ phase = "fitting" /\ Unanswered = {} /\ phase' = "collected"
      /\ exported' = [s \in Sids |-> IF s \in {Sid(c) : c \in selected}
                        THEN [base |-> base[s], steps |-> applied[s]] ELSE exported[s]]
      /\ UNCHANGED <<scope, round, selected, toLoad, loading, clientModel, serverModel, results,
                     failures, suffix, rpc, client>>
  BY DEF Collect
<1>2. Typed'
  BY <1>1 DEF Typed, PhaseNames, suffix, client
<1>3. \A c \in Clients : at[c] \notin Busy
  BY <1>1 DEF Placed
<1>4. Placed'
  BY <1>1, <1>3 DEF Placed, client, Loading, Busy
<1>5. toLoad = {} /\ loading = {}
  BY <1>1 DEF Configured, Loading
<1>6. Configured'
  BY <1>1, <1>5 DEF Configured, Untouched, Loading
<1>7. InStep' /\ ContextsConsumed'
  BY <1>1, <1>3 DEF InStep, Settled, Busy, ContextsConsumed, client
<1>8. HalvesInStep'
  <2> SUFFICES ASSUME NEW c \in Prefixes
               PROVE  /\ exported'[Sid(c)].base = serverModel
                      /\ trained[c] \subseteq exported'[Sid(c)].steps
                      /\ scope = "per_client" => exported'[c].steps = trained[c]
    BY <1>1 DEF HalvesInStep, Prefixes, Sid, client
  <2>1. c \in results /\ c \in selected /\ c \in Clients /\ Sid(c) \in Sids
    BY SidKnown DEF Prefixes, Typed
  <2>2. exported'[Sid(c)] = [base |-> base[Sid(c)], steps |-> applied[Sid(c)]]
    BY <1>1, <2>1
  <2>3. base[Sid(c)] = serverModel
    BY <1>1, <1>5, <2>1 DEF Configured
  <2>4. /\ trained[c] \subseteq applied[Sid(c)]
        /\ scope = "per_client" => applied[c] \subseteq trained[c]
    BY <1>1, <2>1 DEF InStep, Settled
  <2>5. scope = "per_client" => Sid(c) = c
    BY DEF Sid
  <2>6. exported'[Sid(c)].base = base[Sid(c)] /\ exported'[Sid(c)].steps = applied[Sid(c)]
    BY <2>2
  <2>7. scope = "per_client" => exported'[c].steps = trained[c]
    BY <2>4, <2>5, <2>6
  <2> QED BY <2>3, <2>4, <2>6, <2>7
<1> QED BY <1>2, <1>4, <1>6, <1>7, <1>8

\* Per client the published halves stay the same model: the comparison of
\* _reassemble_named_state never fails.
LEMMA AggregateKeeps ==
  ASSUME PlainInv, Aggregate
  PROVE  PlainInv'
<1> USE DEF PlainInv
<1>1. /\ phase = "collected" /\ phase' \in {"raised", "fitted"}
      /\ UNCHANGED <<clientModel, serverModel>> \/ Published
      /\ UNCHANGED <<scope, round, selected, toLoad, loading, results, failures, exported, suffix, rpc,
                     client>>
  BY DEF Aggregate
<1>2. Aggregated \in Models
  BY DEF Aggregated, Models, Prefixes, Typed
<1>3. clientModel' \in {clientModel, Aggregated} /\ serverModel' \in {serverModel, Aggregated}
  BY <1>1 DEF Published
<1>4. Typed'
  BY <1>1, <1>2, <1>3 DEF Typed, PhaseNames, suffix, client
<1>5. \A c \in Clients : at[c] \notin Busy
  BY <1>1 DEF Placed
<1>6. Placed'
  BY <1>1, <1>5 DEF Placed, client, Loading, Busy
<1>7. Configured'
  <2>1. toLoad = {} /\ loading = {}
    BY <1>1 DEF Configured, Loading
  <2>2. scope = "per_client" => clientModel' = serverModel'
    BY <1>1 DEF Configured, Published
  <2> QED BY <1>1, <2>1, <2>2 DEF Configured, Untouched, Loading
<1>8. InStep' /\ HalvesInStep' /\ ContextsConsumed'
  BY <1>1, <1>5 DEF InStep, Settled, Busy, HalvesInStep, ContextsConsumed, client
<1> QED BY <1>4, <1>6, <1>7, <1>8

\* The round is over.
LEMMA AggregateEvaluateKeeps ==
  ASSUME PlainInv, AggregateEvaluate
  PROVE  PlainInv'
<1> USE DEF PlainInv
<1>1. /\ phase = "evaluating" /\ phase' \in {"raised", "between"}
      /\ UNCHANGED <<scope, round, selected, toLoad, loading, clientModel, serverModel, results,
                     failures, exported, suffix, rpc, client>>
  BY DEF AggregateEvaluate
<1>2. Typed'
  BY <1>1 DEF Typed, PhaseNames, suffix, client
<1>3. \A c \in Clients : at[c] \notin Busy
  BY <1>1 DEF Placed
<1>4. Placed'
  BY <1>1, <1>3 DEF Placed, client, Loading, Busy
<1>5. Configured'
  BY <1>1 DEF Configured, Untouched, Loading
<1>6. InStep' /\ HalvesInStep' /\ ContextsConsumed'
  BY <1>1, <1>3 DEF InStep, Settled, Busy, HalvesInStep, ContextsConsumed, client
<1> QED BY <1>2, <1>4, <1>5, <1>6

\* Every step keeps the invariant.
LEMMA PlainStep == PlainInv /\ [Next]_vars => PlainInv'
<1> SUFFICES ASSUME PlainInv, [Next]_vars PROVE PlainInv'
  OBVIOUS
<1>1. CASE UNCHANGED vars \/ Finished
  <2>1. UNCHANGED vars
    BY <1>1 DEF Finished
  <2> USE <2>1 DEF PlainInv, vars, thread, suffix, client
  <2>2. Typed' /\ Placed'
    BY DEF Typed, Placed, Unanswered
  <2>3. Configured' /\ InStep'
    BY DEF Configured, Untouched, Unanswered, Sid, InStep, Settled
  <2>4. HalvesInStep' /\ ContextsConsumed'
    BY DEF HalvesInStep, ContextsConsumed, Prefixes, Sid
  <2> QED BY <2>2, <2>3, <2>4
<1>2. ASSUME NEW c \in Clients, ClientStep(c)
      PROVE  PlainInv'
  BY <1>2, StartFitKeeps, SkipBatchKeeps, ForwardKeeps, BackwardKeeps, ReturnKeeps, GoneKeeps
     DEF ClientStep
<1>3. CASE RoundStep
  BY <1>3, InstructKeeps, ResetModelKeeps, LoadModelKeeps, ReceiveKeeps, ReceiveFailureKeeps,
     EvaluateKeeps, CollectKeeps, AggregateKeeps, AggregateEvaluateKeeps DEF RoundStep
<1> QED BY <1>1, <1>2, <1>3, JoinKeeps, GoneKeeps, ThreadKeeps DEF Next

\* PlainInv in every reachable state.
LEMMA PlainInvariant == Spec => []PlainInv
<1>1. Init => PlainInv
  BY PlainInit
<1>2. PlainInv /\ [Next]_vars => PlainInv'
  BY PlainStep
<1> QED BY <1>1, <1>2, PTL DEF Spec

\* StepsWhole: what is aggregated was trained together, and no prefix context
\* outlives the step it belongs to, with any number of clients that leave,
\* fail and skip at any point.
THEOREM StepsAreWhole == Spec => []StepsWhole
<1>1. PlainInv => StepsWhole
  BY DEF PlainInv, StepsWhole
<1> QED BY <1>1, PlainInvariant, PTL

\* EvaluatesPublished: with a replica per client every evaluation is of one
\* published model, though the suffix objects are those that were trained.
THEOREM EvaluationIsOfPublished == Spec => []EvaluatesPublished
<1>1. PlainInv => EvaluatesPublished
  <2> SUFFICES ASSUME PlainInv, phase = "evaluating", scope = "per_client", NEW c \in Unanswered
               PROVE  base[c] = serverModel /\ clientModel = serverModel /\ applied[c] = {}
    BY DEF EvaluatesPublished
  <2>1. c \in selected /\ toLoad = {} /\ Sid(c) = c /\ Untouched(c)
    BY DEF Unanswered, PlainInv, Configured, Loading, Sid, Untouched
  <2> QED BY <2>1 DEF PlainInv, Configured
<1> QED BY <1>1, PlainInvariant, PTL

\* Per client the two halves a round begins with are the same model, so the
\* reassembly of the aggregate never finds them diverged (autosplit_strategy.py,
\* _reassemble_named_state).
THEOREM NeverDiverged == Spec => []~Diverged
<1>1. PlainInv => ~Diverged
  BY DEF PlainInv, Configured, Diverged
<1> QED BY <1>1, PlainInvariant, PTL
================================================================================
