------------------------------ MODULE GlobalModel ------------------------------
(***************************************************************************)
(* What a split-learning run promises about its global model, with no      *)
(* tasks, RPCs or workers: in a round clients deliver prefix states and    *)
(* suffix states, in any order and not all of them, and the round ends     *)
(* either with a model made of clients that delivered both, or with the    *)
(* model it began with.                                                    *)
(***************************************************************************)
EXTENDS Naturals

CONSTANT Clients

VARIABLES
  round,      \* the rounds begun so far
  halves,     \* the round's prefix and suffix states that have been delivered
  model       \* the global model: the round that made it, and from whom

globalVars == <<round, halves, model>>

InitialModel == [round |-> 0, from |-> {}]

NoHalves == [prefix |-> {}, suffix |-> {}]

GlobalInit == round = 0 /\ halves = NoHalves /\ model = InitialModel

BeginRound ==
  /\ round' = round + 1 /\ halves' = NoHalves
  /\ UNCHANGED model

Deliver ==
  /\ \E c \in Clients :
        \/ halves' = [prefix |-> halves.prefix \cup {c}, suffix |-> halves.suffix]
        \/ halves' = [prefix |-> halves.prefix, suffix |-> halves.suffix \cup {c}]
  /\ UNCHANGED <<round, model>>

\* Both halves of a client enter the model, or none of them.
Publish ==
  /\ halves.prefix \cap halves.suffix # {} /\ model.round < round
  /\ model' = [round |-> round, from |-> halves.prefix \cap halves.suffix]
  /\ halves' = NoHalves
  /\ UNCHANGED round

Keep ==
  /\ halves' = NoHalves
  /\ UNCHANGED <<round, model>>

GlobalNext == BeginRound \/ Deliver \/ Publish \/ Keep

GlobalSpec == GlobalInit /\ [][GlobalNext]_globalVars
===============================================================================
