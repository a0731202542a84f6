------------------------------- MODULE Checkpoint ------------------------------
(***************************************************************************)
(* The round checkpoints of a virtual run: after a round in which every    *)
(* task succeeded, the global model, a copy of the controller's state file *)
(* and a record of the two are written to a pending directory, moved into  *)
(* place one by one, and published by replacing latest_checkpoint.json.    *)
(* The process may die, or a write fail, between any two of these steps    *)
(* (Crash).  Renaming is atomic and what was written stays: a crash is the *)
(* death of the process, not of the machine, for nothing is synced.  The   *)
(* test for existing files never fires, as a round is saved once in a      *)
(* directory that was fresh.                                               *)
(***************************************************************************)
EXTENDS Placement

VARIABLES
  pending,   \* how many parts of this round are complete in the pending directory
  placed,    \* the <<round, part>> files under checkpoints/
  copies,    \* copies[r]: the state in round r's copy of the controller file
  pointer    \* the round that latest_checkpoint.json names, or 0

directory == <<pending, placed, copies, pointer>>

Parts == {"model", "controller", "record"}    \* written in this order

CheckpointInit ==
  /\ Init
  /\ pending = 0 /\ placed = {} /\ pointer = 0
  /\ copies = [r \in 1..MaxRounds |-> NoState]

MutantDue ==                  \* a round with failures is saved too
  virtual /\ stage = "evaluating" /\ \E c \in Asked : outcome[c] = "success"
\* fit_round: checkpoint_each_round is set, there are results and no failures.
Due ==
  /\ virtual /\ stage = "evaluating"
  /\ \E c \in Asked : outcome[c] \in {"success", "no_examples"}
  /\ \A c \in Asked : outcome[c] \notin Failed

\* The next part is written; the second is the copy of the state file.
Write ==
  /\ Due /\ pointer # round /\ pending < Cardinality(Parts)
  /\ pending' = pending + 1
  /\ copies' = IF pending' = 2 THEN [copies EXCEPT ![round] = file] ELSE copies
  /\ UNCHANGED <<vars, placed, pointer>>

\* source.replace, in the order of the directory listing.
Move(p) ==
  /\ Due /\ pointer # round /\ pending = Cardinality(Parts)
  /\ <<round, p>> \notin placed
  /\ placed' = placed \cup {<<round, p>>}
  /\ UNCHANGED <<vars, pending, copies, pointer>>

\* The pointer is replaced last.
Publish ==
  /\ Due /\ pointer # round /\ {round} \X Parts \subseteq placed
  /\ pointer' = round /\ pending' = 0
  /\ UNCHANGED <<vars, placed, copies>>

\* The rest of the run; the next step of the loop waits for the checkpoint.
Run ==
  /\ Next
  /\ Due => pointer = round \/ stage' = "down"
  /\ UNCHANGED directory

CheckpointNext == Write \/ (\E p \in Parts : Move(p)) \/ Publish \/ Run

CheckpointSpec == CheckpointInit /\ [][CheckpointNext]_<<vars, directory>>

-------------------------------------------------------------------------------
(* Properties *)

\* "Publishing the pointer last leaves the previous checkpoint usable if a
\* process dies": whenever it dies, the pointer names a complete checkpoint.
PointerComplete == pointer # 0 => {pointer} \X Parts \subseteq placed

\* The published copy of the controller holds every failure and measurement up
\* to its round, although the state file is saved before the failures of a
\* round are observed.
ControllerCopyCurrent ==
  pointer # 0 => \A c \in Clients, b \in Boundaries :
    LET copy == copies[pointer]
    IN /\ failedAt[<<c, b>>] \in 1..pointer =>
            copy.until[<<Cid(c), b>>] = failedAt[<<c, b>>] + Cooldown
       /\ \A m \in learned : m[1] = c /\ m[2] = b /\ m[3] <= pointer =>
            copy.tables[c][b] >= m[3]
       /\ pointer = round /\ <<c, b>> \in unfit => <<Cid(c), b>> \in copy.banned

\* A run can be continued from what the pointer names, at every moment.
CheckpointUsable == PointerComplete /\ ControllerCopyCurrent
===============================================================================
