--------------------------- MODULE SuffixLeaseProofs ---------------------------
(***************************************************************************)
(* What TLC checks of SuffixLease and SuffixServicer on small instances,   *)
(* for every value of the constants.  LeaseInv is the manager's inductive  *)
(* invariant: the registry, the ownership of slots and the slot count      *)
(* support each other (a count of leases only bounds models because each   *)
(* lease owns its own model).  ServicerInv, in the second part, adds the   *)
(* servicer's: every step of a thread is a step of the manager, so         *)
(* LeaseInv holds there too, and the handlers' positions say who may take  *)
(* which.                                                                  *)
(***************************************************************************)
EXTENDS SuffixServicer, FiniteSetTheorems, TLAPS

LeaseInv == TypeOK /\ RegistryOK /\ PrivateSlots /\ SlotsBounded

\* A manager that has just been made satisfies the invariant.
LEMMA InitInv == Init => LeaseInv
<1> SUFFICES ASSUME Init PROVE LeaseInv
  OBVIOUS
<1> USE LeaseAssumption
<1>1. TypeOK
  BY DEF Init, TypeOK, NoModel, PcStates, ServerStates
<1>2. RegistryOK
  BY DEF Init, RegistryOK, Occupied
<1>3. PrivateSlots
  BY DEF Init, PrivateSlots, Occupied
<1>4. SlotsBounded
  BY FS_EmptySet DEF Init, SlotsBounded, Occupied
<1> QED BY <1>1, <1>2, <1>3, <1>4 DEF LeaseInv

\* Every step keeps the variables in their types; that a model pushed into idle
\* is a real one needs the ownership of slots.
LEMMA TypeStep == LeaseInv /\ [Next]_vars => TypeOK'
<1> SUFFICES ASSUME LeaseInv, [Next]_vars PROVE TypeOK'
  OBVIOUS
<1> USE DEF LeaseInv, TypeOK, RegistryOK, PrivateSlots, Occupied, registry, slots, driver, NoModel,
            PcStates, ServerStates
<1>1. ASSUME NEW s \in Sids, AcquireAdmit(s) PROVE TypeOK'
  BY <1>1 DEF AcquireAdmit, Admissible, TakeSlot
<1>2. ASSUME NEW s \in Sids, AcquireBuild(s) PROVE TypeOK'
  BY <1>2 DEF AcquireBuild
<1>3. ASSUME NEW s \in Sids, AcquirePublish(s) PROVE TypeOK'
  BY <1>3 DEF AcquirePublish
<1>4. ASSUME NEW s \in Sids, AcquireFail(s) PROVE TypeOK'
  BY <1>4 DEF AcquireFail
<1>5. ASSUME NEW s \in Sids, RpcFinish(s) PROVE TypeOK'
  BY <1>5 DEF RpcFinish, FinishTake
<1>6. ASSUME NEW s \in Sids, FinishStore(s) PROVE TypeOK'
  BY <1>6 DEF FinishStore
<1>7. ASSUME NEW s \in Sids, FinishCommit(s) PROVE TypeOK'
  BY <1>7 DEF FinishCommit
<1>8. ASSUME NEW s \in Sids, FinishFails(s) PROVE TypeOK'
  BY <1>8 DEF FinishFails, FinishFail
<1>9. ASSUME NEW s \in Sids, FinishLeave(s) PROVE TypeOK'
  BY <1>9 DEF FinishLeave
<1>10. ASSUME NEW S \in SUBSET Sids, Initialize(S) PROVE TypeOK'
  BY <1>10 DEF Initialize, ForgetRound
<1>11. ASSUME NEW s \in Sids, CollectAbort(s) PROVE TypeOK'
  BY <1>11 DEF CollectAbort, FinishTake
<1>12. CASE EndRound
  BY <1>12 DEF EndRound, ForgetRound
<1>13. CASE CollectBegin \/ CollectReturn \/ EndRoundRaises
  BY <1>13 DEF CollectBegin, CollectReturn, EndRoundRaises
<1>14. CASE Finished \/ UNCHANGED vars
  BY <1>14 DEF Finished, vars
<1> QED
  BY <1>1, <1>2, <1>3, <1>4, <1>5, <1>6, <1>7, <1>8, <1>9, <1>10, <1>11,
     <1>12, <1>13, <1>14
  DEF Next, AcquireStep, FinishStep, ServerStep

\* Every step keeps the registry and the threads' positions in agreement.
LEMMA RegistryStep == LeaseInv /\ [Next]_vars => RegistryOK'
<1> SUFFICES ASSUME LeaseInv, [Next]_vars PROVE RegistryOK'
  OBVIOUS
<1> USE DEF LeaseInv, TypeOK, RegistryOK, PrivateSlots, Occupied, registry, slots, driver, NoModel,
            PcStates, ServerStates
<1>1. ASSUME NEW s \in Sids, AcquireAdmit(s) PROVE RegistryOK'
  BY <1>1 DEF AcquireAdmit, Admissible, TakeSlot
<1>2. ASSUME NEW s \in Sids, AcquireBuild(s) PROVE RegistryOK'
  BY <1>2 DEF AcquireBuild
<1>3. ASSUME NEW s \in Sids, AcquirePublish(s) PROVE RegistryOK'
  BY <1>3 DEF AcquirePublish
<1>4. ASSUME NEW s \in Sids, AcquireFail(s) PROVE RegistryOK'
  BY <1>4 DEF AcquireFail
<1>5. ASSUME NEW s \in Sids, RpcFinish(s) PROVE RegistryOK'
  BY <1>5 DEF RpcFinish, FinishTake
<1>6. ASSUME NEW s \in Sids, FinishStore(s) PROVE RegistryOK'
  BY <1>6 DEF FinishStore
<1>7. ASSUME NEW s \in Sids, FinishCommit(s) PROVE RegistryOK'
  BY <1>7 DEF FinishCommit
<1>8. ASSUME NEW s \in Sids, FinishFails(s) PROVE RegistryOK'
  BY <1>8 DEF FinishFails, FinishFail
<1>9. ASSUME NEW s \in Sids, FinishLeave(s) PROVE RegistryOK'
  BY <1>9 DEF FinishLeave
<1>10. ASSUME NEW S \in SUBSET Sids, Initialize(S) PROVE RegistryOK'
  BY <1>10 DEF Initialize, ForgetRound
<1>11. ASSUME NEW s \in Sids, CollectAbort(s) PROVE RegistryOK'
  BY <1>11 DEF CollectAbort, FinishTake
<1>12. CASE EndRound
  BY <1>12 DEF EndRound, ForgetRound
<1>13. CASE CollectBegin \/ CollectReturn \/ EndRoundRaises
  BY <1>13 DEF CollectBegin, CollectReturn, EndRoundRaises
<1>14. CASE Finished \/ UNCHANGED vars
  BY <1>14 DEF Finished, vars
<1> QED
  BY <1>1, <1>2, <1>3, <1>4, <1>5, <1>6, <1>7, <1>8, <1>9, <1>10, <1>11,
     <1>12, <1>13, <1>14
  DEF Next, AcquireStep, FinishStep, ServerStep

\* Every step keeps slots private; a model built now is newer than all others.
LEMMA SlotsStep == LeaseInv /\ [Next]_vars => PrivateSlots'
<1> SUFFICES ASSUME LeaseInv, [Next]_vars PROVE PrivateSlots'
  OBVIOUS
<1> USE DEF LeaseInv, TypeOK, RegistryOK, PrivateSlots, Occupied, registry, slots, driver, NoModel,
            PcStates, ServerStates
<1>1. ASSUME NEW s \in Sids, AcquireAdmit(s) PROVE PrivateSlots'
  BY <1>1 DEF AcquireAdmit, Admissible, TakeSlot
<1>2. ASSUME NEW s \in Sids, AcquireBuild(s) PROVE PrivateSlots'
  BY <1>2 DEF AcquireBuild
<1>3. ASSUME NEW s \in Sids, AcquirePublish(s) PROVE PrivateSlots'
  BY <1>3 DEF AcquirePublish
<1>4. ASSUME NEW s \in Sids, AcquireFail(s) PROVE PrivateSlots'
  BY <1>4 DEF AcquireFail
<1>5. ASSUME NEW s \in Sids, RpcFinish(s) PROVE PrivateSlots'
  BY <1>5 DEF RpcFinish, FinishTake
<1>6. ASSUME NEW s \in Sids, FinishStore(s) PROVE PrivateSlots'
  BY <1>6 DEF FinishStore
<1>7. ASSUME NEW s \in Sids, FinishCommit(s) PROVE PrivateSlots'
  BY <1>7 DEF FinishCommit
<1>8. ASSUME NEW s \in Sids, FinishFails(s) PROVE PrivateSlots'
  BY <1>8 DEF FinishFails, FinishFail
<1>9. ASSUME NEW s \in Sids, FinishLeave(s) PROVE PrivateSlots'
  BY <1>9 DEF FinishLeave
<1>10. ASSUME NEW S \in SUBSET Sids, Initialize(S) PROVE PrivateSlots'
  BY <1>10 DEF Initialize, ForgetRound
<1>11. ASSUME NEW s \in Sids, CollectAbort(s) PROVE PrivateSlots'
  BY <1>11 DEF CollectAbort, FinishTake
<1>12. CASE EndRound
  BY <1>12 DEF EndRound, ForgetRound
<1>13. CASE CollectBegin \/ CollectReturn \/ EndRoundRaises
  BY <1>13 DEF CollectBegin, CollectReturn, EndRoundRaises
<1>14. CASE Finished \/ UNCHANGED vars
  BY <1>14 DEF Finished, vars
<1> QED
  BY <1>1, <1>2, <1>3, <1>4, <1>5, <1>6, <1>7, <1>8, <1>9, <1>10, <1>11,
     <1>12, <1>13, <1>14
  DEF Next, AcquireStep, FinishStep, ServerStep

\* The sets that are counted are finite.
LEMMA Counted ==
  ASSUME LeaseInv
  PROVE  /\ IsFiniteSet(Occupied) /\ Cardinality(Occupied) \in Nat
         /\ IsFiniteSet(idle) /\ Cardinality(idle) \in Nat
<1>1. Occupied \subseteq Sids
  BY DEF LeaseInv, TypeOK, Occupied
<1>2. IsFiniteSet(Occupied)
  BY <1>1, FS_Subset, LeaseAssumption
<1>3. idle \subseteq Nat /\ \A m \in idle : m <= created
  BY DEF LeaseInv, TypeOK, PrivateSlots
<1>4. IsFiniteSet(idle)
  BY <1>3, FS_BoundedSetOfNaturals DEF LeaseInv, TypeOK
<1> QED BY <1>2, <1>4, FS_CardinalityType

\* Shrinking both counts keeps the bound.
LEMMA BoundShrinks ==
  ASSUME LeaseInv, Occupied' \subseteq Occupied, idle' \subseteq idle
  PROVE  SlotsBounded'
<1>1. /\ IsFiniteSet(Occupied) /\ Cardinality(Occupied) \in Nat
      /\ IsFiniteSet(idle) /\ Cardinality(idle) \in Nat
  BY Counted
<1>2. IsFiniteSet(Occupied') /\ Cardinality(Occupied') <= Cardinality(Occupied)
  BY <1>1, FS_Subset
<1>3. IsFiniteSet(idle') /\ Cardinality(idle') <= Cardinality(idle)
  BY <1>1, FS_Subset
<1>4. Cardinality(Occupied') \in Nat /\ Cardinality(idle') \in Nat
  BY <1>2, <1>3, FS_CardinalityType
<1> QED
  BY <1>1, <1>2, <1>3, <1>4, LeaseAssumption DEF LeaseInv, SlotsBounded

\* A union has at most as many elements as the two sets together.
LEMMA UnionBound ==
  ASSUME NEW S, NEW T, IsFiniteSet(S), IsFiniteSet(T)
  PROVE  /\ IsFiniteSet(S \cup T) /\ Cardinality(S \cup T) \in Nat
         /\ Cardinality(S \cup T) <= Cardinality(S) + Cardinality(T)
<1>1. /\ IsFiniteSet(S \cup T)
      /\ Cardinality(S \cup T) = Cardinality(S) + Cardinality(T) - Cardinality(S \cap T)
  BY FS_Union
<1>2. Cardinality(S) \in Nat /\ Cardinality(T) \in Nat
  BY FS_CardinalityType
<1>3. IsFiniteSet(S \cap T)
  BY FS_Intersection
<1>4. Cardinality(S \cap T) \in Nat
  BY <1>3, FS_CardinalityType
<1>5. Cardinality(S \cup T) \in Nat
  BY <1>1, FS_CardinalityType
<1> QED BY <1>1, <1>2, <1>4, <1>5

\* What the admission test compares with the capacity is at least the number
\* of occupied slots.
LEMMA AdmissionCounts ==
  ASSUME LeaseInv, NEW s \in Sids, Admissible(s)
  PROVE  Cardinality(Occupied) < Capacity
<1>1. IsFiniteSet(live) /\ IsFiniteSet(preparing) /\ IsFiniteSet(finishing)
  BY FS_Subset, LeaseAssumption DEF LeaseInv, TypeOK
<1>2. /\ Cardinality(live) \in Nat /\ Cardinality(preparing) \in Nat
      /\ Cardinality(finishing) \in Nat
  BY <1>1, FS_CardinalityType
<1> DEFINE two == live \cup preparing
           all == two \cup finishing
<1>3. IsFiniteSet(two) /\ Cardinality(two) <= Cardinality(live) + Cardinality(preparing)
  BY <1>1, UnionBound
<1>4. Cardinality(two) \in Nat
  BY <1>3, FS_CardinalityType
<1>5. IsFiniteSet(all) /\ Cardinality(all) <= Cardinality(two) + Cardinality(finishing)
  BY <1>1, <1>3, UnionBound
<1>6. Cardinality(all) \in Nat
  BY <1>5, FS_CardinalityType
<1>7. Occupied \subseteq all
  BY DEF Occupied
<1>8. Cardinality(Occupied) <= Cardinality(all) /\ Cardinality(Occupied) \in Nat
  BY <1>5, <1>7, FS_Subset, Counted
<1> QED
  BY <1>2, <1>3, <1>4, <1>5, <1>6, <1>8, LeaseAssumption DEF Admissible

\* A new lease takes an idle slot, or there was none: then the admission
\* test alone bounds the slots.
LEMMA AdmitBound ==
  ASSUME LeaseInv, NEW s \in Sids, AcquireAdmit(s)
  PROVE  SlotsBounded'
<1>1. /\ IsFiniteSet(Occupied) /\ Cardinality(Occupied) \in Nat
      /\ IsFiniteSet(idle) /\ Cardinality(idle) \in Nat
  BY Counted
<1>2. Cardinality(Occupied) < Capacity
  BY AdmissionCounts DEF AcquireAdmit
<1>3. Occupied' = Occupied \cup {s}
  BY DEF AcquireAdmit, TakeSlot, Admissible, Occupied, LeaseInv, TypeOK, RegistryOK
<1>4. Cardinality(Occupied') <= Cardinality(Occupied) + 1 /\ Cardinality(Occupied') \in Nat
  BY <1>1, <1>3, UnionBound, FS_Singleton
<1>5. CASE idle = {} /\ idle' = idle
  BY <1>1, <1>2, <1>4, <1>5, FS_EmptySet, LeaseAssumption DEF SlotsBounded
<1>6. CASE \E m \in idle : idle' = idle \ {m}
  <2>1. Cardinality(idle') = Cardinality(idle) - 1
    BY <1>1, <1>6, FS_RemoveElement
  <2> QED
    BY <1>1, <1>4, <2>1, LeaseAssumption DEF LeaseInv, SlotsBounded
<1> QED BY <1>5, <1>6 DEF AcquireAdmit, TakeSlot

\* A committed slot moves from its lease to idle.
LEMMA CommitBound ==
  ASSUME LeaseInv, NEW s \in Sids, FinishCommit(s)
  PROVE  SlotsBounded'
<1>1. /\ IsFiniteSet(Occupied) /\ Cardinality(Occupied) \in Nat
      /\ IsFiniteSet(idle) /\ Cardinality(idle) \in Nat
  BY Counted
<1>2. s \in Occupied /\ Occupied' = Occupied \ {s}
  BY DEF FinishCommit, Occupied, LeaseInv, TypeOK, RegistryOK, PcStates
<1>3. Cardinality(Occupied') = Cardinality(Occupied) - 1
  BY <1>1, <1>2, FS_RemoveElement
<1>4. idle' = idle \/ idle' = idle \cup {held[s]}
  BY DEF FinishCommit
<1>5. Cardinality(idle') <= Cardinality(idle) + 1 /\ Cardinality(idle') \in Nat
  <2>1. IsFiniteSet({held[s]}) /\ Cardinality({held[s]}) = 1
    BY FS_Singleton
  <2>2. /\ Cardinality(idle \cup {held[s]}) \in Nat
        /\ Cardinality(idle \cup {held[s]}) <= Cardinality(idle) + 1
    BY <1>1, <2>1, UnionBound
  <2>3. CASE idle' = idle
    BY <1>1, <2>3
  <2>4. CASE idle' = idle \cup {held[s]}
    BY <2>2, <2>4
  <2> QED BY <1>4, <2>3, <2>4
<1> QED
  BY <1>1, <1>3, <1>5, LeaseAssumption DEF LeaseInv, SlotsBounded

\* Every other step keeps or shrinks both sets.
LEMMA BoundStep == LeaseInv /\ [Next]_vars => SlotsBounded'
<1> SUFFICES ASSUME LeaseInv, [Next]_vars PROVE SlotsBounded'
  OBVIOUS
<1> DEFINE Shrinks == Occupied' \subseteq Occupied /\ idle' \subseteq idle
<1> USE DEF registry, slots, driver
<1>0. Shrinks => SlotsBounded'
  BY BoundShrinks
<1> USE DEF Occupied
<1>1. ASSUME NEW s \in Sids, AcquireAdmit(s) \/ FinishCommit(s)
      PROVE  SlotsBounded'
  BY <1>1, AdmitBound, CommitBound
<1> USE DEF LeaseInv, TypeOK, RegistryOK, PcStates
<1>2. ASSUME NEW s \in Sids, AcquireStep(s) PROVE Shrinks
  BY <1>2 DEF AcquireStep, AcquireBuild, AcquirePublish, AcquireFail
<1>3. ASSUME NEW s \in Sids, FinishStore(s) \/ FinishFails(s) \/ FinishLeave(s)
      PROVE  Shrinks
  BY <1>3 DEF FinishStore, FinishFails, FinishFail, FinishLeave
<1>4. ASSUME NEW s \in Sids, RpcFinish(s) \/ CollectAbort(s) PROVE Shrinks
  BY <1>4 DEF RpcFinish, CollectAbort, FinishTake
<1>5. ASSUME NEW S \in SUBSET Sids, Initialize(S) \/ EndRound PROVE Shrinks
  BY <1>5 DEF Initialize, EndRound, ForgetRound
<1>6. ASSUME CollectBegin \/ CollectReturn \/ EndRoundRaises \/ Finished \/ UNCHANGED vars
      PROVE  Shrinks
  BY <1>6 DEF CollectBegin, CollectReturn, EndRoundRaises, Finished, vars
<1> HIDE DEF Shrinks
<1> QED
  BY <1>0, <1>1, <1>2, <1>3, <1>4, <1>5, <1>6 DEF Next, FinishStep, ServerStep

\* The inductive invariant holds in every reachable state.
THEOREM LeaseInvariant == Spec => []LeaseInv
<1>1. Init => LeaseInv
  BY InitInv
<1>2. LeaseInv /\ [Next]_vars => LeaseInv'
  BY TypeStep, RegistryStep, SlotsStep, BoundStep DEF LeaseInv
<1> QED BY <1>1, <1>2, PTL DEF Spec

\* Type correctness of the lease manager.
THEOREM TypeCorrect == Spec => []TypeOK
<1>1. LeaseInv => TypeOK
  BY DEF LeaseInv
<1> QED BY <1>1, LeaseInvariant, PTL

\* Every admitted task is in exactly one place, and is decided once.
THEOREM RegistryCorrect == Spec => []RegistryOK
<1>1. LeaseInv => RegistryOK
  BY DEF LeaseInv
<1> QED BY <1>1, LeaseInvariant, PTL

\* A replica is private for the complete task, under any interleaving of the
\* lock sections of acquire, finish, collect and end_round.
THEOREM SlotsPrivate == Spec => []PrivateSlots
<1>1. LeaseInv => PrivateSlots
  BY DEF LeaseInv
<1> QED BY <1>1, LeaseInvariant, PTL

\* The materialised models are at most the occupied and the idle slots.
LEMMA NativeBound ==
  ASSUME LeaseInv
  PROVE  CapacityHeld
<1>1. /\ IsFiniteSet(Occupied) /\ Cardinality(Occupied) \in Nat
      /\ IsFiniteSet(idle) /\ Cardinality(idle) \in Nat
  BY Counted
<1> DEFINE holders == {t \in Sids : held[t] # NoModel}
           models == {held[t] : t \in holders}
           f == [t \in holders |-> held[t]]
<1>2. holders \subseteq Occupied
  BY DEF LeaseInv, PrivateSlots
<1>3. IsFiniteSet(holders) /\ Cardinality(holders) <= Cardinality(Occupied)
  BY <1>1, <1>2, FS_Subset
<1>4. f \in Surjection(holders, models)
  BY DEF Surjection
<1>5. IsFiniteSet(models) /\ Cardinality(models) <= Cardinality(holders)
  BY <1>3, <1>4, FS_Surjection
<1>6. Cardinality(models) \in Nat /\ Cardinality(holders) \in Nat
  BY <1>3, <1>5, FS_CardinalityType
<1>7. native = idle \cup models
  BY DEF LeaseInv, PrivateSlots
<1>8. IsFiniteSet(native) /\ Cardinality(native) <= Cardinality(idle) + Cardinality(models)
  BY <1>1, <1>5, <1>7, UnionBound
<1>9. Cardinality(native) \in Nat
  BY <1>8, FS_CardinalityType
<1> QED
  BY <1>1, <1>3, <1>5, <1>6, <1>8, <1>9, LeaseAssumption
  DEF LeaseInv, SlotsBounded, CapacityHeld

\* Native suffix models, leased or kept idle, never exceed the capacity.
THEOREM MemoryBounded == Spec => []CapacityHeld
<1>1. LeaseInv => CapacityHeld
  BY NativeBound
<1> QED BY <1>1, LeaseInvariant, PTL

-------------------------------------------------------------------------------
(* The manager keeps the promise of TaskLedger. *)

\* A task runs, in the ledger's sense, exactly while it occupies a slot.
LEMMA RunningIsOccupied ==
  ASSUME LeaseInv
  PROVE  Ledger!RunningTasks = Occupied
BY DEF LeaseInv, TypeOK, RegistryOK, Occupied, Ledger!RunningTasks

\* TaskLedger counts with its own instance of FiniteSets.
LEMMA SameCount ==
  ASSUME NEW S
  PROVE  Ledger!Cardinality(S) = Cardinality(S)
BY DEF Ledger!Cardinality, Cardinality, Ledger!IsFiniteSet, IsFiniteSet

\* Admission is the ledger's Start.
LEMMA LedgerStart ==
  ASSUME LeaseInv, NEW s \in Sids, AcquireAdmit(s)
  PROVE  Ledger!Start(s)
<1>1. Ledger!Cardinality(Ledger!RunningTasks) < Capacity
  BY AdmissionCounts, RunningIsOccupied, SameCount DEF AcquireAdmit
<1>2. /\ s \in configs /\ s \notin attempted /\ configs' = configs
      /\ attempted' = attempted \cup {s} /\ completed' = completed /\ failed' = failed
  BY DEF AcquireAdmit, Admissible, driver
<1>3. s \notin completed /\ s \notin failed
  BY <1>2 DEF LeaseInv, RegistryOK
<1> DEFINE st == [r \in Sids |-> IF r \in completed THEN "committed"
                                 ELSE IF r \in failed THEN "failed"
                                 ELSE IF r \in attempted THEN "running" ELSE "open"]
<1>4. st[s] = "open"
  BY <1>2, <1>3
<1>5. st' = [st EXCEPT ![s] = "running"]
  BY <1>2, <1>3
<1> QED BY <1>1, <1>2, <1>4, <1>5 DEF Ledger!Start

\* Recording the outcome of an attempt that is still undecided.
LEMMA LedgerDecide ==
  ASSUME LeaseInv, NEW s \in Sids, s \in Occupied,
         configs' = configs, attempted' = attempted,
         \/ completed' = completed \cup {s} /\ failed' = failed
         \/ completed' = completed /\ failed' = failed \cup {s}
  PROVE  Ledger!Decide(s)
<1>1. s \in attempted /\ s \notin completed /\ s \notin failed
  BY DEF LeaseInv, RegistryOK
<1>2. CASE completed' = completed \cup {s} /\ failed' = failed
  BY <1>1, <1>2 DEF Ledger!Decide
<1>3. CASE completed' = completed /\ failed' = failed \cup {s}
  BY <1>1, <1>3 DEF Ledger!Decide
<1> QED BY <1>2, <1>3

\* end_round forgets the outcomes; whatever still occupied a slot is dropped.
LEMMA LedgerNewRound ==
  ASSUME LeaseInv, ForgetRound, configs' \subseteq Sids
  PROVE  Ledger!NewRound
BY DEF ForgetRound, Ledger!NewRound, Ledger!AllOpen

\* Every step of the manager is a step of the ledger, or none.
LEMMA LedgerStep == LeaseInv /\ [Next]_vars => [Ledger!LedgerNext]_(Ledger!ledgerVars)
<1> SUFFICES ASSUME LeaseInv, [Next]_vars
             PROVE  Ledger!LedgerNext \/ UNCHANGED Ledger!ledgerVars
  OBVIOUS
<1> DEFINE Same == UNCHANGED <<configs, attempted, completed, failed>>
<1> USE DEF registry, slots, driver
<1>0. Same => UNCHANGED Ledger!ledgerVars
  BY DEF Ledger!ledgerVars
<1>1. ASSUME NEW s \in Sids, AcquireAdmit(s) PROVE Ledger!LedgerNext
  BY <1>1, LedgerStart DEF Ledger!LedgerNext
<1>2. ASSUME NEW s \in Sids, AcquireFail(s) \/ FinishCommit(s) \/ FinishFails(s)
      PROVE  Ledger!LedgerNext
  <2>1. s \in Occupied
    BY <1>2 DEF AcquireFail, FinishCommit, FinishFails, FinishFail, LeaseInv,
                RegistryOK, Occupied
  <2>2. configs' = configs /\ attempted' = attempted
    BY <1>2 DEF AcquireFail, FinishCommit, FinishFails, FinishFail
  <2>3. \/ completed' = completed \cup {s} /\ failed' = failed
        \/ completed' = completed /\ failed' = failed \cup {s}
    BY <1>2 DEF AcquireFail, FinishCommit, FinishFails, FinishFail
  <2>4. Ledger!Decide(s)
    BY <2>1, <2>2, <2>3, LedgerDecide
  <2> QED BY <2>4 DEF Ledger!LedgerNext
<1>3. ASSUME NEW S \in SUBSET Sids, Initialize(S) \/ EndRound
      PROVE  Ledger!LedgerNext
  BY <1>3, LedgerNewRound DEF Initialize, EndRound, Ledger!LedgerNext
<1>4. ASSUME NEW s \in Sids, AcquireBuild(s) \/ AcquirePublish(s) \/ FinishStore(s)
                               \/ FinishLeave(s)
      PROVE  Same
  BY <1>4 DEF AcquireBuild, AcquirePublish, FinishStore, FinishLeave
<1>5. ASSUME NEW s \in Sids, RpcFinish(s) \/ CollectAbort(s) PROVE Same
  BY <1>5 DEF RpcFinish, CollectAbort, FinishTake
<1>6. ASSUME CollectBegin \/ CollectReturn \/ EndRoundRaises \/ Finished \/ UNCHANGED vars
      PROVE  Same
  BY <1>6 DEF CollectBegin, CollectReturn, EndRoundRaises, Finished, vars
<1> HIDE DEF Same
<1> QED
  BY <1>0, <1>1, <1>2, <1>3, <1>4, <1>5, <1>6
  DEF Next, AcquireStep, FinishStep, ServerStep

\* Every behaviour of the manager is a behaviour of the ledger: a task is
\* started once a round, within the capacity, and decided at most once.
THEOREM LeaseImplementsLedger == Spec => ImplementsLedger
<1>1. Init => Ledger!LedgerInit
  BY DEF Init, Ledger!LedgerInit, Ledger!AllOpen
<1>2. LeaseInv /\ [Next]_vars => [Ledger!LedgerNext]_(Ledger!ledgerVars)
  BY LedgerStep
<1> QED
  BY <1>1, <1>2, LeaseInvariant, PTL DEF Spec, ImplementsLedger, Ledger!LedgerSpec
-------------------------------------------------------------------------------
(* The servicer over the manager.  ServicerInv adds to LeaseInv who may     *)
(* touch a replica (Exclusive), whose future its thread runs (Working), how *)
(* the leases cover what the manager has (Leased), and in which part of a   *)
(* round a handler can still exist (Phases).  Patient holds when reconcile  *)
(* is waited for however long it takes.                                     *)

Holding == {"run", "cleaning"}                \* the executor future is awaited
Over    == {"none", "done", "raised"}
Acquiring(r) == Owns(r) /\ req[r].kind = "virtual_acquire"
Training(r)  == req[r].at \in {"lane", "run"} /\ req[r].kind = "train_tail"

Handlers ==
  [Requests -> {NoHandler} \cup
     [at : Awaits \ {"idle"}, sid : Sids, kind : Kinds, token : 1..MaxRounds]]

Handled ==
  /\ tokens \in [Sids -> 0..MaxRounds]
  /\ req \in Handlers
  /\ expired \subseteq Requests /\ cancelling \subseteq Requests /\ swallowed \subseteq Requests
  /\ \A r \in Requests : req[r].at = "idle" => r \notin expired \cup cancelling \cup swallowed
  /\ leases \subseteq Sids /\ uploads \subseteq Sids
  /\ job \in [Sids -> Jobs]
  /\ recon \in ReconStates /\ aborted \in BOOLEAN

\* One handler at a time is past the lock of a replica, and where it waits
\* says what it was asked.
Exclusive ==
  /\ \A r, t \in Requests : Owns(r) /\ Owns(t) /\ req[r].sid = req[t].sid => r = t
  /\ \A r \in Requests :
       /\ req[r].at \in {"slot", "cleanup", "cleaning"} => req[r].kind = "virtual_acquire"
       /\ req[r].at = "control" => req[r].kind \notin {"train_tail", "virtual_upload_state"}
       /\ req[r].at = "lane" => req[r].kind = "train_tail"
       /\ req[r].at = "run" => req[r].kind # "virtual_upload_state"

\* A thread works for the handler that waits for it, or for reconcile.
Working ==
  /\ \A r \in Requests :
       /\ req[r].at = "run" => job[req[r].sid] \in {req[r].kind, "done", "raised"}
       /\ req[r].at = "cleaning" => job[req[r].sid] \in {"virtual_abort", "done", "raised"}
  /\ \A s \in Sids :
       /\ job[s] # "none" =>
            recon = "finish" \/ \E r \in Requests : req[r].at \in Holding /\ req[r].sid = s
       /\ recon = "finish" => /\ job[s] \in Over \cup {"virtual_abort"}
                              /\ job[s] # "none" => \A u \in Sids \ {s} : job[u] = "none"
       /\ pc[s] \in {"building", "configuring"} => job[s] = "virtual_acquire"
       /\ pc[s] \in {"exporting", "stored", "discarding", "settled"} =>
            job[s] \in {"virtual_commit", "virtual_abort"}

\* What the manager has is leased, and an acquire that has not reached it is new.
Leased ==
  /\ preparing \cup live \cup finishing \subseteq leases
  /\ \A r \in Requests :
       /\ Acquiring(r) => req[r].sid \in leases
       /\ Acquiring(r) /\ req[r].at \in {"slot", "control"} => req[r].sid \notin attempted
  /\ \A s \in Sids : job[s] = "virtual_acquire" /\ pc[s] = "out" => s \notin attempted

Phases ==
  /\ byServer = {}
  /\ \A s \in Sids : tokens[s] # NoToken => recon = "off" /\ server = "fitting" /\ s \in configs
  /\ \A r \in Requests : req[r].at # "idle" =>
        recon = "gather" \/ (recon = "off" /\ server = "fitting")
  /\ recon \in {"done", "closed"} => live = {} /\ leases = {}
  /\ server = "collecting" => recon = "off" /\ live = {} /\ leases = {}

Patient ==
  ~Impatient => \A r \in Requests :
     /\ req[r].at # "idle" => server = "fitting"
     /\ Acquiring(r) => req[r].sid \in configs
     /\ Training(r) => req[r].sid \in live

\* The three semaphores.
ControlUsers ==
  {s \in Sids : \/ recon = "finish" /\ job[s] # "none"
                \/ \E r \in Requests : /\ req[r].at \in Holding /\ req[r].sid = s
                                         /\ req[r].kind # "train_tail"}
LaneUsers ==
  {s \in Sids : \E r \in Requests : /\ req[r].at = "run" /\ req[r].sid = s
                                      /\ req[r].kind = "train_tail"}
Semaphores ==
  /\ freeSlots \in Nat /\ freeSlots + Cardinality(SlotOwners) = Capacity
  /\ freeControl \in Nat /\ freeControl + Cardinality(ControlUsers) = Capacity
  /\ freeLanes \in Nat /\ freeLanes + Cardinality(LaneUsers) = Lanes

ServicerInv ==
  /\ LeaseInv /\ Handled /\ Exclusive /\ Working /\ Leased /\ Phases /\ Patient /\ Semaphores

\* Handler r, and nobody else, leaves an await for another.
Becomes(r, a) ==
  /\ req'[r].at = a
  /\ a # "idle" => /\ req'[r].sid = req[r].sid /\ req'[r].kind = req[r].kind
                   /\ req'[r].token = req[r].token
  /\ \A t \in Requests \ {r} : req'[t] = req[t]

\* What is known of a handler that exists.
LEMMA HandlerKnown ==
  ASSUME req \in Handlers, NEW r \in Requests, req[r].at # "idle"
  PROVE  /\ req[r] \in [at : Awaits \ {"idle"}, sid : Sids, kind : Kinds, token : 1..MaxRounds]
         /\ req[r].at \in Awaits /\ req[r].sid \in Sids /\ req[r].kind \in Kinds
         /\ req[r].token \in 1..MaxRounds
<1>1. req[r] # NoHandler
  BY DEF NoHandler
<1> QED BY <1>1 DEF Handlers

\* A handler that goes on to another await.
LEMMA GoesBecomes ==
  ASSUME req \in Handlers, NEW r \in Requests, req[r].at # "idle",
         NEW a \in Awaits \ {"idle"}, req' = [req EXCEPT ![r].at = a]
  PROVE  req' \in Handlers /\ Becomes(r, a)
<1>1. req[r] \in [at : Awaits \ {"idle"}, sid : Sids, kind : Kinds, token : 1..MaxRounds]
  BY HandlerKnown
<1>2. /\ [req[r] EXCEPT !.at = a] \in [at : Awaits \ {"idle"}, sid : Sids, kind : Kinds,
                                       token : 1..MaxRounds]
      /\ [req[r] EXCEPT !.at = a].at = a
      /\ [req[r] EXCEPT !.at = a].sid = req[r].sid
      /\ [req[r] EXCEPT !.at = a].kind = req[r].kind
      /\ [req[r] EXCEPT !.at = a].token = req[r].token
  BY <1>1
<1>3. req' = [req EXCEPT ![r] = [req[r] EXCEPT !.at = a]]
  OBVIOUS
<1>4. req'[r] = [req[r] EXCEPT !.at = a] /\ \A t \in Requests \ {r} : req'[t] = req[t]
  BY <1>3 DEF Handlers
<1>5. req' \in Handlers
  BY <1>2, <1>3 DEF Handlers
<1> QED BY <1>2, <1>4, <1>5 DEF Becomes

\* A handler that returns or raises.
LEMMA EndsBecomes ==
  ASSUME req \in Handlers, NEW r \in Requests, Ends(r)
  PROVE  req' \in Handlers /\ Becomes(r, "idle")
BY DEF Ends, Handlers, Becomes, NoHandler

\* A semaphore's free places and its users, before and after one of them moves.
LEMMA Counter ==
  ASSUME NEW S \in SUBSET Sids, NEW T \in SUBSET Sids, NEW n \in Nat, NEW m \in Nat,
         NEW total \in Nat, n + Cardinality(S) = total, NEW s \in Sids,
         \A u \in Sids \ {s} : u \in T <=> u \in S,
         m = n + (IF s \in S THEN 1 ELSE 0) - (IF s \in T THEN 1 ELSE 0)
  PROVE  m + Cardinality(T) = total
<1>1. IsFiniteSet(S) /\ Cardinality(S) \in Nat
  BY FS_Subset, FS_CardinalityType, LeaseAssumption
<1>2. CASE (s \in S) = (s \in T)
  <2>1. S = T
    BY <1>2
  <2> QED BY <1>1, <1>2, <2>1
<1>3. CASE s \in S /\ s \notin T
  <2>1. T = S \ {s}
    BY <1>3
  <2>2. Cardinality(T) = Cardinality(S) - 1
    BY <1>1, <1>3, <2>1, FS_RemoveElement
  <2> QED BY <1>1, <1>3, <2>2
<1>4. CASE s \notin S /\ s \in T
  <2>1. T = S \cup {s}
    BY <1>4
  <2>2. Cardinality(T) = Cardinality(S) + 1
    BY <1>1, <1>4, <2>1, FS_AddElement
  <2> QED BY <1>1, <1>4, <2>2
<1> QED BY <1>2, <1>3, <1>4

\* The manager keeps its invariant, whoever calls it.
LEMMA ManagerStep == LeaseInv /\ [Next]_vars => LeaseInv'
  BY TypeStep, RegistryStep, SlotsStep, BoundStep DEF LeaseInv

\* A handler that neither has nor gets the lock of its replica disturbs nobody.
LEMMA BystanderMoves ==
  ASSUME ServicerInv, NEW r \in Requests, ~Owns(r), NEW a \in {"idle", "lock"},
         req'[r].at = a, \A t \in Requests \ {r} : req'[t] = req[t],
         a = "lock" => recon = "off" /\ server = "fitting",
         Handled', UNCHANGED <<vars, lanes, recon, job, leases, freeSlots, tokens>>
  PROVE  ServicerInv'
<1> USE DEF ServicerInv, Owns, lanes
<1>1. \A t \in Requests : Owns(t) <=> Owns(t)'
  OBVIOUS
<1>2. Exclusive'
  BY <1>1 DEF Exclusive
<1>3. Working'
  BY <1>1 DEF Working, Holding, vars
<1>4. Leased'
  BY <1>1 DEF Leased, Acquiring, vars, registry
<1>5. Phases'
  BY DEF Phases, vars, registry, driver
<1>6. Patient'
  BY <1>1 DEF Patient, Acquiring, Training, vars, registry, driver, Phases
<1>7. Semaphores'
  <2>1. SlotOwners' = SlotOwners
    BY <1>1 DEF SlotOwners, Waiting
  <2>2. ControlUsers' = ControlUsers
    BY <1>1 DEF ControlUsers, Holding
  <2>3. LaneUsers' = LaneUsers
    BY <1>1 DEF LaneUsers
  <2> QED BY <2>1, <2>2, <2>3 DEF Semaphores
<1>8. LeaseInv'
  BY ManagerStep
<1> QED BY <1>2, <1>3, <1>4, <1>5, <1>6, <1>7, <1>8

\* The handler that has the lock goes on to await a, or ends.
LEMMA OwnerMoves ==
  ASSUME ServicerInv, NEW r \in Requests, NEW s \in Sids, NEW k, NEW a \in Awaits \ {"lock"},
         req[r].at # "idle", req[r].sid = s, req[r].kind = k, Becomes(r, a),
         \A t \in Requests \ {r} : Owns(t) => req[t].sid # s,
         Handled', UNCHANGED <<vars, round>>,
         \A u \in Sids \ {s} : job'[u] = job[u] /\ (u \in leases' <=> u \in leases),
         a \in {"slot", "cleanup", "cleaning"} => k = "virtual_acquire",
         a = "control" => k \notin {"train_tail", "virtual_upload_state"},
         a = "lane" => k = "train_tail",
         a = "run" => k # "virtual_upload_state" /\ job'[s] \in {k, "done", "raised"},
         a = "cleaning" => job'[s] \in {"virtual_abort", "done", "raised"},
         a \notin Holding => job'[s] = "none",
         job'[s] = job[s] \/ job[s] \in Over,
         s \in preparing \cup live \cup finishing => s \in leases',
         a # "idle" /\ k = "virtual_acquire" =>
            s \in leases' /\ (a \in {"slot", "control"} => s \notin attempted)
            /\ (~Impatient => s \in configs),
         job'[s] = "virtual_acquire" /\ pc[s] = "out" => s \notin attempted,
         ~Impatient /\ k = "train_tail" /\ a \in {"lane", "run"} => s \in live,
         freeSlots' \in Nat, freeControl' \in Nat, freeLanes' \in Nat,
         freeSlots' = freeSlots + (IF s \in leases /\ req[r].at # "slot" THEN 1 ELSE 0)
                                - (IF s \in leases' /\ a # "slot" THEN 1 ELSE 0),
         freeControl' = freeControl
            + (IF req[r].at \in Holding /\ k # "train_tail" THEN 1 ELSE 0)
            - (IF a \in Holding /\ k # "train_tail" THEN 1 ELSE 0),
         freeLanes' = freeLanes + (IF req[r].at = "run" /\ k = "train_tail" THEN 1 ELSE 0)
                                - (IF a = "run" /\ k = "train_tail" THEN 1 ELSE 0)
  PROVE  ServicerInv'
<1> USE DEF ServicerInv, round
<1>1. /\ \A t \in Requests \ {r} : req'[t] = req[t] /\ (Owns(t) => req[t].sid # s)
      /\ Owns(r)' => req'[r].sid = s /\ req'[r].kind = k
      /\ req'[r].at = a
      /\ Owns(r)' <=> a # "idle"
  BY DEF Becomes, Owns
<1>2. recon # "finish" /\ recon' = recon /\ recon \notin {"done", "closed"}
      /\ server # "collecting"
  BY DEF Phases
<1>3. Exclusive'
  BY <1>1 DEF Exclusive, Owns
<1>4. Working'
  <2>1. pc' = pc
    BY DEF vars
  <2>2. \A t \in Requests :
          /\ req'[t].at = "run" => job'[req'[t].sid] \in {req'[t].kind, "done", "raised"}
          /\ req'[t].at = "cleaning" => job'[req'[t].sid] \in {"virtual_abort", "done", "raised"}
    <3> SUFFICES ASSUME NEW t \in Requests, t # r, req[t].at \in Holding
                 PROVE  job'[req[t].sid] = job[req[t].sid]
      BY <1>1 DEF Working, Holding, Owns
    <3>1. Owns(t) /\ req[t].sid \in Sids /\ req[t].sid # s
      BY <1>1, HandlerKnown DEF Owns, Holding, Handled, Handlers
    <3> QED BY <3>1
  <2>3. ASSUME NEW u \in Sids, job'[u] # "none"
        PROVE  \E t \in Requests : req'[t].at \in Holding /\ req'[t].sid = u
    <3>1. CASE u = s
      <4>1. a \in Holding
        BY <2>3, <3>1
      <4> QED BY <1>1, <3>1, <4>1 DEF Holding, Owns
    <3>2. CASE u # s
      <4>1. PICK t \in Requests : req[t].at \in Holding /\ req[t].sid = u
        BY <1>2, <2>3, <3>2 DEF Working
      <4> QED BY <1>1, <3>2, <4>1
    <3> QED BY <3>1, <3>2
  <2>4. \A u \in Sids :
          /\ pc[u] \in {"building", "configuring"} => job'[u] = "virtual_acquire"
          /\ pc[u] \in {"exporting", "stored", "discarding", "settled"} =>
               job'[u] \in {"virtual_commit", "virtual_abort"}
    BY DEF Working, Over
  <2> QED BY <1>2, <2>1, <2>2, <2>3, <2>4 DEF Working
<1>5. Leased'
  <2>1. UNCHANGED <<preparing, live, finishing, attempted, pc>>
    BY DEF vars, registry
  <2>2. preparing \cup live \cup finishing \subseteq leases'
    BY DEF Leased, LeaseInv, TypeOK
  <2>3. ASSUME NEW t \in Requests, Acquiring(t)'
        PROVE  /\ req'[t].sid \in leases'
               /\ req'[t].at \in {"slot", "control"} => req'[t].sid \notin attempted
    <3>1. CASE t = r
      BY <1>1, <2>3, <3>1 DEF Acquiring, Owns
    <3>2. CASE t # r
      <4>1. Acquiring(t) /\ req'[t] = req[t] /\ req[t].sid \in Sids \ {s}
        BY <1>1, <2>3, <3>2, HandlerKnown DEF Acquiring, Owns, Handled, Handlers
      <4> QED BY <4>1 DEF Leased
    <3> QED BY <3>1, <3>2
  <2>4. \A u \in Sids : job'[u] = "virtual_acquire" /\ pc[u] = "out" => u \notin attempted
    BY DEF Leased
  <2> QED BY <2>1, <2>2, <2>3, <2>4 DEF Leased
<1>6. Phases'
  BY <1>1, <1>2 DEF Phases, vars, registry, driver
<1>7. Patient'
  <2> SUFFICES ASSUME ~Impatient, NEW t \in Requests
               PROVE  /\ req'[t].at # "idle" => server = "fitting"
                      /\ Acquiring(t)' => req'[t].sid \in configs
                      /\ Training(t)' => req'[t].sid \in live
    BY DEF Patient, vars, registry, driver
  <2>1. CASE t # r
    BY <1>1, <2>1 DEF Patient, Acquiring, Training, Owns
  <2>2. CASE t = r
    BY <1>1, <2>2 DEF Patient, Acquiring, Training, Owns
  <2> QED BY <2>1, <2>2
<1>8. Semaphores'
  <2>1. /\ SlotOwners \subseteq Sids /\ ControlUsers \subseteq Sids /\ LaneUsers \subseteq Sids
        /\ SlotOwners' \subseteq Sids /\ ControlUsers' \subseteq Sids /\ LaneUsers' \subseteq Sids
    BY DEF SlotOwners, ControlUsers, LaneUsers, Handled
  <2>2. \A u \in Sids \ {s} : /\ u \in SlotOwners' <=> u \in SlotOwners
                              /\ u \in ControlUsers' <=> u \in ControlUsers
                              /\ u \in LaneUsers' <=> u \in LaneUsers
    BY <1>1, <1>2 DEF SlotOwners, ControlUsers, LaneUsers, Waiting, Owns, Holding
  <2>3. /\ s \in SlotOwners <=> s \in leases /\ req[r].at # "slot"
        /\ s \in ControlUsers <=> req[r].at \in Holding /\ k # "train_tail"
        /\ s \in LaneUsers <=> req[r].at = "run" /\ k = "train_tail"
    BY <1>1, <1>2 DEF SlotOwners, ControlUsers, LaneUsers, Waiting, Owns, Holding
  <2>4. /\ s \in SlotOwners' <=> s \in leases' /\ a # "slot"
        /\ s \in ControlUsers' <=> a \in Holding /\ k # "train_tail"
        /\ s \in LaneUsers' <=> a = "run" /\ k = "train_tail"
    BY <1>1, <1>2 DEF SlotOwners, ControlUsers, LaneUsers, Waiting, Owns, Holding
  <2>5. freeSlots' + Cardinality(SlotOwners') = Capacity
    BY <2>1, <2>2, <2>3, <2>4, Counter, LeaseAssumption DEF Semaphores
  <2>6. freeControl' + Cardinality(ControlUsers') = Capacity
    BY <2>1, <2>2, <2>3, <2>4, Counter, LeaseAssumption DEF Semaphores
  <2>7. freeLanes' + Cardinality(LaneUsers') = Lanes
    BY <2>1, <2>2, <2>3, <2>4, Counter, ServicerAssumption DEF Semaphores
  <2> QED BY <2>5, <2>6, <2>7 DEF Semaphores
<1>9. LeaseInv'
  BY ManagerStep
<1> QED BY <1>3, <1>4, <1>5, <1>6, <1>7, <1>8, <1>9

\* A deadline or a swallowed cancellation changes nothing but what is noted.
LEMMA NoteKeeps ==
  ASSUME ServicerInv, Handled',
         UNCHANGED <<vars, lanes, round, req, leases, freeSlots, job>>
  PROVE  ServicerInv'
<1> USE DEF ServicerInv, lanes, round
<1>1. LeaseInv'
  BY ManagerStep
<1>2. Exclusive' /\ Working' /\ Leased' /\ Phases' /\ Patient'
  BY DEF vars, registry, driver, Exclusive, Owns, Working, Holding, Over, Leased, Acquiring,
     Phases, Patient, Training
<1>3. Semaphores'
  BY DEF Semaphores, SlotOwners, Waiting, ControlUsers, LaneUsers, Holding
<1> QED BY <1>1, <1>2, <1>3

\* A request has arrived and asks for the lock.
LEMMA ArriveKeeps ==
  ASSUME ServicerInv, NEW r \in Requests, NEW s \in Sids, NEW k \in Methods, Arrive(r, s, k)
  PROVE  ServicerInv'
<1> USE DEF ServicerInv
<1>1. k \in Kinds /\ tokens[s] \in 1..MaxRounds
  BY ServicerAssumption, LeaseAssumption DEF Arrive, Handled, NoToken
<1>2. req' \in Handlers
  BY <1>1 DEF Arrive, Handled, Handlers, Awaits
<1>3. req'[r].at = "lock" /\ \A t \in Requests \ {r} : req'[t] = req[t]
  BY DEF Arrive, Handled, Handlers
<1>4. Handled'
  BY <1>2, <1>3 DEF Arrive, Handled, round
<1>5. recon = "off" /\ server = "fitting"
  BY DEF Arrive, Phases
<1> QED BY <1>3, <1>4, <1>5, BystanderMoves DEF Arrive, Owns, round

\* A handler that ends, or goes on, keeps the notes about the others.
LEMMA MoveHandled ==
  ASSUME Handled, NEW r \in Requests, r \notin cancelling', req' \in Handlers,
         NEW a, Becomes(r, a), a = "idle" => r \notin expired' \cup swallowed',
         expired' \subseteq expired, cancelling' \subseteq cancelling, swallowed' \subseteq swallowed,
         leases' \subseteq Sids, uploads' \subseteq Sids, job' \in [Sids -> Jobs],
         UNCHANGED round
  PROVE  Handled'
BY DEF Handled, Becomes, round

\* The lock is taken: refused, ended at once, or on to a first await.
LEMMA DispatchKeeps ==
  ASSUME ServicerInv, NEW r \in Requests, Dispatch(r)
  PROVE  ServicerInv'
<1> USE DEF ServicerInv
<1> DEFINE s == req[r].sid
           k == req[r].kind
<1>1. /\ req[r].at = "lock" /\ r \notin cancelling /\ s \in Sids /\ k \in Kinds
      /\ req[r].token # NoToken
      /\ \A t \in Requests \ {r} : Owns(t) => req[t].sid # s
  BY HandlerKnown DEF Dispatch, LockFree, Handled, NoToken
<1>2. job[s] = "none"
  <2>1. recon # "finish"
    BY <1>1 DEF Phases
  <2> QED BY <1>1, <2>1 DEF Working, Holding, Owns
<1>3. UNCHANGED <<vars, lanes, round, cancelling, freeSlots, job>>
  BY DEF Dispatch
<1>4. s \notin attempted => s \notin preparing \cup live \cup finishing
  BY <1>1 DEF LeaseInv, RegistryOK, Occupied
<1>5. CASE Ends(r) /\ leases' = leases
  <2>1. req' \in Handlers /\ Becomes(r, "idle")
    BY <1>5, EndsBecomes DEF Handled
  <2>2. uploads' \subseteq Sids
    BY <1>1 DEF Dispatch, DispatchAcquire, DispatchOther, Handled
  <2>3. Handled'
    BY <1>1, <1>3, <1>5, <2>1, <2>2, MoveHandled DEF Ends, Handled
  <2> QED BY <1>1, <1>3, <1>5, <2>1, <2>3, BystanderMoves DEF Becomes, Owns, lanes, round
<1>6. ASSUME NEW a \in {"slot", "lane", "control"}, Goes(r, a), uploads' = uploads,
             tokens[s] = req[r].token,
             IF k = "virtual_acquire"
               THEN a = "slot" /\ s \notin leases \cup attempted /\ leases' = leases \cup {s}
               ELSE /\ leases' = leases /\ s \in live /\ a # "slot" /\ k # "virtual_upload_state"
                    /\ a = "lane" <=> k = "train_tail"
      PROVE  ServicerInv'
  <2>1. a \in Awaits \ {"idle"} /\ req[r].at # "idle"
    BY <1>1 DEF Awaits
  <2>2. req' \in Handlers /\ Becomes(r, a)
    BY <1>6, <2>1, GoesBecomes DEF Goes, Handled
  <2>3. Handled'
    BY <1>1, <1>3, <1>6, <2>1, <2>2, MoveHandled DEF Goes, Handled
  <2>4. s \in configs
    BY <1>1, <1>6 DEF Phases
  <2>5. s \in preparing \cup live \cup finishing => s \in leases'
    BY <1>1, <1>6 DEF Leased
  <2>6. a \in Awaits \ {"lock"} /\ a \notin Holding /\ req[r].at \notin Holding
    BY <1>1 DEF Awaits, Holding
  <2>7. freeSlots \in Nat /\ freeControl \in Nat /\ freeLanes \in Nat
    BY DEF Semaphores
  <2>8. freeSlots' = freeSlots + (IF s \in leases /\ req[r].at # "slot" THEN 1 ELSE 0)
                               - (IF s \in leases' /\ a # "slot" THEN 1 ELSE 0)
    BY <1>1, <1>3, <1>6, <2>7
  <2>9. /\ \A u \in Sids \ {s} : job'[u] = job[u] /\ (u \in leases' <=> u \in leases)
        /\ job'[s] = "none" /\ UNCHANGED <<vars, round>>
        /\ freeSlots' \in Nat /\ freeControl' = freeControl /\ freeLanes' = freeLanes
    BY <1>2, <1>3, <1>6, <2>7 DEF lanes
  <2>10. /\ a = "slot" => k = "virtual_acquire"
         /\ a = "control" => k \notin {"train_tail", "virtual_upload_state"}
         /\ a = "lane" => k = "train_tail"
         /\ a \notin {"cleanup", "cleaning", "run"}
         /\ k = "virtual_acquire" => s \in leases' /\ s \notin attempted
         /\ k = "train_tail" => s \in live
    BY <1>6
  <2> QED
    BY <1>1, <1>2, <2>2, <2>3, <2>4, <2>5, <2>6, <2>7, <2>8, <2>9, <2>10, OwnerMoves DEF Over
<1>7. CASE tokens[s] # req[r].token
  BY <1>5, <1>7 DEF Dispatch
<1>8. CASE tokens[s] = req[r].token /\ k = "virtual_acquire"
  <2>1. CASE s \in leases \cup attempted
    BY <1>5, <1>8, <2>1 DEF Dispatch, DispatchAcquire
  <2>2. CASE s \notin leases \cup attempted
    BY <1>6, <1>8, <2>2 DEF Dispatch, DispatchAcquire
  <2> QED BY <2>1, <2>2
<1>9. CASE tokens[s] = req[r].token /\ k # "virtual_acquire"
  <2>0. DispatchOther(r)
    BY <1>9 DEF Dispatch
  <2>1. CASE s \notin live \/ k = "virtual_upload_state"
    BY <1>5, <2>0, <2>1 DEF DispatchOther
  <2>2. CASE s \in live /\ k = "train_tail"
    BY <1>6, <1>9, <2>0, <2>2 DEF DispatchOther
  <2>3. CASE s \in live /\ k \notin {"virtual_upload_state", "train_tail"}
    BY <1>6, <1>9, <2>0, <2>3 DEF DispatchOther
  <2> QED BY <2>1, <2>2, <2>3
<1> QED BY <1>7, <1>8, <1>9

\* What the holder of a replica's lock can rely on.
LEMMA OwnerKnown ==
  ASSUME ServicerInv, NEW r \in Requests, Owns(r)
  PROVE  LET s == req[r].sid IN
         /\ req[r].at # "idle" /\ req[r].at \in Awaits \ {"idle", "lock"}
         /\ s \in Sids /\ req[r].kind \in Kinds /\ recon # "finish"
         /\ \A t \in Requests \ {r} : Owns(t) => req[t].sid # s
         /\ job[s] \in Jobs
         /\ req[r].at \notin Holding => job[s] = "none"
         /\ job[s] \in Over => s \notin preparing \cup finishing
         /\ s \in preparing \cup live \cup finishing => s \in leases
<1> USE DEF ServicerInv
<1> DEFINE s == req[r].sid
<1>1. /\ req[r].at # "idle" /\ req[r].at \in Awaits \ {"idle", "lock"}
      /\ s \in Sids /\ req[r].kind \in Kinds
  BY HandlerKnown DEF Owns, Handled
<1>2. recon # "finish"
  BY <1>1 DEF Phases
<1>3. \A t \in Requests \ {r} : Owns(t) => req[t].sid # s
  BY DEF Exclusive
<1>4. req[r].at \notin Holding => job[s] = "none"
  BY <1>1, <1>2, <1>3 DEF Working, Holding, Owns
<1>5. job[s] \in Jobs
  BY <1>1 DEF Handled
<1>6. job[s] \in Over => s \notin preparing \cup finishing
  BY <1>1 DEF Working, Over, LeaseInv, RegistryOK
<1>7. s \in preparing \cup live \cup finishing => s \in leases
  BY DEF Leased
<1> QED BY <1>1, <1>2, <1>3, <1>4, <1>5, <1>6, <1>7

\* A place of the capacity semaphore covers the new lease.
LEMMA TakeReplicaSlotKeeps ==
  ASSUME ServicerInv, NEW r \in Requests, TakeReplicaSlot(r)
  PROVE  ServicerInv'
<1> USE DEF ServicerInv
<1> DEFINE s == req[r].sid
           k == req[r].kind
<1>1. Owns(r) /\ req[r].at = "slot" /\ k = "virtual_acquire" /\ r \notin cancelling
  BY DEF TakeReplicaSlot, Owns, Exclusive
<1>2. /\ s \in Sids /\ job[s] = "none" /\ s \in leases /\ s \notin attempted
      /\ ~Impatient => s \in configs
  BY <1>1, OwnerKnown DEF Holding, Leased, Acquiring, Patient
<1>3. req' \in Handlers /\ Becomes(r, "control")
  BY <1>1, GoesBecomes DEF TakeReplicaSlot, Goes, Handled, Awaits
<1>4. Handled'
  BY <1>1, <1>3, MoveHandled DEF TakeReplicaSlot, Goes, Handled
<1>5. freeSlots \in Nat /\ freeSlots' \in Nat /\ freeSlots' = freeSlots - 1 /\ freeControl \in Nat /\ freeLanes \in Nat
  BY DEF TakeReplicaSlot, Semaphores
<1>6. /\ UNCHANGED <<vars, round, leases, job>>
      /\ freeControl' = freeControl /\ freeLanes' = freeLanes
  BY DEF TakeReplicaSlot, lanes
<1>7. /\ \A t \in Requests \ {r} : Owns(t) => req[t].sid # s
      /\ req[r].at # "idle" /\ s \in preparing \cup live \cup finishing => s \in leases
  BY <1>1, OwnerKnown
<1>8. "control" \in Awaits \ {"lock"} /\ "control" \notin Holding /\ "slot" \notin Holding /\ "none" \in Over
  BY DEF Awaits, Holding, Over
<1> QED BY <1>1, <1>2, <1>3, <1>4, <1>5, <1>6, <1>7, <1>8, OwnerMoves

\* A lifecycle operation gets a thread.
LEMMA SubmitControlKeeps ==
  ASSUME ServicerInv, NEW r \in Requests, SubmitControl(r)
  PROVE  ServicerInv'
<1> USE DEF ServicerInv
<1> DEFINE s == req[r].sid
           k == req[r].kind
           a == IF req[r].at = "control" THEN "run" ELSE "cleaning"
           j == IF req[r].at = "control" THEN k ELSE "virtual_abort"
<1>1. /\ Owns(r) /\ req[r].at \in {"control", "cleanup"} /\ r \notin cancelling
      /\ k \notin {"train_tail", "virtual_upload_state"}
      /\ req[r].at = "cleanup" => k = "virtual_acquire"
  BY DEF SubmitControl, Owns, Exclusive
<1>2. /\ s \in Sids /\ k \in Kinds /\ job[s] = "none"
      /\ k = "virtual_acquire" =>
           s \in leases /\ (req[r].at = "control" => s \notin attempted)
           /\ (~Impatient => s \in configs)
  BY <1>1, OwnerKnown DEF Holding, Leased, Acquiring, Patient
<1>3. req' \in Handlers /\ Becomes(r, a)
  BY <1>1, GoesBecomes DEF SubmitControl, Goes, Handled, Awaits
<1>4. job' \in [Sids -> Jobs] /\ job'[s] = j /\ \A u \in Sids \ {s} : job'[u] = job[u]
  BY <1>1, <1>2 DEF SubmitControl, Handled, Jobs, Kinds
<1>5. Handled'
  BY <1>1, <1>3, <1>4, MoveHandled DEF SubmitControl, Goes, Handled
<1>6. /\ freeControl \in Nat /\ freeControl' \in Nat /\ freeControl' = freeControl - 1
      /\ freeSlots \in Nat /\ freeLanes \in Nat
  BY DEF SubmitControl, Semaphores
<1>7. UNCHANGED <<vars, round, leases, freeSlots, freeLanes>>
  BY DEF SubmitControl
<1>8. a \in Awaits \ {"lock"} /\ a \in Holding /\ a # "slot" /\ req[r].at \notin Holding
  BY <1>1 DEF Awaits, Holding
<1>9. /\ a \in {"slot", "cleanup", "cleaning"} => k = "virtual_acquire"
      /\ a # "control" /\ a # "lane"
      /\ a = "run" => k # "virtual_upload_state" /\ job'[s] \in {k, "done", "raised"}
      /\ a = "cleaning" => job'[s] \in {"virtual_abort", "done", "raised"}
      /\ (job'[s] = "virtual_acquire" /\ pc[s] = "out") => s \notin attempted
  BY <1>1, <1>2, <1>4
<1>10. /\ \A t \in Requests \ {r} : Owns(t) => req[t].sid # s
       /\ req[r].at # "idle" /\ s \in preparing \cup live \cup finishing => s \in leases
       /\ job[s] \in Over
  BY <1>1, <1>2, OwnerKnown DEF Over
<1>11. req[r].at # "slot" /\ req[r].at # "run" /\ k # "train_tail"
  BY <1>1
<1> HIDE DEF a, j
<1> QED BY <1>1, <1>2, <1>3, <1>4, <1>5, <1>6, <1>7, <1>8, <1>9, <1>10, <1>11, OwnerMoves

\* An execution gets a thread; its replica is live.
LEMMA SubmitExecutionKeeps ==
  ASSUME ServicerInv, NEW r \in Requests, SubmitExecution(r)
  PROVE  ServicerInv'
<1> USE DEF ServicerInv
<1> DEFINE s == req[r].sid
           k == req[r].kind
<1>1. Owns(r) /\ req[r].at = "lane" /\ k = "train_tail" /\ r \notin cancelling
  BY DEF SubmitExecution, Owns, Exclusive
<1>2. s \in Sids /\ job[s] = "none" /\ (~Impatient => s \in live)
  BY <1>1, OwnerKnown DEF Holding, Training, Patient
<1>3. req' \in Handlers /\ Becomes(r, "run")
  BY <1>1, GoesBecomes DEF SubmitExecution, Goes, Handled, Awaits
<1>4. job' \in [Sids -> Jobs] /\ job'[s] = k /\ \A u \in Sids \ {s} : job'[u] = job[u]
  BY <1>1, <1>2 DEF SubmitExecution, Handled, Jobs, Kinds
<1>5. Handled'
  BY <1>1, <1>3, <1>4, MoveHandled DEF SubmitExecution, Goes, Handled
<1>6. freeLanes \in Nat /\ freeLanes' \in Nat /\ freeLanes' = freeLanes - 1 /\ freeSlots \in Nat /\ freeControl \in Nat
  BY DEF SubmitExecution, Semaphores
<1>7. UNCHANGED <<vars, round, leases, freeSlots, freeControl>>
  BY DEF SubmitExecution
<1>8. /\ \A t \in Requests \ {r} : Owns(t) => req[t].sid # s
      /\ req[r].at # "idle" /\ s \in preparing \cup live \cup finishing => s \in leases
      /\ job[s] \in Over
  BY <1>1, <1>2, OwnerKnown DEF Over
<1>9. "run" \in Awaits \ {"lock"} /\ "run" \in Holding /\ "lane" \notin Holding
  BY DEF Awaits, Holding
<1> QED BY <1>1, <1>2, <1>3, <1>4, <1>5, <1>6, <1>7, <1>8, <1>9, OwnerMoves

\* _release_replica_slot, by the handler that is done with a replica.
LEMMA Releases ==
  ASSUME ServicerInv, NEW s \in Sids, ReleaseReplicaSlot(s), s \notin preparing \cup finishing
  PROVE  /\ leases' \subseteq Sids
         /\ \A u \in Sids \ {s} : u \in leases' <=> u \in leases
         /\ s \in preparing \cup live \cup finishing => s \in leases'
         /\ freeSlots' \in Nat
         /\ freeSlots' = freeSlots + (IF s \in leases THEN 1 ELSE 0)
                                   - (IF s \in leases' THEN 1 ELSE 0)
<1> USE DEF ServicerInv
<1>1. freeSlots \in Nat /\ leases \subseteq Sids /\ (s \in live => s \in leases)
  BY DEF Semaphores, Handled, Leased
<1>2. CASE s \notin live /\ s \in leases
  BY <1>1, <1>2 DEF ReleaseReplicaSlot
<1>3. CASE ~(s \notin live /\ s \in leases)
  BY <1>1, <1>3 DEF ReleaseReplicaSlot
<1> QED BY <1>2, <1>3

\* The future is done: what it held is given back, whatever it ended with.
LEMMA ResumeKeeps ==
  ASSUME ServicerInv, NEW r \in Requests, Resume(r)
  PROVE  ServicerInv'
<1> USE DEF ServicerInv
<1> DEFINE s == req[r].sid
           k == req[r].kind
           failedAcquire == /\ k = "virtual_acquire" /\ req[r].at = "run"
                            /\ job[s] = "raised" \/ r \in swallowed \cup cancelling
           endsLifecycle == k \in {"virtual_commit", "virtual_abort"} \/ req[r].at = "cleaning"
           a == IF failedAcquire THEN "cleanup" ELSE "idle"
<1>1. /\ Owns(r) /\ req[r].at \in Holding /\ job[s] \in {"done", "raised"} /\ job[s] \in Over
      /\ req[r].at = "cleaning" => k = "virtual_acquire"
  BY DEF Resume, Owns, Exclusive, Holding, Over
<1>2. /\ s \in Sids /\ k \in Kinds /\ s \notin preparing \cup finishing
      /\ s \in preparing \cup live \cup finishing => s \in leases
      /\ k = "virtual_acquire" => s \in leases /\ (~Impatient => s \in configs)
  BY <1>1, OwnerKnown DEF Leased, Acquiring, Patient
<1>3. req' \in Handlers /\ Becomes(r, a)
  <2>1. CASE failedAcquire
    BY <1>1, <2>1, GoesBecomes DEF Resume, Handled, Awaits, Owns
  <2>2. CASE ~failedAcquire
    BY <2>2, EndsBecomes DEF Resume, Handled
  <2> QED BY <2>1, <2>2
<1>4. job' \in [Sids -> Jobs] /\ job'[s] = "none" /\ \A u \in Sids \ {s} : job'[u] = job[u]
  BY <1>2 DEF Resume, Handled, Jobs
<1>5. /\ leases' \subseteq Sids
      /\ \A u \in Sids \ {s} : u \in leases' <=> u \in leases
      /\ s \in preparing \cup live \cup finishing => s \in leases'
      /\ failedAcquire => leases' = leases
      /\ freeSlots' \in Nat
      /\ freeSlots' = freeSlots + (IF s \in leases THEN 1 ELSE 0) - (IF s \in leases' THEN 1 ELSE 0)
  <2>1. CASE endsLifecycle
    <3>1. ReleaseReplicaSlot(s) /\ ~failedAcquire
      BY <2>1 DEF Resume
    <3> QED BY <1>2, <3>1, Releases
  <2>2. CASE ~endsLifecycle
    <3>1. UNCHANGED <<leases, freeSlots>>
      BY <2>2 DEF Resume
    <3> QED BY <1>2, <3>1 DEF Semaphores, Handled
  <2> QED BY <2>1, <2>2
<1>6. /\ freeControl' \in Nat /\ freeLanes' \in Nat
      /\ freeControl' = freeControl + (IF k # "train_tail" THEN 1 ELSE 0)
      /\ freeLanes' = freeLanes + (IF k = "train_tail" THEN 1 ELSE 0)
      /\ k = "train_tail" => req[r].at = "run"
  BY <1>1 DEF Resume, ReturnSlot, Semaphores, Holding
<1>7. UNCHANGED <<vars, round, uploads>> /\ cancelling' = cancelling \ {r}
  BY DEF Resume
<1>8. /\ expired' \subseteq expired /\ swallowed' \subseteq swallowed
      /\ a = "idle" => r \notin expired' \cup swallowed'
  <2>1. CASE failedAcquire
    BY <2>1 DEF Resume
  <2>2. CASE ~failedAcquire
    BY <2>2 DEF Resume, Ends
  <2> QED BY <2>1, <2>2
<1>9. Handled'
  BY <1>3, <1>4, <1>5, <1>7, <1>8, MoveHandled DEF Handled
<1>10. /\ a \in Awaits \ {"lock"} /\ a \notin Holding /\ a \notin {"slot", "control", "lane", "run", "cleaning"}
       /\ a # "idle" => failedAcquire /\ a = "cleanup" /\ k = "virtual_acquire"
       /\ req[r].at # "slot"
  BY <1>1 DEF Awaits, Holding
<1>11. k = "virtual_acquire" /\ a # "idle" => s \in leases'
  BY <1>2, <1>5, <1>10
<1> HIDE DEF a, failedAcquire, endsLifecycle
<1>12. freeSlots' = freeSlots + (IF s \in leases /\ req[r].at # "slot" THEN 1 ELSE 0)
                              - (IF s \in leases' /\ a # "slot" THEN 1 ELSE 0)
  BY <1>5, <1>10
<1>13. /\ freeControl' = freeControl
            + (IF req[r].at \in Holding /\ k # "train_tail" THEN 1 ELSE 0)
            - (IF a \in Holding /\ k # "train_tail" THEN 1 ELSE 0)
       /\ freeLanes' = freeLanes + (IF req[r].at = "run" /\ k = "train_tail" THEN 1 ELSE 0)
                                 - (IF a = "run" /\ k = "train_tail" THEN 1 ELSE 0)
  BY <1>1, <1>6, <1>10 DEF Semaphores
<1> QED
  BY <1>1, <1>2, <1>3, <1>4, <1>5, <1>6, <1>7, <1>9, <1>10, <1>11, <1>12, <1>13, OwnerKnown, OwnerMoves

\* A cancellation, at each await a handler can be suspended in.
LEMMA CancelledKeeps ==
  ASSUME ServicerInv, NEW r \in Requests, Cancelled(r)
  PROVE  ServicerInv'
<1> USE DEF ServicerInv
<1> DEFINE s == req[r].sid
           k == req[r].kind
<1>1. /\ cancelling' = cancelling \ {r} /\ UNCHANGED <<vars, lanes, round, uploads, job>>
      /\ req[r].at # "idle"
  BY DEF Cancelled, Handled
<1>2. CASE req[r].at = "lock"
  <2>1. Ends(r) /\ UNCHANGED <<leases, freeSlots>>
    BY <1>2 DEF Cancelled
  <2>2. req' \in Handlers /\ Becomes(r, "idle")
    BY <2>1, EndsBecomes DEF Handled
  <2>3. Handled'
    BY <1>1, <2>1, <2>2, MoveHandled DEF Ends, Handled
  <2> QED BY <1>1, <1>2, <2>1, <2>2, <2>3, BystanderMoves DEF Becomes, Owns, lanes, round
<1>3. CASE req[r].at \in Holding
  <2>1. KeepsWaiting(r)
    BY <1>3 DEF Cancelled, Holding
  <2>2. Handled'
    BY <1>1, <2>1 DEF KeepsWaiting, Handled, round
  <2> QED BY <1>1, <2>1, <2>2, NoteKeeps DEF KeepsWaiting
<1>4. ASSUME req[r].at \notin {"lock", "run", "cleaning"}
      PROVE  ServicerInv'
  <2>1. /\ Owns(r) /\ req[r].at \notin Holding /\ s \in Sids /\ job[s] = "none" /\ k \in Kinds
        /\ s \notin preparing \cup finishing
        /\ s \in preparing \cup live \cup finishing => s \in leases
        /\ req[r].at \in {"slot", "control", "lane", "cleanup"}
    BY <1>1, <1>4, OwnerKnown DEF Owns, Holding, Over, Awaits
  <2> DEFINE a == IF req[r].at = "control" /\ k = "virtual_acquire" THEN "cleanup" ELSE "idle"
  <2>2. /\ req' \in Handlers /\ Becomes(r, a)
        /\ expired' \subseteq expired /\ swallowed' \subseteq swallowed
        /\ a = "idle" => r \notin expired' \cup swallowed'
    <3>1. CASE a = "cleanup"
      <4>1. Goes(r, "cleanup")
        BY <3>1 DEF Cancelled
      <4> QED BY <1>1, <3>1, <4>1, GoesBecomes DEF Goes, Handled, Awaits
    <3>2. CASE a = "idle"
      <4>1. Ends(r)
        BY <2>1, <3>2 DEF Cancelled
      <4> QED BY <3>2, <4>1, EndsBecomes DEF Ends, Handled
    <3> QED BY <3>1, <3>2
  <2>3. /\ leases' \subseteq Sids
        /\ \A u \in Sids \ {s} : u \in leases' <=> u \in leases
        /\ s \in preparing \cup live \cup finishing => s \in leases'
        /\ a = "cleanup" => leases' = leases
        /\ freeSlots' \in Nat
        /\ freeSlots' = freeSlots + (IF s \in leases /\ req[r].at # "slot" THEN 1 ELSE 0)
                                  - (IF s \in leases' /\ a # "slot" THEN 1 ELSE 0)
    <3>0. freeSlots \in Nat /\ leases \subseteq Sids
      BY DEF Semaphores, Handled
    <3>1. CASE req[r].at = "lane" \/ (req[r].at = "control" /\ k = "virtual_acquire")
      <4>1. UNCHANGED <<leases, freeSlots>>
        BY <3>1 DEF Cancelled
      <4> QED BY <2>1, <3>0, <3>1, <4>1
    <3>2. CASE req[r].at = "slot"
      <4>1. leases' = leases \ {s} /\ UNCHANGED freeSlots
        BY <3>2 DEF Cancelled
      <4>2. k = "virtual_acquire" /\ s \notin attempted
        BY <2>1, <3>2 DEF Exclusive, Leased, Acquiring
      <4>3. s \notin preparing \cup live \cup finishing
        BY <2>1, <4>2 DEF LeaseInv, RegistryOK, Occupied
      <4> QED BY <3>0, <3>2, <4>1, <4>3
    <3>3. CASE req[r].at = "cleanup" \/ (req[r].at = "control" /\ k # "virtual_acquire")
      <4>1. ReleaseReplicaSlot(s) /\ req[r].at # "slot" /\ a = "idle"
        BY <3>3 DEF Cancelled
      <4> QED BY <2>1, <4>1, Releases
    <3> QED BY <2>1, <3>1, <3>2, <3>3
  <2>4. Handled'
    BY <1>1, <2>2, <2>3, MoveHandled DEF Handled
  <2>5. /\ a \in Awaits \ {"lock"} /\ a \notin Holding
        /\ a \notin {"slot", "control", "lane", "run", "cleaning"}
        /\ a = "cleanup" => k = "virtual_acquire"
        /\ a # "idle" => a = "cleanup"
    BY DEF Awaits, Holding
  <2>6. k = "virtual_acquire" /\ a # "idle" => s \in leases' /\ (~Impatient => s \in configs)
    BY <2>1, <2>3, <2>5 DEF Leased, Acquiring, Patient
  <2>7. freeControl \in Nat /\ freeLanes \in Nat /\ freeControl' = freeControl /\ freeLanes' = freeLanes
        /\ UNCHANGED <<vars, round, job>>
    BY <1>1 DEF Semaphores, lanes
  <2> HIDE DEF a
  <2>8. req[r].at # "run"
    BY <2>1
  <2> QED
    BY <1>1, <2>1, <2>2, <2>3, <2>4, <2>5, <2>6, <2>7, <2>8, OwnerKnown, OwnerMoves DEF Over, Holding
<1> QED BY <1>2, <1>3, <1>4 DEF Holding

\* A deadline is only noted.
LEMMA DeadlineKeeps ==
  ASSUME ServicerInv, NEW r \in Requests, Deadline(r)
  PROVE  ServicerInv'
<1>1. Handled'
  BY DEF Deadline, ServicerInv, Handled, round
<1> QED BY <1>1, NoteKeeps DEF Deadline

\* The thread that works for s: somebody waits for it, and nothing else goes on.
LEMMA ThreadHeld ==
  ASSUME ServicerInv, NEW s \in Sids, job[s] \notin Over
  PROVE  /\ recon \notin {"done", "closed"} /\ server # "collecting"
         /\ \/ /\ recon = "finish" /\ job[s] = "virtual_abort"
               /\ \A r \in Requests : req[r].at = "idle"
            \/ \E r \in Requests :
                 /\ recon # "finish" /\ req[r].at \in Holding /\ req[r].sid = s
                 /\ job[s] = (IF req[r].at = "run" THEN req[r].kind ELSE "virtual_abort")
                 /\ \A t \in Requests \ {r} : Owns(t) => req[t].sid # s
<1> USE DEF ServicerInv
<1>1. CASE recon = "finish"
  BY <1>1 DEF Working, Phases, Over
<1>2. CASE recon # "finish"
  <2>1. PICK r \in Requests : req[r].at \in Holding /\ req[r].sid = s
    BY <1>2 DEF Working, Over
  <2>2. Owns(r) /\ \A t \in Requests \ {r} : Owns(t) => req[t].sid # s
    BY <2>1 DEF Exclusive, Owns, Holding
  <2>3. job[s] = IF req[r].at = "run" THEN req[r].kind ELSE "virtual_abort"
    BY <2>1 DEF Working, Holding, Over
  <2>4. recon \in {"gather", "off"} /\ server # "collecting"
    <3>1. req[r].at # "idle"
      BY <2>2 DEF Owns
    <3> QED BY <3>1 DEF Phases
  <2> QED BY <1>2, <2>1, <2>2, <2>3, <2>4
<1> QED BY <1>1, <1>2

\* The thread working for s takes a step of the manager, and may return from it.
LEMMA ThreadMoves ==
  ASSUME ServicerInv, NEW s \in Sids, job[s] \notin Over,
         NEW j \in {job[s], "done", "raised"}, job' = [job EXCEPT ![s] = j],
         LeaseInv', configs' = configs, server' = server, byServer' = {},
         UNCHANGED <<lanes, round, req, expired, cancelling, swallowed, leases, freeSlots, uploads>>,
         \A u \in Sids \ {s} :
           /\ pc'[u] = pc[u] /\ (u \in attempted' <=> u \in attempted)
           /\ u \in live' <=> u \in live
           /\ u \in preparing' \cup live' \cup finishing' => u \in preparing \cup live \cup finishing,
         pc'[s] \in {"building", "configuring"} => j = "virtual_acquire",
         pc'[s] \in {"exporting", "stored", "discarding", "settled"} =>
           j \in {"virtual_commit", "virtual_abort"},
         s \in preparing' \cup live' \cup finishing' => s \in leases,
         j = "virtual_acquire" /\ pc'[s] = "out" => s \notin attempted',
         job[s] = "train_tail" /\ s \in live => s \in live'
  PROVE  ServicerInv'
<1> USE DEF ServicerInv
<1>1. /\ job \in [Sids -> Jobs] /\ job' \in [Sids -> Jobs] /\ job'[s] = j
      /\ \A u \in Sids \ {s} : job'[u] = job[u]
      /\ job[s] # "none" /\ j # "none"
  BY DEF Handled, Jobs, Over
<1>2. Handled'
  BY <1>1 DEF Handled, round
<1>3. \A t \in Requests : Owns(t)' <=> Owns(t)
  BY DEF Owns
<1>4. Exclusive'
  BY <1>3 DEF Exclusive
<1>5. \A t \in Requests : req[t].at # "idle" => req[t].sid \in Sids
  BY HandlerKnown DEF Handled
<1>6. Working'
  <2>1. \A t \in Requests :
          /\ req[t].at = "run" => job'[req[t].sid] \in {req[t].kind, "done", "raised"}
          /\ req[t].at = "cleaning" => job'[req[t].sid] \in {"virtual_abort", "done", "raised"}
    <3> SUFFICES ASSUME NEW t \in Requests, req[t].at \in Holding
                 PROVE  job'[req[t].sid] \in {job[req[t].sid], "done", "raised"}
      BY DEF Working, Holding
    <3>1. req[t].sid \in Sids
      BY <1>5 DEF Holding
    <3> QED BY <1>1, <3>1
  <2>2. \A u \in Sids : job'[u] # "none" <=> job[u] # "none"
    BY <1>1
  <2>3. recon = "finish" => \A u \in Sids : job'[u] \in Over \cup {"virtual_abort"}
    BY <1>1 DEF Working, Over
  <2>4. \A u \in Sids :
          /\ pc'[u] \in {"building", "configuring"} => job'[u] = "virtual_acquire"
          /\ pc'[u] \in {"exporting", "stored", "discarding", "settled"} =>
               job'[u] \in {"virtual_commit", "virtual_abort"}
    BY <1>1 DEF Working
  <2> QED BY <2>1, <2>2, <2>3, <2>4 DEF Working, round
<1>7. Leased'
  <2>1. preparing' \cup live' \cup finishing' \subseteq Sids
    BY DEF LeaseInv, TypeOK
  <2>2. preparing' \cup live' \cup finishing' \subseteq leases
    BY <2>1 DEF Leased
  <2>3. \A t \in Requests : Acquiring(t)' <=> Acquiring(t)
    BY <1>3 DEF Acquiring
  <2>4. ASSUME NEW t \in Requests, Acquiring(t), req[t].at \in {"slot", "control"}
        PROVE  req[t].sid \notin attempted'
    <3>1. req[t].sid \in Sids /\ Owns(t) /\ req[t].at \notin Holding
      BY <1>5, <2>4 DEF Acquiring, Owns, Holding
    <3>2. req[t].sid # s
      BY <3>1, ThreadHeld DEF Owns
    <3> QED BY <2>4, <3>1, <3>2 DEF Leased
  <2>5. \A u \in Sids : job'[u] = "virtual_acquire" /\ pc'[u] = "out" => u \notin attempted'
    BY <1>1 DEF Leased
  <2> QED BY <2>2, <2>3, <2>4, <2>5 DEF Leased
<1>8. Phases'
  BY ThreadHeld DEF Phases, round
<1>9. Patient'
  <2> SUFFICES ASSUME ~Impatient, NEW t \in Requests, Training(t)
               PROVE  req[t].sid \in live'
    BY <1>3 DEF Patient, Acquiring, Training
  <2>1. req[t].sid \in live /\ req[t].sid \in Sids /\ Owns(t)
    BY <1>5 DEF Patient, Training, Owns
  <2>2. CASE req[t].sid # s
    BY <2>1, <2>2
  <2>3. CASE req[t].sid = s
    <3>1. PICK h \in Requests :
             /\ req[h].at \in Holding
             /\ job[s] = (IF req[h].at = "run" THEN req[h].kind ELSE "virtual_abort")
             /\ \A v \in Requests \ {h} : Owns(v) => req[v].sid # s
      BY <2>1, ThreadHeld DEF Owns
    <3>2. h = t
      BY <2>1, <2>3, <3>1
    <3>3. job[s] = "train_tail"
      BY <3>1, <3>2 DEF Training, Holding
    <3> QED BY <2>1, <2>3, <3>3
  <2> QED BY <2>2, <2>3
<1>10. Semaphores'
  <2>1. SlotOwners' = SlotOwners
    BY DEF SlotOwners, Waiting
  <2>2. ControlUsers' = ControlUsers
    BY <1>1 DEF ControlUsers, round
  <2>3. LaneUsers' = LaneUsers
    BY DEF LaneUsers
  <2> QED BY <2>1, <2>2, <2>3 DEF Semaphores, lanes
<1> QED BY <1>2, <1>4, <1>6, <1>7, <1>8, <1>9, <1>10

\* The steps of an acquire.
LEMMA RunAcquireKeeps ==
  ASSUME ServicerInv, NEW s \in Sids, RunAcquire(s),
         UNCHANGED <<lanes, round, req, expired, cancelling, swallowed, leases, freeSlots, uploads>>
  PROVE  ServicerInv'
<1> USE DEF ServicerInv
<1>1. job[s] = "virtual_acquire" /\ job[s] \notin Over
  BY DEF RunAcquire, Over
<1>2. s \in leases
  BY <1>1, ThreadHeld DEF Leased, Acquiring, Owns, Holding
<1>3. job \in [Sids -> Jobs] /\ byServer = {}
  BY DEF Handled, Phases
<1>4. ASSUME job' = job \/ job' = [job EXCEPT ![s] = "done"] \/ job' = [job EXCEPT ![s] = "raised"]
      PROVE  \E j \in {job[s], "done", "raised"} : job' = [job EXCEPT ![s] = j] /\ job'[s] = j
  <2>1. job = [job EXCEPT ![s] = job[s]]
    BY <1>3
  <2> QED BY <1>3, <1>4, <2>1
<1>5. CASE pc[s] = "out" /\ AcquireAdmit(s) /\ UNCHANGED job
  <2>1. LeaseInv'
    BY <1>5, ManagerStep DEF Next
  <2>2. pc'[s] \in {"building", "configuring"}
    BY <1>5 DEF AcquireAdmit, TakeSlot, LeaseInv, TypeOK
  <2>3. job' = [job EXCEPT ![s] = job[s]]
    BY <1>3, <1>5
  <2>4. \A u \in Sids \ {s} : pc'[u] = pc[u]
    BY <1>5 DEF AcquireAdmit, TakeSlot, LeaseInv, TypeOK
  <2>5. /\ attempted' = attempted \cup {s} /\ preparing' = preparing \cup {s}
        /\ UNCHANGED <<live, finishing, configs, server, byServer>>
    BY <1>5 DEF AcquireAdmit, driver
  <2> QED BY <1>1, <1>2, <1>3, <2>1, <2>2, <2>3, <2>4, <2>5, ThreadMoves
<1>6. CASE pc[s] = "out" /\ ~Admissible(s) /\ Outcome(s, "raised") /\ UNCHANGED vars
  <2>1. LeaseInv'
    BY <1>6, ManagerStep
  <2>2. UNCHANGED <<pc, attempted, preparing, live, finishing, configs, server, byServer>>
    BY <1>6 DEF vars, registry, driver
  <2> QED BY <1>1, <1>2, <1>3, <1>6, <2>1, <2>2, ThreadMoves DEF Outcome
<1>7. CASE AcquireBuild(s) /\ UNCHANGED job
  <2>1. LeaseInv'
    BY <1>7, ManagerStep DEF Next, AcquireStep
  <2>2. pc'[s] = "configuring" /\ \A u \in Sids \ {s} : pc'[u] = pc[u]
    BY <1>7 DEF AcquireBuild, LeaseInv, TypeOK
  <2>3. job' = [job EXCEPT ![s] = job[s]]
    BY <1>3, <1>7
  <2>4. UNCHANGED <<attempted, preparing, live, finishing, configs, server, byServer>>
    BY <1>7 DEF AcquireBuild, registry, driver
  <2> QED BY <1>1, <1>2, <1>3, <2>1, <2>2, <2>3, <2>4, ThreadMoves
<1>8. CASE AcquirePublish(s) /\ Outcome(s, "done")
  <2>1. LeaseInv'
    BY <1>8, ManagerStep DEF Next, AcquireStep
  <2>2. pc'[s] = "out" /\ \A u \in Sids \ {s} : pc'[u] = pc[u]
    BY <1>8 DEF AcquirePublish, LeaseInv, TypeOK
  <2>3. /\ preparing' = preparing \ {s} /\ live' = live \cup {s}
        /\ UNCHANGED <<attempted, finishing, configs, server, byServer>>
    BY <1>8 DEF AcquirePublish, driver
  <2> QED BY <1>1, <1>2, <1>3, <1>8, <2>1, <2>2, <2>3, ThreadMoves DEF Outcome
<1>9. CASE AcquireFail(s) /\ Outcome(s, "raised")
  <2>1. LeaseInv'
    BY <1>9, ManagerStep DEF Next, AcquireStep
  <2>2. pc'[s] = "out" /\ \A u \in Sids \ {s} : pc'[u] = pc[u]
    BY <1>9 DEF AcquireFail, LeaseInv, TypeOK
  <2>3. /\ preparing' = preparing \ {s}
        /\ UNCHANGED <<attempted, live, finishing, configs, server, byServer>>
    BY <1>9 DEF AcquireFail, driver
  <2> QED BY <1>1, <1>2, <1>3, <1>9, <2>1, <2>2, <2>3, ThreadMoves DEF Outcome
<1> QED BY <1>5, <1>6, <1>7, <1>8, <1>9 DEF RunAcquire

\* The steps of a finish.
LEMMA RunFinishKeeps ==
  ASSUME ServicerInv, NEW s \in Sids, RunFinish(s),
         UNCHANGED <<lanes, round, req, expired, cancelling, swallowed, leases, freeSlots, uploads>>
  PROVE  ServicerInv'
<1> USE DEF ServicerInv
<1>1. job[s] \in {"virtual_commit", "virtual_abort"} /\ job[s] \notin Over
  BY DEF RunFinish, Over
<1>2. /\ job \in [Sids -> Jobs] /\ byServer = {} /\ job = [job EXCEPT ![s] = job[s]]
      /\ s \in preparing \cup live \cup finishing => s \in leases
  BY DEF Handled, Phases, Leased
<1>3. CASE pc[s] = "out" /\ FinishTake(s, job[s] = "virtual_commit") /\ UNCHANGED <<driver, job>>
  <2>1. LeaseInv'
    <3>1. (job[s] = "virtual_commit") \in BOOLEAN
      OBVIOUS
    <3> QED BY <1>3, <3>1, ManagerStep DEF Next, RpcFinish
  <2>2. pc'[s] \in {"exporting", "discarding"} /\ \A u \in Sids \ {s} : pc'[u] = pc[u]
    BY <1>3 DEF FinishTake, LeaseInv, TypeOK
  <2>3. /\ live' = live \ {s} /\ finishing' = finishing \cup {s} /\ s \in live
        /\ UNCHANGED <<attempted, preparing, configs, server, byServer>>
    BY <1>3 DEF FinishTake, driver
  <2> QED BY <1>1, <1>2, <1>3, <2>1, <2>2, <2>3, ThreadMoves
<1>4. CASE pc[s] = "out" /\ s \notin live /\ Outcome(s, "done") /\ UNCHANGED vars
  <2>1. LeaseInv'
    BY <1>4, ManagerStep
  <2>2. UNCHANGED <<pc, attempted, preparing, live, finishing, configs, server, byServer>>
    BY <1>4 DEF vars, registry, driver
  <2> QED BY <1>1, <1>2, <1>4, <2>1, <2>2, ThreadMoves DEF Outcome
<1>5. CASE (FinishStore(s) \/ FinishCommit(s) \/ FinishFails(s)) /\ UNCHANGED job
  <2>1. LeaseInv'
    BY <1>5, ManagerStep DEF Next, FinishStep
  <2>2. /\ pc'[s] \in {"stored", "settled"} /\ \A u \in Sids \ {s} : pc'[u] = pc[u]
        /\ UNCHANGED <<attempted, preparing, live, finishing, configs, server, byServer>>
    <3>1. CASE FinishStore(s)
      BY <3>1 DEF FinishStore, LeaseInv, TypeOK, registry, driver
    <3>2. CASE FinishCommit(s)
      BY <3>2 DEF FinishCommit, LeaseInv, TypeOK, driver
    <3>3. CASE FinishFails(s)
      BY <1>2, <3>3 DEF FinishFails, FinishFail, LeaseInv, TypeOK
    <3> QED BY <1>5, <3>1, <3>2, <3>3
  <2> QED BY <1>1, <1>2, <1>5, <2>1, <2>2, ThreadMoves
<1>6. CASE FinishLeave(s) /\ (Outcome(s, "done") \/ Outcome(s, "raised"))
  <2>1. LeaseInv'
    BY <1>6, ManagerStep DEF Next, FinishStep
  <2>2. pc'[s] = "out" /\ \A u \in Sids \ {s} : pc'[u] = pc[u]
    BY <1>6 DEF FinishLeave, LeaseInv, TypeOK
  <2>3. /\ finishing' = finishing \ {s} /\ byServer' = {}
        /\ UNCHANGED <<attempted, preparing, live, configs, server>>
    BY <1>2, <1>6 DEF FinishLeave
  <2> QED BY <1>1, <1>2, <1>6, <2>1, <2>2, <2>3, ThreadMoves DEF Outcome
<1> QED BY <1>3, <1>4, <1>5, <1>6 DEF RunFinish

\* The steps of any thread.
LEMMA ThreadKeeps ==
  ASSUME ServicerInv, NEW s \in Sids, Thread(s)
  PROVE  ServicerInv'
<1> USE DEF ServicerInv
<1>1. UNCHANGED <<lanes, round, req, expired, cancelling, swallowed, leases, freeSlots, uploads>>
  BY DEF Thread
<1>2. CASE RunExecution(s)
  <2>1. LeaseInv'
    BY <1>2, ManagerStep DEF RunExecution
  <2>2. UNCHANGED <<pc, attempted, preparing, live, finishing, configs, server, byServer>>
    BY <1>2 DEF RunExecution, vars, registry, driver
  <2>3. /\ job[s] = "train_tail" /\ job[s] \notin Over
        /\ pc[s] \notin {"building", "configuring", "exporting", "stored", "discarding", "settled"}
        /\ s \in preparing \cup live \cup finishing => s \in leases
    BY <1>2 DEF RunExecution, Over, Working, Leased
  <2> QED BY <1>1, <1>2, <2>1, <2>2, <2>3, ThreadMoves DEF RunExecution, Outcome, Phases
<1> QED BY <1>1, <1>2, RunAcquireKeeps, RunFinishKeeps DEF Thread

\* A step of the round thread, or of reconcile, while no handler exists.
LEMMA AloneMoves ==
  ASSUME ServicerInv, \A r \in Requests : req[r].at = "idle", UNCHANGED <<req, freeLanes>>,
         LeaseInv', Handled', byServer' = {},
         preparing' \cup live' \cup finishing' \subseteq leases',
         \A s \in Sids :
           /\ job'[s] # "none" => /\ recon' = "finish" /\ job'[s] \in Over \cup {"virtual_abort"}
                                  /\ \A u \in Sids \ {s} : job'[u] = "none"
           /\ pc'[s] \in {"building", "configuring"} => job'[s] = "virtual_acquire"
           /\ pc'[s] \in {"exporting", "stored", "discarding", "settled"} =>
                job'[s] \in {"virtual_commit", "virtual_abort"}
           /\ tokens'[s] # NoToken => recon' = "off" /\ server' = "fitting" /\ s \in configs',
         recon' \in {"done", "closed"} => live' = {} /\ leases' = {},
         server' = "collecting" => recon' = "off" /\ live' = {} /\ leases' = {},
         freeSlots' \in Nat, freeSlots' + Cardinality(leases') = Capacity,
         freeControl' \in Nat,
         freeControl' + Cardinality({s \in Sids : recon' = "finish" /\ job'[s] # "none"}) = Capacity
  PROVE  ServicerInv'
<1> USE DEF ServicerInv
<1>1. \A r \in Requests : req'[r].at = "idle" /\ ~Owns(r)'
  BY DEF Owns
<1>2. Exclusive'
  BY <1>1 DEF Exclusive
<1>3. Working'
  BY <1>1 DEF Working, Over
<1>4. Leased'
  <2>1. \A s \in Sids : job'[s] # "virtual_acquire"
    BY DEF Over
  <2> QED BY <1>1, <2>1 DEF Leased, Acquiring
<1>5. Phases'
  BY <1>1 DEF Phases
<1>6. Patient'
  BY <1>1 DEF Patient, Acquiring, Training
<1>7. Semaphores'
  <2>1. SlotOwners' = leases'
    BY <1>1 DEF SlotOwners, Waiting
  <2>2. ControlUsers' = {s \in Sids : recon' = "finish" /\ job'[s] # "none"}
    BY <1>1 DEF ControlUsers, Holding
  <2>3. LaneUsers' = LaneUsers
    BY DEF LaneUsers
  <2> QED BY <2>1, <2>2, <2>3 DEF Semaphores
<1> QED BY <1>2, <1>3, <1>4, <1>5, <1>6, <1>7

\* When no handler exists and reconcile does not finish anything, no thread works.
LEMMA Quiet ==
  ASSUME ServicerInv, \A r \in Requests : req[r].at = "idle"
  PROVE  /\ recon # "finish" => \A s \in Sids : job[s] = "none"
         /\ (\A s \in Sids : job[s] = "none") =>
              /\ preparing = {} /\ finishing = {}
              /\ \A s \in Sids : pc[s] \notin {"building", "configuring", "exporting", "stored",
                                               "discarding", "settled"}
         /\ freeSlots \in Nat /\ freeSlots + Cardinality(leases) = Capacity
         /\ ControlUsers = {s \in Sids : recon = "finish" /\ job[s] # "none"}
         /\ freeControl \in Nat /\ freeControl + Cardinality(ControlUsers) = Capacity
         /\ preparing \cup live \cup finishing \subseteq leases
<1> USE DEF ServicerInv
<1>1. recon # "finish" => \A s \in Sids : job[s] = "none"
  BY DEF Working, Holding
<1>2. (\A s \in Sids : job[s] = "none") =>
         /\ preparing = {} /\ finishing = {}
         /\ \A s \in Sids : pc[s] \notin {"building", "configuring", "exporting", "stored",
                                          "discarding", "settled"}
  BY DEF Working, LeaseInv, RegistryOK
<1>3. SlotOwners = leases
  BY DEF SlotOwners, Waiting
<1>4. ControlUsers = {s \in Sids : recon = "finish" /\ job[s] # "none"}
  BY DEF ControlUsers, Holding
<1> QED BY <1>1, <1>2, <1>3, <1>4 DEF Semaphores, Leased

\* A round begins after the last handler of the one before.
LEMMA BeginRoundKeeps ==
  ASSUME ServicerInv, NEW S \in SUBSET Sids, BeginRound(S)
  PROVE  ServicerInv'
<1> USE DEF ServicerInv
<1>1. \A r \in Requests : req[r].at = "idle"
  BY DEF BeginRound, Phases
<1>2. recon = "off" /\ byServer = {}
  BY DEF BeginRound, Phases
<1>3. LeaseInv'
  BY ManagerStep DEF BeginRound, Next, ServerStep
<1>4. /\ UNCHANGED <<req, expired, swallowed, lanes, cancelling, recon, leases, freeSlots, job, pc>>
      /\ preparing' = {} /\ live' = {} /\ finishing' = {} /\ configs' = S /\ byServer' = {}
      /\ server' \in {"fitting", "closing"} /\ rounds < MaxRounds /\ rounds \in Nat
  BY <1>2 DEF BeginRound, Initialize, ForgetRound, handlers, LeaseInv, TypeOK
<1>5. \A s \in Sids : tokens'[s] # NoToken => s \in S /\ server' = "fitting"
  BY DEF BeginRound
<1>6. tokens' \in [Sids -> 0..MaxRounds]
  <2>1. rounds + 1 \in 0..MaxRounds /\ NoToken \in 0..MaxRounds
    BY <1>4, LeaseAssumption DEF NoToken
  <2> QED BY <2>1 DEF BeginRound
<1>7. uploads' \subseteq Sids /\ aborted' \in BOOLEAN
  BY DEF BeginRound
<1>8. Handled'
  BY <1>4, <1>6, <1>7 DEF Handled
<1>9. freeControl' = freeControl /\ freeLanes' = freeLanes
  BY <1>4 DEF lanes
<1> QED BY <1>1, <1>2, <1>3, <1>4, <1>5, <1>8, <1>9, Quiet, AloneMoves

\* The tokens are void before the handlers are cancelled.
LEMMA ReconcileBeginKeeps ==
  ASSUME ServicerInv, ReconcileBegin
  PROVE  ServicerInv'
<1> USE DEF ServicerInv, ReconcileBegin, handlers, lanes
<1>1. recon \in {"off", "done"} /\ server # "collecting" /\ recon' = "gather"
  BY DEF ServiceStops
<1>2. LeaseInv'
  BY ManagerStep
<1>3. \A s \in Sids : tokens'[s] = NoToken
  OBVIOUS
<1>4. Handled'
  <2>1. tokens' \in [Sids -> 0..MaxRounds]
    BY LeaseAssumption DEF NoToken
  <2> QED BY <1>1, <2>1 DEF Handled, ReconStates
<1>5. Exclusive' /\ Leased' /\ Patient'
  BY DEF Exclusive, Leased, Patient, Owns, Acquiring, Training, vars, registry, driver
<1>6. Working'
  BY <1>1 DEF Working, Holding, vars
<1>7. Phases'
  BY <1>1, <1>3 DEF Phases, vars, driver
<1>8. Semaphores'
  BY <1>1 DEF Semaphores, SlotOwners, Waiting, ControlUsers, LaneUsers, Holding
<1> QED BY <1>2, <1>4, <1>5, <1>6, <1>7, <1>8

\* The handlers have ended, and with them their futures.
LEMMA ReconcileGatheredKeeps ==
  ASSUME ServicerInv, ReconcileGathered
  PROVE  ServicerInv'
<1> USE DEF ServicerInv, ReconcileGathered, handlers, lanes
<1>1. recon = "gather" /\ recon' = "finish" /\ \A r \in Requests : req[r].at = "idle"
  OBVIOUS
<1>2. LeaseInv'
  BY ManagerStep
<1>3. Handled'
  BY DEF Handled, ReconStates
<1>4. UNCHANGED <<preparing, live, finishing, pc, server, byServer, configs>>
  BY DEF vars, registry, driver
<1>5. server # "collecting" /\ byServer = {} /\ \A s \in Sids : tokens[s] = NoToken
  BY <1>1 DEF Phases
<1>6. \A s \in Sids : job[s] = "none"
  BY <1>1, Quiet
<1>7. {s \in Sids : recon' = "finish" /\ job'[s] # "none"} = ControlUsers
  BY <1>1, <1>6, Quiet
<1>8. UNCHANGED <<req, freeLanes, freeControl, freeSlots, leases, job, tokens>>
  OBVIOUS
<1> QED BY <1>1, <1>2, <1>3, <1>4, <1>5, <1>6, <1>7, <1>8, Quiet, AloneMoves

\* While reconcile finishes what is live there is nobody else.
LEMMA ReconcilerAlone ==
  ASSUME ServicerInv, recon = "finish"
  PROVE  /\ \A r \in Requests : req[r].at = "idle"
         /\ server # "collecting" /\ byServer = {} /\ \A s \in Sids : tokens[s] = NoToken
BY DEF ServicerInv, Phases

\* Reconcile aborts a live model.
LEMMA ReconcileAbortKeeps ==
  ASSUME ServicerInv, NEW s \in Sids, ReconcileAbort(s)
  PROVE  ServicerInv'
<1> USE DEF ServicerInv, ReconcileAbort, handlers
<1>1. recon = "finish" /\ \A u \in Sids : job[u] = "none"
  OBVIOUS
<1>2. LeaseInv'
  BY ManagerStep
<1>3. job' \in [Sids -> Jobs] /\ job'[s] = "virtual_abort" /\ \A u \in Sids \ {s} : job'[u] = "none"
  BY <1>1 DEF Handled, Jobs, Kinds
<1>4. UNCHANGED <<req, freeLanes, freeSlots, leases, recon, tokens>>
  BY DEF round
<1>5. Handled'
  BY <1>3 DEF Handled, round
<1>6. UNCHANGED <<preparing, live, finishing, pc, server, byServer, configs>>
  BY DEF vars, registry, driver
<1>7. freeControl = Capacity
  <2>1. ControlUsers = {}
    BY <1>1, Quiet, ReconcilerAlone
  <2> QED BY <2>1, FS_EmptySet, Quiet, ReconcilerAlone, LeaseAssumption
<1>8. freeControl' \in Nat /\ freeControl' + 1 = Capacity
  BY <1>7, LeaseAssumption
<1>9. Cardinality({u \in Sids : recon' = "finish" /\ job'[u] # "none"}) = 1
  <2>1. {u \in Sids : recon' = "finish" /\ job'[u] # "none"} = {s}
    BY <1>1, <1>3, <1>4
  <2> QED BY <2>1, FS_Singleton
<1> HIDE DEF ReconcileAbort
<1> QED BY <1>1, <1>2, <1>3, <1>4, <1>5, <1>6, <1>8, <1>9, Quiet, ReconcilerAlone, AloneMoves

\* Reconcile and the round thread move the server's state outside the manager.
LEMMA ServerMoves ==
  ASSUME LeaseInv, server' \in ServerStates,
         UNCHANGED <<registry, slots, pc, configs, pending, byServer, rounds>>
  PROVE  LeaseInv'
<1>1. TypeOK'
  BY DEF LeaseInv, TypeOK, registry, slots
<1>2. RegistryOK' /\ PrivateSlots' /\ SlotsBounded'
  BY DEF LeaseInv, RegistryOK, PrivateSlots, SlotsBounded, Occupied, registry, slots
<1> QED BY <1>1, <1>2 DEF LeaseInv

\* The abort returned, or raised and ended the reconcile.
LEMMA ReconcileAbortedKeeps ==
  ASSUME ServicerInv, NEW s \in Sids, ReconcileAborted(s)
  PROVE  ServicerInv'
<1> USE DEF ServicerInv
<1>1. recon = "finish" /\ job[s] \in {"done", "raised"} /\ server \in ServerStates
  BY DEF ReconcileAborted, LeaseInv, TypeOK
<1>2. /\ \A u \in Sids \ {s} : job[u] = "none"
      /\ \A u \in Sids : pc[u] \notin {"building", "configuring", "exporting", "stored",
                                       "discarding", "settled"}
  BY <1>1 DEF Working
<1>3. /\ server' \in ServerStates /\ server' # "collecting"
      /\ recon' \in ReconStates /\ recon' \notin {"done", "closed"}
      /\ aborted' \in BOOLEAN
  BY <1>1, ReconcilerAlone DEF ReconcileAborted, ServerStates, ReconStates, Handled
<1>4. LeaseInv'
  BY <1>3, ServerMoves DEF ReconcileAborted
<1>5. job' \in [Sids -> Jobs] /\ \A u \in Sids : job'[u] = "none"
  BY <1>2 DEF ReconcileAborted, Handled, Jobs
<1>6. UNCHANGED <<req, expired, swallowed, cancelling, uploads, freeLanes, freeSlots, leases, tokens>>
  BY DEF ReconcileAborted, handlers
<1>7. Handled'
  BY <1>3, <1>5, <1>6 DEF Handled
<1>8. UNCHANGED <<preparing, live, finishing, pc, byServer, configs>>
  BY DEF ReconcileAborted, registry
<1>9. ControlUsers = {s}
  BY <1>1, <1>2, Quiet, ReconcilerAlone
<1>10. freeControl \in Nat /\ freeControl + 1 = Capacity
  BY <1>1, <1>9, FS_Singleton, Quiet, ReconcilerAlone
<1>11. freeControl' = freeControl + 1
  BY DEF ReconcileAborted
<1>12. freeControl' \in Nat /\ freeControl' = Capacity
  BY <1>10, <1>11
<1>13. Cardinality({u \in Sids : recon' = "finish" /\ job'[u] # "none"}) = 0
  <2>1. {u \in Sids : recon' = "finish" /\ job'[u] # "none"} = {}
    BY <1>5
  <2> QED BY <2>1, FS_EmptySet
<1>14. freeControl' + Cardinality({u \in Sids : recon' = "finish" /\ job'[u] # "none"}) = Capacity
  BY <1>12, <1>13
<1> QED
  BY <1>1, <1>2, <1>3, <1>4, <1>5, <1>6, <1>7, <1>8, <1>12, <1>14, Quiet, ReconcilerAlone, AloneMoves

\* The capacity semaphore is replaced once nothing is leased.
LEMMA ReconcileResetKeeps ==
  ASSUME ServicerInv, ReconcileReset
  PROVE  ServicerInv'
<1> USE DEF ServicerInv, ReconcileReset, handlers, lanes
<1>1. recon = "finish" /\ live = {} /\ \A s \in Sids : job[s] = "none"
  OBVIOUS
<1>2. LeaseInv'
  BY ManagerStep
<1>3. /\ UNCHANGED <<req, freeLanes, freeControl, job, tokens>>
      /\ leases' = {} /\ freeSlots' = Capacity /\ recon' \in {"done", "closed"}
  OBVIOUS
<1>4. Handled'
  BY DEF Handled, ReconStates
<1>5. UNCHANGED <<preparing, live, finishing, pc, server, byServer, configs>>
  BY DEF vars, registry, driver
<1>6. freeSlots' \in Nat /\ freeSlots' + Cardinality(leases') = Capacity
  BY <1>3, FS_EmptySet, LeaseAssumption
<1>7. {s \in Sids : recon' = "finish" /\ job'[s] # "none"} = ControlUsers
  BY <1>1, Quiet, ReconcilerAlone
<1>8. /\ preparing' \cup live' \cup finishing' \subseteq leases' /\ live' = {}
      /\ \A s \in Sids : pc[s] \notin {"building", "configuring", "exporting", "stored",
                                       "discarding", "settled"}
  BY <1>1, <1>5, Quiet, ReconcilerAlone
<1> HIDE DEF ReconcileReset
<1> QED BY <1>1, <1>2, <1>3, <1>4, <1>5, <1>6, <1>7, <1>8, Quiet, ReconcilerAlone, AloneMoves

\* The round thread leaves reconcile to itself.
LEMMA GiveUpKeeps ==
  ASSUME ServicerInv, GiveUp
  PROVE  ServicerInv'
<1> USE DEF ServicerInv
<1>1. /\ Impatient /\ recon \in {"gather", "finish"} /\ server' = "closing" /\ aborted' = TRUE
      /\ UNCHANGED <<registry, slots, pc, configs, pending, byServer, rounds, req, expired,
                     swallowed, lanes, tokens, recon, cancelling, leases, freeSlots, uploads, job>>
  BY DEF GiveUp, handlers
<1>2. LeaseInv'
  BY <1>1, ServerMoves DEF ServerStates
<1>3. Handled'
  BY <1>1 DEF Handled
<1>4. Exclusive' /\ Working' /\ Leased' /\ Patient'
  BY <1>1 DEF Exclusive, Working, Leased, Patient, Owns, Acquiring, Holding, registry
<1>5. Phases'
  BY <1>1 DEF Phases, registry
<1>6. Semaphores'
  BY <1>1 DEF Semaphores, SlotOwners, Waiting, ControlUsers, LaneUsers, Holding, lanes
<1> QED BY <1>2, <1>3, <1>4, <1>5, <1>6

\* Collection begins behind reconcile, and returns.
LEMMA CollectKeeps ==
  ASSUME ServicerInv, Collect
  PROVE  ServicerInv'
<1> USE DEF ServicerInv
<1>1. LeaseInv'
  BY ManagerStep DEF Collect, Next, ServerStep
<1>2. /\ UNCHANGED <<req, expired, swallowed, lanes, tokens, aborted, cancelling, leases, freeSlots,
                     uploads, job, preparing, live, finishing, pc, configs>>
      /\ recon' = "off"
      /\ byServer' = {} /\ server' \in {"collecting", "closing"}
      /\ server' = "collecting" => recon = "done"
      /\ \A r \in Requests : req[r].at = "idle"
      /\ \A s \in Sids : tokens[s] = NoToken
      /\ recon # "finish"
  BY DEF Collect, CollectBegin, CollectReturn, handlers, registry, driver, Phases
<1>3. Handled'
  BY <1>2 DEF Handled, ReconStates
<1>4. server' = "collecting" => live = {} /\ leases = {}
  BY <1>2 DEF Phases
<1>5. {s \in Sids : recon' = "finish" /\ job'[s] # "none"} = ControlUsers
  BY <1>2, Quiet
<1>6. UNCHANGED <<freeControl, freeLanes>>
  BY <1>2 DEF lanes
<1> QED BY <1>1, <1>2, <1>3, <1>4, <1>5, <1>6, Quiet, AloneMoves

\* The manager forgets the round.
LEMMA CloseRoundKeeps ==
  ASSUME ServicerInv, CloseRound
  PROVE  ServicerInv'
<1> USE DEF ServicerInv
<1>1. LeaseInv'
  BY ManagerStep DEF CloseRound, Next, ServerStep
<1>2. /\ UNCHANGED <<lanes, round, req, expired, cancelling, swallowed, leases, freeSlots, uploads,
                     job, preparing, finishing, pc, byServer>>
      /\ live' \subseteq live /\ attempted' \subseteq attempted
      /\ server = "closing" /\ server' \in {"between", "stopped"}
  BY DEF CloseRound, EndRound, EndRoundRaises, ForgetRound, loop, registry
<1>3. /\ \A s \in Sids : tokens[s] = NoToken
      /\ ~Impatient => \A r \in Requests : req[r].at = "idle"
  BY <1>2 DEF Phases, Patient
<1>4. Handled'
  BY <1>2 DEF Handled, round
<1>5. Exclusive' /\ Working' /\ Leased'
  BY <1>2 DEF Exclusive, Working, Leased, Owns, Acquiring, Holding, round
<1>6. Phases'
  BY <1>2, <1>3 DEF Phases, round
<1>7. Patient'
  BY <1>2, <1>3 DEF Patient, Acquiring, Owns, Training
<1>8. Semaphores'
  BY <1>2 DEF Semaphores, SlotOwners, Waiting, ControlUsers, LaneUsers, Holding, lanes, round
<1> QED BY <1>1, <1>4, <1>5, <1>6, <1>7, <1>8

\* A service that has just started satisfies the invariant.
LEMMA SvcInitInv == SvcInit => ServicerInv
<1> SUFFICES ASSUME SvcInit PROVE ServicerInv
  OBVIOUS
<1> USE DEF SvcInit
<1>1. LeaseInv
  BY InitInv
<1>2. /\ \A r \in Requests : req[r] = NoHandler /\ req[r].at = "idle"
      /\ \A s \in Sids : job[s] = "none" /\ tokens[s] = NoToken /\ pc[s] = "out"
      /\ recon = "off" /\ leases = {} /\ server = "between"
      /\ preparing = {} /\ live = {} /\ finishing = {} /\ attempted = {} /\ byServer = {}
  BY DEF Init, NoHandler
<1>3. Handled
  <2>1. tokens \in [Sids -> 0..MaxRounds]
    BY LeaseAssumption DEF NoToken
  <2>2. req \in Handlers /\ job \in [Sids -> Jobs]
    BY DEF Handlers, Jobs
  <2> QED BY <2>1, <2>2 DEF Handled, ReconStates
<1>4. Exclusive /\ Working /\ Leased /\ Phases /\ Patient
  BY <1>2 DEF Exclusive, Working, Leased, Phases, Patient, Owns, Acquiring, Training, NoHandler
<1>5. Semaphores
  <2>1. SlotOwners = {} /\ ControlUsers = {} /\ LaneUsers = {}
    BY <1>2 DEF SlotOwners, ControlUsers, LaneUsers, Holding
  <2> QED BY <2>1, FS_EmptySet, LeaseAssumption, ServicerAssumption DEF Semaphores
<1> QED BY <1>1, <1>3, <1>4, <1>5 DEF ServicerInv

\* Every step of the service keeps it.
LEMMA SvcStep == ServicerInv /\ [SvcNext]_svcVars => ServicerInv'
<1> SUFFICES ASSUME ServicerInv, [SvcNext]_svcVars PROVE ServicerInv'
  OBVIOUS
<1>1. CASE UNCHANGED svcVars \/ Stopped
  <2>1. UNCHANGED svcVars
    BY <1>1 DEF Stopped
  <2>2. UNCHANGED <<vars, lanes, round, req, leases, freeSlots, job, expired, cancelling, swallowed, uploads>>
    BY <2>1 DEF svcVars, loop
  <2>3. Handled'
    BY <2>2 DEF ServicerInv, Handled, round
  <2> QED BY <2>2, <2>3, NoteKeeps
<1>2. ASSUME NEW r \in Requests, HandlerStep(r)
      PROVE  ServicerInv'
  BY <1>2, DispatchKeeps, TakeReplicaSlotKeeps, SubmitControlKeeps, SubmitExecutionKeeps,
     ResumeKeeps, CancelledKeeps DEF HandlerStep
<1>3. CASE RoundStep
  BY <1>3, BeginRoundKeeps, ReconcileBeginKeeps, ReconcileGatheredKeeps, ReconcileAbortKeeps,
     ReconcileAbortedKeeps, ReconcileResetKeeps, GiveUpKeeps, CollectKeeps, CloseRoundKeeps DEF RoundStep
<1> QED BY <1>1, <1>2, <1>3, ArriveKeeps, DeadlineKeeps, ThreadKeeps DEF SvcNext

\* ServicerInv in every reachable state.
LEMMA ServicerInvariant == SvcSpec => []ServicerInv
<1>1. SvcInit => ServicerInv
  BY SvcInitInv
<1>2. ServicerInv /\ [SvcNext]_svcVars => ServicerInv'
  BY SvcStep
<1> QED BY <1>1, <1>2, PTL DEF SvcSpec

\* ExecutionOwned: what a thread executes is waited for, whatever was cancelled.
THEOREM ServicerExecutionOwned == SvcSpec => []ExecutionOwned
<1>1. ServicerInv => ExecutionOwned
  BY DEF ServicerInv, Working, ExecutionOwned, Waiting, Holding
<1> QED BY <1>1, ServicerInvariant, PTL

\* ReconciledBeforeCollect: the results are collected behind the last handler,
\* lease and lifecycle operation of the round (server.py: before_collect).
THEOREM CollectIsAlone == SvcSpec => []ReconciledBeforeCollect
<1>1. ServicerInv => ReconciledBeforeCollect
  <2> SUFFICES ASSUME ServicerInv, server = "collecting" PROVE ReconciledBeforeCollect
    BY DEF ReconciledBeforeCollect
  <2>1. (\A r \in Requests : req[r].at = "idle") /\ recon = "off" /\ leases = {}
    BY DEF ServicerInv, Phases
  <2>2. preparing \cup live \cup finishing = {}
    BY <2>1 DEF ServicerInv, Leased
  <2> QED BY <2>1, <2>2 DEF ReconciledBeforeCollect
<1> QED BY <1>1, ServicerInvariant, PTL

\* NothingSurvives: a service that has shut down has no suffix model or lease.
THEOREM ShutdownIsClean == SvcSpec => []NothingSurvives
<1>1. ServicerInv => NothingSurvives
  BY DEF ServicerInv, Phases, Leased, NothingSurvives
<1> QED BY <1>1, ServicerInvariant, PTL

\* The semaphores' free places, as the counters the loop keeps.
LEMMA CountersBounded ==
  ServicerInv => /\ freeSlots \in 0..Capacity /\ freeControl \in 0..Capacity
                 /\ freeLanes \in 0..Lanes
<1> SUFFICES ASSUME ServicerInv
             PROVE  /\ freeSlots \in 0..Capacity /\ freeControl \in 0..Capacity
                    /\ freeLanes \in 0..Lanes
  OBVIOUS
<1>1. SlotOwners \subseteq Sids /\ ControlUsers \subseteq Sids /\ LaneUsers \subseteq Sids
  BY DEF SlotOwners, ControlUsers, LaneUsers, ServicerInv, Handled
<1>2. /\ Cardinality(SlotOwners) \in Nat /\ Cardinality(ControlUsers) \in Nat
      /\ Cardinality(LaneUsers) \in Nat
  BY <1>1, FS_Subset, FS_CardinalityType, LeaseAssumption
<1> QED BY <1>2, LeaseAssumption, ServicerAssumption DEF ServicerInv, Semaphores

\* A model that exists, or is being made, is covered by a slot of the loop's
\* semaphore.
LEMMA SlotsCovered == ServicerInv => preparing \cup live \cup finishing \subseteq SlotOwners
<1> SUFFICES ASSUME ServicerInv, NEW s \in preparing \cup live \cup finishing
             PROVE  s \in SlotOwners
  OBVIOUS
<1> USE DEF ServicerInv
<1>1. s \in leases /\ s \in Sids /\ s \in attempted \cup finishing
  BY DEF Leased, Handled, LeaseInv, RegistryOK, Occupied
<1>2. ASSUME Waiting(s, "slot") PROVE FALSE
  <2>1. PICK r \in Requests : req[r].at = "slot" /\ req[r].sid = s
    BY <1>2 DEF Waiting
  <2>2. Owns(r) /\ s \notin attempted
    BY <2>1 DEF Owns, Exclusive, Leased, Acquiring
  <2>3. s \notin finishing
    BY <2>1, <2>2, OwnerKnown DEF Holding, Over
  <2> QED BY <1>1, <2>2, <2>3
<1> QED BY <1>1, <1>2 DEF SlotOwners

\* The three counts of the admission test, when the sets are apart.
LEMMA ApartCount ==
  ASSUME NEW A, NEW B, NEW C, NEW S, IsFiniteSet(S), A \cup B \cup C \subseteq S,
         A \cap B = {}, A \cap C = {}, B \cap C = {}
  PROVE  /\ Cardinality(A) \in Nat /\ Cardinality(B) \in Nat /\ Cardinality(C) \in Nat
         /\ Cardinality(A) + Cardinality(B) + Cardinality(C) <= Cardinality(S)
<1>1. /\ IsFiniteSet(A) /\ IsFiniteSet(B) /\ IsFiniteSet(C) /\ IsFiniteSet(A \cup B)
      /\ IsFiniteSet(A \cup B \cup C)
  BY FS_Subset
<1>2. /\ Cardinality(A) \in Nat /\ Cardinality(B) \in Nat /\ Cardinality(C) \in Nat
      /\ Cardinality(S) \in Nat /\ Cardinality({}) = 0
  BY <1>1, FS_CardinalityType, FS_EmptySet
<1>3. Cardinality(A \cup B) = Cardinality(A) + Cardinality(B) - Cardinality(A \cap B)
  BY <1>1, FS_Union
<1>4. Cardinality(A \cup B \cup C)
        = Cardinality(A \cup B) + Cardinality(C) - Cardinality((A \cup B) \cap C)
  BY <1>1, FS_Union
<1>5. Cardinality(A \cap B) = 0 /\ Cardinality((A \cup B) \cap C) = 0
  <2>1. A \cap B = {} /\ (A \cup B) \cap C = {}
    OBVIOUS
  <2> QED BY <1>2, <2>1
<1>6. Cardinality(A \cup B) = Cardinality(A) + Cardinality(B)
  BY <1>2, <1>3, <1>5
<1>7. Cardinality(A \cup B \cup C) = Cardinality(A) + Cardinality(B) + Cardinality(C)
  BY <1>2, <1>4, <1>5, <1>6
<1>8. Cardinality(A \cup B \cup C) <= Cardinality(S)
  BY FS_Subset
<1> QED BY <1>2, <1>7, <1>8

\* An acquire that has a slot of the loop's finds room in the manager: its own
\* slot covers nothing there yet.
LEMMA RoomForAcquire ==
  ASSUME ServicerInv, ~Impatient, NEW s \in Sids, job[s] = "virtual_acquire", pc[s] = "out"
  PROVE  Admissible(s)
<1> USE DEF ServicerInv
<1>1. s \notin attempted
  BY DEF Leased
<1>2. s \in SlotOwners /\ s \in configs
  <2>1. PICK r \in Requests : /\ req[r].at \in Holding /\ req[r].sid = s
                              /\ job[s] = (IF req[r].at = "run" THEN req[r].kind ELSE "virtual_abort")
                              /\ \A t \in Requests \ {r} : Owns(t) => req[t].sid # s
    BY ThreadHeld DEF Over
  <2>2. Acquiring(r)
    BY <2>1 DEF Acquiring, Owns, Holding
  <2>3. ~Waiting(s, "slot")
    BY <2>1 DEF Waiting, Owns, Holding
  <2> QED BY <2>1, <2>2, <2>3 DEF SlotOwners, Leased, Patient
<1>3. s \notin preparing \cup live \cup finishing
  BY <1>1 DEF LeaseInv, RegistryOK, Occupied
<1>4. live \cup preparing \cup finishing \subseteq SlotOwners \ {s}
  BY <1>3, SlotsCovered
<1>5. live \cap preparing = {} /\ live \cap finishing = {} /\ preparing \cap finishing = {}
  BY DEF LeaseInv, RegistryOK
<1>6. IsFiniteSet(SlotOwners) /\ Cardinality(SlotOwners) \in Nat
  BY FS_Subset, FS_CardinalityType, LeaseAssumption DEF SlotOwners, Handled
<1>7. IsFiniteSet(SlotOwners \ {s}) /\ Cardinality(SlotOwners \ {s}) = Cardinality(SlotOwners) - 1
  BY <1>2, <1>6, FS_RemoveElement
<1>8. /\ Cardinality(live) \in Nat /\ Cardinality(preparing) \in Nat /\ Cardinality(finishing) \in Nat
      /\ Cardinality(live) + Cardinality(preparing) + Cardinality(finishing)
           <= Cardinality(SlotOwners \ {s})
  BY <1>4, <1>5, <1>7, ApartCount
<1>9. Cardinality(SlotOwners) <= Capacity
  BY <1>6, LeaseAssumption DEF Semaphores
<1>10. Cardinality(live) + Cardinality(preparing) + Cardinality(finishing) < Capacity
  BY <1>6, <1>7, <1>8, <1>9, LeaseAssumption
<1> QED BY <1>1, <1>2, <1>10 DEF Admissible

\* No replica slot is lost or given back twice, on any path of a deadline, a
\* failure or a cancelled cleanup, even when reconcile is given up on.
THEOREM SlotsNeverLost == SvcSpec => []SlotsConserved
<1>1. ServicerInv => SlotsConserved
  BY SlotsCovered DEF ServicerInv, Semaphores, SlotsConserved
<1> QED BY <1>1, ServicerInvariant, PTL

\* CapacityAgreed: the loop's semaphore, the servicer's leases and the manager's
\* registry agree on the capacity, so no acquire that got past the first is
\* refused by the last.  Only when reconcile is waited for to its end: a round
\* that gave up on it forgets the configurations under a handler.
THEOREM CapacityStaysAgreed == ~Impatient /\ SvcSpec => []CapacityAgreed
<1> SUFFICES ASSUME ~Impatient PROVE SvcSpec => []CapacityAgreed
  OBVIOUS
<1>1. ServicerInv => SvcTypeOK
  <2> SUFFICES ASSUME ServicerInv PROVE SvcTypeOK
    OBVIOUS
  <2>1. req \in [Requests -> {NoHandler} \cup
                   [at : Awaits, sid : Sids, kind : Kinds, token : 1..MaxRounds]]
    BY DEF ServicerInv, Handled, Handlers
  <2> QED BY <2>1, CountersBounded DEF ServicerInv, Handled, SvcTypeOK
<1>2. ServicerInv => SlotsConserved
  BY SlotsCovered DEF ServicerInv, Semaphores, SlotsConserved
<1>3. ServicerInv => AdmissionNeverRefused
  BY RoomForAcquire DEF AdmissionNeverRefused
<1> QED BY <1>1, <1>2, <1>3, ServicerInvariant, PTL DEF CapacityAgreed

\* ExecutionOnLiveReplica: no suffix is evicted between its forward and its
\* backward pass, whatever is cancelled meanwhile; under the same condition.
THEOREM ExecutesLiveReplica == ~Impatient /\ SvcSpec => []ExecutionOnLiveReplica
<1> SUFFICES ASSUME ~Impatient PROVE SvcSpec => []ExecutionOnLiveReplica
  OBVIOUS
<1>1. ServicerInv => ExecutionOnLiveReplica
  <2> SUFFICES ASSUME ServicerInv, NEW s \in Sids, job[s] = "train_tail" PROVE s \in live
    BY DEF ExecutionOnLiveReplica
  <2>1. PICK r \in Requests : /\ req[r].at \in Holding /\ req[r].sid = s
                              /\ job[s] = (IF req[r].at = "run" THEN req[r].kind ELSE "virtual_abort")
    BY ThreadHeld DEF Over
  <2>2. Training(r)
    BY <2>1 DEF Training
  <2> QED BY <2>1, <2>2 DEF ServicerInv, Patient
<1> QED BY <1>1, ServicerInvariant, PTL
===============================================================================
