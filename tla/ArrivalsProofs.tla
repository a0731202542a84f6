---------------------------- MODULE ArrivalsProofs ----------------------------
(***************************************************************************)
(* That the accounts of the asynchronous baselines agree, for any number   *)
(* of clients, groups, updates and ticks.  ArrivalsInv is inductive: it    *)
(* follows an update from its dispatch through the queue into a group, the *)
(* buffer or the model (Queued, Grouped, Kept, Dated), and a client from   *)
(* its assignment to the next one (Owned, InTurn, NobodyIdle).  What a     *)
(* controller does to an arrival is stated once for all of them, in two    *)
(* parts: what becomes of the receipts (Moves) and the groups (Regroups).  *)
(***************************************************************************)
EXTENDS Arrivals, SequenceTheorems, WellFoundedInduction, TLAPS

Receipt == [client : Clients, version : Nat, at : Nat,
            status : Settled \cup {"sent", "waiting", "late", "unaggregated"}]
Group == [expected : Nat, deadline : Nat, pending : SUBSET Clients, arrived : SUBSET Nat,
          closed : BOOLEAN]
Going == pc \notin {"drain", "finished", "raised"}

Typed ==
  /\ method \in Methods /\ time \in Nat /\ now \in Nat /\ now <= time
  /\ pc \in {"top", "expire", "assign", "send", "wait", "stop", "drain", "finished", "raised"}
  /\ version \in Nat /\ counter \in Nat
  /\ DOMAIN groups \subseteq 1..counter /\ \A g \in DOMAIN groups : groups[g] \in Group
  /\ active \in [Clients -> {None, Initial} \cup {<<g>> : g \in 1..counter}]
  /\ sent \in Seq(Receipt) /\ finished \in Seq([id : Nat, ok : BOOLEAN])
  /\ toAssign \subseteq Clients /\ toSend \subseteq Clients
  /\ Going => scan \subseteq DOMAIN groups

\* A call is under way or in the queue of finished calls, once, as long as its
\* receipt says "sent".
Queued ==
  /\ running \subseteq Ids
  /\ \A k \in DOMAIN finished : finished[k].id \in Ids \ running
  /\ \A k, l \in DOMAIN finished : finished[k].id = finished[l].id => k = l
  /\ pc # "raised" => \A i \in Ids :
       sent[i].status = "sent" <=> i \in running \/ \E k \in DOMAIN finished : finished[k].id = i

\* An update that waits is in one group, which is open.
Grouped ==
  /\ \A g \in DOMAIN groups : \A i \in groups[g].arrived : i \in Ids /\ sent[i].status = "waiting"
  /\ \A g \in DOMAIN groups : groups[g].closed => groups[g].arrived = {}
  /\ \A g, h \in DOMAIN groups : \A i \in groups[g].arrived \cap groups[h].arrived : g = h
  /\ \A i \in Ids : sent[i].status = "waiting" => \E g \in DOMAIN groups : i \in groups[g].arrived
  /\ method # "fedcompass" => DOMAIN groups = {}

\* What the buffer holds is late, or waits for a full buffer.
Kept ==
  /\ buffer \subseteq Ids
  /\ \A i \in Ids : sent[i].status = "late" <=> method = "fedcompass" /\ i \in buffer
  /\ \A i \in buffer : \/ method = "fedcompass"
                       \/ method = "fedbuff" /\ sent[i].status = "unaggregated"
  /\ ~Going /\ pc # "raised" => buffer = {} /\ DOMAIN groups = {}

\* A client has an assignment from _assign to the arrival of its update, and it
\* has one call under way, one update that waits, or a place in one list.
Owned == Going =>
  /\ \A c \in toAssign : active[c] = None
  /\ \A c \in toSend : active[c] # None
  /\ \A i \in Ids :
       /\ sent[i].status = "sent" => active[sent[i].client] # None
       /\ sent[i].status = "waiting" => active[sent[i].client] = None
       /\ sent[i].status \in {"sent", "waiting"} => sent[i].client \notin toAssign \cup toSend
  /\ \A i, j \in Ids :
       {sent[i].status, sent[j].status} \subseteq {"sent", "waiting"} /\ sent[i].client = sent[j].client
         => i = j

\* Between the steps of the event loop its lists are empty.
InTurn ==
  /\ pc # "assign" => toAssign = {}
  /\ pc \in {"wait", "top", "stop"} => toSend = {}
  /\ pc = "finished" => running = {} /\ finished = <<>>

\* An update was made from a model the server had.
Dated == \A i \in Ids : sent[i].version <= version

ArrivalsInv ==
  Typed /\ Queued /\ Grouped /\ Kept /\ Owned /\ InTurn /\ Dated /\ GroupsMet /\ NobodyIdle

-------------------------------------------------------------------------------
(* Receipts and assignments *)

Stati == Settled \cup {"sent", "waiting", "late", "unaggregated"}

\* What every rewriting of the receipts leaves as it was.
Relabels(new) ==
  /\ new \in Seq(Receipt) /\ DOMAIN new = Ids
  /\ \A i \in Ids : /\ new[i].client = sent[i].client /\ new[i].version = sent[i].version
                    /\ new[i].at = sent[i].at

\* The receipts are a sequence of receipts.
LEMMA ReceiptsIn ==
  ASSUME Typed
  PROVE  /\ Len(sent) \in Nat /\ Ids = 1..Len(sent)
         /\ \A i \in Ids : sent[i] \in Receipt
  BY LenProperties, ElementOfSeq DEF Typed, Ids

\* New statuses make new receipts of the same updates.
LEMMA RelabelsIs ==
  ASSUME Typed, NEW S \in [Ids -> Stati]
  PROVE  Relabels([i \in Ids |-> [sent[i] EXCEPT !.status = S[i]]])
  <1> DEFINE new == [i \in Ids |-> [sent[i] EXCEPT !.status = S[i]]]
  <1>1. \A i \in Ids : [sent[i] EXCEPT !.status = S[i]] \in Receipt
    BY ReceiptsIn DEF Receipt, Stati
  <1>2. new \in [1..Len(sent) -> Receipt] BY <1>1, ReceiptsIn
  <1>3. new \in Seq(Receipt) BY <1>2, ReceiptsIn, SeqDef
  <1>4. \A i \in Ids : /\ new[i].client = sent[i].client /\ new[i].version = sent[i].version
                      /\ new[i].at = sent[i].at
    BY ReceiptsIn DEF Receipt
  <1> QED BY <1>3, <1>4 DEF Relabels

\* What has been settled stays, and the model becomes newer in time.
Recorded ==
  /\ \A i \in Ids : sent[i].status \in Settled => sent'[i] = sent[i]
  /\ version' # version => version' = version + 1 /\ time' < Deadline

\* A settled update keeps its record if its status does not change.
LEMMA RelabelsRecord ==
  ASSUME Typed, Relabels(sent'), \A i \in Ids : sent[i].status \in Settled => sent'[i].status = sent[i].status,
         version' # version => version' = version + 1 /\ time' < Deadline
  PROVE  Recorded
  <1>1. ASSUME NEW i \in Ids, sent[i].status \in Settled PROVE sent'[i] = sent[i]
    <2>1. sent[i] \in Receipt BY ReceiptsIn
    <2>2. sent'[i] \in Receipt
      <3>1. DOMAIN sent' = 1..Len(sent') BY LenProperties DEF Relabels
      <3> QED BY <3>1, ElementOfSeq DEF Relabels
    <2>3. /\ sent'[i].client = sent[i].client /\ sent'[i].version = sent[i].version
          /\ sent'[i].at = sent[i].at /\ sent'[i].status = sent[i].status
      BY <1>1 DEF Relabels
    <2> QED BY <2>1, <2>2, <2>3 DEF Receipt
  <1> QED BY <1>1 DEF Recorded

\* Marked gives the updates of a set a status.
LEMMA MarkedIs ==
  ASSUME Typed, NEW ids, NEW s \in Stati
  PROVE  /\ Relabels(Marked(ids, s))
         /\ \A i \in Ids : Marked(ids, s)[i].status = IF i \in ids THEN s ELSE sent[i].status
  <1> DEFINE S == [i \in Ids |-> IF i \in ids THEN s ELSE sent[i].status]
  <1>0. \A i \in Ids : sent[i] \in Receipt BY ReceiptsIn
  <1>1. S \in [Ids -> Stati] BY <1>0 DEF Receipt, Stati
  <1>2. \A i \in Ids : [sent[i] EXCEPT !.status = sent[i].status] = sent[i] BY <1>0 DEF Receipt
  <1>3. Marked(ids, s) = [i \in Ids |-> [sent[i] EXCEPT !.status = S[i]]]
    BY <1>2 DEF Marked
  <1>4. \A i \in Ids : Marked(ids, s)[i].status = IF i \in ids THEN s ELSE sent[i].status
    BY <1>0, <1>2 DEF Marked, Receipt
  <1> QED BY <1>1, <1>3, <1>4, RelabelsIs

\* An assignment is none, an initial one, or names a group.
LEMMA Assignments ==
  /\ None # Initial
  /\ \A g \in Nat : <<g>> # None /\ <<g>>[1] = g /\ (<<g>> = Initial <=> g = 0)
  /\ \A g, h \in Nat : <<g>> = <<h>> <=> g = h
  BY DEF None, Initial

\* The first answer of the queue, and the others.
LEMMA QueueIs ==
  ASSUME Typed, finished # <<>>
  PROVE  LET rest == Tail(finished) IN
         /\ Len(finished) \in Nat /\ Len(finished) > 0 /\ DOMAIN finished = 1..Len(finished)
         /\ Head(finished) = finished[1] /\ Head(finished) \in [id : Nat, ok : BOOLEAN]
         /\ rest \in Seq([id : Nat, ok : BOOLEAN]) /\ DOMAIN rest = 1..(Len(finished) - 1)
         /\ \A k \in DOMAIN rest : rest[k] = finished[k + 1]
  <1>1. finished \in Seq([id : Nat, ok : BOOLEAN]) BY DEF Typed
  <1>2. Len(finished) \in Nat \ {0} /\ DOMAIN finished = 1..Len(finished) BY <1>1, EmptySeq, LenProperties
  <1> DEFINE rest == Tail(finished)
  <1>3. /\ Head(finished) \in [id : Nat, ok : BOOLEAN] /\ rest \in Seq([id : Nat, ok : BOOLEAN])
        /\ Len(rest) = Len(finished) - 1
        /\ \A k \in 1..Len(rest) : rest[k] = finished[k + 1]
    BY <1>1, HeadTailProperties
  <1>4. DOMAIN rest = 1..Len(rest) BY <1>3, LenProperties
  <1>5. Head(finished) = finished[1] BY <1>1, <1>2
  <1> QED BY <1>2, <1>3, <1>4, <1>5

\* A new run has no updates and no groups.
LEMMA FirstInv == Init => ArrivalsInv
  <1> SUFFICES ASSUME Init PROVE ArrivalsInv OBVIOUS
  <1> USE DEF Init
  <1>1. DOMAIN groups = {} /\ Ids = {} /\ DOMAIN finished = {} BY DEF Ids
  <1>2. Typed BY <1>1, EmptySeq DEF Typed
  <1>3. Queued /\ Grouped /\ Kept BY <1>1 DEF Queued, Grouped, Kept, Going
  <1>4. Owned BY <1>1, Assignments DEF Owned
  <1>5. InTurn /\ Dated /\ NobodyIdle BY <1>1 DEF InTurn, Dated, NobodyIdle
  <1>6. GroupsMet BY <1>1 DEF GroupsMet, Open
  <1> QED BY <1>2, <1>3, <1>4, <1>5, <1>6 DEF ArrivalsInv

-------------------------------------------------------------------------------
(* Time, the calls, and the turns of the event loop *)

\* Time passes, and no account changes.
LEMMA TickKeeps == ASSUME ArrivalsInv, Tick PROVE ArrivalsInv'
  <1> USE DEF control, calls, Ids, Going, Open
  <1>1. Typed' BY DEF ArrivalsInv, Tick, Typed
  <1>2. Queued' /\ Grouped' /\ Kept' BY DEF ArrivalsInv, Tick, Queued, Grouped, Kept
  <1>3. Owned' /\ InTurn' /\ Dated' BY DEF ArrivalsInv, Tick, Owned, InTurn, Dated
  <1>4. GroupsMet' BY DEF ArrivalsInv, Tick, GroupsMet
  <1>5. NobodyIdle' BY ArrivalsAssumption DEF ArrivalsInv, Tick, NobodyIdle, Typed
  <1> QED BY <1>1, <1>2, <1>3, <1>4, <1>5 DEF ArrivalsInv

\* A call that returns goes to the end of the queue.
LEMMA AnswerKeeps ==
  ASSUME ArrivalsInv, NEW i \in running, NEW ok \in BOOLEAN, Answer(i, ok)
  PROVE  ArrivalsInv'
  <1> USE DEF control, calls, Ids, Going, Open
  <1> DEFINE entry == [id |-> i, ok |-> ok]  n == Len(finished)
  <1>1. /\ finished' = Append(finished, entry) /\ running' = running \ {i}
        /\ UNCHANGED <<method, time, pc, now, scan, toAssign, toSend, origin, control, sent>>
    BY DEF Answer
  <1>2. i \in Nat /\ i \in Ids BY ReceiptsIn DEF ArrivalsInv, Queued
  <1>3. /\ finished' \in Seq([id : Nat, ok : BOOLEAN]) /\ DOMAIN finished' = 1..(n + 1)
        /\ DOMAIN finished = 1..n /\ n \in Nat /\ finished'[n + 1].id = i
        /\ \A k \in 1..n : finished'[k] = finished[k]
    BY <1>1, <1>2, LenProperties, AppendProperties DEF ArrivalsInv, Typed
  <1>4. Typed' BY <1>1, <1>3 DEF ArrivalsInv, Typed
  <1>5. Queued'
    <2>1. \A k \in DOMAIN finished' :
            finished'[k].id = IF k = n + 1 THEN i ELSE finished[k].id
      BY <1>3
    <2>2. \A k \in DOMAIN finished : k # n + 1 /\ k \in DOMAIN finished' BY <1>3
    <2>3. \A k \in DOMAIN finished' : k # n + 1 => k \in DOMAIN finished BY <1>3
    <2>4. n + 1 \in DOMAIN finished' BY <1>3
    <2> HIDE DEF n
    <2> QED BY <1>1, <2>1, <2>2, <2>3, <2>4 DEF ArrivalsInv, Queued
  <1>6. Grouped' /\ Kept' BY <1>1 DEF ArrivalsInv, Grouped, Kept
  <1>7. Owned' /\ InTurn' /\ Dated' BY <1>1 DEF ArrivalsInv, Owned, InTurn, Dated
  <1>8. GroupsMet' BY <1>1 DEF ArrivalsInv, GroupsMet
  <1>9. NobodyIdle' BY <1>1 DEF ArrivalsInv, NobodyIdle
  <1> QED BY <1>4, <1>5, <1>6, <1>7, <1>8, <1>9 DEF ArrivalsInv

\* The turns that change no account.
LEMMA TurnKeeps ==
  ASSUME ArrivalsInv, Top \/ NothingToExpire \/ AllSent \/ WaitEnds \/ Drained \/ Over
  PROVE  ArrivalsInv'
  <1> USE DEF control, calls, Ids, Going, Open
  <1>1. /\ UNCHANGED <<method, time, toAssign, toSend, control, calls>>
        /\ now' \in {now, time}
        /\ Going' => Going
        /\ pc' = "raised" <=> pc = "raised"
    BY DEF Top, NothingToExpire, AllSent, WaitEnds, Drained, Over, vars
  <1>2. Typed' BY <1>1 DEF ArrivalsInv, Top, NothingToExpire, AllSent, WaitEnds, Drained, Over, Typed, vars
  <1>3. Queued' /\ Grouped' /\ Owned' /\ Dated' BY <1>1 DEF ArrivalsInv, Queued, Grouped, Owned, Dated
  <1>4. Kept' BY <1>1 DEF ArrivalsInv, Top, NothingToExpire, AllSent, WaitEnds, Drained, Over, Kept, vars
  <1>5. InTurn' BY <1>1 DEF ArrivalsInv, Top, NothingToExpire, AllSent, WaitEnds, Drained, Over, InTurn, vars
  <1>6. now <= now' /\ now \in Nat /\ now' \in Nat BY <1>1 DEF ArrivalsInv, Typed
  <1>7. GroupsMet'
    <2>1. \A g \in DOMAIN groups : groups[g].deadline \in Nat BY DEF ArrivalsInv, Typed, Group
    <2> QED BY <1>1, <1>6, <2>1 DEF ArrivalsInv, GroupsMet
  <1>8. NobodyIdle' BY <1>1 DEF ArrivalsInv, NobodyIdle
  <1> QED BY <1>2, <1>3, <1>4, <1>5, <1>7, <1>8 DEF ArrivalsInv

-------------------------------------------------------------------------------
(* Assignments, dispatches, and the end *)

\* A closed group nobody is missing from is no longer looked at by anyone.
LEMMA AssignedKeeps == ASSUME ArrivalsInv, Assigned PROVE ArrivalsInv'
  <1> USE DEF control, calls, Ids, Going
  <1>1. /\ UNCHANGED <<method, time, now, scan, toAssign, toSend, version, active, counter, buffer, calls>>
        /\ pc = "assign" /\ pc' \in {"expire", "send"} /\ toAssign = {}
    BY DEF Assigned
  <1>2. /\ DOMAIN groups' \subseteq DOMAIN groups /\ \A g \in DOMAIN groups' : groups'[g] = groups[g]
        /\ \A g \in DOMAIN groups : groups[g].closed => groups[g].arrived = {}
        /\ \A g \in DOMAIN groups \ DOMAIN groups' :
             g \notin scan /\ groups[g].closed /\ groups[g].pending = {}
    BY DEF ArrivalsInv, Assigned, Forget, Typed, Grouped
  <1>3. Typed' BY <1>1, <1>2 DEF ArrivalsInv, Typed
  <1>4. Queued' /\ Kept' /\ Owned' /\ Dated' /\ NobodyIdle'
    BY <1>1, <1>2 DEF ArrivalsInv, Queued, Kept, Owned, Dated, NobodyIdle
  <1>5. Grouped' BY <1>1, <1>2 DEF ArrivalsInv, Grouped
  <1>6. InTurn' BY <1>1 DEF ArrivalsInv, InTurn
  <1>7. GroupsMet'
    <2>1. Open' \subseteq Open BY <1>2 DEF Open
    <2> QED BY <1>1, <1>2, <2>1 DEF ArrivalsInv, GroupsMet, Open
  <1> QED BY <1>3, <1>4, <1>5, <1>6, <1>7 DEF ArrivalsInv

\* What a client's new assignment a does to the groups.
Enters(c, a) ==
  /\ counter' \in Nat /\ counter <= counter' /\ DOMAIN groups' \subseteq 1..counter'
  /\ DOMAIN groups \subseteq DOMAIN groups' /\ (method # "fedcompass" => DOMAIN groups' = {})
  /\ a \in {Initial} \cup {<<g>> : g \in 1..counter'} /\ active' = [active EXCEPT ![c] = a]
  /\ \A g \in DOMAIN groups' : groups'[g] \in Group
  /\ \A g \in DOMAIN groups :
       /\ \E members \in SUBSET Clients : groups'[g] = [groups[g] EXCEPT !.pending = members]
       /\ groups'[g].pending = IF a = <<g>> THEN groups[g].pending \cup {c} ELSE groups[g].pending
  /\ \A g \in DOMAIN groups' \ DOMAIN groups :
       g > counter /\ a = <<g>> /\ groups'[g].pending = {c} /\ groups'[g].arrived = {} /\ ~groups'[g].closed

\* _assign puts the client into an open group or a new one.
LEMMA AssignEnters == ASSUME ArrivalsInv, NEW c \in Clients, Assign(c) PROVE \E a : Enters(c, a)
  <1>1. counter \in Nat /\ now \in Nat /\ Longest \in Nat
        /\ DOMAIN groups \subseteq 1..counter /\ \A g \in DOMAIN groups : groups[g] \in Group
    BY ArrivalsAssumption DEF ArrivalsInv, Typed
  <1>2. \A g \in DOMAIN groups : [groups[g] EXCEPT !.pending = groups[g].pending] = groups[g]
                                 /\ groups[g].pending \in SUBSET Clients
    BY <1>1 DEF Group
  <1>3. CASE method # "fedcompass"
    <2>1. UNCHANGED <<groups, counter>> /\ active' = [active EXCEPT ![c] = Initial] /\ DOMAIN groups = {}
      BY <1>3 DEF Assign, AssignAsync, ArrivalsInv, Grouped
    <2>2. Enters(c, Initial) BY <1>1, <1>3, <2>1 DEF Enters
    <2> QED BY <2>2
  <1>4. ASSUME NEW g \in Open, Join(c, g), method = "fedcompass" PROVE Enters(c, <<g>>)
    <2> DEFINE new == [groups[g] EXCEPT !.pending = @ \cup {c}]
    <2>1. /\ counter' = counter /\ active' = [active EXCEPT ![c] = <<g>>]
          /\ DOMAIN groups' = DOMAIN groups /\ g \in DOMAIN groups
          /\ \A h \in DOMAIN groups : h # g => groups'[h] = groups[h]
          /\ groups'[g] = new
      BY <1>4 DEF Join, Open
    <2>2. new \in Group /\ new.pending = groups[g].pending \cup {c} BY <1>1, <2>1 DEF Group
    <2>3. new = [groups[g] EXCEPT !.pending = groups[g].pending \cup {c}] /\ groups[g].pending \cup {c} \in SUBSET Clients
      BY <1>2, <2>1
    <2>4. \A h \in DOMAIN groups : <<h>> = <<g>> <=> h = g BY <1>1, <2>1, Assignments
    <2>5. <<g>> \in {<<h>> : h \in 1..counter} BY <1>1, <2>1
    <2> HIDE DEF new
    <2>6. ASSUME NEW h \in DOMAIN groups PROVE
       /\ \E members \in SUBSET Clients : groups'[h] = [groups[h] EXCEPT !.pending = members]
       /\ groups'[h].pending = IF <<g>> = <<h>> THEN groups[h].pending \cup {c} ELSE groups[h].pending
      <3>1. CASE h = g BY <2>1, <2>2, <2>3, <3>1
      <3>2. CASE h # g
        <4>1. groups'[h] = groups[h] /\ <<h>> # <<g>> BY <2>1, <2>4, <3>2
        <4> QED BY <1>2, <4>1
      <3> QED BY <3>1, <3>2
    <2>7. \A h \in DOMAIN groups' : groups'[h] \in Group BY <1>1, <2>1, <2>2
    <2>8. counter' \in Nat /\ counter <= counter' /\ DOMAIN groups' \subseteq 1..counter' BY <1>1, <2>1
    <2>9. DOMAIN groups' \ DOMAIN groups = {} /\ <<g>> \in {Initial} \cup {<<h>> : h \in 1..counter'}
      BY <2>1, <2>5
    <2> QED BY <1>4, <2>1, <2>6, <2>7, <2>8, <2>9 DEF Enters
  <1>5. ASSUME NEW n \in 1..Longest, NEW slack \in {0, 1}, NewGroup(c, now + n, now + n + slack),
               method = "fedcompass"
        PROVE  Enters(c, <<counter'>>)
    <2> DEFINE new == [expected |-> now + n, deadline |-> now + n + slack, pending |-> {c},
                       arrived |-> {}, closed |-> FALSE]
    <2>1. /\ counter' = counter + 1 /\ active' = [active EXCEPT ![c] = <<counter'>>]
          /\ DOMAIN groups' = DOMAIN groups \cup {counter + 1} /\ counter + 1 \notin DOMAIN groups
          /\ \A h \in DOMAIN groups : groups'[h] = groups[h]
          /\ groups'[counter + 1] = new
      BY <1>1, <1>5 DEF NewGroup
    <2>2. new \in Group /\ new.pending = {c} /\ new.arrived = {} /\ ~new.closed BY <1>1 DEF Group
    <2>4. \A h \in DOMAIN groups : <<h>> # <<counter'>> BY <1>1, <2>1, Assignments
    <2>5. <<counter'>> \in {<<h>> : h \in 1..counter'} BY <1>1, <2>1
    <2> HIDE DEF new
    <2>6. \A h \in DOMAIN groups :
       /\ \E members \in SUBSET Clients : groups'[h] = [groups[h] EXCEPT !.pending = members]
       /\ groups'[h].pending = IF <<counter'>> = <<h>> THEN groups[h].pending \cup {c} ELSE groups[h].pending
      BY <1>2, <2>1, <2>4
    <2>7. counter' \in Nat /\ counter <= counter' /\ DOMAIN groups' \subseteq 1..counter' BY <1>1, <2>1
    <2>8. \A h \in DOMAIN groups' : groups'[h] \in Group BY <1>1, <2>1, <2>2
    <2>9. ASSUME NEW h \in DOMAIN groups' \ DOMAIN groups
          PROVE  h > counter /\ h = counter' /\ groups'[h] = new
      <3>1. h = counter + 1 BY <2>1
      <3> QED BY <1>1, <2>1, <3>1
    <2>10. DOMAIN groups \subseteq DOMAIN groups' BY <2>1
    <2> QED BY <1>5, <2>1, <2>2, <2>5, <2>6, <2>7, <2>8, <2>9, <2>10 DEF Enters
  <1> QED BY <1>3, <1>4, <1>5 DEF Assign

\* The new assignment puts the client into the group it names and no other.
LEMMA AssignKeeps == ASSUME ArrivalsInv, NEW c \in Clients, Assign(c) PROVE ArrivalsInv'
  <1> USE DEF control, calls, Ids, Going
  <1>1. /\ UNCHANGED <<method, time, pc, now, scan, version, buffer, calls>>
        /\ toAssign' = toAssign \ {c} /\ toSend' = toSend \cup {c} /\ pc = "assign" /\ c \in toAssign
    BY DEF Assign
  <1>2. active[c] = None /\ active \in [Clients -> {None, Initial} \cup {<<g>> : g \in 1..counter}]
        /\ counter \in Nat
    BY <1>1 DEF ArrivalsInv, Owned, Typed
  <1>3. PICK a : Enters(c, a) BY AssignEnters
  <1>4. /\ active'[c] = a /\ a # None /\ \A d \in Clients \ {c} : active'[d] = active[d]
        /\ active' \in [Clients -> {None, Initial} \cup {<<g>> : g \in 1..counter'}]
    <2>1. 1..counter \subseteq 1..counter' BY <1>2, <1>3 DEF Enters
    <2>2. {<<g>> : g \in 1..counter} \subseteq {<<g>> : g \in 1..counter'} BY <2>1
    <2> QED BY <1>2, <1>3, <2>2, Assignments DEF Enters
  <1>5. Typed' BY <1>1, <1>3, <1>4 DEF ArrivalsInv, Typed, Enters
  <1>6. \A g \in DOMAIN groups : g \in DOMAIN groups' /\ groups'[g].arrived = groups[g].arrived
           /\ groups'[g].closed = groups[g].closed /\ groups'[g].deadline = groups[g].deadline
    <2> SUFFICES ASSUME NEW g \in DOMAIN groups
                 PROVE  g \in DOMAIN groups' /\ groups'[g].arrived = groups[g].arrived
                        /\ groups'[g].closed = groups[g].closed /\ groups'[g].deadline = groups[g].deadline
      OBVIOUS
    <2>1. groups[g] \in Group BY DEF ArrivalsInv, Typed
    <2>2. g \in DOMAIN groups' BY <1>3 DEF Enters
    <2>3. PICK members \in SUBSET Clients : groups'[g] = [groups[g] EXCEPT !.pending = members]
      BY <1>3 DEF Enters
    <2> QED BY <2>1, <2>2, <2>3 DEF Group
  <1>7. Queued' /\ Dated' BY <1>1 DEF ArrivalsInv, Queued, Dated
  <1>8. Kept' BY <1>1 DEF ArrivalsInv, Kept
  <1>9. Grouped' BY <1>1, <1>3, <1>6 DEF ArrivalsInv, Grouped, Enters
  <1>10. Owned' /\ InTurn'
    <2>1. /\ \A i \in Ids : sent[i].client \in Clients
          /\ toAssign \subseteq Clients /\ toSend \subseteq Clients
      BY ReceiptsIn DEF ArrivalsInv, Receipt, Typed
    <2>2. \A i \in Ids : sent[i].status \in {"sent", "waiting"} => sent[i].client # c
      BY <1>1 DEF ArrivalsInv, Owned
    <2>3. Owned' BY <1>1, <1>4, <2>1, <2>2 DEF ArrivalsInv, Owned
    <2> QED BY <1>1, <2>3 DEF ArrivalsInv, InTurn
  <1>11. NobodyIdle' BY <1>1 DEF ArrivalsInv, NobodyIdle
  <1>12. GroupsMet'
    <2>1. \A g \in DOMAIN groups : None # <<g>> BY <1>2, Assignments DEF ArrivalsInv, Typed
    <2>2. ASSUME NEW g \in DOMAIN groups' PROVE groups'[g].pending = {d \in Clients : active'[d] = <<g>>}
      <3>1. CASE g \in DOMAIN groups
        <4>1. groups[g].pending = {d \in Clients : active[d] = <<g>>} BY <3>1 DEF ArrivalsInv, GroupsMet
        <4>2. groups'[g].pending = IF a = <<g>> THEN groups[g].pending \cup {c} ELSE groups[g].pending
          BY <1>3, <3>1 DEF Enters
        <4> QED BY <1>2, <1>4, <2>1, <3>1, <4>1, <4>2
      <3>2. CASE g \notin DOMAIN groups
        <4>1. a = <<g>> /\ groups'[g].pending = {c} BY <1>3, <3>2 DEF Enters
        <4>2. ASSUME NEW d \in Clients, active[d] = <<g>> PROVE FALSE
          <5>1. g \in Nat \ {0} BY <1>3 DEF Enters
          <5>2. g \in 1..counter BY <1>2, <4>2, <5>1, Assignments
          <5> QED BY <1>2, <1>3, <3>2, <5>2 DEF Enters
        <4> QED BY <1>2, <1>4, <4>1, <4>2
      <3> QED BY <3>1, <3>2
    <2>3. ASSUME NEW g \in Open', now < groups'[g].deadline PROVE groups'[g].pending # {} \/ groups'[g].arrived # {}
      <3>1. CASE g \in DOMAIN groups
        <4>1. g \in Open /\ (groups[g].pending # {} \/ groups[g].arrived # {})
          BY <1>6, <2>3, <3>1 DEF Open, ArrivalsInv, GroupsMet
        <4> QED BY <1>3, <1>6, <3>1, <4>1 DEF Enters
      <3>2. CASE g \notin DOMAIN groups BY <1>3, <2>3, <3>2 DEF Enters, Open
      <3> QED BY <3>1, <3>2
    <2> QED BY <1>1, <2>2, <2>3 DEF GroupsMet
  <1> QED BY <1>5, <1>7, <1>8, <1>9, <1>10, <1>11, <1>12 DEF ArrivalsInv

\* A dispatch makes the receipt of a new call; at the end of the run none is made.
LEMMA SendKeeps == ASSUME ArrivalsInv, NEW c \in Clients, Send(c) PROVE ArrivalsInv' /\ Recorded
  <1> USE DEF control, calls, Going
  <1>1. /\ UNCHANGED <<method, time, pc, now, scan, toAssign, origin, control, finished>>
        /\ toSend' = toSend \ {c} /\ pc = "send" /\ c \in toSend
    BY DEF Send
  <1>2. /\ \A i \in Ids : sent[i].client \in Clients
        /\ toAssign = {} /\ toSend \subseteq Clients
        /\ time \in Nat /\ version \in Nat /\ Len(sent) \in Nat /\ Ids = 1..Len(sent)
        /\ sent \in Seq(Receipt)
    BY <1>1, ReceiptsIn DEF ArrivalsInv, Receipt, Typed, InTurn
  <1>3. Kept' /\ Grouped' /\ GroupsMet' /\ InTurn' /\ Owned' /\ Dated' /\ NobodyIdle' /\ Queued' /\ Typed'
    <2>1. CASE origin = "received" /\ time >= Deadline
      <3>1. UNCHANGED <<sent, running>> BY <2>1 DEF Send
      <3>2. Deadline \in Nat BY ArrivalsAssumption
      <3>3. Ids' = Ids BY <3>1 DEF Ids
      <3>4. Kept' /\ Grouped' /\ Dated' BY <1>1, <3>1, <3>3 DEF ArrivalsInv, Kept, Grouped, Dated
      <3>7. GroupsMet' /\ InTurn' BY <1>1, <3>1 DEF ArrivalsInv, GroupsMet, InTurn, Open
      <3>8. Queued' BY <1>1, <3>1, <3>3 DEF ArrivalsInv, Queued
      <3>9. Typed' BY <1>1, <3>1 DEF ArrivalsInv, Typed
      <3>5. Owned' BY <1>1, <1>2, <3>1, <3>3 DEF ArrivalsInv, Owned
      <3>6. NobodyIdle' BY <1>1, <1>2, <2>1, <3>2 DEF NobodyIdle
      <3> QED BY <3>4, <3>5, <3>6, <3>7, <3>8, <3>9
    <2>2. CASE ~(origin = "received" /\ time >= Deadline)
      <3> DEFINE call == [client |-> c, version |-> version, at |-> time, status |-> "sent"]
                 new == Len(sent) + 1
      <3>1. /\ sent' = Append(sent, call) /\ running' = running \cup {Len(sent')}
        BY <2>2 DEF Send, Dispatch
      <3>2. call \in Receipt BY <1>2 DEF Receipt
      <3>3. /\ sent' \in Seq(Receipt) /\ Len(sent') = new
            /\ \A i \in 1..Len(sent) : sent'[i] = sent[i]
            /\ sent'[new] = call
        BY <1>2, <3>1, <3>2, AppendProperties
      <3>4. /\ Ids' = Ids \cup {new} /\ new \notin Ids /\ \A i \in Ids : sent'[i] = sent[i]
            /\ sent'[new].client = c /\ sent'[new].version = version /\ sent'[new].status = "sent"
            /\ running' = running \cup {new}
        BY <1>2, <3>1, <3>3, LenProperties DEF Ids
      <3> HIDE DEF call, new
      <3>5. Typed' BY <1>1, <3>3 DEF ArrivalsInv, Typed
      <3>6. Queued' BY <1>1, <3>4 DEF ArrivalsInv, Queued
      <3>7. Grouped' BY <1>1, <3>4 DEF ArrivalsInv, Grouped
      <3>8. Kept' BY <1>1, <3>4 DEF ArrivalsInv, Kept
      <3>9. Owned'
        <4> SUFFICES ASSUME Going' PROVE
              /\ \A d \in toAssign' : active'[d] = None
              /\ \A d \in toSend' : active'[d] # None
              /\ \A i \in Ids' :
                   /\ sent'[i].status = "sent" => active'[sent'[i].client] # None
                   /\ sent'[i].status = "waiting" => active'[sent'[i].client] = None
                   /\ sent'[i].status \in {"sent", "waiting"} => sent'[i].client \notin toAssign' \cup toSend'
              /\ \A i, j \in Ids' :
                   {sent'[i].status, sent'[j].status} \subseteq {"sent", "waiting"}
                   /\ sent'[i].client = sent'[j].client => i = j
          BY DEF Owned
        <4>1. Going /\ Owned BY <1>1 DEF ArrivalsInv
        <4>2. \A i \in Ids : sent[i].status \in {"sent", "waiting"} => sent[i].client # c
          BY <1>1, <4>1 DEF Owned
        <4>3. (\A d \in toAssign' : active'[d] = None) /\ (\A d \in toSend' : active'[d] # None)
          BY <1>1, <1>2, <4>1 DEF Owned
        <4>4. ASSUME NEW i \in Ids' PROVE
                   /\ sent'[i].status = "sent" => active'[sent'[i].client] # None
                   /\ sent'[i].status = "waiting" => active'[sent'[i].client] = None
                   /\ sent'[i].status \in {"sent", "waiting"} => sent'[i].client \notin toAssign' \cup toSend'
          <5>1. CASE i = new BY <1>1, <1>2, <3>4, <4>1, <5>1 DEF Owned
          <5>2. CASE i # new BY <1>1, <1>2, <3>4, <4>1, <5>2 DEF Owned
          <5> QED BY <5>1, <5>2
        <4>5. ASSUME NEW i \in Ids', NEW j \in Ids',
                     {sent'[i].status, sent'[j].status} \subseteq {"sent", "waiting"},
                     sent'[i].client = sent'[j].client
              PROVE  i = j
          <5>1. CASE i # new /\ j # new BY <3>4, <4>1, <4>5, <5>1 DEF Owned
          <5>2. CASE i = new /\ j # new BY <3>4, <4>2, <4>5, <5>2
          <5>3. CASE i # new /\ j = new BY <3>4, <4>2, <4>5, <5>3
          <5> QED BY <5>1, <5>2, <5>3
        <4> QED BY <4>3, <4>4, <4>5
      <3>10. InTurn' /\ GroupsMet' BY <1>1 DEF ArrivalsInv, InTurn, GroupsMet, Open
      <3>11. Dated' BY <1>1, <1>2, <3>4 DEF ArrivalsInv, Dated
      <3>12. NobodyIdle' BY <1>1, <3>4 DEF ArrivalsInv, NobodyIdle
      <3> QED BY <3>5, <3>6, <3>7, <3>8, <3>9, <3>10, <3>11, <3>12
    <2> QED BY <2>1, <2>2
  <1>4. Recorded
    <2>1. version' = version BY <1>1
    <2>2. CASE sent' = sent BY <2>1, <2>2 DEF Recorded
    <2>3. CASE sent' # sent
      <3> DEFINE call == [client |-> c, version |-> version, at |-> time, status |-> "sent"]
      <3>1. sent' = Append(sent, call) BY <2>3 DEF Send, Dispatch
      <3>2. call \in Receipt BY <1>2 DEF Receipt
      <3> HIDE DEF call
      <3>3. \A i \in Ids : sent'[i] = sent[i] BY <1>2, <3>1, <3>2, AppendProperties
      <3> QED BY <2>1, <3>3 DEF Recorded
    <2> QED BY <2>2, <2>3
  <1> QED BY <1>3, <1>4 DEF ArrivalsInv

\* At the stop everything that still waits is excluded, and no group is left.
LEMMA StopKeeps == ASSUME ArrivalsInv, Stop PROVE ArrivalsInv' /\ Recorded
  <1> USE DEF control, calls, Going
  <1> DEFINE left == {i \in Ids : sent[i].status = "waiting"} \cup buffer
  <1>1. /\ UNCHANGED <<method, time, now, scan, toAssign, toSend, origin, version, counter, running, finished>>
        /\ pc = "stop" /\ pc' = "drain" /\ sent' = Marked(left, "unaggregated")
        /\ buffer' = {} /\ groups' = <<>> /\ active' = [c \in Clients |-> None]
    BY DEF Stop
  <1>2. Relabels(sent') /\ \A i \in Ids : sent'[i].status = IF i \in left THEN "unaggregated" ELSE sent[i].status
    BY <1>1, MarkedIs DEF Stati, ArrivalsInv
  <1>3. DOMAIN groups' = {} BY <1>1
  <1>4. Ids' = Ids BY <1>2 DEF Relabels, Ids
  <1>5. \A i \in left : sent[i].status # "sent" BY DEF ArrivalsInv, Kept
  <1>6. Typed' BY <1>1, <1>2, <1>3 DEF ArrivalsInv, Typed, Relabels
  <1>7. Queued' BY <1>1, <1>2, <1>4, <1>5 DEF ArrivalsInv, Queued
  <1>8. Grouped' BY <1>2, <1>3, <1>4 DEF Grouped
  <1>9. Kept' BY <1>1, <1>2, <1>3, <1>4 DEF ArrivalsInv, Kept
  <1>10. Owned' /\ InTurn' /\ NobodyIdle' BY <1>1 DEF ArrivalsInv, Owned, InTurn, NobodyIdle
  <1>11. GroupsMet' BY <1>3 DEF GroupsMet, Open
  <1>12. Dated' BY <1>1, <1>2, <1>4 DEF ArrivalsInv, Dated, Relabels
  <1>13. Recorded
    <2>1. \A i \in left : sent[i].status \notin Settled BY DEF ArrivalsInv, Kept, Settled
    <2>2. \A i \in Ids : sent[i].status \in Settled => sent'[i].status = sent[i].status BY <1>2, <2>1
    <2> QED BY <1>1, <1>2, <2>2, RelabelsRecord DEF ArrivalsInv
  <1> QED BY <1>6, <1>7, <1>8, <1>9, <1>10, <1>11, <1>12, <1>13 DEF ArrivalsInv

\* Taking the first answer off the queue.
LEMMA Taken ==
  ASSUME ArrivalsInv, finished # <<>>, finished' = Tail(finished), running' = running,
         Ids' = Ids, NEW i, i = Head(finished).id,
         pc' = "raised" \/ (/\ pc # "raised" /\ sent'[i].status # "sent"
                            /\ \A j \in Ids \ {i} : sent'[j].status = "sent" <=> sent[j].status = "sent")
  PROVE  /\ Queued' /\ i \in Ids /\ i \notin running
         /\ pc # "raised" => sent[i].status = "sent"
  <1> DEFINE n == Len(finished)
  <1>1. /\ n \in Nat /\ n > 0 /\ DOMAIN finished = 1..n /\ finished[1].id = i
        /\ DOMAIN finished' = 1..(n - 1) /\ \A k \in 1..(n - 1) : finished'[k] = finished[k + 1]
    BY QueueIs DEF ArrivalsInv
  <1> HIDE DEF n
  <1>2. 1 \in DOMAIN finished /\ \A k \in DOMAIN finished' : k + 1 \in DOMAIN finished /\ k + 1 # 1
    BY <1>1
  <1>3. i \in Ids \ running /\ (pc # "raised" => sent[i].status = "sent") BY <1>1, <1>2 DEF ArrivalsInv, Queued
  <1>4. \A k \in DOMAIN finished' : finished'[k].id \in Ids \ running /\ finished'[k].id # i
    BY <1>1, <1>2 DEF ArrivalsInv, Queued
  <1>5. ASSUME NEW k \in DOMAIN finished', NEW l \in DOMAIN finished', finished'[k].id = finished'[l].id
        PROVE  k = l
    <2>1. k + 1 = l + 1 BY <1>1, <1>2, <1>5 DEF ArrivalsInv, Queued
    <2> QED BY <1>1, <2>1
  <1>6. ASSUME NEW j \in Ids \ {i}, NEW k \in DOMAIN finished, finished[k].id = j
        PROVE  \E l \in DOMAIN finished' : finished'[l].id = j
    <2>1. k # 1 /\ k - 1 \in DOMAIN finished' /\ (k - 1) + 1 = k BY <1>1, <1>6
    <2> QED BY <1>1, <1>6, <2>1
  <1>7. ASSUME NEW j \in Ids, NEW k \in DOMAIN finished', finished'[k].id = j
        PROVE  \E l \in DOMAIN finished : finished[l].id = j
    BY <1>1, <1>2, <1>7
  <1>8. pc' # "raised" => \A j \in Ids :
          sent'[j].status = "sent" <=> j \in running \/ \E k \in DOMAIN finished' : finished'[k].id = j
    <2> SUFFICES ASSUME pc' # "raised", NEW j \in Ids
                 PROVE  sent'[j].status = "sent" <=> j \in running \/ \E k \in DOMAIN finished' : finished'[k].id = j
      OBVIOUS
    <2>1. CASE j = i BY <1>3, <1>4, <2>1
    <2>2. CASE j # i BY <1>6, <1>7, <2>2 DEF ArrivalsInv, Queued
    <2> QED BY <2>1, <2>2
  <1>9. Queued' BY <1>3, <1>4, <1>5, <1>8 DEF ArrivalsInv, Queued
  <1> QED BY <1>3, <1>9

\* What is drained goes into no model.
LEMMA DrainKeeps == ASSUME ArrivalsInv, Drain PROVE ArrivalsInv' /\ Recorded
  <1> USE DEF control, calls, Going
  <1> DEFINE i == Head(finished).id
  <1>1. /\ UNCHANGED <<method, time, now, scan, toAssign, toSend, origin, control, running>>
        /\ pc = "drain" /\ finished # <<>> /\ finished' = Tail(finished)
        /\ \/ pc' = pc /\ sent' = Marked({i}, "discarded")
           \/ pc' = "raised" /\ sent' = sent
    BY DEF Drain
  <1>2. /\ Relabels(sent') /\ Ids' = Ids /\ \A j \in Ids \ {i} : sent'[j].status = sent[j].status
        /\ i \in Ids /\ sent[i].status = "sent" /\ sent'[i].status \in {"sent", "discarded"}
        /\ pc' # "raised" => sent'[i].status = "discarded"
    <2>1. Relabels(sent) BY DEF Relabels, ArrivalsInv, Typed, Ids
    <2>2. i \in Ids /\ sent[i].status = "sent"
      <3>1. DOMAIN finished = 1..Len(finished) /\ Len(finished) > 0 /\ Len(finished) \in Nat /\ finished[1].id = i
        BY <1>1, QueueIs DEF ArrivalsInv
      <3> QED BY <1>1, <3>1 DEF ArrivalsInv, Queued
    <2>3. CASE pc' = pc /\ sent' = Marked({i}, "discarded")
      <3>1. /\ Relabels(Marked({i}, "discarded"))
            /\ \A j \in Ids : Marked({i}, "discarded")[j].status = IF j = i THEN "discarded" ELSE sent[j].status
        BY MarkedIs DEF Stati, Settled, ArrivalsInv
      <3>2. Ids' = Ids BY <2>3, <3>1 DEF Relabels, Ids
      <3> HIDE DEF i
      <3> QED BY <1>1, <2>2, <2>3, <3>1, <3>2
    <2>4. CASE pc' = "raised" /\ sent' = sent BY <2>1, <2>2, <2>4 DEF Ids
    <2> QED BY <1>1, <2>3, <2>4
  <1> HIDE DEF i
  <1>3. Queued'
    <2>1. i = Head(finished).id BY DEF i
    <2> QED BY <1>1, <1>2, <2>1, Taken
  <1>4. Typed'
    <2>1. finished' \in Seq([id : Nat, ok : BOOLEAN]) BY <1>1, QueueIs DEF ArrivalsInv
    <2> QED BY <1>1, <1>2, <2>1 DEF ArrivalsInv, Typed, Relabels
  <1>5. DOMAIN groups = {} /\ buffer = {} BY <1>1 DEF ArrivalsInv, Kept
  <1>6. Grouped' BY <1>1, <1>2, <1>5 DEF ArrivalsInv, Grouped
  <1>7. Kept' BY <1>1, <1>2, <1>5 DEF ArrivalsInv, Kept
  <1>8. Owned' /\ InTurn' /\ NobodyIdle' BY <1>1 DEF ArrivalsInv, Owned, InTurn, NobodyIdle
  <1>9. GroupsMet' BY <1>1 DEF ArrivalsInv, GroupsMet, Open
  <1>10. Dated' BY <1>1, <1>2 DEF ArrivalsInv, Dated, Relabels
  <1>11. Recorded
    <2>1. \A j \in Ids : sent[j].status \in Settled => sent'[j].status = sent[j].status BY <1>2 DEF Settled
    <2> QED BY <1>1, <1>2, <2>1, RelabelsRecord DEF ArrivalsInv
  <1> QED BY <1>3, <1>4, <1>6, <1>7, <1>8, <1>9, <1>10, <1>11 DEF ArrivalsInv

-------------------------------------------------------------------------------
(* What the controller does to the receipts and the groups *)

\* Updates that were on their way (X) or waited are dealt with, and no others;
\* their clients are to be assigned anew, all of them as long as there is time.
Moves(X) ==
  /\ Relabels(sent') /\ toAssign' \subseteq Clients
  /\ \A j \in Ids :
       /\ sent'[j].status = "sent" <=> sent[j].status = "sent" /\ j \notin X
       /\ sent'[j].status = "waiting" => sent[j].status = "waiting" \/ j \in X
       /\ sent[j].status \in Settled => sent'[j].status = sent[j].status
       /\ time' < Deadline /\ (sent[j].status = "waiting" \/ j \in X) /\ sent'[j].status # "waiting"
            => sent[j].client \in toAssign'
  /\ \A c \in toAssign' : \E j \in Ids :
       /\ sent[j].client = c /\ (sent[j].status = "waiting" \/ j \in X)
       /\ sent'[j].status \notin {"sent", "waiting"}
  /\ version' \in Nat /\ version <= version' /\ time' \in Nat /\ time <= time'
  /\ version' # version => version' = version + 1 /\ time' < Deadline

\* A group loses the clients C and keeps its deadline.
Regroups(C) ==
  /\ DOMAIN groups' = DOMAIN groups /\ \A g \in DOMAIN groups : groups'[g] \in Group
  /\ \A g \in DOMAIN groups : /\ groups'[g].pending = groups[g].pending \ C
                              /\ groups'[g].deadline = groups[g].deadline
                              /\ groups[g].closed => groups'[g].closed
  /\ \A g \in Open' : now' < groups'[g].deadline => groups'[g].pending # {} \/ groups'[g].arrived # {}

\* A commit goes one version up, and only before the deadline.
LEMMA CommitIs ==
  ASSUME Typed, NEW ok \in BOOLEAN, Commit(ok)
  PROVE  /\ version' \in Nat /\ version <= version' /\ time' \in Nat /\ time <= time'
         /\ version' # version => version' = version + 1 /\ time' < Deadline
         /\ time' < Deadline => ok
  BY ArrivalsAssumption DEF Typed, Commit

\* The clients whose updates these are.
Owners(S) == {sent[j].client : j \in S}

\* What closing a group with what has arrived does.
Closes(g, members, arrived) ==
  /\ Relabels(sent')
  /\ \A j \in Ids : IF arrived # {} /\ j \in arrived \cup buffer THEN sent'[j].status \in Settled
                                                               ELSE sent'[j].status = sent[j].status
  /\ (arrived = {} => buffer' = buffer) /\ (arrived # {} => buffer' = {})
  /\ toAssign' \in {{}, Owners(arrived)}
  /\ time' < Deadline => toAssign' = Owners(arrived)
  /\ version' \in Nat /\ version <= version' /\ time' \in Nat /\ time <= time'
  /\ version' # version => version' = version + 1 /\ time' < Deadline
  /\ DOMAIN groups' = DOMAIN groups /\ \A h \in DOMAIN groups \ {g} : groups'[h] = groups[h]
  /\ groups'[g] \in Group /\ groups'[g].closed /\ groups'[g].arrived = {}
  /\ groups'[g].pending = members /\ groups'[g].deadline = groups[g].deadline

\* Merging ends the way of what has arrived and of what was late.
LEMMA CloseIs ==
  ASSUME Typed, Kept, NEW g \in Open, NEW members \in SUBSET Clients, NEW arrived \in SUBSET Ids,
         NEW ok \in BOOLEAN, Close(g, members, arrived, ok)
  PROVE  Closes(g, members, arrived)
  <1> DEFINE old == {i \in buffer : \E j \in arrived : sent[j].client = sent[i].client}
             merged == arrived \cup (buffer \ old)
             mark == IF ok THEN "aggregated" ELSE "discarded"
             S == [i \in Ids |-> CASE i \in merged -> mark [] i \in old -> "superseded" [] OTHER -> sent[i].status]
  <1>0. g \in DOMAIN groups /\ groups[g] \in Group /\ \A j \in Ids : sent[j] \in Receipt
    BY ReceiptsIn DEF Typed, Open
  <1>1. /\ DOMAIN groups' = DOMAIN groups /\ \A h \in DOMAIN groups \ {g} : groups'[h] = groups[h]
        /\ groups'[g] = [groups[g] EXCEPT !.closed = TRUE, !.pending = members, !.arrived = {}]
    BY <1>0 DEF Close
  <1>2. /\ groups'[g] \in Group /\ groups'[g].closed /\ groups'[g].arrived = {}
        /\ groups'[g].pending = members /\ groups'[g].deadline = groups[g].deadline
    BY <1>0, <1>1 DEF Group
  <1>3. CASE arrived = {}
    <2>1. toAssign' = {} /\ UNCHANGED <<time, version, buffer, sent>> BY <1>3 DEF Close
    <2>2. Owners(arrived) = {} BY <1>3 DEF Owners
    <2>3. Relabels(sent') BY <2>1 DEF Typed, Relabels, Ids
    <2>4. time \in Nat /\ version \in Nat BY DEF Typed
    <2> QED BY <1>1, <1>2, <1>3, <2>1, <2>2, <2>3, <2>4 DEF Closes
  <1>4. CASE arrived # {}
    <2>1. /\ Commit(ok) /\ buffer' = {} /\ toAssign' = IF ok THEN Owners(arrived) ELSE {}
          /\ sent' = [i \in Ids |-> [sent[i] EXCEPT !.status =
                        CASE i \in merged -> mark [] i \in old -> "superseded" [] OTHER -> @]]
      BY <1>4 DEF Close, Owners
    <2>2. sent' = [i \in Ids |-> [sent[i] EXCEPT !.status = S[i]]] BY <2>1
    <2>3. S \in [Ids -> Stati] BY <1>0 DEF Receipt, Stati, Settled
    <2>4. Relabels(sent') BY <2>2, <2>3, RelabelsIs
    <2>5. \A j \in Ids : sent'[j].status = S[j] BY <1>0, <2>2 DEF Receipt
    <2>6. \A j \in Ids : IF j \in arrived \cup buffer THEN S[j] \in Settled ELSE S[j] = sent[j].status
      BY DEF Kept, Settled
    <2>7. /\ version' \in Nat /\ version <= version' /\ time' \in Nat /\ time <= time'
          /\ version' # version => version' = version + 1 /\ time' < Deadline
          /\ time' < Deadline => ok
      BY <2>1, CommitIs
    <2> HIDE DEF S, old, merged, mark
    <2> QED BY <1>1, <1>2, <1>4, <2>1, <2>4, <2>5, <2>6, <2>7 DEF Closes
  <1> QED BY <1>3, <1>4

\* A client whose update is dealt with has no assignment, and so it stays owned.
LEMMA MovesKeep ==
  ASSUME ArrivalsInv, NEW X \in SUBSET Ids, \A i \in X : sent[i].status = "sent", Moves(X), Going, Going',
         pc' = "assign", toSend' = toSend, toAssign = {}, X # {} => toSend = {},
         active' = [c \in Clients |-> IF \E i \in X : sent[i].client = c THEN None ELSE active[c]]
  PROVE  Owned' /\ InTurn' /\ Dated' /\ NobodyIdle'
  <1>0. /\ toSend \subseteq Clients /\ toAssign' \subseteq Clients /\ Ids' = Ids
        /\ \A j \in Ids : sent'[j].client = sent[j].client /\ sent[j].client \in Clients
        /\ \A j \in Ids : sent'[j].version = sent[j].version /\ sent[j].version \in Nat
    BY ReceiptsIn DEF ArrivalsInv, Typed, Receipt, Moves, Relabels, Ids
  <1>1. \A j \in Ids : sent'[j].status \in {"sent", "waiting"} => sent[j].status \in {"sent", "waiting"}
    BY DEF Moves
  <1>2. ASSUME NEW j \in Ids, sent'[j].status = "sent" PROVE active'[sent[j].client] # None
    <2>1. sent[j].status = "sent" /\ j \notin X BY <1>2 DEF Moves
    <2>2. \A i \in X : sent[i].client # sent[j].client BY <2>1 DEF ArrivalsInv, Owned
    <2> QED BY <1>0, <2>1, <2>2 DEF ArrivalsInv, Owned
  <1>3. ASSUME NEW j \in Ids, sent'[j].status = "waiting" PROVE active'[sent[j].client] = None
    <2>1. sent[j].status = "waiting" \/ j \in X BY <1>3 DEF Moves
    <2> QED BY <1>0, <2>1 DEF ArrivalsInv, Owned
  <1>4. ASSUME NEW c \in toAssign'
        PROVE  active'[c] = None /\ c \notin toSend
    <2>1. PICK j \in Ids : sent[j].client = c /\ (sent[j].status = "waiting" \/ j \in X) BY DEF Moves
    <2>2. sent[j].status \in {"sent", "waiting"} BY <2>1
    <2> QED BY <1>0, <2>1, <2>2 DEF ArrivalsInv, Owned
  <1>5. ASSUME NEW j \in Ids, sent'[j].status \in {"sent", "waiting"} PROVE sent[j].client \notin toAssign' \cup toSend
    <2>1. ASSUME sent[j].client \in toAssign' PROVE FALSE
      <3>1. PICK k \in Ids : /\ sent[k].client = sent[j].client /\ (sent[k].status = "waiting" \/ k \in X)
                             /\ sent'[k].status \notin {"sent", "waiting"}
        BY <2>1 DEF Moves
      <3>2. k # j /\ {sent[k].status, sent[j].status} \subseteq {"sent", "waiting"} BY <1>1, <1>5, <3>1
      <3> QED BY <3>1, <3>2 DEF ArrivalsInv, Owned
    <2>2. sent[j].client \notin toSend BY <1>1, <1>5 DEF ArrivalsInv, Owned
    <2> QED BY <2>1, <2>2
  <1>6. \A c \in toSend : active'[c] # None
    <2>1. CASE X = {} BY <1>0, <2>1 DEF ArrivalsInv, Owned
    <2>2. CASE X # {} BY <2>2
    <2> QED BY <2>1, <2>2
  <1>7. Owned'
    <2>1. \A i, j \in Ids :
            {sent'[i].status, sent'[j].status} \subseteq {"sent", "waiting"} /\ sent'[i].client = sent'[j].client
              => i = j
      BY <1>0, <1>1 DEF ArrivalsInv, Owned
    <2>2. \A j \in Ids' : sent'[j].client = sent[j].client /\ j \in Ids BY <1>0
    <2>3. \A j \in Ids' : sent'[j].status = "sent" => active'[sent'[j].client] # None BY <1>2, <2>2
    <2>4. \A j \in Ids' : sent'[j].status = "waiting" => active'[sent'[j].client] = None BY <1>3, <2>2
    <2>5. \A j \in Ids' :
            sent'[j].status \in {"sent", "waiting"} => sent'[j].client \notin toAssign' \cup toSend'
      BY <1>5, <2>2
    <2>6. \A c \in toAssign' : active'[c] = None BY <1>4
    <2>7. \A c \in toSend' : active'[c] # None BY <1>6
    <2>8. \A i, j \in Ids' :
            {sent'[i].status, sent'[j].status} \subseteq {"sent", "waiting"} /\ sent'[i].client = sent'[j].client
              => i = j
      BY <2>1, <2>2
    <2> QED BY <2>3, <2>4, <2>5, <2>6, <2>7, <2>8 DEF Owned
  <1>8. InTurn' BY DEF InTurn
  <1>9. Dated'
    <2>1. version \in Nat /\ version' \in Nat /\ version <= version' BY DEF ArrivalsInv, Typed, Moves
    <2> QED BY <1>0, <2>1 DEF ArrivalsInv, Dated
  <1>10. NobodyIdle'
    <2> SUFFICES ASSUME time' < Deadline, NEW c \in Clients
                 PROVE  \/ c \in toAssign' \cup toSend'
                        \/ \E i \in Ids : sent'[i].client = c /\ sent'[i].status \in {"sent", "waiting"}
      BY <1>0 DEF NobodyIdle
    <2>1. time < Deadline BY ArrivalsAssumption DEF ArrivalsInv, Typed, Moves
    <2>2. c \in toSend \/ \E i \in Ids : sent[i].client = c /\ sent[i].status \in {"sent", "waiting"}
      BY <2>1 DEF ArrivalsInv, NobodyIdle, Going
    <2>3. ASSUME NEW i \in Ids, sent[i].client = c, sent[i].status \in {"sent", "waiting"},
                 sent'[i].status \notin {"sent", "waiting"}
          PROVE  c \in toAssign'
      <3>1. sent[i].status = "waiting" \/ i \in X BY <2>3 DEF Moves
      <3> QED BY <2>3, <3>1 DEF Moves
    <2> QED BY <1>0, <2>2, <2>3
  <1> QED BY <1>7, <1>8, <1>9, <1>10

\* And a group has the members it was assigned, less those that have answered.
LEMMA RegroupsKeep ==
  ASSUME ArrivalsInv, NEW C \in SUBSET Clients, Regroups(C),
         active' = [c \in Clients |-> IF c \in C THEN None ELSE active[c]]
  PROVE  GroupsMet'
  <1>1. \A g \in DOMAIN groups : None # <<g>> BY Assignments DEF ArrivalsInv, Typed
  <1>2. ASSUME NEW g \in DOMAIN groups PROVE groups'[g].pending = {c \in Clients : active'[c] = <<g>>}
    <2>1. groups[g].pending = {c \in Clients : active[c] = <<g>>} BY DEF ArrivalsInv, GroupsMet
    <2> QED BY <1>1, <2>1 DEF Regroups
  <1> QED BY <1>2 DEF GroupsMet, Regroups

-------------------------------------------------------------------------------
(* The deadlines of the groups *)

\* The group that expire looks at next is one of those there are.
LEMMA LeastScanned ==
  ASSUME Typed, Going, scan # {}
  PROVE  LET g == CHOOSE h \in scan : \A k \in scan : h <= k IN g \in scan /\ g \in DOMAIN groups
  <1> DEFINE less == {p \in Nat \X Nat : p[1] < p[2]}
  <1>1. IsWellFoundedOn(less, Nat) BY NatLessThanWellFounded DEF OpToRel
  <1>2. scan \subseteq Nat /\ scan \subseteq DOMAIN groups BY DEF Typed
  <1>3. PICK x \in scan : \A y \in scan : ~ (<<y, x>> \in less) BY <1>1, <1>2, WFMin
  <1>4. ASSUME NEW y \in scan PROVE x <= y
    <2>1. <<y, x>> \in Nat \X Nat /\ ~ (<<y, x>>[1] < <<y, x>>[2]) BY <1>2, <1>3
    <2> QED BY <1>2, <2>1
  <1> QED BY <1>2, <1>4

\* Closing an open group with what has arrived there, and X of its last member:
\* the receipts that said so say something else, the other groups keep theirs.
LEMMA CloseMoves ==
  ASSUME ArrivalsInv, NEW g \in Open, NEW X \in SUBSET Ids, \A i \in X : sent[i].status = "sent",
         NEW ok \in BOOLEAN, NEW C \in SUBSET Clients,
         NEW members, members = groups[g].pending \ C, NEW arrived, arrived = groups[g].arrived \cup X,
         Close(g, members, arrived, ok), method = "fedcompass", method' = method,
         \A h \in DOMAIN groups \ {g} : groups[h].pending \cap C = {},
         now' \in Nat, now <= now', Going'
  PROVE  Moves(X) /\ Regroups(C) /\ Grouped' /\ Kept' /\ Ids' = Ids
  <1>1. /\ g \in DOMAIN groups /\ groups[g] \in Group /\ members \in SUBSET Clients /\ arrived \in SUBSET Ids
        /\ \A i \in groups[g].arrived : sent[i].status = "waiting"
        /\ \A j \in Ids : sent[j].client \in Clients
    BY ReceiptsIn DEF ArrivalsInv, Typed, Grouped, Open, Group, Receipt
  <1>2. /\ Relabels(sent')
        /\ \A j \in Ids : IF arrived # {} /\ j \in arrived \cup buffer THEN sent'[j].status \in Settled
                                                                     ELSE sent'[j].status = sent[j].status
        /\ (arrived = {} => buffer' = buffer) /\ (arrived # {} => buffer' = {})
        /\ toAssign' \in {{}, Owners(arrived)}
        /\ time' < Deadline => toAssign' = Owners(arrived)
        /\ version' \in Nat /\ version <= version' /\ time' \in Nat /\ time <= time'
        /\ version' # version => version' = version + 1 /\ time' < Deadline
        /\ DOMAIN groups' = DOMAIN groups /\ \A h \in DOMAIN groups \ {g} : groups'[h] = groups[h]
        /\ groups'[g] \in Group /\ groups'[g].closed /\ groups'[g].arrived = {}
        /\ groups'[g].pending = members /\ groups'[g].deadline = groups[g].deadline
    <2>1. Typed /\ Kept /\ members \in SUBSET Clients /\ arrived \in SUBSET Ids BY <1>1 DEF ArrivalsInv
    <2>2. Closes(g, members, arrived) BY <2>1, CloseIs
    <2> QED BY <2>2 DEF Closes
  <1>3. \A j \in arrived : IF j \in X THEN sent[j].status = "sent" ELSE sent[j].status = "waiting" /\ j \in groups[g].arrived
    BY <1>1
  <1>4. \A j \in buffer : sent[j].status = "late" BY DEF ArrivalsInv, Kept
  <1>5. Ids' = Ids BY <1>2 DEF Relabels, Ids
  <1>6. \A j \in Ids : sent[j].status = "waiting" /\ j \notin arrived => sent'[j].status = "waiting"
    BY <1>2, <1>4
  <1>7. \A j \in Ids : j \in arrived => sent'[j].status \in Settled BY <1>2
  <1>8. \A j \in Ids : sent'[j].status \notin Settled => sent'[j].status = sent[j].status BY <1>2
  <1>9. \A j \in Ids : sent[j].status = "waiting" /\ j \in arrived => j \in groups[g].arrived BY <1>3
  <1>10. Moves(X)
    <2>1. toAssign' \subseteq Clients BY <1>1, <1>2 DEF Owners
    <2>2. ASSUME NEW j \in Ids
          PROVE  /\ sent'[j].status = "sent" <=> sent[j].status = "sent" /\ j \notin X
                 /\ sent'[j].status = "waiting" => sent[j].status = "waiting" \/ j \in X
                 /\ sent[j].status \in Settled => sent'[j].status = sent[j].status
      BY <1>2, <1>3, <1>4 DEF Settled
    <2>3. ASSUME NEW j \in Ids, time' < Deadline, sent[j].status = "waiting" \/ j \in X, sent'[j].status # "waiting"
          PROVE  sent[j].client \in toAssign'
      BY <1>2, <1>6, <2>3 DEF Owners
    <2>4. ASSUME NEW c \in toAssign'
          PROVE  \E j \in Ids : /\ sent[j].client = c /\ (sent[j].status = "waiting" \/ j \in X)
                                /\ sent'[j].status \notin {"sent", "waiting"}
      <3>1. PICK j \in arrived : sent[j].client = c BY <1>2 DEF Owners
      <3>2. j \in Ids /\ (sent[j].status = "waiting" \/ j \in X) BY <1>1, <1>3
      <3>3. sent'[j].status \in Settled BY <1>7, <3>1, <3>2
      <3> QED BY <3>1, <3>2, <3>3 DEF Settled
    <2> QED BY <1>2, <2>1, <2>2, <2>3, <2>4 DEF Moves
  <1>11. Regroups(C)
    <2>1. \A h \in DOMAIN groups : groups[h] \in Group BY DEF ArrivalsInv, Typed
    <2>2. \A h \in DOMAIN groups : groups'[h] \in Group BY <1>2, <2>1
    <2>3. \A h \in DOMAIN groups : /\ groups'[h].pending = groups[h].pending \ C
                                   /\ groups'[h].deadline = groups[h].deadline
                                   /\ groups[h].closed => groups'[h].closed
      BY <1>1, <1>2
    <2>4. ASSUME NEW h \in Open', now' < groups'[h].deadline PROVE groups'[h].pending # {} \/ groups'[h].arrived # {}
      <3>1. h \in DOMAIN groups \ {g} BY <1>2, <2>4 DEF Open
      <3>2. groups'[h] = groups[h] /\ h \in Open /\ groups[h].deadline \in Nat BY <1>2, <2>1, <2>4, <3>1 DEF Open, Group
      <3>3. now < groups[h].deadline BY <2>4, <3>2 DEF ArrivalsInv, Typed
      <3> QED BY <3>2, <3>3 DEF ArrivalsInv, GroupsMet
    <2> QED BY <1>2, <2>2, <2>3, <2>4 DEF Regroups
  <1>12. Grouped'
    <2>1. \A h \in DOMAIN groups : h # g => groups'[h].arrived = groups[h].arrived /\ groups'[h].closed = groups[h].closed
      BY <1>2
    <2>2. ASSUME NEW h \in DOMAIN groups, NEW j \in groups'[h].arrived PROVE j \in Ids /\ sent'[j].status = "waiting"
      <3>1. h # g /\ j \in groups[h].arrived BY <1>2, <2>1
      <3>2. j \in Ids /\ sent[j].status = "waiting" /\ j \notin groups[g].arrived
        BY <1>1, <3>1 DEF ArrivalsInv, Grouped
      <3> QED BY <1>6, <1>9, <3>2
    <2>3. ASSUME NEW j \in Ids, sent'[j].status = "waiting" PROVE \E h \in DOMAIN groups : j \in groups'[h].arrived
      <3>1. sent[j].status = "waiting" /\ j \notin arrived BY <1>7, <1>8, <2>3 DEF Settled
      <3>2. PICK h \in DOMAIN groups : j \in groups[h].arrived BY <3>1 DEF ArrivalsInv, Grouped
      <3>3. h # g BY <3>1, <3>2
      <3> QED BY <2>1, <3>2, <3>3
    <2> QED BY <1>2, <1>5, <2>1, <2>2, <2>3 DEF ArrivalsInv, Grouped
  <1>13. Kept'
    <2>1. \A j \in Ids : sent'[j].status = "late" <=> j \in buffer'
      BY <1>2, <1>8 DEF ArrivalsInv, Kept, Settled
    <2> QED BY <1>2, <1>5, <2>1 DEF ArrivalsInv, Kept
  <1> QED BY <1>5, <1>10, <1>11, <1>12, <1>13

\* A group whose deadline has passed is closed without those that are missing.
LEMMA ExpireKeeps == ASSUME ArrivalsInv, NEW ok \in BOOLEAN, Expire(ok) PROVE ArrivalsInv' /\ Recorded
  <1> DEFINE g == CHOOSE h \in scan : \A k \in scan : h <= k
  <1>1. /\ pc = "expire" /\ pc' = "assign" /\ scan # {} /\ scan' = scan \ {g}
        /\ UNCHANGED <<method, now, toSend, origin, active, counter, running, finished>>
        /\ IF ~groups[g].closed /\ now >= groups[g].deadline
             THEN Close(g, groups[g].pending, groups[g].arrived, ok)
             ELSE toAssign' = {} /\ UNCHANGED <<time, version, groups, buffer, sent>>
    BY DEF Expire
  <1>2. g \in scan /\ g \in DOMAIN groups BY <1>1, LeastScanned DEF ArrivalsInv, Going
  <1>3. toAssign = {} /\ Going /\ Going' /\ now \in Nat BY <1>1 DEF ArrivalsInv, InTurn, Going, Typed
  <1> HIDE DEF g
  <1>4. Moves({}) /\ Regroups({}) /\ Grouped' /\ Kept' /\ Ids' = Ids
    <2>1. CASE ~groups[g].closed /\ now >= groups[g].deadline
      <3>1. g \in Open /\ method = "fedcompass" BY <1>2, <2>1 DEF Open, ArrivalsInv, Grouped
      <3> DEFINE members == groups[g].pending  arrived == groups[g].arrived
      <3>2. members = groups[g].pending \ {} /\ arrived = groups[g].arrived \cup {} /\ Close(g, members, arrived, ok)
        BY <1>1, <2>1
      <3>3. now' \in Nat /\ now <= now' /\ method' = method BY <1>1, <1>3
      <3>4. /\ {} \in SUBSET Ids /\ {} \in SUBSET Clients /\ \A i \in {} : sent[i].status = "sent"
            /\ \A h \in DOMAIN groups \ {g} : groups[h].pending \cap {} = {}
        OBVIOUS
      <3> HIDE DEF members, arrived
      <3> QED BY <1>3, <3>1, <3>2, <3>3, <3>4, CloseMoves
    <2>2. CASE ~(~groups[g].closed /\ now >= groups[g].deadline)
      <3>1. toAssign' = {} /\ UNCHANGED <<time, version, groups, buffer, sent>> BY <1>1, <2>2
      <3>2. Ids' = Ids /\ Open' = Open BY <3>1 DEF Ids, Open
      <3>3. Moves({}) BY <3>1 DEF Moves, Relabels, Ids, ArrivalsInv, Typed
      <3>4. Regroups({}) BY <1>1, <3>1, <3>2 DEF Regroups, ArrivalsInv, Typed, GroupsMet
      <3>5. Grouped' /\ Kept' BY <1>1, <1>3, <3>1, <3>2 DEF ArrivalsInv, Grouped, Kept
      <3> QED BY <3>2, <3>3, <3>4, <3>5
    <2> QED BY <2>1, <2>2
  <1>5. active' = active /\ active = [c \in Clients |-> active[c]] BY <1>1 DEF ArrivalsInv, Typed
  <1>6. Owned' /\ InTurn' /\ Dated' /\ NobodyIdle'
    <2>1. active' = [c \in Clients |-> IF \E i \in {} : sent[i].client = c THEN None ELSE active[c]] BY <1>5
    <2> QED BY <1>1, <1>3, <1>4, <2>1, MovesKeep
  <1>7. GroupsMet'
    <2>1. active' = [c \in Clients |-> IF c \in {} THEN None ELSE active[c]] BY <1>5
    <2> QED BY <1>4, <2>1, RegroupsKeep
  <1>8. Queued' BY <1>1, <1>4 DEF ArrivalsInv, Queued, Moves
  <1>9. Typed'
    <2>1. sent' \in Seq(Receipt) /\ version' \in Nat /\ time' \in Nat /\ time <= time' /\ toAssign' \subseteq Clients
      BY <1>4 DEF Moves, Relabels
    <2>2. DOMAIN groups' = DOMAIN groups /\ \A h \in DOMAIN groups : groups'[h] \in Group BY <1>4 DEF Regroups
    <2>3. now <= time /\ now <= time' BY <1>3, <2>1 DEF ArrivalsInv, Typed
    <2> QED BY <1>1, <1>3, <2>1, <2>2, <2>3 DEF ArrivalsInv, Typed
  <1>10. Recorded BY <1>4, RelabelsRecord DEF ArrivalsInv, Moves
  <1> QED BY <1>4, <1>6, <1>7, <1>8, <1>9, <1>10 DEF ArrivalsInv

-------------------------------------------------------------------------------
(* The arrival of an update *)

\* Update i is the one that has arrived.
Arrives(i) ==
  /\ ArrivalsInv /\ i \in Ids /\ sent[i].status = "sent" /\ active[sent[i].client] # None
  /\ now' = time /\ pc' = "assign" /\ method' = method

\* And it is dealt with.
Deals(i) == Moves({i}) /\ Regroups({sent[i].client}) /\ Grouped' /\ Kept' /\ Ids' = Ids

\* What the arrival of an update finds.
LEMMA ArrivesIs ==
  ASSUME NEW i, Arrives(i)
  PROVE  /\ sent[i].client \in Clients /\ Typed /\ Grouped /\ Kept /\ GroupsMet /\ Going'
         /\ i \notin buffer /\ \A g \in DOMAIN groups : i \notin groups[g].arrived
         /\ \A g \in DOMAIN groups : groups[g] \in Group /\ g \in Nat
         /\ \A j \in Ids : sent[j].client \in Clients
         /\ \A j \in buffer : sent[j].status \in {"late", "unaggregated"}
         /\ time \in Nat /\ version \in Nat /\ now <= now' /\ now \in Nat /\ now' \in Nat
  <1>1. ArrivalsInv /\ i \in Ids /\ sent[i].status = "sent" /\ now' = time /\ Going'
    BY DEF Arrives, Going
  <1>2. Typed /\ Grouped /\ Kept /\ GroupsMet BY <1>1 DEF ArrivalsInv
  <1>3. \A j \in Ids : sent[j].client \in Clients BY <1>2, ReceiptsIn DEF Receipt
  <1>4. \A j \in buffer : sent[j].status \in {"late", "unaggregated"} BY <1>2 DEF Kept
  <1>5. \A g \in DOMAIN groups : i \notin groups[g].arrived BY <1>1, <1>2 DEF Grouped
  <1>6. \A g \in DOMAIN groups : groups[g] \in Group /\ g \in Nat BY <1>2 DEF Typed
  <1>7. time \in Nat /\ version \in Nat /\ now <= now' /\ now \in Nat /\ now' \in Nat
    BY <1>1, <1>2 DEF Typed
  <1> QED BY <1>1, <1>2, <1>3, <1>4, <1>5, <1>6, <1>7

\* Where no group changes but for the client that has answered.
LEMMA SameGroups ==
  ASSUME NEW i, Arrives(i), DOMAIN groups' = DOMAIN groups,
         \A g \in DOMAIN groups : /\ groups'[g] \in Group /\ groups'[g].deadline = groups[g].deadline
                                  /\ groups'[g].closed = groups[g].closed
                                  /\ groups'[g].pending = groups[g].pending \ {sent[i].client}
                                  /\ \/ groups'[g].arrived = groups[g].arrived
                                     \/ groups'[g].arrived # {}
                                  /\ active[sent[i].client] = <<g>> =>
                                       Late(g) \/ groups'[g].pending # {} \/ groups'[g].arrived # {}
  PROVE  Regroups({sent[i].client})
  <1>1. ASSUME NEW g \in Open', now' < groups'[g].deadline PROVE groups'[g].pending # {} \/ groups'[g].arrived # {}
    <2>1. g \in Open /\ g \in DOMAIN groups /\ groups[g].deadline \in Nat
      BY <1>1, ArrivesIs DEF Open, Group
    <2>2. time < groups[g].deadline /\ now < groups[g].deadline BY <1>1, <2>1, ArrivesIs DEF Arrives
    <2>3. CASE active[sent[i].client] = <<g>> BY <2>1, <2>2, <2>3, ArrivesIs DEF Late
    <2>4. CASE active[sent[i].client] # <<g>>
      <3>1. GroupsMet /\ sent[i].client \in Clients BY ArrivesIs
      <3>2. sent[i].client \notin groups[g].pending BY <2>1, <2>4, <3>1 DEF GroupsMet
      <3>3. groups[g].pending # {} \/ groups[g].arrived # {} BY <2>1, <2>2, <3>1 DEF GroupsMet
      <3> QED BY <2>1, <3>2, <3>3
    <2> QED BY <2>3, <2>4
  <1> QED BY <1>1 DEF Regroups

\* In no group: nobody waits for the client of a first update.
LEMMA NoGroup ==
  ASSUME NEW i, Arrives(i), groups' = groups,
         active[sent[i].client] = Initial \/ DOMAIN groups = {}
  PROVE  Regroups({sent[i].client})
  <1>1. ASSUME NEW g \in DOMAIN groups
        PROVE  /\ active[sent[i].client] # <<g>> /\ sent[i].client \notin groups[g].pending
               /\ groups[g] \in Group
    <2>1. g \in Nat \ {0} BY ArrivesIs DEF Typed
    <2>2. active[sent[i].client] # <<g>> BY <2>1, Assignments
    <2> QED BY <2>2, ArrivesIs DEF GroupsMet
  <1> QED BY <1>1, SameGroups

\* One update is dealt with, and late or buffered ones with it.
LEMMA OneMoves ==
  ASSUME NEW i, Arrives(i), Relabels(sent'), sent'[i].status # "sent",
         \A j \in Ids \ {i} : sent'[j].status # sent[j].status =>
           sent[j].status \in {"late", "unaggregated"} /\ sent'[j].status \notin {"sent", "waiting"},
         toAssign' \subseteq {sent[i].client}, sent'[i].status = "waiting" => toAssign' = {},
         time' < Deadline /\ sent'[i].status # "waiting" => sent[i].client \in toAssign',
         version' \in Nat, version <= version', time' \in Nat, time <= time',
         version' # version => version' = version + 1 /\ time' < Deadline
  PROVE  Moves({i})
  <1>1. i \in Ids /\ sent[i].status = "sent" /\ sent[i].client \in Clients BY ArrivesIs DEF Arrives
  <1>2. ASSUME NEW j \in Ids
        PROVE  /\ sent'[j].status = "sent" <=> sent[j].status = "sent" /\ j # i
               /\ sent'[j].status = "waiting" => sent[j].status = "waiting" \/ j = i
               /\ sent[j].status \in Settled => sent'[j].status = sent[j].status
               /\ time' < Deadline /\ (sent[j].status = "waiting" \/ j = i) /\ sent'[j].status # "waiting"
                    => sent[j].client \in toAssign'
    BY <1>1 DEF Settled
  <1>3. ASSUME NEW c \in toAssign'
        PROVE  \E j \in Ids : /\ sent[j].client = c /\ (sent[j].status = "waiting" \/ j \in {i})
                              /\ sent'[j].status \notin {"sent", "waiting"}
    <2>1. sent[i].client = c /\ sent'[i].status \notin {"sent", "waiting"} BY <1>3
    <2> QED BY <1>1, <2>1
  <1> QED BY <1>1, <1>2, <1>3 DEF Moves

\* Where the groups hold what they held and nothing more waits.
LEMMA SameWaiting ==
  ASSUME NEW i, Arrives(i), Relabels(sent'), DOMAIN groups' = DOMAIN groups,
         \A g \in DOMAIN groups : groups'[g].arrived = groups[g].arrived /\ groups'[g].closed = groups[g].closed,
         \A j \in Ids : sent'[j].status = "waiting" <=> sent[j].status = "waiting"
  PROVE  Grouped' /\ Ids' = Ids
  <1>1. Ids' = Ids BY DEF Relabels, Ids
  <1>2. Grouped /\ method' = method BY ArrivesIs DEF Arrives
  <1> QED BY <1>1, <1>2 DEF Grouped

\* The first update of a client is merged at once.
LEMMA InitialDeals ==
  ASSUME NEW i, Arrives(i), NEW ok \in BOOLEAN, method = "fedcompass", ReceiveInitial(i, ok)
  PROVE  Deals(i)
  <1> DEFINE mark == IF ok THEN "aggregated" ELSE "discarded"
  <1>1. /\ active[sent[i].client] = Initial /\ Commit(ok) /\ sent' = Marked({i}, mark)
        /\ toAssign' = (IF ok THEN {sent[i].client} ELSE {}) /\ UNCHANGED <<groups, buffer>>
    BY DEF ReceiveInitial
  <1>2. mark \in Settled BY DEF Settled
  <1>3. Typed /\ Kept /\ i \in Ids /\ i \notin buffer /\ sent[i].status = "sent" /\ method' = method /\ Going'
    BY ArrivesIs DEF Arrives
  <1>4. Relabels(sent') /\ \A j \in Ids : sent'[j].status = IF j = i THEN mark ELSE sent[j].status
    <2>1. mark \in Stati BY <1>2 DEF Stati
    <2> HIDE DEF mark
    <2> QED BY <1>1, <1>3, <2>1, MarkedIs
  <1>5. /\ version' \in Nat /\ version <= version' /\ time' \in Nat /\ time <= time'
        /\ version' # version => version' = version + 1 /\ time' < Deadline
        /\ time' < Deadline => ok
    BY <1>1, <1>3, CommitIs
  <1> HIDE DEF mark
  <1>6. Moves({i})
    <2>1. sent'[i].status \notin {"sent", "waiting"} BY <1>2, <1>3, <1>4 DEF Settled
    <2> QED BY <1>1, <1>4, <1>5, <2>1, OneMoves
  <1>7. Grouped' /\ Ids' = Ids
    <2>1. \A j \in Ids : sent'[j].status = "waiting" <=> sent[j].status = "waiting"
      BY <1>2, <1>3, <1>4 DEF Settled
    <2> QED BY <1>1, <1>4, <2>1, SameWaiting
  <1>8. Kept' BY <1>1, <1>2, <1>3, <1>4, <1>7 DEF Kept, Settled
  <1> QED BY <1>1, <1>6, <1>7, <1>8, NoGroup DEF Deals

\* A late update takes the place of an older one of its client.
LEMMA LateDeals ==
  ASSUME NEW i, Arrives(i), method = "fedcompass", ReceiveLate(i)
  PROVE  Deals(i)
  <1> DEFINE c == sent[i].client
             old == {j \in buffer : sent[j].client = c}
  <1>1. /\ active[c] # Initial /\ Late(active[c][1])
        /\ groups' = [g \in DOMAIN groups |-> [groups[g] EXCEPT !.pending = @ \ {c}]]
        /\ buffer' = (buffer \ old) \cup {i}
        /\ sent' = [Marked(old, "superseded") EXCEPT ![i].status = "late"]
        /\ toAssign' = {c} /\ UNCHANGED <<time, version>>
    BY DEF ReceiveLate
  <1>2. /\ Typed /\ Kept /\ i \in Ids /\ i \notin buffer /\ sent[i].status = "sent" /\ method' = method
        /\ c \in Clients /\ \A g \in DOMAIN groups : groups[g] \in Group
    BY ArrivesIs DEF Arrives
  <1> HIDE DEF c
  <1>3. old \subseteq Ids /\ i \notin old /\ \A j \in old : j \in buffer /\ sent[j].status = "late"
    BY <1>2 DEF Kept
  <1> DEFINE S == [j \in Ids |-> IF j = i THEN "late" ELSE IF j \in old THEN "superseded" ELSE sent[j].status]
  <1>4. \A j \in Ids : sent[j] \in Receipt BY <1>2, ReceiptsIn
  <1>5. sent' = [j \in Ids |-> [sent[j] EXCEPT !.status = S[j]]]
    <2>1. \A j \in Ids : [sent[j] EXCEPT !.status = sent[j].status] = sent[j] BY <1>4 DEF Receipt
    <2> QED BY <1>1, <1>2, <1>3, <2>1 DEF Marked
  <1>6. S \in [Ids -> Stati] BY <1>4 DEF Receipt, Stati, Settled
  <1>7. Relabels(sent') /\ \A j \in Ids : sent'[j].status = S[j]
    <2>1. \A j \in Ids : [sent[j] EXCEPT !.status = S[j]].status = S[j] BY <1>4 DEF Receipt
    <2> HIDE DEF S
    <2> QED BY <1>2, <1>5, <1>6, <2>1, RelabelsIs
  <1>8. Moves({i})
    <2>1. /\ sent'[i].status = "late" /\ version \in Nat /\ time \in Nat
          /\ \A j \in Ids \ {i} : sent'[j].status # sent[j].status =>
               sent[j].status \in {"late", "unaggregated"} /\ sent'[j].status \notin {"sent", "waiting"}
      BY <1>2, <1>3, <1>7 DEF Typed
    <2>2. /\ toAssign' = {sent[i].client} /\ version' \in Nat /\ version <= version' /\ version' = version
          /\ time' \in Nat /\ time <= time'
      BY <1>1, <2>1 DEF c
    <2>3. Relabels(sent') BY <1>7
    <2> HIDE DEF S, old
    <2> QED BY <2>1, <2>2, <2>3, OneMoves
  <1>9. /\ DOMAIN groups' = DOMAIN groups
        /\ \A g \in DOMAIN groups : /\ groups'[g] \in Group /\ groups'[g].pending = groups[g].pending \ {c}
                                    /\ groups'[g].deadline = groups[g].deadline
                                    /\ groups'[g].closed = groups[g].closed /\ groups'[g].arrived = groups[g].arrived
    BY <1>1, <1>2 DEF Group
  <1>10. Grouped' /\ Ids' = Ids
    <2>1. \A j \in Ids : sent'[j].status = "waiting" <=> sent[j].status = "waiting" BY <1>2, <1>3, <1>7
    <2> QED BY <1>7, <1>9, <2>1, SameWaiting
  <1>11. Kept'
    <2>1. Going' BY ArrivesIs
    <2>2. \A j \in Ids : sent'[j].status = "late" <=> j \in buffer' BY <1>1, <1>2, <1>3, <1>7 DEF Kept
    <2>3. buffer' \subseteq Ids BY <1>1, <1>2 DEF Kept
    <2> QED BY <1>2, <1>10, <2>1, <2>2, <2>3 DEF Kept
  <1>12. Regroups({c})
    <2>1. ASSUME NEW g \in DOMAIN groups, active[c] = <<g>> PROVE Late(g)
      <3>1. g \in Nat BY ArrivesIs
      <3>2. active[c][1] = g BY <2>1, <3>1, Assignments
      <3> QED BY <1>1, <3>2
    <2> QED BY <1>9, <2>1, SameGroups DEF c
  <1> QED BY <1>8, <1>10, <1>11, <1>12 DEF Deals, c

\* In time: it waits in its group, or its group is complete.
LEMMA InTimeDeals ==
  ASSUME NEW i, Arrives(i), NEW ok \in BOOLEAN, method = "fedcompass", ReceiveInTime(i, ok)
  PROVE  Deals(i)
  <1> DEFINE c == sent[i].client  g == active[c][1]
             members == groups[g].pending \ {c}  arrived == groups[g].arrived \cup {i}
  <1>1. active[c] # Initial /\ ~Late(g)
        /\ IF members = {} THEN Close(g, members, arrived, ok)
           ELSE /\ groups' = [groups EXCEPT ![g] = [@ EXCEPT !.pending = members, !.arrived = arrived]]
                /\ sent' = Marked({i}, "waiting") /\ toAssign' = {} /\ UNCHANGED <<time, version, buffer>>
    BY DEF ReceiveInTime
  <1>a. c = sent[i].client /\ g = active[c][1]
        /\ members = groups[g].pending \ {c} /\ arrived = groups[g].arrived \cup {i}
    OBVIOUS
  <1> HIDE DEF c, g, members, arrived
  <1>0. /\ ArrivalsInv /\ Typed /\ Grouped /\ Kept /\ GroupsMet /\ i \in Ids /\ i \notin buffer
        /\ sent[i].status = "sent" /\ method' = method
        /\ c \in Clients /\ active[c] # None /\ Going' /\ now' \in Nat /\ now <= now'
        /\ \A h \in DOMAIN groups : groups[h] \in Group /\ h \in Nat /\ i \notin groups[h].arrived
        /\ version \in Nat /\ time \in Nat
    <2>1. ArrivalsInv /\ i \in Ids /\ sent[i].status = "sent" /\ active[c] # None /\ method' = method
      BY <1>a DEF Arrives
    <2>2. /\ Typed /\ Grouped /\ Kept /\ GroupsMet /\ i \notin buffer /\ c \in Clients /\ Going'
          /\ now' \in Nat /\ now <= now' /\ version \in Nat /\ time \in Nat
          /\ \A h \in DOMAIN groups : groups[h] \in Group /\ h \in Nat /\ i \notin groups[h].arrived
      BY <1>a, ArrivesIs
    <2> QED BY <2>1, <2>2
  <1>2. g \in Open /\ g \in DOMAIN groups /\ active[c] = <<g>>
    <2>1. g \in Open BY <1>1 DEF Late
    <2>2. active[c] \in {<<h>> : h \in 1..counter} BY <1>0, <1>1 DEF Typed
    <2>3. PICK h \in 1..counter : active[c] = <<h>> BY <2>2
    <2>4. h \in Nat BY <1>0 DEF Typed
    <2>5. g \in DOMAIN groups BY <2>1 DEF Open
    <2> QED BY <1>a, <2>1, <2>3, <2>4, <2>5, Assignments
  <1>3. \A h \in DOMAIN groups \ {g} : active[c] # <<h>> /\ c \notin groups[h].pending
    BY <1>0, <1>2, Assignments DEF GroupsMet
  <1>4. CASE members = {}
    <2>1. Close(g, members, arrived, ok) BY <1>1, <1>4
    <2>2. /\ {i} \in SUBSET Ids /\ \A j \in {i} : sent[j].status = "sent"
          /\ {c} \in SUBSET Clients /\ \A h \in DOMAIN groups \ {g} : groups[h].pending \cap {c} = {}
      BY <1>0, <1>3
    <2>3. members = groups[g].pending \ {c} /\ arrived = groups[g].arrived \cup {i} BY <1>a
    <2>4. Moves({i}) /\ Regroups({c}) /\ Grouped' /\ Kept' /\ Ids' = Ids
      BY <1>0, <1>2, <2>1, <2>2, <2>3, CloseMoves
    <2> QED BY <1>a, <2>4 DEF Deals
  <1>5. CASE members # {}
    <2> DEFINE new == [groups[g] EXCEPT !.pending = members, !.arrived = arrived]
    <2>1. /\ DOMAIN groups' = DOMAIN groups /\ \A h \in DOMAIN groups \ {g} : groups'[h] = groups[h]
          /\ groups'[g] = new /\ sent' = Marked({i}, "waiting") /\ toAssign' = {}
          /\ UNCHANGED <<time, version, buffer>>
      BY <1>1, <1>2, <1>5
    <2>2. /\ new \in Group /\ new.pending = members /\ new.arrived = arrived /\ new.closed = groups[g].closed
          /\ new.deadline = groups[g].deadline
      <3>1. i \in Nat BY <1>0, ReceiptsIn
      <3>2. groups[g] \in Group BY <1>0, <1>2
      <3>3. members \in SUBSET Clients /\ arrived \in SUBSET Nat BY <1>a, <3>1, <3>2 DEF Group
      <3> QED BY <3>2, <3>3 DEF Group
    <2> HIDE DEF new
    <2>3. Relabels(sent') /\ \A j \in Ids : sent'[j].status = IF j = i THEN "waiting" ELSE sent[j].status
      BY <1>0, <2>1, MarkedIs DEF Stati
    <2>4. Ids' = Ids BY <2>3 DEF Relabels, Ids
    <2>5. Moves({i})
      <3>0. version' = version /\ time' = time BY <2>1
      <3>1. /\ sent'[i].status = "waiting" /\ version' = version /\ version' \in Nat /\ version <= version'
            /\ time' \in Nat /\ time <= time'
        BY <1>0, <2>3, <3>0
      <3> QED BY <2>1, <2>3, <3>1, OneMoves
    <2>6. Regroups({c})
      <3>1. ASSUME NEW h \in DOMAIN groups
            PROVE /\ groups'[h] \in Group /\ groups'[h].deadline = groups[h].deadline
                  /\ groups'[h].closed = groups[h].closed
                  /\ groups'[h].pending = groups[h].pending \ {c}
                  /\ \/ groups'[h].arrived = groups[h].arrived
                     \/ groups'[h].arrived # {}
                  /\ active[c] = <<h>> => Late(h) \/ groups'[h].pending # {} \/ groups'[h].arrived # {}
        <4>1. CASE h = g BY <1>5, <1>a, <2>1, <2>2, <4>1
        <4>2. CASE h # g BY <1>0, <1>3, <2>1, <4>2
        <4> QED BY <4>1, <4>2
      <3> QED BY <1>a, <2>1, <3>1, SameGroups
    <2>7. Grouped'
      <3>1. ASSUME NEW h \in DOMAIN groups
            PROVE /\ groups'[h].arrived = IF h = g THEN groups[h].arrived \cup {i} ELSE groups[h].arrived
                  /\ groups'[h].closed = groups[h].closed
        BY <1>a, <2>1, <2>2
      <3>2. ~groups[g].closed BY <1>2 DEF Open
      <3>3. ASSUME NEW h \in DOMAIN groups, NEW j \in groups'[h].arrived PROVE j \in Ids /\ sent'[j].status = "waiting"
        <4>1. j = i \/ (j \in groups[h].arrived /\ j \in Ids /\ sent[j].status = "waiting")
          <5>1. j = i \/ j \in groups[h].arrived BY <3>1, <3>3
          <5> QED BY <1>0, <5>1 DEF Grouped
        <4> QED BY <1>0, <2>3, <4>1
      <3>4. ASSUME NEW h \in DOMAIN groups, NEW k \in DOMAIN groups, NEW j \in groups'[h].arrived \cap groups'[k].arrived
            PROVE  h = k
        <4>1. CASE j = i BY <1>0, <3>1, <3>4, <4>1
        <4>2. CASE j # i
          <5>1. j \in groups[h].arrived \cap groups[k].arrived BY <3>1, <3>4, <4>2
          <5> QED BY <1>0, <5>1 DEF Grouped
        <4> QED BY <4>1, <4>2
      <3>5. ASSUME NEW j \in Ids, sent'[j].status = "waiting" PROVE \E h \in DOMAIN groups : j \in groups'[h].arrived
        <4>1. CASE j = i BY <1>2, <3>1, <4>1
        <4>2. CASE j # i
          <5>1. sent[j].status = "waiting" BY <2>3, <3>5, <4>2
          <5>2. PICK h \in DOMAIN groups : j \in groups[h].arrived BY <1>0, <5>1 DEF Grouped
          <5> QED BY <3>1, <5>2
        <4> QED BY <4>1, <4>2
      <3>6. \A h \in DOMAIN groups : groups'[h].closed => groups'[h].arrived = {}
        BY <1>0, <3>1, <3>2 DEF Grouped
      <3> QED BY <1>0, <2>1, <2>4, <3>3, <3>4, <3>5, <3>6 DEF Grouped
    <2>8. Kept' BY <1>0, <2>1, <2>3, <2>4 DEF Kept
    <2> QED BY <1>a, <2>4, <2>5, <2>6, <2>7, <2>8 DEF Deals
  <1> QED BY <1>4, <1>5

\* FedAsync merges every update; FedBuff a full buffer, which it keeps at the end.
LEMMA AsyncDeals ==
  ASSUME NEW i, Arrives(i), NEW ok \in BOOLEAN, method # "fedcompass", ReceiveAsync(i, ok)
  PROVE  Deals(i)
  <1> DEFINE updates == buffer \cup {i}
             ready == method = "fedasync" \/ Cardinality(updates) = K
             mark == IF method = "fedasync" THEN "discarded" ELSE "unaggregated"
  <1>1. /\ IF ready THEN Commit(ok) ELSE UNCHANGED <<time, version>>
        /\ sent' = IF ready /\ ok THEN Marked(updates, "aggregated") ELSE Marked({i}, mark)
        /\ buffer' = IF method = "fedasync" \/ (ready /\ ok) THEN {} ELSE updates
        /\ toAssign' = IF ready /\ ~ok THEN {} ELSE {sent[i].client}
        /\ groups' = groups
    BY DEF ReceiveAsync
  <1> HIDE DEF ready
  <1>2. /\ Typed /\ Kept /\ Grouped /\ i \in Ids /\ i \notin buffer /\ sent[i].status = "sent" /\ method' = method
        /\ Going' /\ DOMAIN groups = {} /\ version \in Nat /\ time \in Nat
    BY ArrivesIs DEF Arrives, Grouped
  <1>3. \A j \in buffer : method = "fedbuff" /\ sent[j].status = "unaggregated" BY <1>2 DEF Kept
  <1>4. /\ version' \in Nat /\ version <= version' /\ time' \in Nat /\ time <= time'
        /\ version' # version => version' = version + 1 /\ time' < Deadline
        /\ time' < Deadline /\ ready => ok
    <2>1. CASE ready BY <1>1, <1>2, <2>1, CommitIs
    <2>2. CASE ~ready BY <1>1, <1>2, <2>2
    <2> QED BY <2>1, <2>2
  <1>5. /\ Relabels(sent')
        /\ \A j \in Ids : sent'[j].status = IF ready /\ ok /\ j \in updates THEN "aggregated"
                                            ELSE IF ~(ready /\ ok) /\ j = i THEN mark ELSE sent[j].status
    <2>1. CASE ready /\ ok
      <3> HIDE DEF mark, updates
      <3>1. sent' = Marked(updates, "aggregated") /\ "aggregated" \in Stati BY <1>1, <2>1 DEF Stati, Settled
      <3> QED BY <1>2, <2>1, <3>1, MarkedIs
    <2>2. CASE ~(ready /\ ok)
      <3>1. mark \in Stati BY DEF Stati, Settled
      <3> HIDE DEF mark, updates
      <3>2. sent' = Marked({i}, mark) BY <1>1, <2>2
      <3> QED BY <1>2, <2>2, <3>1, <3>2, MarkedIs
    <2> QED BY <2>1, <2>2
  <1>6. Ids' = Ids BY <1>5 DEF Relabels, Ids
  <1>7. /\ sent'[i].status \notin {"sent", "waiting", "late"}
        /\ \A j \in Ids \ {i} : sent'[j].status # sent[j].status =>
             sent[j].status = "unaggregated" /\ sent'[j].status = "aggregated"
    BY <1>2, <1>3, <1>5
  <1>8. Moves({i})
    <2>1. toAssign' \subseteq {sent[i].client} /\ (time' < Deadline => sent[i].client \in toAssign')
      BY <1>1, <1>4
    <2> HIDE DEF mark, updates
    <2> QED BY <1>4, <1>5, <1>7, <2>1, OneMoves
  <1>9. Grouped' BY <1>1, <1>2, <1>6, <1>7, SameWaiting, <1>5
  <1>10. Kept'
    <2>1. \A j \in Ids : sent'[j].status # "late" BY <1>2, <1>7 DEF Kept
    <2>2. \A j \in buffer' : j \in Ids /\ method = "fedbuff" /\ sent'[j].status = "unaggregated"
      <3>1. ASSUME NEW j \in buffer' PROVE j \in Ids /\ method = "fedbuff" /\ sent'[j].status = "unaggregated"
        <4>1. method # "fedasync" /\ ~(ready /\ ok) /\ j \in updates BY <1>1
        <4>2. method = "fedbuff" BY <1>2, <4>1, ArrivalsAssumption DEF Typed
        <4> QED BY <1>2, <1>3, <1>5, <4>1, <4>2 DEF Kept
      <3> QED BY <3>1
    <2> QED BY <1>2, <1>6, <2>1, <2>2 DEF Kept
  <1> QED BY <1>1, <1>2, <1>6, <1>8, <1>9, <1>10, NoGroup DEF Deals

\* A finished call is taken off the queue: a failure ends the run, an update
\* after the deadline is only counted, and any other is dealt with.
LEMMA ConsumeKeeps == ASSUME ArrivalsInv, NEW ok \in BOOLEAN, Consume(ok) PROVE ArrivalsInv' /\ Recorded
  <1> DEFINE i == Head(finished).id
  <1>1. /\ pc = "wait" /\ finished # <<>> /\ finished' = Tail(finished) /\ now' = time /\ origin' = "received"
        /\ UNCHANGED <<method, scan, toSend, counter, running>>
    BY DEF Consume
  <1>2. i \in Ids /\ sent[i].status = "sent"
    <2>1. DOMAIN finished = 1..Len(finished) /\ Len(finished) > 0 /\ Len(finished) \in Nat /\ finished[1].id = i
      BY <1>1, QueueIs DEF ArrivalsInv
    <2> QED BY <1>1, <2>1 DEF ArrivalsInv, Queued
  <1>3. /\ Going /\ toAssign = {} /\ toSend = {} /\ active[sent[i].client] # None
        /\ now \in Nat /\ time \in Nat /\ now <= time
    BY <1>1, <1>2 DEF ArrivalsInv, Going, InTurn, Owned, Typed
  <1>4. i = Head(finished).id /\ finished' \in Seq([id : Nat, ok : BOOLEAN])
    BY <1>1, QueueIs DEF ArrivalsInv
  <1>5. \/ pc' = "raised" /\ UNCHANGED <<time, version, active, groups, buffer, sent, toAssign>>
        \/ /\ pc' = "top" /\ sent' = Marked({i}, "discarded") /\ time >= Deadline
           /\ UNCHANGED <<time, version, active, groups, buffer, toAssign>>
        \/ /\ pc' = "assign" /\ time < Deadline /\ Receive(i, ok)
           /\ active' = [active EXCEPT ![sent[i].client] = None]
    BY ArrivalsAssumption, <1>3 DEF Consume
  <1> HIDE DEF i
  <1>6. CASE pc' = "raised" /\ UNCHANGED <<time, version, active, groups, buffer, sent, toAssign>>
    <2>1. Ids' = Ids /\ Open' = Open /\ ~Going' BY <1>6 DEF Ids, Open, Going
    <2>2. Queued' BY <1>1, <1>4, <1>6, <2>1, Taken
    <2>3. Typed' BY <1>1, <1>3, <1>4, <1>6, <2>1 DEF ArrivalsInv, Typed
    <2>4. Grouped' /\ Kept' /\ Dated' BY <1>1, <1>6, <2>1 DEF ArrivalsInv, Grouped, Kept, Dated
    <2>5. Owned' /\ InTurn' /\ NobodyIdle' BY <1>3, <1>6, <2>1 DEF Owned, InTurn, NobodyIdle
    <2>6. GroupsMet'
      <3>1. \A g \in DOMAIN groups : groups[g].deadline \in Nat BY DEF ArrivalsInv, Typed, Group
      <3> QED BY <1>1, <1>3, <1>6, <2>1, <3>1 DEF ArrivalsInv, GroupsMet, Open
    <2>7. Recorded BY <1>6 DEF Recorded
    <2> QED BY <2>2, <2>3, <2>4, <2>5, <2>6, <2>7 DEF ArrivalsInv
  <1>7. CASE /\ pc' = "top" /\ sent' = Marked({i}, "discarded") /\ time >= Deadline
             /\ UNCHANGED <<time, version, active, groups, buffer, toAssign>>
    <2>1. /\ Relabels(sent')
          /\ \A j \in Ids : sent'[j].status = IF j = i THEN "discarded" ELSE sent[j].status
      BY <1>7, MarkedIs DEF Stati, Settled, ArrivalsInv
    <2>2. Ids' = Ids /\ Open' = Open /\ Going' BY <1>7, <2>1 DEF Relabels, Ids, Open, Going
    <2>3. Queued'
      <3>1. pc # "raised" /\ sent'[i].status # "sent"
            /\ \A j \in Ids \ {i} : sent'[j].status = "sent" <=> sent[j].status = "sent"
        BY <1>1, <1>2, <2>1
      <3> QED BY <1>1, <1>4, <2>2, <3>1, Taken
    <2>4. Typed' BY <1>1, <1>3, <1>4, <1>7, <2>1, <2>2 DEF ArrivalsInv, Typed, Relabels
    <2>5. Grouped'
      <3>1. Grouped /\ groups' = groups /\ method' = method /\ Ids' = Ids BY <1>1, <1>7, <2>2 DEF ArrivalsInv
      <3>2. \A j \in Ids : sent'[j].status = "waiting" <=> sent[j].status = "waiting" BY <1>2, <2>1
      <3> QED BY <3>1, <3>2 DEF Grouped
    <2>6. Kept'
      <3>1. sent[i].status \notin {"late", "unaggregated"} /\ sent'[i].status \notin {"late", "unaggregated"}
        BY <1>2, <2>1
      <3> QED BY <1>1, <1>7, <2>1, <2>2, <3>1 DEF ArrivalsInv, Kept
    <2>7. Owned' /\ InTurn'
      <3>1. InTurn' BY <1>1, <1>3, <1>7 DEF InTurn
      <3>2. \A j \in Ids : sent'[j].client = sent[j].client BY <2>1 DEF Relabels
      <3>3. \A j \in Ids : sent'[j].status \in {"sent", "waiting"} => sent'[j].status = sent[j].status BY <2>1
      <3>4. Owned BY DEF ArrivalsInv
      <3>5. toAssign' = {} /\ toSend' = {} /\ active' = active /\ Ids' = Ids /\ Going BY <1>1, <1>3, <1>7, <2>2
      <3>6. ASSUME NEW j \in Ids
            PROVE  /\ sent'[j].status = "sent" => active[sent'[j].client] # None
                   /\ sent'[j].status = "waiting" => active[sent'[j].client] = None
        BY <3>2, <3>3, <3>4, <3>5 DEF Owned
      <3>7. ASSUME NEW j \in Ids, NEW k \in Ids, sent'[j].client = sent'[k].client,
                   {sent'[j].status, sent'[k].status} \subseteq {"sent", "waiting"}
            PROVE  j = k
        BY <3>2, <3>3, <3>4, <3>5, <3>7 DEF Owned
      <3> QED BY <3>1, <3>5, <3>6, <3>7 DEF Owned
    <2>8. Dated' BY <1>7, <2>1, <2>2 DEF ArrivalsInv, Dated, Relabels
    <2>9. NobodyIdle' BY <1>3, <1>7, ArrivalsAssumption DEF NobodyIdle
    <2>10. GroupsMet'
      <3>1. \A g \in DOMAIN groups : groups[g].deadline \in Nat BY DEF ArrivalsInv, Typed, Group
      <3> QED BY <1>1, <1>3, <1>7, <2>2, <3>1 DEF ArrivalsInv, GroupsMet, Open
    <2>11. Recorded
      <3>1. \A j \in Ids : sent[j].status \in Settled => sent'[j].status = sent[j].status BY <1>2, <2>1 DEF Settled
      <3> QED BY <1>7, <2>1, <3>1, RelabelsRecord DEF ArrivalsInv
    <2> QED BY <2>3, <2>4, <2>5, <2>6, <2>7, <2>8, <2>9, <2>10, <2>11 DEF ArrivalsInv
  <1>8. CASE /\ pc' = "assign" /\ time < Deadline /\ Receive(i, ok)
             /\ active' = [active EXCEPT ![sent[i].client] = None]
    <2>1. Arrives(i) BY <1>1, <1>2, <1>3, <1>8 DEF Arrives
    <2>2. Deals(i)
      BY <1>8, <2>1, InitialDeals, LateDeals, InTimeDeals, AsyncDeals DEF Receive
    <2>3. /\ Moves({i}) /\ Regroups({sent[i].client}) /\ Grouped' /\ Kept' /\ Ids' = Ids
          /\ sent[i].client \in Clients /\ Going' /\ active \in [Clients -> {None, Initial} \cup {<<g>> : g \in 1..counter}]
      BY <2>1, <2>2, ArrivesIs DEF Deals, Typed
    <2>4. Owned' /\ InTurn' /\ Dated' /\ NobodyIdle'
      <3> DEFINE X == {i}
      <3>1. X \in SUBSET Ids /\ \A j \in X : sent[j].status = "sent" BY <1>2
      <3>2. active' = [c \in Clients |-> IF \E j \in X : sent[j].client = c THEN None ELSE active[c]]
        BY <1>8, <2>3
      <3>3. Moves(X) BY <2>3
      <3> HIDE DEF X
      <3> QED BY <1>1, <1>3, <1>8, <2>3, <3>1, <3>2, <3>3, MovesKeep
    <2>5. GroupsMet'
      <3> DEFINE C == {sent[i].client}
      <3>1. C \in SUBSET Clients /\ Regroups(C) BY <2>3
      <3>2. active' = [c \in Clients |-> IF c \in C THEN None ELSE active[c]] BY <1>8, <2>3
      <3> HIDE DEF C
      <3> QED BY <3>1, <3>2, RegroupsKeep
    <2>6. Queued'
      <3>1. pc # "raised" /\ sent'[i].status # "sent"
            /\ \A j \in Ids \ {i} : sent'[j].status = "sent" <=> sent[j].status = "sent"
        BY <1>1, <1>2, <2>3 DEF Moves
      <3> QED BY <1>1, <1>4, <2>3, <3>1, Taken
    <2>7. Typed'
      <3>1. sent' \in Seq(Receipt) /\ version' \in Nat /\ time' \in Nat /\ time <= time' /\ toAssign' \subseteq Clients
        BY <2>3 DEF Moves, Relabels
      <3>2. DOMAIN groups' = DOMAIN groups /\ \A h \in DOMAIN groups : groups'[h] \in Group BY <2>3 DEF Regroups
      <3>3. active' \in [Clients -> {None, Initial} \cup {<<g>> : g \in 1..counter'}] BY <1>1, <1>8, <2>3
      <3> QED BY <1>1, <1>3, <1>4, <1>8, <3>1, <3>2, <3>3 DEF ArrivalsInv, Typed, Going
    <2>8. Recorded BY <2>3, RelabelsRecord DEF ArrivalsInv, Moves
    <2> QED BY <2>3, <2>4, <2>5, <2>6, <2>7, <2>8 DEF ArrivalsInv
  <1> QED BY <1>5, <1>6, <1>7, <1>8

-------------------------------------------------------------------------------
(* The theorems *)

\* Every step keeps the accounts and what is recorded.
LEMMA StepKeeps == ASSUME ArrivalsInv, [Next]_vars PROVE ArrivalsInv' /\ Recorded
  <1>1. CASE Next
    <2>1. CASE Tick \/ Over
      <3>1. UNCHANGED <<version, sent>> BY <2>1 DEF Tick, Over, vars, control, calls
      <3> QED BY <2>1, <3>1, TickKeeps, TurnKeeps DEF Recorded
    <2>2. CASE Top \/ NothingToExpire \/ AllSent \/ WaitEnds \/ Drained \/ Assigned
      <3>1. UNCHANGED <<version, sent>>
        BY <2>2 DEF Top, NothingToExpire, AllSent, WaitEnds, Drained, Assigned, control, calls
      <3> QED BY <2>2, <3>1, TurnKeeps, AssignedKeeps DEF Recorded
    <2>3. CASE \E i \in running, ok \in BOOLEAN : Answer(i, ok)
      <3>1. UNCHANGED <<version, sent>> BY <2>3 DEF Answer, control
      <3> QED BY <2>3, <3>1, AnswerKeeps DEF Recorded
    <2>4. CASE Stop \/ Drain
      <3>1. version' = version BY <2>4 DEF Stop, Drain, control
      <3>2. CASE Stop BY <3>1, <3>2, StopKeeps
      <3>3. CASE Drain BY <3>1, <3>3, DrainKeeps
      <3> QED BY <2>4, <3>2, <3>3
    <2>5. CASE \E ok \in BOOLEAN : Expire(ok) \/ Consume(ok) BY <2>5, ExpireKeeps, ConsumeKeeps
    <2>6. ASSUME NEW c \in Clients, Assign(c) PROVE ArrivalsInv' /\ Recorded
      <3>1. UNCHANGED <<version, sent>> BY <2>6 DEF Assign, calls
      <3> QED BY <2>6, <3>1, AssignKeeps DEF Recorded
    <2>7. ASSUME NEW c \in Clients, Send(c) PROVE ArrivalsInv' /\ Recorded BY <2>7, SendKeeps
    <2> QED BY <1>1, <2>1, <2>2, <2>3, <2>4, <2>5, <2>6, <2>7 DEF Next, Coordinate
  <1>2. CASE UNCHANGED vars
    <2> USE DEF vars, control, calls, Ids, Open, Going
    <2>1. Typed' /\ Queued' /\ Grouped' /\ Kept' BY <1>2 DEF ArrivalsInv, Typed, Queued, Grouped, Kept
    <2>2. Owned' /\ InTurn' /\ Dated' BY <1>2 DEF ArrivalsInv, Owned, InTurn, Dated
    <2>3. GroupsMet' /\ NobodyIdle' BY <1>2 DEF ArrivalsInv, GroupsMet, NobodyIdle
    <2>4. Recorded BY <1>2 DEF Recorded
    <2> QED BY <2>1, <2>2, <2>3, <2>4 DEF ArrivalsInv
  <1> QED BY <1>1, <1>2

\* An update is where its receipt says, and a client where its assignment does,
\* in every reachable state (dispatch, consume, _assign, _close, expire, stop).
THEOREM ArrivalsInvariant == Spec => []ArrivalsInv
  <1>1. ArrivalsInv /\ [Next]_vars => ArrivalsInv' BY StepKeeps
  <1> QED BY <1>1, FirstInv, PTL DEF Spec

\* The receipts and the groups are two accounts of the same assignments: no
\* update is in two groups, merged and kept, or in the queue twice, and no group
\* waits for a client that works for another (receive, _close, _assign, stop).
THEOREM AccountsKept == Spec => []AccountsAgree
  <1>1. ArrivalsInv => AccountsAgree
    <2> SUFFICES ASSUME ArrivalsInv PROVE ReceiptsTrue BY DEF AccountsAgree, ArrivalsInv
    <2> DEFINE at(s) == {i \in Ids : sent[i].status = s}
               queued == {finished[k].id : k \in DOMAIN finished}
    <2>1. at("waiting") = UNION {groups[g].arrived : g \in Open}
      <3>1. ASSUME NEW i \in Ids, sent[i].status = "waiting" PROVE \E g \in Open : i \in groups[g].arrived
        <4>1. PICK g \in DOMAIN groups : i \in groups[g].arrived BY <3>1 DEF ArrivalsInv, Grouped
        <4>2. g \in Open BY <4>1 DEF ArrivalsInv, Grouped, Open
        <4> QED BY <4>1, <4>2
      <3>2. ASSUME NEW g \in Open, NEW i \in groups[g].arrived PROVE i \in Ids /\ sent[i].status = "waiting"
        BY <3>2 DEF ArrivalsInv, Grouped, Open
      <3> QED BY <3>1, <3>2
    <2>2. \A g, h \in DOMAIN groups : groups[g].arrived \cap groups[h].arrived # {} => g = h
      BY DEF ArrivalsInv, Grouped
    <2>3. method = "fedcompass" => buffer = at("late") BY DEF ArrivalsInv, Kept
    <2>4. method = "fedbuff" => buffer \subseteq at("unaggregated") BY DEF ArrivalsInv, Kept
    <2>5. pc # "raised" => at("sent") = running \cup queued BY DEF ArrivalsInv, Queued
    <2> QED BY <2>1, <2>2, <2>3, <2>4, <2>5 DEF ReceiptsTrue
  <1> QED BY <1>1, ArrivalsInvariant, PTL

\* Before the deadline no client is without work, however its update is received
\* and whenever its group is closed (_close, receive, _assign).
THEOREM EveryClientWorks == Spec => []NobodyIdle
  <1>1. ArrivalsInv => NobodyIdle BY DEF ArrivalsInv
  <1> QED BY <1>1, ArrivalsInvariant, PTL

\* When the run has drained, nothing is on its way, waits or is kept.
LEMMA NothingIsLeft ==
  ASSUME ArrivalsInv, [Next]_vars, pc' = "finished"
  PROVE  \A i \in Ids : sent[i].status \in Settled \cup {"unaggregated"}
  <1>1. CASE pc = "finished"
    <2>1. /\ running = {} /\ DOMAIN finished = {} /\ buffer = {} /\ DOMAIN groups = {}
      BY <1>1 DEF ArrivalsInv, InTurn, Kept, Going
    <2>2. \A i \in Ids : sent[i] \in Receipt BY ReceiptsIn DEF ArrivalsInv
    <2>3. \A i \in Ids : sent[i].status \notin {"sent", "waiting", "late"}
      BY <1>1, <2>1 DEF ArrivalsInv, Queued, Grouped, Kept
    <2> QED BY <2>2, <2>3 DEF Receipt
  <1>2. CASE pc # "finished"
    <2>1. Drained
      BY <1>2 DEF Next, Coordinate, Tick, Top, Assigned, NothingToExpire, AllSent, WaitEnds, Stop, Drain,
         Expire, Consume, Assign, Send, Answer, Over, vars, control, calls
    <2>2. /\ running = {} /\ DOMAIN finished = {} /\ buffer = {} /\ DOMAIN groups = {} /\ pc = "drain"
      BY <2>1 DEF Drained, ArrivalsInv, Kept, Going
    <2>3. \A i \in Ids : sent[i] \in Receipt BY ReceiptsIn DEF ArrivalsInv
    <2>4. \A i \in Ids : sent[i].status \notin {"sent", "waiting", "late"}
      BY <2>2 DEF ArrivalsInv, Queued, Grouped, Kept
    <2> QED BY <2>3, <2>4 DEF Receipt
  <1> QED BY <1>1, <1>2

\* No update is merged twice, taken from the buffer it was merged from, or into a
\* model that has been frozen (_aggregate, _close, receive, stop, the drain).
THEOREM LedgerIsKept == Spec => LedgerKept
  <1> DEFINE Step == /\ \A i \in Ids : sent[i].status \in Settled => sent'[i] = sent[i]
                     /\ \A i \in Ids : sent[i].version <= version
                     /\ version' # version => version' = version + 1 /\ time' < Deadline
                     /\ pc' = "finished" =>
                          \A i \in Ids : sent[i].status \in Settled \cup {"unaggregated"}
  <1>1. ASSUME ArrivalsInv, [Next]_vars PROVE [Step]_vars
    <2>1. Recorded BY <1>1, StepKeeps
    <2>2. \A i \in Ids : sent[i].version <= version BY <1>1 DEF ArrivalsInv, Dated
    <2>3. pc' = "finished" => \A i \in Ids : sent[i].status \in Settled \cup {"unaggregated"}
      BY <1>1, NothingIsLeft
    <2> QED BY <2>1, <2>2, <2>3 DEF Recorded
  <1>2. ArrivalsInv /\ [Next]_vars => [Step]_vars BY <1>1
  <1> HIDE DEF Step
  <1>3. Spec => [][Step]_vars BY <1>2, ArrivalsInvariant, PTL DEF Spec
  <1> QED BY <1>3 DEF LedgerKept, Step
===============================================================================
