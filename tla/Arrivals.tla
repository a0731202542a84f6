-------------------------------- MODULE Arrivals -------------------------------
(***************************************************************************)
(* The asynchronous baselines: one coordinator thread (FedCompassServer)   *)
(* sends every client its own assignment, waits on a queue of finished     *)
(* calls and lets a controller merge what arrives.  FedCompass gathers     *)
(* arrivals in groups with a deadline and keeps late updates for the next  *)
(* merge, FedAsync merges each arrival, FedBuff every K-th.  At the        *)
(* deadline of the run the model is frozen and the calls are drained.      *)
(* Times are ticks; step counts and speeds are left out, so a client may   *)
(* be assigned to any group that is still expected.                        *)
(***************************************************************************)
EXTENDS Naturals, FiniteSets, Sequences

CONSTANTS
  Clients,    \* the configured population
  Methods,    \* the controllers to choose from
  K,          \* FedBuff's buffer_size
  Deadline,   \* time_budget_sec, in ticks
  Longest     \* bound: ticks until a new group is expected

ASSUME ArrivalsAssumption ==
  /\ Methods \subseteq {"fedcompass", "fedasync", "fedbuff"} /\ IsFiniteSet(Clients)
  /\ K \in Nat \ {0, 1} /\ Deadline \in Nat \ {0} /\ Longest \in Nat \ {0}

VARIABLES
  method,   \* the controller of this run
  time,     \* the monotonic clock
  pc, now,  \* the event loop, and when its iteration began
  scan,     \* groups expire still has to visit
  toAssign, \* clients _close still has to assign
  toSend,   \* assignments to dispatch
  origin,   \* where they are from
  version, active, groups, counter, buffer, \* the controller
  sent,     \* dispatch_records with their receipts
  running,  \* calls under way
  finished  \* the queue of finished calls

calls == <<sent, running, finished>>
control == <<version, active, groups, counter, buffer>>
vars == <<method, time, pc, now, scan, toAssign, toSend, origin, control, calls>>

Ids == DOMAIN sent
None == <<>>          \* no assignment
Initial == <<0>>      \* an assignment with group_id None

Open == {g \in DOMAIN groups : ~groups[g].closed}

Init ==
  /\ method \in Methods /\ time = 0 /\ now = 0
  /\ pc = "send" /\ toSend = Clients /\ origin = "start"
  /\ scan = {} /\ toAssign = {}
  /\ version = 0 /\ active = [c \in Clients |-> Initial]
  /\ groups = <<>> /\ counter = 0 /\ buffer = {}
  /\ sent = <<>> /\ running = {} /\ finished = <<>>

-------------------------------------------------------------------------------
(* The clients, and time *)

Tick ==
  /\ time <= Deadline /\ time' = time + 1
  /\ UNCHANGED <<method, pc, now, scan, toAssign, toSend, origin, control, calls>>

\* A fit takes a tick at least; it may fail or time out.
Answer(i, ok) ==
  /\ i \in running /\ (sent[i].at < time \/ time > Deadline)
  /\ running' = running \ {i}
  /\ finished' = Append(finished, [id |-> i, ok |-> ok])
  /\ UNCHANGED <<method, time, pc, now, scan, toAssign, toSend, origin, control, sent>>

-------------------------------------------------------------------------------
(* The controller *)

Marked(ids, s) == [i \in Ids |-> IF i \in ids THEN [sent[i] EXCEPT !.status = s] ELSE sent[i]]

MutantCommit(ok) ==           \* nothing is rolled back
  /\ ok => time < Deadline
  /\ ~ok => time + 1 >= Deadline
  /\ version' = version + 1
  /\ time' = IF ok \/ time > Deadline THEN time ELSE Deadline
\* _aggregate: what was loaded is rolled back when the deadline has passed in
\* the meantime.
Commit(ok) ==
  /\ ok => time < Deadline
  /\ ~ok => time + 1 >= Deadline
  /\ version' = IF ok THEN version + 1 ELSE version
  /\ time' = IF ok \/ time > Deadline THEN time ELSE Deadline

MutantClose(g, members, arrived, ok) ==      \* late updates are merged, and kept
  LET merged == arrived \cup {i \in buffer : \A j \in arrived : sent[j].client # sent[i].client}
  IN /\ groups' = [groups EXCEPT ![g] = [@ EXCEPT !.closed = TRUE, !.pending = members, !.arrived = {}]]
     /\ Commit(ok)
     /\ sent' = Marked(merged, IF ok THEN "aggregated" ELSE "discarded")
     /\ toAssign' = IF ok THEN {sent[i].client : i \in arrived} ELSE {}
     /\ UNCHANGED buffer
\* _close merges what has arrived with the late updates of other clients; the
\* clients that have waited are assigned anew.
Close(g, members, arrived, ok) ==
  LET old == {i \in buffer : \E j \in arrived : sent[j].client = sent[i].client}
      merged == arrived \cup (buffer \ old)
      mark == IF ok THEN "aggregated" ELSE "discarded"
  IN /\ groups' = [groups EXCEPT ![g] = [@ EXCEPT !.closed = TRUE, !.pending = members, !.arrived = {}]]
     /\ IF arrived = {}
          THEN toAssign' = {} /\ UNCHANGED <<time, version, buffer, sent>>
          ELSE /\ Commit(ok)
               /\ sent' = [i \in Ids |-> [sent[i] EXCEPT !.status =
                            CASE i \in merged -> mark [] i \in old -> "superseded" [] OTHER -> @]]
               /\ toAssign' = IF ok THEN {sent[i].client : i \in arrived} ELSE {}
               /\ buffer' = {}

\* receive of the first update of a client: merged at once.
ReceiveInitial(i, ok) ==
  /\ active[sent[i].client] = Initial
  /\ Commit(ok)
  /\ sent' = Marked({i}, IF ok THEN "aggregated" ELSE "discarded")
  /\ toAssign' = IF ok THEN {sent[i].client} ELSE {}
  /\ UNCHANGED <<groups, buffer>>

Late(g) == g \notin Open \/ time > groups[g].deadline

MutantReceiveLate(i) ==         \* the group still waits for the client
  LET c == sent[i].client
      old == {j \in buffer : sent[j].client = c}
  IN /\ active[c] # Initial /\ Late(active[c][1])
     /\ buffer' = (buffer \ old) \cup {i}
     /\ sent' = [Marked(old, "superseded") EXCEPT ![i].status = "late"]
     /\ toAssign' = {c}
     /\ UNCHANGED <<time, version, groups>>
\* receive after the group's deadline: the update is kept for the next merge, in
\* place of an older one.
ReceiveLate(i) ==
  LET c == sent[i].client
      old == {j \in buffer : sent[j].client = c}
  IN /\ active[c] # Initial /\ Late(active[c][1])
     /\ groups' = [g \in DOMAIN groups |-> [groups[g] EXCEPT !.pending = @ \ {c}]]
     /\ buffer' = (buffer \ old) \cup {i}
     /\ sent' = [Marked(old, "superseded") EXCEPT ![i].status = "late"]
     /\ toAssign' = {c}
     /\ UNCHANGED <<time, version>>

\* receive in time: the client waits for its group, or completes it.
ReceiveInTime(i, ok) ==
  LET c == sent[i].client  g == active[c][1]
      members == groups[g].pending \ {c}  arrived == groups[g].arrived \cup {i}
  IN /\ active[c] # Initial /\ ~Late(g)
     /\ IF members = {}
          THEN Close(g, members, arrived, ok)
          ELSE /\ groups' = [groups EXCEPT ![g] = [@ EXCEPT !.pending = members, !.arrived = arrived]]
               /\ sent' = Marked({i}, "waiting")
               /\ toAssign' = {}
               /\ UNCHANGED <<time, version, buffer>>

MutantReceiveAsync(i, ok) ==    \* who fills a buffer is assigned anew, the others wait
  LET updates == buffer \cup {i}
      ready == method = "fedasync" \/ Cardinality(updates) = K
  IN /\ IF ready THEN Commit(ok) ELSE UNCHANGED <<time, version>>
     /\ sent' = IF ready /\ ok THEN Marked(updates, "aggregated")
                ELSE Marked({i}, IF method = "fedasync" THEN "discarded" ELSE "unaggregated")
     /\ buffer' = IF method = "fedasync" \/ (ready /\ ok) THEN {} ELSE updates
     /\ toAssign' = IF ready /\ ok THEN {sent[i].client} ELSE {}
     /\ UNCHANGED groups
\* AsyncFL.receive: FedAsync merges the update, FedBuff a full buffer, which it
\* keeps when the deadline has passed.
ReceiveAsync(i, ok) ==
  LET updates == buffer \cup {i}
      ready == method = "fedasync" \/ Cardinality(updates) = K
  IN /\ IF ready THEN Commit(ok) ELSE UNCHANGED <<time, version>>
     /\ sent' = IF ready /\ ok THEN Marked(updates, "aggregated")
                ELSE Marked({i}, IF method = "fedasync" THEN "discarded" ELSE "unaggregated")
     /\ buffer' = IF method = "fedasync" \/ (ready /\ ok) THEN {} ELSE updates
     /\ toAssign' = IF ready /\ ~ok THEN {} ELSE {sent[i].client}
     /\ UNCHANGED groups

Receive(i, ok) ==
  IF method = "fedcompass"
    THEN ReceiveInitial(i, ok) \/ ReceiveLate(i) \/ ReceiveInTime(i, ok)
    ELSE ReceiveAsync(i, ok)

-------------------------------------------------------------------------------
(* The event loop *)

Waiting == \E g \in DOMAIN groups : groups[g].arrived # {}

\* The loop's condition and its check of the deadline.
Top ==
  /\ pc = "top"
  /\ now' = time
  /\ IF (running # {} \/ finished # <<>> \/ Waiting) /\ time < Deadline
       THEN pc' = "expire" /\ scan' = DOMAIN groups
       ELSE pc' = "stop" /\ UNCHANGED scan
  /\ origin' = "expired"
  /\ UNCHANGED <<method, time, toAssign, toSend, control, calls>>

\* expire: the groups in the order they were made, as of the loop's time.
Expire(ok) ==
  /\ pc = "expire" /\ scan # {} /\ time < Deadline
  /\ LET g == CHOOSE h \in scan : \A k \in scan : h <= k
     IN /\ scan' = scan \ {g}
        /\ IF ~groups[g].closed /\ now >= groups[g].deadline
             THEN Close(g, groups[g].pending, groups[g].arrived, ok)
             ELSE toAssign' = {} /\ UNCHANGED <<time, version, groups, buffer, sent>>
  /\ pc' = "assign"
  /\ UNCHANGED <<method, now, toSend, origin, active, counter, running, finished>>

\* A closed group nobody is missing from is forgotten once expire has seen it.
Forget(gs) == [g \in {h \in DOMAIN gs : h \in scan \/ ~gs[h].closed \/ gs[h].pending # {}} |-> gs[g]]

\* _assign: an open group the client can still meet, or a new one.
Join(c, g) ==
  /\ g \in Open /\ groups[g].expected > now
  /\ groups' = [groups EXCEPT ![g].pending = @ \cup {c}]
  /\ active' = [active EXCEPT ![c] = <<g>>]
  /\ UNCHANGED counter

NewGroup(c, expected, deadline) ==
  /\ counter' = counter + 1
  /\ groups' = [g \in DOMAIN groups \cup {counter'} |->
       IF g = counter' THEN [expected |-> expected, deadline |-> deadline, pending |-> {c},
                             arrived |-> {}, closed |-> FALSE] ELSE groups[g]]
  /\ active' = [active EXCEPT ![c] = <<counter'>>]

AssignAsync(c) ==
  /\ active' = [active EXCEPT ![c] = Initial]
  /\ UNCHANGED <<groups, counter>>

Assign(c) ==
  /\ pc = "assign" /\ c \in toAssign
  /\ toAssign' = toAssign \ {c} /\ toSend' = toSend \cup {c}
  /\ IF method = "fedcompass"
       THEN \/ \E g \in Open : Join(c, g)
            \/ \E n \in 1..Longest, slack \in {0, 1} : NewGroup(c, now + n, now + n + slack)
       ELSE AssignAsync(c)
  /\ UNCHANGED <<method, time, pc, now, scan, origin, version, buffer, calls>>

\* expire goes on, or stops at the deadline; an arrival has been dealt with.
Assigned ==
  /\ pc = "assign" /\ toAssign = {}
  /\ groups' = IF origin = "expired" THEN Forget(groups) ELSE groups
  /\ pc' = IF origin = "expired" /\ scan # {} /\ time < Deadline THEN "expire" ELSE "send"
  /\ UNCHANGED <<method, time, now, scan, toAssign, toSend, origin, version, active, counter, buffer, calls>>

NothingToExpire ==
  /\ pc = "expire" /\ (scan = {} \/ time >= Deadline)
  /\ pc' = "send"
  /\ UNCHANGED <<method, time, now, scan, toAssign, toSend, origin, control, calls>>

\* dispatch sends the model as it is now, whatever was merged since _assign.
Dispatch(c) ==
  /\ sent' = Append(sent, [client |-> c, version |-> version, at |-> time, status |-> "sent"])
  /\ running' = running \cup {Len(sent')}

Send(c) ==
  /\ pc = "send" /\ c \in toSend
  /\ toSend' = toSend \ {c}
  /\ IF origin = "received" /\ time >= Deadline THEN UNCHANGED <<sent, running>> ELSE Dispatch(c)
  /\ UNCHANGED <<method, time, pc, now, scan, toAssign, origin, control, finished>>

AllSent ==
  /\ pc = "send" /\ toSend = {}
  /\ pc' = IF origin = "expired" THEN "wait" ELSE "top"
  /\ UNCHANGED <<method, time, now, scan, toAssign, toSend, origin, control, calls>>

\* Nothing has arrived until an evaluation or a deadline is due.
WaitEnds ==
  /\ pc = "wait" /\ finished = <<>>
  /\ pc' = "top"
  /\ UNCHANGED <<method, time, now, scan, toAssign, toSend, origin, control, calls>>

\* consume: a failed call ends the run; an update after the deadline is only
\* counted.
Consume(ok) ==
  /\ pc = "wait" /\ finished # <<>>
  /\ finished' = Tail(finished) /\ now' = time /\ origin' = "received"
  /\ LET i == Head(finished).id
     IN IF ~Head(finished).ok
          THEN pc' = "raised" /\ UNCHANGED <<time, version, active, groups, buffer, sent, toAssign>>
          ELSE IF time >= Deadline
          THEN /\ pc' = "top" /\ sent' = Marked({i}, "discarded")
               /\ UNCHANGED <<time, version, active, groups, buffer, toAssign>>
          ELSE /\ pc' = "assign"
               /\ active' = [active EXCEPT ![sent[i].client] = None]
               /\ Receive(i, ok)
  /\ UNCHANGED <<method, scan, toSend, counter, running>>

\* stop
Stop ==
  /\ pc = "stop" /\ pc' = "drain"
  /\ sent' = Marked({i \in Ids : sent[i].status = "waiting"} \cup buffer, "unaggregated")
  /\ buffer' = {} /\ groups' = <<>> /\ active' = [c \in Clients |-> None]
  /\ UNCHANGED <<method, time, now, scan, toAssign, toSend, origin, version, counter, running, finished>>

\* The calls under way are waited for and their updates discarded.
Drain ==
  /\ pc = "drain" /\ finished # <<>>
  /\ finished' = Tail(finished)
  /\ IF Head(finished).ok THEN UNCHANGED pc /\ sent' = Marked({Head(finished).id}, "discarded")
                          ELSE pc' = "raised" /\ UNCHANGED sent
  /\ UNCHANGED <<method, time, now, scan, toAssign, toSend, origin, control, running>>

Drained ==
  /\ pc = "drain" /\ running = {} /\ finished = <<>>
  /\ pc' = "finished"
  /\ UNCHANGED <<method, time, now, scan, toAssign, toSend, origin, control, calls>>

Over == pc \in {"finished", "raised"} /\ UNCHANGED vars

Coordinate ==
  \/ Top \/ Assigned \/ NothingToExpire \/ AllSent \/ WaitEnds \/ Stop \/ Drain \/ Drained
  \/ \E ok \in BOOLEAN : Expire(ok) \/ Consume(ok)
  \/ \E c \in Clients : Assign(c) \/ Send(c)

Next ==
  \/ Tick \/ Coordinate \/ Over
  \/ \E i \in running, ok \in BOOLEAN : Answer(i, ok)

Spec == Init /\ [][Next]_vars

\* Time passes, every call returns or times out, and the event loop runs.
FairSpec ==
  Spec /\ WF_vars(Tick) /\ WF_vars(Coordinate)
       /\ WF_vars(\E i \in running, ok \in BOOLEAN : Answer(i, ok))

-------------------------------------------------------------------------------
(* Properties *)

\* A receipt says where its update is: a late update is in the buffer and no
\* other, an update that waits is in one group that is still open; what is
\* merged, superseded or excluded at the stop is nowhere (receive, _close, stop).
ReceiptsTrue ==
  LET at(s) == {i \in Ids : sent[i].status = s}
      queued == {finished[k].id : k \in DOMAIN finished}
  IN /\ at("waiting") = UNION {groups[g].arrived : g \in Open}
     /\ \A g, h \in DOMAIN groups : groups[g].arrived \cap groups[h].arrived # {} => g = h
     /\ method = "fedcompass" => buffer = at("late")
     /\ method = "fedbuff" => buffer \subseteq at("unaggregated")
     /\ pc # "raised" => at("sent") = running \cup queued

\* Before the deadline every client has work: a call under way, an assignment
\* about to be made or sent, or an update that waits in an open group, whose
\* close will give it a new assignment.
NobodyIdle ==
  (time < Deadline /\ pc \notin {"drain", "finished", "raised"}) => \A c \in Clients :
    \/ c \in toAssign \cup toSend
    \/ \E i \in Ids : sent[i].client = c /\ sent[i].status \in {"sent", "waiting"}

\* A group waits for the clients it was assigned to and no others, each has one
\* assignment, and a group that can still be met has members: _assign takes the
\* fastest of them.
GroupsMet ==
  /\ \A g \in DOMAIN groups : groups[g].pending = {c \in Clients : active[c] = <<g>>}
  /\ \A g \in Open : now < groups[g].deadline => groups[g].pending # {} \/ groups[g].arrived # {}

\* The receipts of the updates and the members of the groups are two accounts of
\* the same assignments, kept by different calls, and they agree (assign,
\* receive, _close, advance, stop).
AccountsAgree == ReceiptsTrue /\ GroupsMet

Settled == {"aggregated", "superseded", "discarded"}

\* An update is merged once or never, into a model no older than the one its
\* client began with, and before the deadline; when a run has drained the model
\* stays and every update is accounted for (_aggregate, stop, the drain).
LedgerKept ==
  [][/\ \A i \in Ids : sent[i].status \in Settled => sent'[i] = sent[i]
     /\ \A i \in Ids : sent[i].version <= version
     /\ version' # version => version' = version + 1 /\ time' < Deadline
     /\ pc' = "finished" =>
          \A i \in Ids : sent[i].status \in Settled \cup {"unaggregated"}]_vars

\* Every run stops at its deadline and drains, whatever still waits in a group
\* or is kept for a merge, or is ended by a failed call; until then and after it
\* the ledger is kept (FedCompassServer.fit, stop).
LedgerSettles == <>(pc \in {"finished", "raised"}) /\ LedgerKept
===============================================================================
