-------------------------- MODULE TrainingQueueProofs --------------------------
(***************************************************************************)
(* What TLC checks of TrainingQueue for two jobs and two controllers, for  *)
(* any number of them and for every configuration.  QueueInv is inductive: *)
(* one controller is ever past the claim (OneController), what it holds in *)
(* memory and what the file says differ in the job it is at (InTurn), and  *)
(* how far the processes of that job have come bounds what its directory   *)
(* can say (ChildTold), which rests on what a call that returned has       *)
(* written (CallTold).  RunInv, at the end, is the invariant of the calls  *)
(* themselves, for every configuration, memory and native pool.            *)
(***************************************************************************)
EXTENDS TrainingQueue, WellFoundedInduction, TLAPS

Early == {"announce", "read", "take", "start"}
Running == {"next", "launched", "watch", "judge", "save", "discard", "mark",
            "summarise"}
Inside == Early \cup Running \cup {"handler", "passed", "failed"}
Places == Inside \cup {"idle", "claim", "done", "dead"}
Live == Inner \cup {"boot", "inner0", "inner1"}
Texts == {"absent", "passed", "failed", "written", "partial"}

Statuses == {"prepared"} \cup Recorded \cup Outcomes
Queues == [status : Statuses,
           owner : Controllers \cup {None},
           jobs : [Plan -> {"pending", "running", "passed", "failed"}]]
Dirs == [result : {"absent", "running", "passed", "failed"}, summary : Texts,
         quality : BOOLEAN, test : BOOLEAN]

Typed ==
    /\ direct \in BOOLEAN
    /\ campaign \in {"prepared", "running", "passed", "failed"}
    /\ queue \in Queues /\ copy \in [Controllers -> Queues]
    /\ at \in [Controllers -> Places]
    /\ child \in Live \cup {"none", "exit0", "exit1", "stopped"}
    /\ child # "none" => job \in Plan
    /\ direct => child = "none"
    /\ dirs \in [Plan -> Dirs]
    /\ files \in [Reports -> Texts]

\* A call that returned has said so and holds nothing.
CallTold ==
    /\ pc = "verdict" => files["summary"] = files["validation"]
    /\ outcome = "returned" => pc \in {"cleanup", "ended"} /\ files["summary"] = "passed"
    /\ outcome = "returned" /\ pc = "ended" => ~ray

\* One controller gets past the claim of the campaign.
OneController ==
    /\ \A c, d \in Controllers : at[c] \in Inside /\ at[d] \in Inside => c = d
    /\ "campaign" \notin claims =>
           /\ campaign = "prepared" /\ queue.status = "prepared"
           /\ \A c \in Controllers : at[c] \notin Inside

Prepared ==
    queue.status = "prepared" =>
        /\ queue.owner = None /\ child = "none" /\ left = {}
        /\ \A j \in Plan : queue.jobs[j] = "pending"

\* It owns the queue, and holds it, from its claim to its outcome.
Owner(c) ==
    /\ at[c] \in Inside => campaign \in {"prepared", "running"}
    /\ at[c] \in Early => queue.status = "prepared"
    /\ at[c] \in {"take", "start"} => copy[c] = queue
    /\ at[c] \in Running =>
           /\ queue.owner = c /\ copy[c].owner = c
           /\ queue.status \in Recorded /\ copy[c].status \in Recorded

Untouched(j) == queue.jobs[j] \in {"pending", "passed"}

\* What it holds and what the file says differ in one job, and only while it is
\* between two saves.
InTurn(c) ==
    /\ at[c] \in {"next", "summarise"} =>
           copy[c].jobs = queue.jobs /\ \A j \in Plan : Untouched(j)
    /\ at[c] \in Running \ {"next", "summarise"} =>
           /\ job \in Plan
           /\ \A j \in Plan \ {job} : copy[c].jobs[j] = queue.jobs[j] /\ Untouched(j)
           /\ queue.jobs[job] = IF at[c] = "launched" THEN "pending" ELSE "running"
    /\ at[c] \in {"launched", "watch", "judge"} => copy[c].jobs[job] = "running"
    /\ at[c] = "save" => copy[c].jobs[job] = "passed"
    /\ at[c] \in {"discard", "mark"} => copy[c].jobs[job] = "failed"
    /\ at[c] \in Running \ {"launched", "watch"} => child \notin Live

\* What may have outlived its watch is of no job that is still to run or counts.
LeftBehind(c) ==
    /\ at[c] \in Running => \A j \in Plan : Untouched(j) => j \notin left
    /\ at[c] \in {"watch", "save"} => job \notin left
    /\ at[c] = "judge" /\ child = "exit0" => job \notin left

Directories(c) ==
    /\ at[c] = "save" => dirs[job] = Complete
    /\ at[c] = "mark" => dirs[job] = NoDirectory

Mine(c) == Owner(c) /\ InTurn(c) /\ LeftBehind(c) /\ Directories(c)

\* How far the processes of the last job have come.
ChildTold ==
    /\ child \in Live => queue.jobs[job] \in {"pending", "running"}
    /\ child \in {"checking", "testing", "receipt", "inner0", "exit0"} =>
           pc = "ended" /\ outcome = "returned"
    /\ child \in {"checking", "testing", "receipt", "inner0"} => dirs[job].summary = "passed"
    /\ child \in {"testing", "receipt", "inner0"} => dirs[job].quality
    /\ child \in {"receipt", "inner0"} => dirs[job].test
    /\ child = "inner0" => dirs[job].result = "passed"
    /\ child = "exit0" => dirs[job] \in {Complete, NoDirectory}

Counted == \A j \in Plan : queue.jobs[j] = "passed" => j \notin left

QueueInv ==
    /\ Typed /\ CallTold /\ OneController /\ Prepared /\ ChildTold /\ Counted
    /\ PassedEarned /\ JobsAlone
    /\ \A c \in Controllers : Mine(c)

\* Min is the least of the pending jobs.
LEMMA LeastPending ==
    ASSUME NEW S \in SUBSET Plan, S # {}
    PROVE  Min(S) \in S /\ \A y \in S : Min(S) <= y
<1> DEFINE less == {p \in Nat \X Nat : p[1] < p[2]}
<1>1. IsWellFoundedOn(less, Nat)
  BY NatLessThanWellFounded DEF OpToRel
<1>2. S \subseteq Nat
  BY QueueAssumption DEF Plan
<1>3. PICK x \in S : \A y \in S : ~ (<<y, x>> \in less)
  BY <1>1, <1>2, WFMin
<1>4. ASSUME NEW y \in S PROVE x <= y
  <2>1. <<y, x>> \in Nat \X Nat /\ ~ (<<y, x>>[1] < <<y, x>>[2])
    BY <1>2, <1>3
  <2> QED
    BY <1>2, <2>1
<1> QED
  BY <1>4 DEF Min

-----------------------------------------------------------------------------
(* A step of a controller that is past the claim: nobody else is, and what  *)
(* it may still do is all that is left of Mine.                             *)

LEMMA Alone ==
    ASSUME Typed, OneController, NEW c \in Controllers, at[c] \in Inside,
           NEW p, at' = [at EXCEPT ![c] = p], claims \subseteq claims',
           campaign' = campaign \/ "campaign" \in claims'
    PROVE  /\ at'[c] = p
           /\ \A d \in Controllers \ {c} : at'[d] = at[d] /\ at'[d] \notin Inside
           /\ OneController'
<1>1. at'[c] = p /\ \A d \in Controllers \ {c} : at'[d] = at[d] /\ at'[d] \notin Inside
  BY DEF Typed, OneController
<1>2. "campaign" \in claims
  BY DEF OneController
<1> QED
  BY <1>1, <1>2 DEF OneController

LEMMA Rest ==
    ASSUME NEW c \in Controllers, Mine(c)',
           \A d \in Controllers \ {c} : at'[d] \notin Inside
    PROVE  \A d \in Controllers : Mine(d)'
<1>1. ASSUME NEW d \in Controllers \ {c} PROVE Mine(d)'
  BY DEF Mine, Owner, InTurn, LeftBehind, Directories, Inside, Running, Early
<1> QED
  BY <1>1

\* Saves writes the whole copy with another status.
LEMMA SavesKeep ==
    ASSUME Typed, NEW c \in Controllers, NEW s \in Statuses,
           Saves(c, [copy[c] EXCEPT !.status = s])
    PROVE  /\ queue' \in Queues /\ copy' \in [Controllers -> Queues] /\ copy'[c] = queue'
           /\ queue'.status = s /\ queue'.owner = copy[c].owner /\ queue'.jobs = copy[c].jobs
<1>1. copy[c] \in Queues
  BY DEF Typed
<1>2. queue' = [copy[c] EXCEPT !.status = s] /\ copy' = [copy EXCEPT ![c] = queue']
  BY DEF Saves
<1>3. queue' \in Queues
  BY <1>1, <1>2 DEF Queues
<1> QED
  BY <1>1, <1>2, <1>3 DEF Typed, Queues

\* A job is marked in the copy only.
LEMMA MarksKeep ==
    ASSUME Typed, NEW c \in Controllers, NEW j, NEW v \in {"running", "passed", "failed"},
           copy' = [copy EXCEPT ![c].jobs[j] = v]
    PROVE  /\ copy' \in [Controllers -> Queues] /\ copy'[c].jobs = [copy[c].jobs EXCEPT ![j] = v]
           /\ copy'[c].owner = copy[c].owner /\ copy'[c].status = copy[c].status
<1>1. copy[c] \in Queues /\ copy \in [Controllers -> Queues]
  BY DEF Typed
<1>2. copy' = [copy EXCEPT ![c] = [copy[c] EXCEPT !.jobs = [copy[c].jobs EXCEPT ![j] = v]]]
  BY <1>1
<1>3. [copy[c] EXCEPT !.jobs = [copy[c].jobs EXCEPT ![j] = v]] \in Queues
  BY <1>1 DEF Queues
<1> QED
  BY <1>1, <1>2, <1>3 DEF Queues

-----------------------------------------------------------------------------
(* The steps of a controller, one lemma for each                            *)

\* A controller that gives up, or was refused, leaves everything as it was.
LEMMA StepsAside ==
    ASSUME QueueInv, NEW c \in Controllers, NEW p \in Places \ Inside,
           at' = [at EXCEPT ![c] = p], claims \subseteq claims',
           UNCHANGED <<vars, direct, campaign, queue, dirs, copy, job, child, left>>
    PROVE  QueueInv'
<1>1. Typed' /\ CallTold' /\ Prepared' /\ ChildTold' /\ Counted' /\ PassedEarned' /\ JobsAlone'
  BY DEF QueueInv, Typed, CallTold, Prepared, ChildTold, Counted, PassedEarned,
     JobsAlone, ChildLives, vars
<1>2. at'[c] \notin Inside /\ \A d \in Controllers \ {c} : at'[d] = at[d]
  BY DEF QueueInv, Typed
<1>3. OneController'
  BY <1>2 DEF QueueInv, OneController
<1>4. ASSUME NEW d \in Controllers PROVE Mine(d)'
  <2>1. CASE d = c
    BY <1>2, <2>1
       DEF Mine, Owner, InTurn, LeftBehind, Directories, Inside, Running, Early
  <2>2. CASE d # c
    <3>1. Mine(d) /\ at'[d] = at[d]
      BY <1>2, <2>2 DEF QueueInv
    <3>2. UNCHANGED <<campaign, queue, dirs, copy, job, child, left>>
      OBVIOUS
    <3> QED
      BY <3>1 DEF Mine, Owner, InTurn, LeftBehind, Directories, Untouched
  <2> QED
    BY <2>1, <2>2
<1> QED
  BY <1>1, <1>3, <1>4 DEF QueueInv

LEMMA OpenKeeps == ASSUME NEW c \in Controllers, QueueInv, Open(c) PROVE QueueInv'
<1>1. PICK p \in {"claim", "done"} : at' = [at EXCEPT ![c] = p]
  BY DEF Open, Goes
<1> QED
  BY <1>1, StepsAside DEF Open, records, Places, Inside, Early, Running

LEMMA DiesKeeps == ASSUME NEW c \in Controllers, QueueInv, Dies(c) PROVE QueueInv'
  BY StepsAside DEF Dies, records, Places, Inside, Early, Running

LEMMA CampaignClaimKeeps ==
    ASSUME NEW c \in Controllers, QueueInv,
           ClaimFile(c, "campaign", "claim", "announce", "done")
    PROVE  QueueInv'
<1>1. CASE "campaign" \in claims
  BY <1>1, StepsAside DEF ClaimFile, Goes, Places, Inside, Early, Running
<1>2. CASE "campaign" \notin claims
  <2>1. /\ at' = [at EXCEPT ![c] = "announce"] /\ "campaign" \in claims'
        /\ UNCHANGED <<vars, direct, campaign, queue, dirs, copy, job, child, left>>
    BY <1>2 DEF ClaimFile, Goes
  <2>2. /\ campaign = "prepared" /\ queue.status = "prepared"
        /\ \A d \in Controllers : at[d] \notin Inside
    BY <1>2 DEF QueueInv, OneController
  <2>3. at'[c] = "announce" /\ \A d \in Controllers \ {c} : at'[d] \notin Inside
    BY <2>1, <2>2 DEF QueueInv, Typed
  <2>4. Typed'
    BY <2>1 DEF QueueInv, Typed, vars, Places, Inside, Early
  <2>7. CallTold' /\ Prepared' /\ ChildTold' /\ Counted' /\ PassedEarned' /\ JobsAlone'
    BY <2>1
       DEF QueueInv, CallTold, Prepared, ChildTold, Counted, PassedEarned, JobsAlone,
           ChildLives, vars
  <2>5. OneController'
    BY <2>1, <2>3 DEF OneController
  <2>6. Mine(c)'
    BY <2>1, <2>2, <2>3 DEF Mine, Owner, InTurn, LeftBehind, Directories, Running
  <2> QED
    BY <2>3, <2>4, <2>5, <2>6, <2>7, Rest DEF QueueInv
<1> QED
  BY <1>1, <1>2

LEMMA AnnounceKeeps == ASSUME NEW c \in Controllers, QueueInv, Announce(c) PROVE QueueInv'
<1>1. /\ Typed /\ CallTold /\ OneController /\ Prepared
      /\ ChildTold /\ Counted /\ PassedEarned /\ JobsAlone
  BY DEF QueueInv
<1>2. Owner(c) /\ InTurn(c) /\ LeftBehind(c) /\ Directories(c)
  BY DEF QueueInv, Mine
<1>3. /\ at[c] \in Inside /\ at' = [at EXCEPT ![c] = at'[c]] /\ claims \subseteq claims'
  BY DEF Announce, Goes, Inside, Early
<1>4. OneController' /\ \A d \in Controllers \ {c} : at'[d] = at[d] /\ at'[d] \notin Inside
  BY <1>1, <1>3, Alone DEF OneController
<1>5. Typed'
  BY <1>1 DEF Typed, Announce, Places, Inside, Early, vars, Goes
<1>6. CallTold'
  BY <1>1 DEF CallTold, Announce, vars
<1>7. Prepared'
  BY <1>1 DEF Prepared, Announce
<1>8. Owner(c)'
  BY <1>2, <1>3 DEF Owner, Announce, Inside, Running, Goes
<1>9. InTurn(c)'
  BY DEF InTurn, Announce, Running, Goes
<1>10. LeftBehind(c)'
  BY DEF LeftBehind, Announce, Running, Goes
<1>11. Directories(c)'
  BY DEF Directories, Announce, Goes
<1>12. ChildTold'
  BY <1>1 DEF ChildTold, Announce, vars
<1>13. Counted'
  BY <1>1 DEF Counted, Announce
<1>14. PassedEarned'
  BY <1>1 DEF PassedEarned, Announce
<1>15. JobsAlone'
  BY <1>1 DEF JobsAlone, ChildLives, Announce
<1>16. Mine(c)'
  BY <1>8, <1>9, <1>10, <1>11 DEF Mine
<1> QED
  BY <1>4, <1>5, <1>6, <1>7, <1>12, <1>13, <1>14, <1>15, <1>16, Rest DEF QueueInv

LEMMA ReadKeeps == ASSUME NEW c \in Controllers, QueueInv, Read(c) PROVE QueueInv'
<1>1. /\ Typed /\ CallTold /\ OneController /\ Prepared
      /\ ChildTold /\ Counted /\ PassedEarned /\ JobsAlone
  BY DEF QueueInv
<1>2. Owner(c) /\ InTurn(c) /\ LeftBehind(c) /\ Directories(c)
  BY DEF QueueInv, Mine
<1>3. /\ at[c] \in Inside /\ at' = [at EXCEPT ![c] = at'[c]] /\ claims \subseteq claims'
  BY DEF Read, Goes, Inside, Early, records
<1>4. OneController' /\ \A d \in Controllers \ {c} : at'[d] = at[d] /\ at'[d] \notin Inside
  BY <1>1, <1>3, Alone DEF OneController
<1>5. Typed'
  BY <1>1 DEF Typed, Read, Places, Inside, Early, records, vars, Goes
<1>6. CallTold'
  BY <1>1 DEF CallTold, Read, vars
<1>7. Prepared'
  BY <1>1 DEF Prepared, Read, records
<1>8. Owner(c)'
  BY <1>1, <1>2, <1>3 DEF Owner, Typed, Read, Inside, Running, records, Goes
<1>9. InTurn(c)'
  BY DEF InTurn, Read, Running, Goes
<1>10. LeftBehind(c)'
  BY DEF LeftBehind, Read, Running, Goes
<1>11. Directories(c)'
  BY DEF Directories, Read, Goes
<1>12. ChildTold'
  BY <1>1 DEF ChildTold, Read, records, vars
<1>13. Counted'
  BY <1>1 DEF Counted, Read, records
<1>14. PassedEarned'
  BY <1>1 DEF PassedEarned, Read, records
<1>15. JobsAlone'
  BY <1>1 DEF JobsAlone, ChildLives, Read, records
<1>16. Mine(c)'
  BY <1>8, <1>9, <1>10, <1>11 DEF Mine
<1> QED
  BY <1>4, <1>5, <1>6, <1>7, <1>12, <1>13, <1>14, <1>15, <1>16, Rest DEF QueueInv

LEMMA RunQueueKeeps == ASSUME NEW c \in Controllers, QueueInv, RunQueue(c) PROVE QueueInv'
<1>1. /\ Typed /\ CallTold /\ OneController /\ Prepared
      /\ ChildTold /\ Counted /\ PassedEarned /\ JobsAlone
  BY DEF QueueInv
<1>2. Owner(c) /\ InTurn(c) /\ LeftBehind(c) /\ Directories(c)
  BY DEF QueueInv, Mine
<1>3. /\ at[c] \in Inside /\ at' = [at EXCEPT ![c] = at'[c]] /\ claims \subseteq claims'
  BY DEF RunQueue, Goes, Inside, Early
<1>4. OneController' /\ \A d \in Controllers \ {c} : at'[d] = at[d] /\ at'[d] \notin Inside
  BY <1>1, <1>3, Alone DEF OneController
<1>5. /\ queue' \in Queues /\ copy' \in [Controllers -> Queues] /\ copy'[c] = queue'
      /\ queue'.status = "running" /\ queue'.owner = c /\ queue'.jobs = queue.jobs
      /\ \A j \in Plan : queue.jobs[j] = "pending"
  BY <1>1, <1>2
     DEF RunQueue, Goes, Saves, Typed, Queues, Statuses, Recorded, Owner, Prepared,
         Early
<1>6. at'[c] = "next" /\ child = "none" /\ UNCHANGED <<campaign, dirs, child, job, left>>
  BY <1>1, <1>2 DEF RunQueue, Goes, Typed, Owner, Prepared, Early
<1>7. Typed'
  BY <1>1, <1>3, <1>5, <1>6 DEF Typed, RunQueue, Saves, Places, Inside, Running, vars
<1>8. CallTold'
  BY <1>1 DEF CallTold, RunQueue, vars
<1>9. Prepared'
  BY <1>5 DEF Prepared
<1>10. Owner(c)'
  BY <1>2, <1>3, <1>5, <1>6 DEF Owner, Early, Recorded
<1>11. InTurn(c)'
  BY <1>5, <1>6 DEF InTurn, Untouched, Live, Inner
<1>12. LeftBehind(c)'
  BY <1>1, <1>2 DEF LeftBehind, Owner, Prepared, RunQueue, Early, Goes
<1>13. Directories(c)'
  BY <1>6 DEF Directories
<1>14. ChildTold'
  BY <1>1, <1>5, <1>6 DEF ChildTold
<1>15. Counted'
  BY <1>5 DEF Counted
<1>16. PassedEarned'
  BY <1>2, <1>3, <1>5, <1>6 DEF PassedEarned, Owner
<1>17. JobsAlone'
  BY <1>6 DEF JobsAlone, ChildLives, Inner
<1>18. Mine(c)'
  BY <1>10, <1>11, <1>12, <1>13 DEF Mine
<1> QED
  BY <1>4, <1>7, <1>8, <1>9, <1>14, <1>15, <1>16, <1>17, <1>18, Rest DEF QueueInv

LEMMA RecordKeeps == ASSUME NEW c \in Controllers, QueueInv, Record(c) PROVE QueueInv'
<1>1. /\ Typed /\ CallTold /\ OneController /\ Prepared
      /\ ChildTold /\ Counted /\ PassedEarned /\ JobsAlone
  BY DEF QueueInv
<1>2. Owner(c) /\ InTurn(c) /\ LeftBehind(c) /\ Directories(c)
  BY DEF QueueInv, Mine
<1>3. /\ at[c] \in Inside /\ at' = [at EXCEPT ![c] = at'[c]] /\ claims \subseteq claims'
  BY DEF Record, Goes, Inside, Running
<1>4. OneController' /\ \A d \in Controllers \ {c} : at'[d] = at[d] /\ at'[d] \notin Inside
  BY <1>1, <1>3, Alone DEF OneController
<1>5. \A j \in 1..(job - 1) : j \in Plan \ {job}
  BY <1>2, QueueAssumption DEF Record, Goes, InTurn, Running, Plan
<1>6. Typed'
  BY <1>1 DEF Typed, Record, Places, Inside, Running, vars, Goes
<1>7. CallTold'
  BY <1>1 DEF CallTold, Record, vars
<1>8. Prepared'
  BY <1>2, <1>3 DEF Prepared, Owner, Record, Inside, Early, Recorded, Goes
<1>9. Owner(c)'
  BY <1>2, <1>3 DEF Owner, Record, Inside, Early, Goes
<1>10. InTurn(c)'
  BY <1>1, <1>2, <1>3 DEF InTurn, Typed, Untouched, Record, Inside, Early, Goes
<1>11. LeftBehind(c)'
  BY <1>1, <1>2, <1>3
     DEF LeftBehind, InTurn, Untouched, Owner, Prepared, Record, Inside, Goes
<1>12. Directories(c)'
  BY DEF Directories, Record, Goes
<1>13. ChildTold'
  BY <1>1, <1>2 DEF ChildTold, InTurn, Record, vars, Goes
<1>14. Counted'
  BY <1>2, <1>3 DEF Counted, InTurn, LeftBehind, Record, Inside, Early, Goes
<1>15. PassedEarned'
  BY <1>1, <1>2
     DEF PassedEarned, Typed, InTurn, Owner, Record, Places, Inside, Early, Recorded,
         Goes
<1>16. JobsAlone'
  BY <1>1, <1>2, <1>5 DEF JobsAlone, InTurn, Record, Goes, Running, ChildLives
<1>17. Mine(c)'
  BY <1>9, <1>10, <1>11, <1>12 DEF Mine
<1> QED
  BY <1>4, <1>6, <1>7, <1>8, <1>13, <1>14, <1>15, <1>16, <1>17, Rest DEF QueueInv

LEMMA ChangedKeeps == ASSUME NEW c \in Controllers, QueueInv, Changed(c) PROVE QueueInv'
<1>1. /\ Typed /\ CallTold /\ OneController /\ Prepared
      /\ ChildTold /\ Counted /\ PassedEarned /\ JobsAlone
  BY DEF QueueInv
<1>2. Owner(c) /\ InTurn(c) /\ LeftBehind(c) /\ Directories(c)
  BY DEF QueueInv, Mine
<1>3. /\ at[c] \in Inside /\ at' = [at EXCEPT ![c] = at'[c]] /\ claims \subseteq claims'
  BY DEF Changed, Goes, Inside, Running
<1>4. OneController' /\ \A d \in Controllers \ {c} : at'[d] = at[d] /\ at'[d] \notin Inside
  BY <1>1, <1>3, Alone DEF OneController
<1>5. /\ queue' \in Queues /\ copy' \in [Controllers -> Queues] /\ copy'[c] = queue'
      /\ queue'.status = "failed" /\ queue'.owner = copy[c].owner /\ queue'.jobs = copy[c].jobs
  BY <1>1, SavesKeep DEF Changed, Statuses, Outcomes
<1>6. at[c] = "next" /\ at'[c] = "failed" /\ UNCHANGED <<campaign, dirs, child, job, left>>
  BY <1>1 DEF Changed, Goes, Typed
<1>7. Typed'
  BY <1>1, <1>5 DEF Typed, Changed, Places, Inside, vars, Goes
<1>8. CallTold'
  BY <1>1 DEF CallTold, Changed, vars
<1>9. Prepared'
  BY <1>5 DEF Prepared
<1>10. Owner(c)'
  BY <1>2, <1>3, <1>6 DEF Owner, Early, Running
<1>11. InTurn(c)'
  BY <1>6 DEF InTurn, Running
<1>12. LeftBehind(c)'
  BY <1>6 DEF LeftBehind, Running
<1>13. Directories(c)'
  BY <1>6 DEF Directories
<1>14. ChildTold'
  BY <1>1, <1>2 DEF ChildTold, InTurn, Changed, Saves, vars, Goes
<1>15. Counted'
  BY <1>1, <1>2, <1>5, <1>6 DEF Counted, InTurn
<1>16. PassedEarned'
  BY <1>1, <1>2, <1>5, <1>6 DEF PassedEarned, InTurn, Running, Inside, Owner
<1>17. JobsAlone'
  BY <1>1, <1>2, <1>5, <1>6 DEF JobsAlone, InTurn, ChildLives
<1>18. Mine(c)'
  BY <1>10, <1>11, <1>12, <1>13 DEF Mine
<1> QED
  BY <1>4, <1>7, <1>8, <1>9, <1>14, <1>15, <1>16, <1>17, <1>18, Rest DEF QueueInv

LEMMA WatchedKeeps == ASSUME NEW c \in Controllers, QueueInv, Watched(c) PROVE QueueInv'
<1>1. /\ Typed /\ CallTold /\ OneController /\ Prepared
      /\ ChildTold /\ Counted /\ PassedEarned /\ JobsAlone
  BY DEF QueueInv
<1>2. Owner(c) /\ InTurn(c) /\ LeftBehind(c) /\ Directories(c)
  BY DEF QueueInv, Mine
<1>3. /\ at[c] \in Inside /\ at' = [at EXCEPT ![c] = at'[c]] /\ claims \subseteq claims'
  BY DEF Watched, Goes, Inside, Running, records
<1>4. OneController' /\ \A d \in Controllers \ {c} : at'[d] = at[d] /\ at'[d] \notin Inside
  BY <1>1, <1>3, Alone DEF OneController
<1>5. left' \subseteq left \cup {job}
  BY DEF Watched
<1>6. child' = "exit0" => left' = left
  BY <1>1 DEF Watched, ChildTold, CallTold
<1>7. /\ at[c] = "watch" /\ at'[c] = "judge" /\ UNCHANGED <<queue, copy, job>>
      /\ child' \in {"exit0", "exit1", "stopped"}
      /\ queue.jobs[job] = "running" /\ job \notin left
  BY <1>1, <1>2 DEF Watched, Goes, Typed, InTurn, LeftBehind, Running, records
<1>8. Typed'
  BY <1>1
     DEF Typed, Watched, ChildLives, Places, Inside, Running, Inner, records, vars, Goes
<1>9. CallTold'
  BY <1>1 DEF CallTold, Watched, vars
<1>10. Prepared'
  BY <1>2, <1>3, <1>7 DEF Prepared, Owner, Inside, Early, Recorded
<1>11. Owner(c)'
  BY <1>2, <1>3, <1>7 DEF Owner, Watched, Inside, Early, records
<1>12. InTurn(c)'
  BY <1>2, <1>7 DEF InTurn, Untouched, Running, Live, Inner
<1>13. LeftBehind(c)'
  <2>1. (\A j \in Plan : Untouched(j) => j \notin left)'
    BY <1>2, <1>5, <1>7 DEF LeftBehind, Untouched, Running
  <2> QED
    BY <1>5, <1>6, <1>7, <2>1 DEF LeftBehind
<1>14. Directories(c)'
  BY <1>7 DEF Directories
<1>15. ChildTold'
  BY <1>1, <1>7 DEF ChildTold, Watched, records, vars
<1>16. Counted'
  BY <1>1, <1>5, <1>7 DEF Counted
<1>17. PassedEarned'
  BY <1>1 DEF PassedEarned, Watched, records
<1>18. JobsAlone'
  BY <1>7 DEF JobsAlone, ChildLives, Inner
<1>19. Mine(c)'
  BY <1>11, <1>12, <1>13, <1>14 DEF Mine
<1> QED
  BY <1>4, <1>8, <1>9, <1>10, <1>15, <1>16, <1>17, <1>18, <1>19, Rest DEF QueueInv

LEMMA VerdictsKeeps == ASSUME NEW c \in Controllers, QueueInv, Verdicts(c) PROVE QueueInv'
<1>1. /\ Typed /\ CallTold /\ OneController /\ Prepared
      /\ ChildTold /\ Counted /\ PassedEarned /\ JobsAlone
  BY DEF QueueInv
<1>2. Owner(c) /\ InTurn(c) /\ LeftBehind(c) /\ Directories(c)
  BY DEF QueueInv, Mine
<1>3. /\ at[c] \in Inside /\ at' = [at EXCEPT ![c] = at'[c]] /\ claims \subseteq claims'
  BY DEF Verdicts, Goes, Inside, Running, records
<1>4. OneController' /\ \A d \in Controllers \ {c} : at'[d] = at[d] /\ at'[d] \notin Inside
  BY <1>1, <1>3, Alone DEF OneController
<1>5. PICK v \in {"passed", "failed"} :
         /\ copy' = [copy EXCEPT ![c].jobs[job] = v]
         /\ at[c] = "judge" /\ at' = [at EXCEPT ![c] = IF v = "passed" THEN "save" ELSE "discard"]
         /\ v = "passed" => \E b \in BOOLEAN : Earned(b)
  BY DEF Verdicts, Goes
<1>6. /\ copy' \in [Controllers -> Queues]
      /\ copy'[c].jobs = [copy[c].jobs EXCEPT ![job] = v]
      /\ copy'[c].owner = copy[c].owner /\ copy'[c].status = copy[c].status
  <2>1. copy[c] \in Queues /\ copy \in [Controllers -> Queues]
    BY <1>1 DEF Typed
  <2>2. [copy[c] EXCEPT !.jobs = [copy[c].jobs EXCEPT ![job] = v]] \in Queues
    BY <2>1 DEF Queues
  <2> QED
    BY <1>5, <2>1, <2>2 DEF Queues
<1>7. /\ at'[c] = IF v = "passed" THEN "save" ELSE "discard"
      /\ UNCHANGED <<campaign, queue, dirs, job, child, left>>
  BY <1>1, <1>5 DEF Verdicts, Typed, records
<1>8. v = "passed" => child = "exit0" /\ dirs[job] = Complete
  <2>1. SUFFICES ASSUME v = "passed" PROVE child = "exit0" /\ dirs[job] = Complete
    OBVIOUS
  <2>2. child = "exit0" /\ dirs[job].quality
    BY <1>5, <2>1 DEF Earned
  <2>3. dirs[job] \in {Complete, NoDirectory} /\ ~ NoDirectory.quality
    BY <1>1, <2>2 DEF ChildTold, NoDirectory
  <2> QED
    BY <2>2, <2>3
<1>9. Typed'
  BY <1>1, <1>6, <1>7
     DEF Typed, Verdicts, Earned, Places, Inside, Running, Recorded, Outcomes, vars,
         Goes
<1>10. CallTold'
  BY <1>1 DEF CallTold, Verdicts, vars
<1>11. Prepared'
  BY <1>1, <1>7 DEF Prepared
<1>12. Owner(c)'
  BY <1>2, <1>3, <1>5, <1>7 DEF Owner, Inside, Early
<1>13. InTurn(c)'
  BY <1>2, <1>5, <1>6, <1>7 DEF InTurn, Untouched, Queues, Running
<1>14. LeftBehind(c)'
  <2>1. (\A j \in Plan : Untouched(j) => j \notin left)'
    BY <1>2, <1>5, <1>7 DEF LeftBehind, Untouched, Running
  <2>2. at'[c] = "save" => job' \notin left'
    BY <1>2, <1>5, <1>7, <1>8 DEF LeftBehind
  <2> QED
    BY <1>7, <2>1, <2>2 DEF LeftBehind
<1>15. Directories(c)'
  BY <1>7, <1>8 DEF Directories
<1>16. ChildTold'
  BY <1>1, <1>7 DEF ChildTold, Verdicts, vars
<1>17. Counted'
  BY <1>1, <1>7 DEF Counted
<1>18. PassedEarned'
  BY <1>1, <1>7 DEF PassedEarned
<1>19. JobsAlone'
  BY <1>1, <1>7 DEF JobsAlone, ChildLives
<1>20. Mine(c)'
  BY <1>12, <1>13, <1>14, <1>15 DEF Mine
<1> QED
  BY <1>4, <1>9, <1>10, <1>11, <1>16, <1>17, <1>18, <1>19, <1>20, Rest DEF QueueInv

LEMMA SaveKeeps == ASSUME NEW c \in Controllers, QueueInv, Save(c) PROVE QueueInv'
<1>1. /\ Typed /\ CallTold /\ OneController /\ Prepared
      /\ ChildTold /\ Counted /\ PassedEarned /\ JobsAlone
  BY DEF QueueInv
<1>2. Owner(c) /\ InTurn(c) /\ LeftBehind(c) /\ Directories(c)
  BY DEF QueueInv, Mine
<1>3. /\ at[c] \in Inside /\ at' = [at EXCEPT ![c] = at'[c]] /\ claims \subseteq claims'
  BY DEF Save, Goes, Inside, Running
<1>4. OneController' /\ \A d \in Controllers \ {c} : at'[d] = at[d] /\ at'[d] \notin Inside
  BY <1>1, <1>3, Alone DEF OneController
<1>5. Typed'
  BY <1>1 DEF Typed, Save, Places, Inside, Running, vars, Goes
<1>6. CallTold'
  BY <1>1 DEF CallTold, Save, vars
<1>7. Prepared'
  BY <1>2, <1>3 DEF Prepared, Owner, Save, Inside, Early, Recorded, Goes
<1>8. Owner(c)'
  BY <1>2, <1>3 DEF Owner, Save, Inside, Early, Goes
<1>9. InTurn(c)'
  BY <1>1, <1>2, <1>3 DEF InTurn, Typed, Untouched, Save, Inside, Early, Goes
<1>10. LeftBehind(c)'
  BY <1>2, <1>3 DEF LeftBehind, InTurn, Save, Inside, Early, Goes
<1>11. Directories(c)'
  BY <1>2 DEF Directories, Save, Goes
<1>12. ChildTold'
  BY <1>1, <1>2, <1>3 DEF ChildTold, InTurn, Save, Inside, Early, vars, Goes
<1>13. Counted'
  BY <1>1, <1>2, <1>3
     DEF Counted, InTurn, LeftBehind, Owner, Prepared, Save, Inside, Goes
<1>14. PassedEarned'
  BY <1>1, <1>2, <1>3
     DEF PassedEarned, InTurn, Directories, Owner, Save, Inside, Early, Recorded, Goes
<1>15. JobsAlone'
  BY <1>1, <1>2, <1>3
     DEF JobsAlone, Typed, InTurn, ChildLives, Inner, Owner, Prepared, Save, Inside,
         Goes
<1>16. Mine(c)'
  BY <1>8, <1>9, <1>10, <1>11 DEF Mine
<1> QED
  BY <1>4, <1>5, <1>6, <1>7, <1>12, <1>13, <1>14, <1>15, <1>16, Rest DEF QueueInv

LEMMA DiscardKeeps == ASSUME NEW c \in Controllers, QueueInv, Discard(c) PROVE QueueInv'
<1>1. /\ Typed /\ CallTold /\ OneController /\ Prepared
      /\ ChildTold /\ Counted /\ PassedEarned /\ JobsAlone
  BY DEF QueueInv
<1>2. Owner(c) /\ InTurn(c) /\ LeftBehind(c) /\ Directories(c)
  BY DEF QueueInv, Mine
<1>3. /\ at[c] \in Inside /\ at' = [at EXCEPT ![c] = at'[c]] /\ claims \subseteq claims'
  BY DEF Discard, Goes, Inside, Running
<1>4. OneController' /\ \A d \in Controllers \ {c} : at'[d] = at[d] /\ at'[d] \notin Inside
  BY <1>1, <1>3, Alone DEF OneController
<1>5. NoDirectory \in Dirs
  BY DEF NoDirectory, Dirs, Texts
<1>6. Typed'
  BY <1>1, <1>5 DEF Typed, Discard, Goes, Inside, Places, vars, Running
<1>7. CallTold'
  BY <1>1 DEF CallTold, Discard, vars
<1>8. Prepared'
  BY <1>1 DEF Prepared, Discard
<1>9. Owner(c)'
  BY <1>1, <1>2 DEF Owner, Typed, Discard, Places, Inside, Early, Goes
<1>10. InTurn(c)'
  BY <1>2, <1>3 DEF InTurn, Untouched, Discard, Inside, Early, Goes
<1>11. LeftBehind(c)'
  BY <1>2 DEF LeftBehind, Untouched, Discard, Running, Goes
<1>12. Directories(c)'
  BY <1>1, <1>2, <1>3 DEF Directories, Typed, InTurn, Discard, Inside, Early, Goes
<1>13. ChildTold'
  BY <1>1, <1>2, <1>3
     DEF ChildTold, Typed, InTurn, Owner, Prepared, Discard, Inside, vars, Goes
<1>14. Counted'
  BY <1>1 DEF Counted, Discard
<1>15. PassedEarned'
  BY <1>1, <1>2, <1>3 DEF PassedEarned, InTurn, Discard, Inside, Early, Goes
<1>16. JobsAlone'
  BY <1>1 DEF JobsAlone, ChildLives, Discard
<1>17. Mine(c)'
  BY <1>9, <1>10, <1>11, <1>12 DEF Mine
<1> QED
  BY <1>4, <1>6, <1>7, <1>8, <1>13, <1>14, <1>15, <1>16, <1>17, Rest DEF QueueInv

LEMMA StopKeeps == ASSUME NEW c \in Controllers, QueueInv, Stop(c) PROVE QueueInv'
<1>1. /\ Typed /\ CallTold /\ OneController /\ Prepared
      /\ ChildTold /\ Counted /\ PassedEarned /\ JobsAlone
  BY DEF QueueInv
<1>2. Owner(c) /\ InTurn(c) /\ LeftBehind(c) /\ Directories(c)
  BY DEF QueueInv, Mine
<1>3. /\ at[c] \in Inside /\ at' = [at EXCEPT ![c] = at'[c]] /\ claims \subseteq claims'
  BY DEF Stop, Goes, Inside, Running
<1>4. OneController' /\ \A d \in Controllers \ {c} : at'[d] = at[d] /\ at'[d] \notin Inside
  BY <1>1, <1>3, Alone DEF OneController
<1>5. /\ queue' \in Queues /\ copy' \in [Controllers -> Queues] /\ copy'[c] = queue'
      /\ queue'.status = "failed" /\ queue'.owner = copy[c].owner /\ queue'.jobs = copy[c].jobs
  BY <1>1, SavesKeep DEF Stop, Statuses, Outcomes
<1>6. at[c] = "mark" /\ at'[c] = "failed" /\ UNCHANGED <<campaign, dirs, child, job, left>>
  BY <1>1 DEF Stop, Goes, Typed
<1>7. Typed'
  BY <1>1, <1>3, <1>5, <1>6 DEF Typed, Stop, Saves, Places, Inside, vars
<1>8. CallTold'
  BY <1>1 DEF CallTold, Stop, vars
<1>9. Prepared'
  BY <1>5 DEF Prepared
<1>10. Owner(c)'
  BY <1>2, <1>3, <1>6 DEF Owner, Early, Running
<1>11. InTurn(c)'
  BY <1>6 DEF InTurn, Running
<1>12. LeftBehind(c)'
  BY <1>6 DEF LeftBehind, Running
<1>13. Directories(c)'
  BY <1>6 DEF Directories
<1>14. ChildTold'
  BY <1>1, <1>2, <1>6 DEF ChildTold, InTurn, Stop, Running, vars
<1>15. Counted'
  BY <1>2, <1>5, <1>6 DEF Counted, InTurn, LeftBehind, Running
<1>16. PassedEarned'
  BY <1>1, <1>2, <1>5, <1>6 DEF PassedEarned, InTurn, Running, Directories
<1>17. JobsAlone'
  BY <1>2, <1>6 DEF JobsAlone, InTurn, ChildLives, Live, Running
<1>18. Mine(c)'
  BY <1>10, <1>11, <1>12, <1>13 DEF Mine
<1> QED
  BY <1>4, <1>7, <1>8, <1>9, <1>14, <1>15, <1>16, <1>17, <1>18, Rest DEF QueueInv

LEMMA ValidateKeeps == ASSUME NEW c \in Controllers, QueueInv, Validate(c) PROVE QueueInv'
<1>1. /\ Typed /\ CallTold /\ OneController /\ Prepared
      /\ ChildTold /\ Counted /\ PassedEarned /\ JobsAlone
  BY DEF QueueInv
<1>2. Owner(c) /\ InTurn(c) /\ LeftBehind(c) /\ Directories(c)
  BY DEF QueueInv, Mine
<1>3. /\ at[c] \in Inside /\ at' = [at EXCEPT ![c] = at'[c]] /\ claims \subseteq claims'
  BY DEF Validate, Goes, Inside, Running
<1>4. OneController' /\ \A d \in Controllers \ {c} : at'[d] = at[d] /\ at'[d] \notin Inside
  BY <1>1, <1>3, Alone DEF OneController
<1>5. /\ queue' \in Queues /\ copy' \in [Controllers -> Queues] /\ copy'[c] = queue'
      /\ queue'.status = "validating_results" /\ queue'.owner = copy[c].owner
      /\ queue'.jobs = copy[c].jobs
  BY <1>1, SavesKeep DEF Validate, Statuses, Recorded
<1>6. at[c] = "next" /\ at'[c] = "summarise" /\ UNCHANGED <<campaign, dirs, child, job, left>>
  BY <1>1 DEF Validate, Goes, Typed
<1>7. Typed'
  BY <1>1, <1>5 DEF Typed, Validate, Places, Inside, Running, vars, Goes
<1>8. CallTold'
  BY <1>1 DEF CallTold, Validate, vars
<1>9. Prepared'
  BY <1>5 DEF Prepared
<1>10. Owner(c)'
  BY <1>2, <1>3, <1>5, <1>6 DEF Owner, Early, Running, Recorded
<1>11. InTurn(c)'
  BY <1>2, <1>3, <1>5, <1>6 DEF InTurn, Untouched, Inside, Early
<1>12. LeftBehind(c)'
  BY <1>2, <1>6 DEF LeftBehind, InTurn, Running
<1>13. Directories(c)'
  BY <1>6 DEF Directories
<1>14. ChildTold'
  BY <1>1, <1>2 DEF ChildTold, InTurn, Validate, Saves, vars, Goes
<1>15. Counted'
  BY <1>1, <1>2, <1>5, <1>6 DEF Counted, InTurn
<1>16. PassedEarned'
  BY <1>1, <1>2, <1>5, <1>6 DEF PassedEarned, InTurn, Running, Inside, Owner
<1>17. JobsAlone'
  BY <1>1, <1>2, <1>5, <1>6 DEF JobsAlone, InTurn, ChildLives
<1>18. Mine(c)'
  BY <1>10, <1>11, <1>12, <1>13 DEF Mine
<1> QED
  BY <1>4, <1>7, <1>8, <1>9, <1>14, <1>15, <1>16, <1>17, <1>18, Rest DEF QueueInv

LEMMA SummariseQueueKeeps ==
    ASSUME NEW c \in Controllers, QueueInv, SummariseQueue(c)
    PROVE  QueueInv'
<1>1. /\ Typed /\ CallTold /\ OneController /\ Prepared
      /\ ChildTold /\ Counted /\ PassedEarned /\ JobsAlone
  BY DEF QueueInv
<1>2. Owner(c) /\ InTurn(c) /\ LeftBehind(c) /\ Directories(c)
  BY DEF QueueInv, Mine
<1>3. /\ at[c] \in Inside /\ at' = [at EXCEPT ![c] = at'[c]] /\ claims \subseteq claims'
  BY DEF SummariseQueue, Goes, Inside, Running
<1>4. OneController' /\ \A d \in Controllers \ {c} : at'[d] = at[d] /\ at'[d] \notin Inside
  BY <1>1, <1>3, Alone DEF OneController
<1>5. PICK s \in {"passed", "incomplete"} :
         /\ Saves(c, [copy[c] EXCEPT !.status = s])
         /\ s = "passed" => \A j \in Plan : copy[c].jobs[j] = "passed"
         /\ at'[c] = IF s = "passed" THEN "passed" ELSE "failed"
  BY <1>1 DEF SummariseQueue, Goes, Typed
<1>6. /\ queue' \in Queues /\ copy' \in [Controllers -> Queues] /\ copy'[c] = queue'
      /\ queue'.status = s /\ queue'.owner = copy[c].owner /\ queue'.jobs = copy[c].jobs
  BY <1>1, <1>5, SavesKeep DEF Statuses, Outcomes
<1>7. at[c] = "summarise" /\ UNCHANGED <<campaign, dirs, child, job, left>>
  BY DEF SummariseQueue, Goes
<1>8. Typed'
  <2>1. at'[c] \in Places
    BY <1>5 DEF Places, Inside
  <2>2. at' \in [Controllers -> Places]
    BY <1>1, <1>3, <2>1 DEF Typed
  <2>3. UNCHANGED <<direct, campaign, dirs, job, child, files>>
    BY DEF SummariseQueue, vars
  <2> QED BY <1>1, <1>6, <2>2, <2>3 DEF Typed
<1>9. CallTold'
  BY <1>1 DEF CallTold, SummariseQueue, vars
<1>10. Prepared'
  BY <1>6 DEF Prepared
<1>11. Owner(c)'
  BY <1>2, <1>3, <1>5, <1>7 DEF Owner, Early, Running
<1>12. InTurn(c)'
  BY <1>5 DEF InTurn, Running
<1>13. LeftBehind(c)'
  BY <1>5 DEF LeftBehind, Running
<1>14. Directories(c)'
  BY <1>5 DEF Directories
<1>15. ChildTold'
  BY <1>1, <1>2, <1>7 DEF ChildTold, Typed, Queues, InTurn, SummariseQueue, Saves, vars
<1>16. Counted'
  BY <1>1, <1>2, <1>6, <1>7 DEF Counted, InTurn
<1>17. PassedEarned'
  BY <1>1, <1>2, <1>3, <1>5, <1>6, <1>7 DEF PassedEarned, InTurn, Owner
<1>18. JobsAlone'
  BY <1>1, <1>2, <1>6, <1>7 DEF JobsAlone, InTurn, ChildLives
<1>19. Mine(c)'
  BY <1>11, <1>12, <1>13, <1>14 DEF Mine
<1> QED
  BY <1>4, <1>8, <1>9, <1>10, <1>15, <1>16, <1>17, <1>18, <1>19, Rest DEF QueueInv

LEMMA RaisesKeeps == ASSUME NEW c \in Controllers, QueueInv, Raises(c) PROVE QueueInv'
<1>1. /\ Typed /\ CallTold /\ OneController /\ Prepared
      /\ ChildTold /\ Counted /\ PassedEarned /\ JobsAlone
  BY DEF QueueInv
<1>2. Owner(c) /\ InTurn(c) /\ LeftBehind(c) /\ Directories(c)
  BY DEF QueueInv, Mine
<1>3. /\ at[c] \in Inside /\ at' = [at EXCEPT ![c] = at'[c]] /\ claims \subseteq claims'
  BY DEF Raises, Inside, Running, Early, records
<1>4. OneController' /\ \A d \in Controllers \ {c} : at'[d] = at[d] /\ at'[d] \notin Inside
  BY <1>1, <1>3, Alone DEF OneController
<1>5. Typed'
  BY <1>1 DEF Typed, Raises, Places, Inside, records, vars
<1>6. CallTold'
  BY <1>1 DEF CallTold, Raises, vars
<1>7. Prepared'
  BY <1>1 DEF Prepared, Raises, records
<1>8. Owner(c)'
  BY <1>2, <1>3 DEF Owner, Raises, Early, Running, records
<1>9. InTurn(c)'
  BY <1>1 DEF InTurn, Typed, Raises, Running
<1>10. LeftBehind(c)'
  BY <1>2 DEF LeftBehind, Untouched, Raises, Running, records
<1>11. Directories(c)'
  BY <1>1 DEF Directories, Typed, Raises
<1>12. ChildTold'
  BY <1>1 DEF ChildTold, Raises, records, vars
<1>13. Counted'
  BY <1>1 DEF Counted, Raises, records
<1>14. PassedEarned'
  BY <1>1 DEF PassedEarned, Raises, records
<1>15. JobsAlone'
  BY <1>1 DEF JobsAlone, ChildLives, Raises, records
<1>16. Mine(c)'
  BY <1>8, <1>9, <1>10, <1>11 DEF Mine
<1> QED
  BY <1>4, <1>5, <1>6, <1>7, <1>12, <1>13, <1>14, <1>15, <1>16, Rest DEF QueueInv

LEMMA PreserveKeeps == ASSUME NEW c \in Controllers, QueueInv, Preserve(c) PROVE QueueInv'
<1>1. /\ Typed /\ CallTold /\ OneController /\ Prepared
      /\ ChildTold /\ Counted /\ PassedEarned /\ JobsAlone
  BY DEF QueueInv
<1>2. Owner(c) /\ InTurn(c) /\ LeftBehind(c) /\ Directories(c)
  BY DEF QueueInv, Mine
<1>3. /\ at[c] \in Inside /\ at' = [at EXCEPT ![c] = at'[c]] /\ claims \subseteq claims'
  BY DEF Preserve, Goes, Inside
<1>4. OneController' /\ \A d \in Controllers \ {c} : at'[d] = at[d] /\ at'[d] \notin Inside
  BY <1>1, <1>3, Alone DEF OneController
<1>5. Typed'
  BY <1>1 DEF Typed, Queues, Statuses, Preserve, Places, Inside, Outcomes, vars, Goes
<1>6. CallTold'
  BY <1>1 DEF CallTold, Preserve, vars
<1>7. Prepared'
  BY <1>1 DEF Prepared, Preserve
<1>8. Owner(c)'
  BY <1>2, <1>3 DEF Owner, Preserve, Early, Running, Goes
<1>9. InTurn(c)'
  BY DEF InTurn, Preserve, Running, Goes
<1>10. LeftBehind(c)'
  BY DEF LeftBehind, Preserve, Running, Goes
<1>11. Directories(c)'
  BY DEF Directories, Preserve, Goes
<1>12. ChildTold'
  BY <1>1 DEF ChildTold, Preserve, vars
<1>13. Counted'
  BY <1>1 DEF Counted, Preserve
<1>14. PassedEarned'
  BY <1>1, <1>2, <1>3 DEF PassedEarned, Owner, Preserve
<1>15. JobsAlone'
  BY <1>1 DEF JobsAlone, ChildLives, Preserve
<1>16. Mine(c)'
  BY <1>8, <1>9, <1>10, <1>11 DEF Mine
<1> QED
  BY <1>4, <1>5, <1>6, <1>7, <1>12, <1>13, <1>14, <1>15, <1>16, Rest DEF QueueInv

LEMMA CloseKeeps == ASSUME NEW c \in Controllers, QueueInv, Close(c) PROVE QueueInv'
<1>1. /\ Typed /\ CallTold /\ OneController /\ Prepared
      /\ ChildTold /\ Counted /\ PassedEarned /\ JobsAlone
  BY DEF QueueInv
<1>2. Owner(c) /\ InTurn(c) /\ LeftBehind(c) /\ Directories(c)
  BY DEF QueueInv, Mine
<1>3. /\ at[c] \in Inside /\ at' = [at EXCEPT ![c] = at'[c]] /\ claims \subseteq claims'
  BY DEF Close, Goes, Inside
<1>4. OneController' /\ \A d \in Controllers \ {c} : at'[d] = at[d] /\ at'[d] \notin Inside
  BY <1>1, <1>3, Alone DEF OneController
<1>5. Typed'
  BY <1>1 DEF Typed, Close, Places, vars, Goes
<1>6. CallTold'
  BY <1>1 DEF CallTold, Close, vars
<1>7. Prepared'
  BY <1>1 DEF Prepared, Close
<1>8. Owner(c)'
  BY <1>1 DEF Owner, Typed, Close, Inside, Early, Running, Goes
<1>9. InTurn(c)'
  BY DEF InTurn, Close, Running, Goes
<1>10. LeftBehind(c)'
  BY DEF LeftBehind, Close, Running, Goes
<1>11. Directories(c)'
  BY DEF Directories, Close, Goes
<1>12. ChildTold'
  BY <1>1 DEF ChildTold, Close, vars
<1>13. Counted'
  BY <1>1 DEF Counted, Close
<1>14. PassedEarned'
  BY <1>1 DEF PassedEarned, Close
<1>15. JobsAlone'
  BY <1>1 DEF JobsAlone, ChildLives, Close
<1>16. Mine(c)'
  BY <1>8, <1>9, <1>10, <1>11 DEF Mine
<1> QED
  BY <1>4, <1>5, <1>6, <1>7, <1>12, <1>13, <1>14, <1>15, <1>16, Rest DEF QueueInv

LEMMA QueueClaimKeeps ==
    ASSUME NEW c \in Controllers, QueueInv,
           ClaimFile(c, "queue", "take", "start", "handler")
    PROVE  QueueInv'
<1>1. /\ Typed /\ CallTold /\ OneController /\ Prepared
      /\ ChildTold /\ Counted /\ PassedEarned /\ JobsAlone
  BY DEF QueueInv
<1>2. Owner(c) /\ InTurn(c) /\ LeftBehind(c) /\ Directories(c)
  BY DEF QueueInv, Mine
<1>3. /\ at[c] \in Inside /\ at' = [at EXCEPT ![c] = at'[c]] /\ claims \subseteq claims'
  BY DEF ClaimFile, Goes, Inside, Early
<1>4. OneController' /\ \A d \in Controllers \ {c} : at'[d] = at[d] /\ at'[d] \notin Inside
  BY <1>1, <1>3, Alone DEF OneController
<1>5. Typed'
  BY <1>1 DEF Typed, ClaimFile, Places, Inside, Early, vars, Goes
<1>6. CallTold'
  BY <1>1 DEF CallTold, ClaimFile, vars
<1>7. Prepared'
  BY <1>1 DEF Prepared, ClaimFile
<1>8. Owner(c)'
  BY <1>2, <1>3 DEF Owner, ClaimFile, Inside, Running, Goes
<1>9. InTurn(c)'
  BY DEF InTurn, ClaimFile, Running, Goes
<1>10. LeftBehind(c)'
  BY DEF LeftBehind, ClaimFile, Running, Goes
<1>11. Directories(c)'
  BY DEF Directories, ClaimFile, Goes
<1>12. ChildTold'
  BY <1>1 DEF ChildTold, ClaimFile, vars
<1>13. Counted'
  BY <1>1 DEF Counted, ClaimFile
<1>14. PassedEarned'
  BY <1>1 DEF PassedEarned, ClaimFile
<1>15. JobsAlone'
  BY <1>1 DEF JobsAlone, ChildLives, ClaimFile
<1>16. Mine(c)'
  BY <1>8, <1>9, <1>10, <1>11 DEF Mine
<1> QED
  BY <1>4, <1>5, <1>6, <1>7, <1>12, <1>13, <1>14, <1>15, <1>16, Rest DEF QueueInv

LEMMA LaunchKeeps == ASSUME NEW c \in Controllers, QueueInv, ~direct, Launch(c) PROVE QueueInv'
<1>1. /\ Typed /\ CallTold /\ OneController /\ Prepared
      /\ ChildTold /\ Counted /\ PassedEarned /\ JobsAlone
  BY DEF QueueInv
<1>2. Owner(c) /\ InTurn(c) /\ LeftBehind(c) /\ Directories(c)
  BY DEF QueueInv, Mine
<1>3. /\ at[c] \in Inside /\ at' = [at EXCEPT ![c] = at'[c]] /\ claims \subseteq claims'
  BY DEF Launch, Goes, Inside, Running, records
<1>4. OneController' /\ \A d \in Controllers \ {c} : at'[d] = at[d] /\ at'[d] \notin Inside
  BY <1>1, <1>3, Alone DEF OneController
<1>5. PICK j \in Plan :
         /\ copy[c].jobs[j] = "pending"
         /\ \A i \in Plan : copy[c].jobs[i] = "pending" => j <= i
         /\ copy' = [copy EXCEPT ![c].jobs[j] = "running"] /\ job' = j /\ child' = "boot"
         /\ Restart(j)
  BY LeastPending DEF Launch, Pending
<1>6. /\ copy' \in [Controllers -> Queues]
      /\ copy'[c].jobs = [copy[c].jobs EXCEPT ![j] = "running"]
      /\ copy'[c].owner = copy[c].owner /\ copy'[c].status = copy[c].status
  BY <1>1, <1>5, MarksKeep
<1>7. /\ at[c] = "next" /\ at'[c] = "launched"
      /\ UNCHANGED <<direct, campaign, queue, claims, dirs, left>>
  BY <1>1 DEF Launch, Goes, Typed, records
<1>8. copy[c] \in Queues /\ copy[c].jobs = queue.jobs /\ \A i \in Plan : Untouched(i)
  BY <1>1, <1>2, <1>7 DEF Typed, InTurn
<1>9. ASSUME NEW i \in 1..(j - 1) PROVE i \in Plan /\ queue.jobs[i] = "passed" /\ i \notin left
  <2>1. i \in Plan /\ ~ (j <= i)
    BY QueueAssumption DEF Plan
  <2>2. Untouched(i) /\ queue.jobs[i] # "pending"
    BY <1>5, <1>8, <2>1
  <2> QED
    BY <1>2, <1>7, <2>1, <2>2 DEF Untouched, LeftBehind, Running
<1>10. files' \in [Reports -> Texts]
  BY <1>5 DEF Restart, Texts
<1>11. at' \in [Controllers -> Places]
  BY <1>1, <1>3, <1>7 DEF Typed, Places, Inside, Running
<1>12. Typed'
  BY <1>1, <1>5, <1>6, <1>7, <1>10, <1>11 DEF Typed, Live
<1>13. CallTold'
  BY DEF CallTold, Launch, Restart
<1>14. Prepared'
  BY <1>2, <1>7 DEF Prepared, Owner, Running, Recorded
<1>15. Owner(c)'
  BY <1>2, <1>3, <1>5, <1>7 DEF Owner, Early, Running
<1>16. InTurn(c)'
  BY <1>5, <1>6, <1>7, <1>8 DEF InTurn, Untouched, Queues
<1>17. LeftBehind(c)'
  BY <1>2, <1>3, <1>7, <1>8 DEF LeftBehind, Inside, Early
<1>18. Directories(c)'
  BY <1>7 DEF Directories
<1>19. ChildTold'
  BY <1>5, <1>7, <1>8 DEF ChildTold
<1>20. Counted'
  BY <1>1, <1>7 DEF Counted
<1>21. PassedEarned'
  BY <1>1, <1>7 DEF PassedEarned
<1>22. JobsAlone'
  BY <1>5, <1>7, <1>9 DEF JobsAlone
<1>23. Mine(c)'
  BY <1>15, <1>16, <1>17, <1>18 DEF Mine
<1> QED
  BY <1>4, <1>12, <1>13, <1>14, <1>19, <1>20, <1>21, <1>22, <1>23, Rest DEF QueueInv

-----------------------------------------------------------------------------
(* The steps of the processes of a job                                      *)

\* The call itself, for which VirtualRun has the steps.
LEMMA CallKeeps ==
    ASSUME files \in [Reports -> Texts], CallTold, Next
    PROVE  files' \in [Reports -> Texts] /\ CallTold'
<1> USE DEF CallTold, Texts
<1>1. CASE Claim
  BY <1>1 DEF Claim
<1>2. CASE AdmitDeclared \/ AdmitGpu
  BY <1>2 DEF AdmitDeclared, AdmitGpu, Constrain, Raise
<1>3. CASE InitializeRay
  BY <1>3 DEF InitializeRay, Raise
<1>4. CASE RecordCapacity \/ Build \/ Train \/ Fail
  BY <1>4 DEF RecordCapacity, Build, Train, Fail, Raise
<1>5. CASE Start \/ Simulate
  BY <1>5 DEF Start, Simulate, Raise
<1>6. CASE Judge \/ Measure
  BY <1>6 DEF Judge, Measure, Write, Raise
<1>7. CASE Summarise
  BY <1>7 DEF Summarise, Write, Raise, Reports
<1>8. CASE Verdict
  BY <1>8 DEF Verdict, Raise, held
<1>9. CASE Handle
  BY <1>9 DEF Handle, Account, held, Reports
<1>10. CASE Cleanup
  BY <1>10 DEF Cleanup, StopRaises
<1> QED
  BY <1>1, <1>2, <1>3, <1>4, <1>5, <1>6, <1>7, <1>8, <1>9, <1>10 DEF Next

LEMMA TrainStepKeeps == ASSUME QueueInv, TrainStep PROVE QueueInv'
<1>1. child \in {"none", "training"} /\ UNCHANGED queueVars
  BY DEF TrainStep, QueueInv, Typed
<1>2. files' \in [Reports -> Texts] /\ CallTold'
  BY CallKeeps DEF TrainStep, QueueInv, Typed
<1>3. Typed'
  BY <1>1, <1>2 DEF QueueInv, Typed, queueVars, records, processes
<1>4. OneController' /\ Prepared' /\ Counted' /\ PassedEarned' /\ JobsAlone'
  BY <1>1
     DEF QueueInv, OneController, Prepared, Counted, PassedEarned, JobsAlone,
         ChildLives, queueVars, records, processes
<1>5. ChildTold'
  BY <1>1 DEF QueueInv, ChildTold, queueVars, records, processes
<1>6. ASSUME NEW d \in Controllers PROVE Mine(d)'
  BY <1>1
     DEF QueueInv, Mine, Owner, InTurn, LeftBehind, Directories, Untouched, queueVars,
         records, processes
<1> QED
  BY <1>2, <1>3, <1>4, <1>5, <1>6 DEF QueueInv

\* Until they have exited, the processes of a job write its directory only, and
\* the controller waits.
LEMMA ProcessesKeep ==
    ASSUME QueueInv, child \in Live, child' \in Live \cup {"exit0", "exit1"},
           UNCHANGED <<vars, direct, campaign, queue, claims, at, copy, job, left>>,
           dirs' \in [Plan -> Dirs], \A j \in Plan \ {job} : dirs'[j] = dirs[j],
           ChildTold'
    PROVE  QueueInv'
<1>1. /\ queue.jobs[job] \in {"pending", "running"} /\ child # "none"
      /\ UNCHANGED <<pc, outcome, files, ray>>
  BY DEF QueueInv, ChildTold, Live, Inner, vars
<1>2. Typed'
  BY <1>1 DEF QueueInv, Typed
<1>3. CallTold' /\ OneController' /\ Prepared' /\ Counted'
  BY <1>1 DEF QueueInv, CallTold, OneController, Prepared, Counted
<1>4. PassedEarned'
  BY <1>1 DEF QueueInv, PassedEarned
<1>5. JobsAlone'
  BY DEF QueueInv, JobsAlone, ChildLives, Live
<1>6. ASSUME NEW d \in Controllers PROVE Mine(d)'
  <2>1. Mine(d) /\ at[d] \notin Running \ {"launched", "watch"}
    BY DEF QueueInv, Mine, InTurn
  <2>2. at'[d] = at[d]
    OBVIOUS
  <2> QED
    BY <2>1 DEF Mine, Owner, InTurn, LeftBehind, Directories, Untouched, Running
<1> QED
  BY <1>2, <1>3, <1>4, <1>5, <1>6 DEF QueueInv

\* One file of the directory.
LEMMA SaysKeeps ==
    ASSUME Typed, NEW field \in {"result", "summary", "quality", "test"}, NEW value,
           Says(field, value),
           field = "result" => value \in {"running", "passed", "failed"},
           field = "summary" => value \in Texts,
           field \in {"quality", "test"} => value = TRUE
    PROVE  /\ dirs' \in [Plan -> Dirs] /\ \A j \in Plan \ {job} : dirs'[j] = dirs[j]
           /\ job \in Plan => dirs'[job] = [dirs[job] EXCEPT ![field] = value]
<1>1. \A j \in Plan : dirs[j] \in Dirs
  BY DEF Typed
<1>2. \A j \in Plan : [dirs[j] EXCEPT ![field] = value] \in Dirs
  BY <1>1 DEF Dirs
<1> QED
  BY <1>1, <1>2 DEF Says, Typed

LEMMA BeginKeeps == ASSUME QueueInv, Begin PROVE QueueInv'
<1>1. Typed /\ ChildTold /\ child = "boot" /\ job \in Plan
  BY DEF Begin, Process, QueueInv, Typed
<1>2. CASE Process("boot", "training") /\ Says("result", "running")
  <2>1. dirs' \in [Plan -> Dirs] /\ \A j \in Plan \ {job} : dirs'[j] = dirs[j]
    BY <1>1, <1>2, SaysKeeps
  <2>2. ChildTold'
    BY <1>1 DEF Process, Begin, ChildTold, Live
  <2> QED
    BY <2>1, <2>2, ProcessesKeep DEF Begin, Process, Live, Inner
<1>3. CASE Process("boot", "exit1") /\ UNCHANGED dirs
  <2>1. ChildTold'
    BY <1>3 DEF Process, ChildTold, Live, Inner
  <2> QED
    BY <1>1, <1>3, <2>1, ProcessesKeep DEF Begin, Process, Typed
<1> QED
  BY <1>2, <1>3 DEF Begin

LEMMA TrainedKeeps == ASSUME QueueInv, Trained PROVE QueueInv'
<1>1. /\ Typed /\ CallTold /\ ChildTold /\ child = "training" /\ job \in Plan
      /\ child' \in {"checking", "failing"}
      /\ UNCHANGED <<vars, direct, campaign, queue, claims, at, copy, job, left>>
  BY DEF Trained, Process, QueueInv, Typed
<1>2. CASE /\ pc = "ended" /\ Says("summary", files["summary"])
           /\ child' = IF outcome = "returned" THEN "checking" ELSE "failing"
  <2>1. files["summary"] \in Texts
    BY <1>1 DEF Typed, Reports
  <2>2. /\ dirs' \in [Plan -> Dirs] /\ \A j \in Plan \ {job} : dirs'[j] = dirs[j]
        /\ dirs'[job] = [dirs[job] EXCEPT !["summary"] = files["summary"]]
    BY <1>1, <1>2, <2>1, SaysKeeps
  <2>3. dirs[job] \in Dirs
    BY <1>1 DEF Typed
  <2>4. dirs'[job].summary = files["summary"]
    BY <2>2, <2>3 DEF Dirs
  <2>5. child' = "checking" => outcome = "returned" /\ dirs'[job].summary = "passed"
    BY <1>1, <1>2, <2>4 DEF CallTold
  <2>6. ChildTold'
    BY <1>1, <1>2, <2>5 DEF ChildTold, Live, Inner, vars
  <2> QED
    BY <1>1, <2>2, <2>6, ProcessesKeep DEF Live, Inner
<1>3. CASE child' = "failing" /\ UNCHANGED dirs
  <2>1. ChildTold'
    BY <1>1, <1>3 DEF ChildTold, Live, Inner
  <2> QED
    BY <1>1, <1>3, <2>1, ProcessesKeep DEF Live, Inner, Typed
<1> QED
  BY <1>1, <1>2, <1>3 DEF Trained, Process

LEMMA CheckedKeeps == ASSUME QueueInv, Checked PROVE QueueInv'
<1>1. /\ Typed /\ ChildTold /\ child \in {"checking", "testing", "receipt"} /\ job \in Plan
      /\ child' \in {"testing", "receipt", "inner0", "failing"}
      /\ UNCHANGED <<vars, direct, campaign, queue, claims, at, copy, job, left>>
  BY DEF Checked, Process, QueueInv, Typed
<1>2. /\ queue.jobs[job] \in {"pending", "running"} /\ pc = "ended" /\ outcome = "returned"
      /\ dirs[job] \in Dirs /\ dirs[job].summary = "passed"
  BY <1>1 DEF ChildTold, Typed, Live, Inner
<1>3. ASSUME NEW from \in {"checking", "testing", "receipt"},
             NEW to \in {"testing", "receipt", "inner0", "failing"},
             NEW field \in {"result", "quality", "test"},
             child = from, child' = to,
             Says(field, IF field = "result" THEN "passed" ELSE TRUE),
             \/ <<from, to, field>> = <<"checking", "testing", "quality">>
             \/ <<from, to, field>> = <<"testing", "receipt", "test">>
             \/ <<from, to, field>> = <<"receipt", "inner0", "result">>
             \/ <<from, to, field>> = <<"receipt", "failing", "result">>
      PROVE  QueueInv'
  <2> DEFINE value == IF field = "result" THEN "passed" ELSE TRUE
  <2>1. /\ dirs' \in [Plan -> Dirs] /\ \A j \in Plan \ {job} : dirs'[j] = dirs[j]
        /\ dirs'[job] = [dirs[job] EXCEPT ![field] = value]
    BY <1>1, <1>3, SaysKeeps
  <2>2. ChildTold'
    BY <1>1, <1>2, <1>3, <2>1 DEF ChildTold, Dirs, vars
  <2> QED
    BY <1>1, <2>1, <2>2, ProcessesKeep DEF Live, Inner
<1>4. CASE child' = "failing" /\ UNCHANGED dirs
  <2>1. ChildTold'
    BY <1>1, <1>2, <1>4 DEF ChildTold
  <2> QED
    BY <1>1, <1>4, <2>1, ProcessesKeep DEF Live, Inner, Typed
<1> QED
  BY <1>3, <1>4 DEF Checked, Process

LEMMA EndsKeep ==
    ASSUME QueueInv, Failing \/ ChildCrashes \/ Judged
    PROVE  QueueInv'
<1>1. /\ Typed /\ ChildTold /\ child \in Live /\ job \in Plan
      /\ child' \in {"inner1", "exit0", "exit1"}
      /\ UNCHANGED <<vars, direct, campaign, queue, claims, at, copy, job, left>>
  BY DEF Failing, ChildCrashes, Judged, Process, QueueInv, Typed, Inner, records
<1>2. \/ Says("result", "failed") /\ child' # "exit0"
      \/ /\ UNCHANGED dirs
         /\ child' = "exit0" => child = "inner0"
  BY DEF Failing, ChildCrashes, Judged, Process, records
<1>3. dirs' \in [Plan -> Dirs] /\ \A j \in Plan \ {job} : dirs'[j] = dirs[j]
  BY <1>1, <1>2, SaysKeeps DEF Typed
<1>4. child = "inner0" => dirs[job] = Complete
  BY <1>1 DEF ChildTold, Typed, Dirs, Complete
<1>5. ChildTold'
  BY <1>1, <1>2, <1>4 DEF ChildTold, vars
<1> QED
  BY <1>1, <1>3, <1>5, ProcessesKeep DEF Live

-----------------------------------------------------------------------------
(* The invariant and the theorems                                           *)

LEMMA InitKeeps == QueueInit => QueueInv
<1> SUFFICES ASSUME QueueInit PROVE QueueInv
  OBVIOUS
<1>1. /\ direct \in BOOLEAN /\ campaign = "prepared" /\ claims = {} /\ job = 0
      /\ child = "none" /\ left = {} /\ dirs = [j \in Plan |-> NoDirectory]
      /\ at = [c \in Controllers |-> "idle"] /\ copy = [c \in Controllers |-> queue]
      /\ pc = "claim" /\ outcome = "running" /\ files = [f \in Reports |-> "absent"]
  BY DEF QueueInit, Init
<1>2. queue = [status |-> "prepared", owner |-> None, jobs |-> [j \in Plan |-> "pending"]]
  BY DEF QueueInit
<1>3. queue \in Queues /\ queue.status = "prepared" /\ queue.owner = None
      /\ \A j \in Plan : queue.jobs[j] = "pending"
  BY <1>2 DEF Queues, Statuses
<1>4. NoDirectory \in Dirs
  BY DEF NoDirectory, Dirs, Texts
<1>5. Typed
  BY <1>1, <1>3, <1>4 DEF Typed, Places, Texts
<1>6. \A c \in Controllers : at[c] \notin Inside
  BY <1>1 DEF Inside, Early, Running
<1>7. CallTold /\ OneController /\ Prepared /\ ChildTold /\ Counted
  BY <1>1, <1>3, <1>6
     DEF CallTold, OneController, Prepared, ChildTold, Counted, Live, Inner
<1>8. PassedEarned /\ JobsAlone
  BY <1>1, <1>3 DEF PassedEarned, JobsAlone
<1>9. \A c \in Controllers : Mine(c)
  BY <1>6 DEF Mine, Owner, InTurn, LeftBehind, Directories, Inside, Early, Running
<1> QED
  BY <1>5, <1>7, <1>8, <1>9 DEF QueueInv

LEMMA StepKeeps == QueueInv /\ [QueueNext]_allVars => QueueInv'
<1> SUFFICES ASSUME QueueInv, [QueueNext]_allVars PROVE QueueInv'
  OBVIOUS
<1>1. CASE TrainStep
  BY <1>1, TrainStepKeeps
<1>2. CASE JobStep
  BY <1>2, BeginKeeps, TrainedKeeps, CheckedKeeps, EndsKeep DEF JobStep
<1>3. ASSUME NEW c \in Controllers, ~direct, Controller(c) PROVE QueueInv'
  <2>1. CASE Open(c) \/ Claims(c) \/ Dies(c)
    BY <2>1, OpenKeeps, CampaignClaimKeeps, QueueClaimKeeps, DiesKeeps DEF Claims
  <2>2. CASE Announce(c) \/ Read(c) \/ RunQueue(c)
    BY <2>2, AnnounceKeeps, ReadKeeps, RunQueueKeeps
  <2>3. CASE Launch(c) \/ Record(c) \/ Changed(c) \/ Watched(c) \/ Verdicts(c)
    BY <1>3, <2>3, LaunchKeeps, RecordKeeps, ChangedKeeps, WatchedKeeps, VerdictsKeeps
  <2>4. CASE Save(c) \/ Discard(c) \/ Stop(c) \/ Validate(c) \/ SummariseQueue(c)
    BY <2>4, SaveKeeps, DiscardKeeps, StopKeeps, ValidateKeeps, SummariseQueueKeeps
  <2>5. CASE Raises(c) \/ Preserve(c) \/ Close(c)
    BY <2>5, RaisesKeeps, PreserveKeeps, CloseKeeps
  <2> QED
    BY <1>3, <2>1, <2>2, <2>3, <2>4, <2>5 DEF Controller
<1>4. CASE UNCHANGED allVars
  <2>1. UNCHANGED <<vars, direct, campaign, queue, claims, dirs, at, copy, job, child, left>>
    BY <1>4 DEF allVars, queueVars, records, processes
  <2>2. Typed' /\ CallTold' /\ OneController' /\ Prepared' /\ ChildTold' /\ Counted'
        /\ PassedEarned' /\ JobsAlone'
    BY <2>1
       DEF QueueInv, Typed, CallTold, OneController, Prepared, ChildTold, Counted,
           PassedEarned, JobsAlone, ChildLives, vars
  <2>3. ASSUME NEW c \in Controllers PROVE Mine(c)'
    BY <2>1 DEF QueueInv, Mine, Owner, InTurn, LeftBehind, Directories, Untouched
  <2> QED
    BY <2>2, <2>3 DEF QueueInv
<1> QED
  BY <1>1, <1>2, <1>3, <1>4 DEF QueueNext

LEMMA QueueInvariant == QueueSpec => []QueueInv
  BY InitKeeps, StepKeeps, PTL DEF QueueSpec

\* The directory of a job that counts says so, and a passed campaign has all
\* of them: execute_queue:232-259, execute_campaign:61-67.
THEOREM PassesEarned == QueueSpec => []PassedEarned
<1>1. QueueInv => PassedEarned
  BY DEF QueueInv
<1> QED
  BY <1>1, QueueInvariant, PTL

\* A job starts after every earlier one has passed, and finds nothing of it
\* still running: run_bounded:99-161, execute_queue:168-172, 241-258.
THEOREM JobsRunAlone == QueueSpec => []JobsAlone
<1>1. QueueInv => JobsAlone
  BY DEF QueueInv
<1> QED
  BY <1>1, QueueInvariant, PTL

\* The file of the queue changes by the hand of its one controller.
LEMMA Writers ==
    ASSUME QueueInv, NEW c \in Controllers, Controller(c)
    PROVE  \/ queue' = queue
           \/ queue.status \notin Outcomes /\ queue.owner \in {None, c} /\ queue'.owner = c
<1>1. Typed /\ Prepared /\ Owner(c) /\ InTurn(c) /\ copy[c] \in Queues
  BY DEF QueueInv, Mine, Typed
<1>2. "prepared" \notin Outcomes /\ \A s \in Recorded : s \notin Outcomes
  BY DEF Recorded, Outcomes
<1>3. CASE RunQueue(c)
  BY <1>1, <1>2, <1>3 DEF RunQueue, Goes, Saves, Owner, Early, Prepared
<1>4. CASE Record(c) \/ Save(c)
  BY <1>1, <1>2, <1>4 DEF Record, Save, Goes, Owner, Running
<1>5. ASSUME NEW s \in Statuses, at[c] \in Running, Saves(c, [copy[c] EXCEPT !.status = s])
      PROVE  queue.status \notin Outcomes /\ queue.owner \in {None, c} /\ queue'.owner = c
  BY <1>1, <1>2, <1>5, SavesKeep DEF Owner
<1>6. CASE Changed(c) \/ Stop(c) \/ Validate(c) \/ SummariseQueue(c)
  BY <1>5, <1>6
     DEF Changed, Stop, Validate, SummariseQueue, Goes, Running, Statuses, Recorded,
         Outcomes
<1>7. CASE Preserve(c)
  BY <1>2, <1>7 DEF Preserve
<1> QED
  BY <1>3, <1>4, <1>6, <1>7
     DEF Controller, Open, Claims, ClaimFile, Announce, Read, Launch, Watched, Verdicts,
         Discard, Raises, Close, Dies, records

\* A queue that has an outcome keeps it, whoever executes the campaign again:
\* run_controller:273-286.
THEOREM OutcomesKept == QueueSpec => OutcomeKept
<1> DEFINE Kept ==
      /\ queue.status \in Outcomes => queue' = queue
      /\ queue' # queue => queue'.owner = (IF queue.owner = None THEN queue'.owner ELSE queue.owner)
      /\ \A c \in Controllers : at'[c] # at[c] /\ queue' # queue => queue'.owner = c
      /\ campaign \in {"passed", "failed"} => campaign' = campaign
<1>1. ASSUME QueueInv, [QueueNext]_allVars PROVE Kept
  <2>1. CASE UNCHANGED <<queue, campaign>>
    BY <2>1
  <2>2. ASSUME NEW c \in Controllers, Controller(c) PROVE Kept
    <3>1. \A d \in Controllers \ {c} : at'[d] = at[d]
      BY <1>1, <2>2
         DEF QueueInv, Typed, Controller, Open, Claims, ClaimFile, Announce, Read,
             RunQueue, Launch, Record, Changed, Watched, Verdicts, Save, Discard, Stop,
             Validate, SummariseQueue, Raises, Preserve, Close, Dies, Goes
    <3>2. campaign \in {"passed", "failed"} => campaign' = campaign
      <4>1. Owner(c)
        BY <1>1 DEF QueueInv, Mine
      <4>2. CASE Announce(c) \/ Close(c)
        BY <4>1, <4>2 DEF Announce, Close, Goes, Owner, Inside, Early
      <4> QED
        BY <2>2, <4>2
           DEF Controller, Open, Claims, ClaimFile, Read, RunQueue, Launch, Record,
               Changed, Watched, Verdicts, Save, Discard, Stop, Validate,
               SummariseQueue, Raises, Preserve, Dies, records
    <3> QED
      BY <1>1, <2>2, <3>1, <3>2, Writers
  <2>3. CASE TrainStep \/ JobStep \/ UNCHANGED allVars
    BY <2>3
       DEF TrainStep, JobStep, Begin, Trained, Checked, Failing, ChildCrashes, Judged,
           allVars, queueVars, records
  <2> QED
    BY <1>1, <2>2, <2>3 DEF QueueNext
<1> QED
  BY <1>1, QueueInvariant, PTL DEF QueueSpec, OutcomeKept

-----------------------------------------------------------------------------
(* One call: RunInv is inductive as well, over the steps of a call and the  *)
(* restart of the next one.  Sized follows the numbers from bound to bound  *)
(* up to the server that is built with them, Reported and Released what is  *)
(* written and held at each point of the call.                              *)

Limiting == {"claim", "declared", "gpu", "native", "receipt", "build"}
Ending == {"handler", "handler2", "cleanup", "ended"}
Judgements == {"passed", "failed"}

RunTyped ==
    /\ cfg \in Options
    /\ effective \in 1..Target(cfg) /\ resident \in 0..Total
    /\ free \in {None} \cup Memory /\ pool \in 0..(Total + 1)
    /\ expected \in Nat
    /\ files \in [Reports -> Texts] /\ stops \in Nat

\* What holds of the numbers before the server is built with them.
Sized ==
    /\ Given(cfg.maxResident) => resident \in 1..cfg.maxResident
    /\ cfg.strict => effective = Target(cfg)
    /\ ~Fedavg =>
          /\ pc \in {"gpu", "native", "receipt", "build"} /\ Given(cfg.budget) =>
                Floor(Slots) <= cfg.budget
          /\ pc \in {"native", "receipt", "build"} /\ Given(free) => Floor(Slots) <= free
    /\ pc \in {"receipt", "build"} =>
          /\ effective <= pool /\ LanesStillFit(cfg, resident, effective)
          /\ cfg.strict => pool = effective
    /\ pc = "build" /\ Given(expected) => effective = expected
    /\ pc \in Limiting => ~Given(built.slots)

\* How far the reports are, in either of the two orders they are written in.
Reported ==
    /\ pc \in Ending \/ outcome = "running"
    /\ outcome = "returned" => pc \in {"cleanup", "ended"} /\ files["summary"] = "passed"
    /\ outcome = "refused" => pc = "ended" /\ files["summary"] = "absent"
    /\ outcome = "running" => pc \notin Ending
    /\ pc \in {"start", "simulate"} => ~Fedavg
    /\ files["summary"] # "absent" => pc \in Ending \cup {"verdict"}
    /\ files["summary"] = "passed" => pc = "verdict" \/ outcome = "returned"
    /\ pc = "resources" \/ (pc = "models" /\ ~Fedavg) => files["validation"] \in Judgements
    /\ pc = "resources" \/ (pc = "judge" /\ Fedavg) => files["model_metrics"] = "written"
    /\ pc \in {"summary", "verdict"} =>
          /\ files["validation"] \in Judgements
          /\ files["model_metrics"] = "written"
          /\ Fedavg \/ files["resource_metrics"] = "written"
    /\ pc = "verdict" => files["summary"] = files["validation"]
    /\ pc = "handler2" => files["validation"] # "absent"
    /\ pc = "cleanup" =>
          \/ \E f \in Reports : files[f] = "partial"
          \/ "absent" \notin {files["validation"], files["summary"]}
    /\ ReportsAgree

\* A service that runs when the simulation is over could not be stopped once.
Released ==
    /\ pc = "claim" => service # "running" /\ ~store /\ ~ray
    /\ pc \notin Ending \cup {"simulate"} => service # "running"
    /\ pc \in Ending /\ service = "running" => stops >= 1
    /\ outcome = "returned" => service # "running"
    /\ EndsClean

RunInv == RunTyped /\ Sized /\ SlotsBacked /\ Reported /\ Released

\* Min, of the few numbers the configuration compares.
LEMMA LeastOfTwo ==
    ASSUME NEW a \in Int, NEW b \in Int
    PROVE  Min({a, b}) = IF a <= b THEN a ELSE b
  BY DEF Min

LEMMA LeastOfThree ==
    ASSUME NEW a \in Int, NEW b \in Int, NEW c \in Int
    PROVE  Min({a, b, c}) \in {a, b, c} /\ Min({a, b, c}) <= a
           /\ Min({a, b, c}) <= b /\ Min({a, b, c}) <= c
<1>1. \E m \in {a, b, c} : \A y \in {a, b, c} : m <= y
  OBVIOUS
<1> QED
  BY <1>1 DEF Min

\* More resident suffixes need more memory.
LEMMA FloorGrows ==
    ASSUME NEW few \in Int, NEW many \in Int, few <= many
    PROVE  Floor(few) \in Int /\ Floor(many) \in Int /\ Floor(few) <= Floor(many)
  BY DEF Floor

\* A round has a client, and so a worker is asked for.
LEMMA TargetIsPositive ==
    ASSUME NEW o \in Options PROVE Target(o) \in 1..Total
<1>1. o.participants \in 1..Total /\ o.requested \in 0..Total
  BY DEF Options
<1>2. Or(o.requested, o.participants) \in 1..Total
  BY <1>1, VirtualAssumption DEF Or, Given, None
<1> QED
  BY <1>1, <1>2, LeastOfTwo, VirtualAssumption DEF Target

\* There is a slot, and no more of them than workers or than the bound says.
LEMMA SlotsAreFew ==
    ASSUME NEW o \in Options, NEW bound \in 0..Total, NEW workers \in 1..Total
    PROVE  /\ SuffixSlots(o, bound, workers) \in 1..workers
           /\ Given(bound) => SuffixSlots(o, bound, workers) <= bound
<1>1. Logical(o) \in 0..Total
  BY VirtualAssumption DEF Options, Logical, Or, Given, None
<1>2. Or(bound, Or(Logical(o), workers)) \in 1..Total
  BY <1>1, VirtualAssumption DEF Or, Given, None
<1> QED
  BY <1>1, <1>2, LeastOfTwo, VirtualAssumption DEF SuffixSlots, Or, Given, None

\* Fewer workers never need more slots, nor does a tighter bound.
LEMMA SlotsShrink ==
    ASSUME NEW o \in Options, NEW bound \in 0..Total, NEW workers \in 1..Total,
           NEW fewer \in 1..workers
    PROVE  SuffixSlots(o, bound, fewer) <= SuffixSlots(o, bound, workers)
<1>1. Logical(o) \in 0..Total /\ fewer \in 1..Total
  BY VirtualAssumption DEF Options, Logical, Or, Given, None
<1>2. Or(bound, Or(Logical(o), workers)) \in 1..Total /\ Or(bound, Or(Logical(o), fewer)) \in 1..Total
  BY <1>1, VirtualAssumption DEF Or, Given, None
<1> QED
  BY <1>1, <1>2, LeastOfTwo, VirtualAssumption DEF SuffixSlots, Or, Given, None

\* A bound of the memory, unless it refuses, keeps the limits in their ranges,
\* below what they were, and does not touch what a fixed worker count promises.
LEMMA BoundHolds ==
    ASSUME RunTyped, Sized, NEW memory \in {None} \cup Memory, ~Refuses(memory)
    PROVE  LET c == Constrained(memory)
           IN  /\ c.workers \in 1..effective /\ c.bound \in 0..Total
               /\ Given(resident) => c.bound \in 1..resident
               /\ cfg.strict => c.workers = effective
               /\ SuffixSlots(cfg, c.bound, c.workers) <= Slots
<1> DEFINE c == Constrained(memory)
<1>1. Target(cfg) \in 1..Total /\ effective \in 1..Total
  BY TargetIsPositive, VirtualAssumption DEF RunTyped
<1>2. Slots \in 1..effective /\ (Given(resident) => Slots <= resident)
  BY <1>1, SlotsAreFew DEF RunTyped, Slots
<1>3. CASE ~Given(memory) \/ Bound(memory) >= Slots
  <2>1. c = [workers |-> effective, bound |-> resident]
    BY <1>3 DEF Constrained
  <2> QED
    BY <1>1, <1>2, <2>1 DEF RunTyped, Slots, Given, None
<1>4. CASE Given(memory) /\ Bound(memory) < Slots
  <2>1. memory \in Int /\ Bound(memory) \in Int
    BY VirtualAssumption DEF Bound, None
  <2>2. Bound(memory) >= 1
    BY <1>4, <2>1 DEF Refuses
  <2>3. CASE SuffixBounded
    <3>1. c = [workers |-> effective, bound |-> Bound(memory)]
      BY <1>2, <1>4, <2>1, <2>3 DEF Constrained, RunTyped
    <3>2. Bound(memory) \in 1..Total
      BY <1>1, <1>2, <1>4, <2>1, <2>2, VirtualAssumption
    <3>3. SuffixSlots(cfg, Bound(memory), effective) <= Bound(memory)
      BY <1>1, <3>2, SlotsAreFew DEF RunTyped, Given, None
    <3>4. SuffixSlots(cfg, Bound(memory), effective) \in Int
      BY <1>1, <3>2, SlotsAreFew DEF RunTyped
    <3> QED
      BY <1>1, <1>2, <1>4, <2>1, <3>1, <3>2, <3>3, <3>4 DEF RunTyped
  <2>4. CASE ~SuffixBounded
    <3>1. c = [workers |-> Min({Bound(memory), Slots, Target(cfg), effective}), bound |-> resident]
      BY <1>2, <1>4, <2>1, <2>4 DEF Constrained, RunTyped
    <3>2. resident = None /\ ~cfg.strict
      BY <1>4, <2>4 DEF Refuses, SuffixBounded, Given
    <3> DEFINE w == Min({Bound(memory), Slots, Target(cfg), effective})
    <3>3. w \in 1..effective
      <4>1. \E m \in {Bound(memory), Slots, Target(cfg), effective} :
               \A y \in {Bound(memory), Slots, Target(cfg), effective} : m <= y
        BY <1>1, <1>2, <2>1
      <4>2. /\ w \in {Bound(memory), Slots, Target(cfg), effective}
            /\ \A y \in {Bound(memory), Slots, Target(cfg), effective} : w <= y
        BY <4>1 DEF Min
      <4> QED
        BY <1>1, <1>2, <2>1, <2>2, <4>2
    <3>4. SuffixSlots(cfg, resident, w) <= Slots
      BY <1>1, <3>3, SlotsShrink DEF RunTyped, Slots
    <3> QED
      BY <3>1, <3>2, <3>3, <3>4 DEF RunTyped, Given
  <2> QED
    BY <2>3, <2>4
<1> QED
  BY <1>1, <1>2, <1>3, <1>4, VirtualAssumption DEF Bound, RunTyped, None

\* Once the server is built, or after an exception, the numbers stay.
LEMMA SizesStay ==
    ASSUME RunInv, UNCHANGED <<cfg, effective, resident, free, pool, built, expected>>,
           pc' \notin Limiting
    PROVE  Sized' /\ SlotsBacked'
<1> USE DEF RunInv, Limiting
<1>1. Sized'
  BY DEF Sized, Fedavg, Slots
<1> QED
  BY <1>1 DEF SlotsBacked

\* No report is written and nothing is held before the server is built.
LEMMA NothingTold ==
    ASSUME RunInv, pc \in Limiting, files' = files, cfg' = cfg, stops' = stops,
           \/ pc' \in Limiting \ {"claim"} /\ outcome' = outcome
           \/ pc' = "handler" /\ outcome' = "raised",
           service' = service
    PROVE  Reported' /\ Released'
<1> USE DEF RunInv, Limiting
<1>0. files["summary"] = "absent" /\ outcome = "running" /\ service # "running"
  BY DEF Reported, Released, Ending
<1>1. Reported'
  BY <1>0 DEF Reported, Ending, ReportsAgree, Fedavg
<1> QED
  BY <1>0, <1>1 DEF Released, Ending, EndsClean

\* _admit_resources: the memory declared, and then the memory of the GPU.
LEMMA AdmitKeeps ==
    ASSUME RunInv, NEW memory \in {None} \cup Memory, NEW next \in {"gpu", "native"},
           pc = IF next = "gpu" THEN "declared" ELSE "gpu",
           memory = IF next = "gpu" THEN cfg.budget ELSE free',
           free' = IF next = "gpu" THEN free ELSE memory,
           Constrain(memory, next),
           UNCHANGED <<cfg, pool, built, expected, files, service, store, ray, faults, stops>>
    PROVE  RunInv'
<1> DEFINE c == Constrained(memory)
<1> USE DEF RunInv
<1>1. CASE Refuses(memory)
  <2>1. pc' = "handler" /\ outcome' = "raised" /\ UNCHANGED <<effective, resident>>
    BY <1>1 DEF Constrain, Raise
  <2>2. RunTyped'
    BY <2>1 DEF RunTyped
  <2>3. Sized' /\ SlotsBacked'
    BY <2>1 DEF Sized, SlotsBacked, Limiting, Fedavg, Slots
  <2>4. Reported' /\ Released'
    BY <2>1, NothingTold DEF Limiting
  <2> QED BY <2>2, <2>3, <2>4
<1>2. CASE ~Refuses(memory)
  <2>1. /\ effective' = c.workers /\ resident' = c.bound
        /\ \/ /\ pc' = next /\ outcome' = outcome
              /\ Given(memory) => Floor(SuffixSlots(cfg, c.bound, c.workers)) <= memory
           \/ pc' = "handler" /\ outcome' = "raised"
    BY <1>2 DEF Constrain, Raise
  <2>2. /\ effective' \in 1..effective /\ resident' \in 0..Total
        /\ Given(resident) => resident' \in 1..resident
        /\ cfg.strict => effective' = effective
        /\ Slots' <= Slots
    BY <1>2, <2>1, BoundHolds DEF Slots
  <2>3. Target(cfg) \in 1..Total
    BY TargetIsPositive DEF RunTyped
  <2>4. RunTyped'
    BY <2>2, <2>3 DEF RunTyped, Target, Or, Given
  <2>5. Slots \in Int /\ Slots' \in Int
    BY <2>2, <2>3, <2>4, SlotsAreFew, VirtualAssumption DEF Slots, RunTyped
  <2>6. next = "native" /\ pc' = "native" /\ Given(cfg.budget) /\ ~Fedavg => Floor(Slots') <= cfg.budget
    <3>1. Given(cfg.budget) => cfg.budget \in Nat
      BY VirtualAssumption DEF RunTyped, Options, Given
    <3>2. Floor(Slots') <= Floor(Slots) /\ Floor(Slots') \in Int /\ Floor(Slots) \in Int
      BY <2>2, <2>5, FloorGrows
    <3>3. next = "native" /\ ~Fedavg /\ Given(cfg.budget) => Floor(Slots) <= cfg.budget
      BY DEF Sized
    <3> QED BY <3>1, <3>2, <3>3
  <2>7. pc' = next /\ Given(memory) => Floor(Slots') <= memory
    BY <2>1 DEF Slots
  <2>8. Sized'
    <3>1. Given(cfg.maxResident) => resident' \in 1..cfg.maxResident
      BY <2>2 DEF Sized, RunTyped, Options, Given, None
    <3>2. cfg.strict => effective' = Target(cfg)
      BY <2>2 DEF Sized
    <3>3. UNCHANGED <<Fedavg, cfg, Target(cfg)>>
      BY DEF Fedavg, Target, Or, Given
    <3>4. ~Fedavg => /\ pc' \in {"gpu", "native"} /\ Given(cfg.budget) => Floor(Slots') <= cfg.budget
                     /\ pc' = "native" /\ Given(free') => Floor(Slots') <= free'
      BY <2>1, <2>6, <2>7
    <3>5. Floor(Slots)' = Floor(Slots')
      BY DEF Floor
    <3> QED BY <2>1, <3>1, <3>2, <3>3, <3>4, <3>5 DEF Sized, Limiting
  <2>9. SlotsBacked'
    BY DEF Sized, SlotsBacked, Limiting
  <2>10. Reported' /\ Released'
    BY <2>1, NothingTold DEF Limiting
  <2> QED BY <2>4, <2>8, <2>9, <2>10
<1> QED BY <1>1, <1>2

\* initialize_ray adopts a smaller pool and refuses a larger one.
LEMMA InitializeRayKeeps == ASSUME RunInv, InitializeRay PROVE RunInv'
<1> USE DEF RunInv
<1>1. PICK actual \in 1..(Total + 1) :
         /\ pool' = actual
         /\ IF actual # effective /\ (cfg.strict \/ actual > effective)
            THEN Raise /\ UNCHANGED effective
            ELSE /\ effective' = Min({actual, Target(cfg), effective})
                 /\ IF LanesStillFit(cfg, resident, effective')
                    THEN pc' = "receipt" /\ UNCHANGED outcome
                    ELSE Raise
  BY DEF InitializeRay
<1>2. Target(cfg) \in 1..Total /\ effective \in 1..Total
  BY TargetIsPositive, VirtualAssumption DEF RunTyped
<1>3. /\ effective' \in 1..effective
      /\ pc' = "receipt" => /\ effective' <= actual /\ LanesStillFit(cfg, resident, effective')
                            /\ cfg.strict => actual = effective /\ effective' = effective
      /\ cfg.strict => effective' = effective
      /\ \/ pc' = "receipt" /\ outcome' = outcome
         \/ pc' = "handler" /\ outcome' = "raised"
  <2>1. CASE actual # effective /\ (cfg.strict \/ actual > effective)
    BY <1>1, <1>2, <2>1 DEF Raise
  <2>2. CASE ~(actual # effective /\ (cfg.strict \/ actual > effective))
    <3>1. effective' = Min({actual, Target(cfg), effective})
      BY <1>1, <2>2
    <3>0. actual \in Int /\ Target(cfg) \in Int /\ effective \in Int
      BY <1>2, VirtualAssumption
    <3>2. /\ effective' \in {actual, Target(cfg), effective}
          /\ effective' <= actual /\ effective' <= Target(cfg) /\ effective' <= effective
      BY <3>1, <3>0, LeastOfThree
    <3>3. effective <= Target(cfg)
      BY <1>2 DEF RunTyped
    <3> QED BY <1>1, <1>2, <2>2, <3>2, <3>3 DEF Raise
  <2> QED BY <2>1, <2>2
<1>4. RunTyped'
  <2>1. UNCHANGED <<cfg, resident, free, expected, files, stops, Target(cfg)>>
    BY DEF InitializeRay, Target, Or, Given
  <2>2. effective' \in 1..Target(cfg)
    BY <1>2, <1>3 DEF RunTyped
  <2>3. pool' \in 0..(Total + 1)
    BY <1>1, VirtualAssumption
  <2> QED BY <2>1, <2>2, <2>3 DEF RunTyped
<1>5. Slots' <= Slots /\ Slots' \in Int /\ Slots \in Int
  <2>1. /\ cfg \in Options /\ resident \in 0..Total /\ effective \in 1..Total
        /\ effective' \in 1..effective /\ effective' \in 1..Total
    BY <1>2, <1>3, VirtualAssumption DEF RunTyped
  <2>2. Slots = SuffixSlots(cfg, resident, effective) /\ Slots' = SuffixSlots(cfg, resident, effective')
    BY DEF InitializeRay, Slots
  <2>3. Slots' <= Slots
    BY <2>1, <2>2, SlotsShrink
  <2>4. Slots \in 1..effective /\ Slots' \in 1..effective'
    BY <2>1, <2>2, SlotsAreFew
  <2> QED BY <2>1, <2>3, <2>4
<1>6. pc' = "receipt" /\ ~Fedavg =>
         /\ Given(cfg.budget) => Floor(Slots') <= cfg.budget
         /\ Given(free) => Floor(Slots') <= free
  <2>1. (Given(cfg.budget) => cfg.budget \in Nat) /\ (Given(free) => free \in Nat)
    BY VirtualAssumption DEF RunTyped, Options, Given
  <2>2. Floor(Slots') <= Floor(Slots) /\ Floor(Slots') \in Int /\ Floor(Slots) \in Int
    BY <1>5, FloorGrows
  <2>3. ~Fedavg => /\ Given(cfg.budget) => Floor(Slots) <= cfg.budget
                   /\ Given(free) => Floor(Slots) <= free
    BY DEF InitializeRay, Sized
  <2> QED BY <2>1, <2>2, <2>3
<1>7. Sized'
  BY <1>1, <1>2, <1>3, <1>6 DEF InitializeRay, Sized, Limiting, Fedavg, Given, Target, Or
<1>8. SlotsBacked'
  BY DEF InitializeRay, Sized, SlotsBacked, Limiting
<1>9. Reported' /\ Released'
  BY <1>3, NothingTold DEF InitializeRay, Limiting
<1> QED BY <1>4, <1>7, <1>8, <1>9

\* A replay ends here when its capacity is not the recorded one.
LEMMA RecordCapacityKeeps == ASSUME RunInv, RecordCapacity PROVE RunInv'
<1> USE DEF RunInv, limits, held
<1>1. RunTyped'
  BY DEF RecordCapacity, RunTyped, Target, Or, Given
<1>2. Sized'
  BY DEF RecordCapacity, Sized, Limiting, Fedavg, Slots, Raise
<1>3. SlotsBacked'
  BY DEF RecordCapacity, Sized, SlotsBacked, Limiting
<1>4. Reported' /\ Released'
  BY NothingTold DEF RecordCapacity, Raise, Limiting
<1> QED BY <1>1, <1>2, <1>3, <1>4

\* The server is built with what the bounds have left.
LEMMA BuildKeeps == ASSUME RunInv, Build PROVE RunInv'
<1> USE DEF RunInv, limits, held
<1>1. RunTyped'
  BY DEF Build, RunTyped, Target, Or, Given
<1>2. Sized'
  BY DEF Build, Sized, Limiting
<1>3. Target(cfg) \in 1..Total /\ effective \in 1..Total
  BY TargetIsPositive, VirtualAssumption DEF RunTyped
<1>4. Slots \in 1..effective /\ (Given(resident) => Slots <= resident)
  BY <1>3, SlotsAreFew DEF RunTyped, Slots
<1>5. Lanes(cfg, resident, effective) \in 1..Slots
  <2> DEFINE limit == LaneLimit(cfg, resident, effective)
  <2>1. limit \in 1..Slots
    <3>1. Or(cfg.lanes, effective) \in 1..Total
      BY <1>3, VirtualAssumption DEF RunTyped, Options, Or, Given, None
    <3> QED BY <1>3, <1>4, <3>1, LeastOfTwo DEF LaneLimit, Slots
  <2>2. cfg.byRound \in 0..Slots
    BY <1>4 DEF Build, Sized, LanesStillFit, RunTyped, Options, Slots
  <2>3. \E n \in {limit, cfg.byRound} : n >= limit /\ n >= cfg.byRound
    BY <2>1, <2>2, <1>4
  <2>4. /\ Lanes(cfg, resident, effective) \in {limit, cfg.byRound}
        /\ Lanes(cfg, resident, effective) >= limit
    BY <2>3 DEF Lanes
  <2> QED BY <1>4, <2>1, <2>2, <2>4
<1>6. effective <= Min({pool, Target(cfg)})
  BY <1>3, LeastOfTwo DEF Build, Sized, RunTyped
<1>7. SlotsBacked'
  <2>1. /\ built'.lanes \in 1..built'.slots /\ built'.slots <= effective
        /\ \A memory \in {cfg.budget, free} : Given(memory) => Floor(built'.slots) <= memory
        /\ cfg.strict => pool = Target(cfg) /\ effective = Target(cfg)
        /\ Given(expected) => effective = expected
        /\ Given(cfg.maxResident) => built'.slots <= cfg.maxResident
    BY <1>3, <1>4, <1>5 DEF Build, Sized, RunTyped, Options, Given, None
  <2> QED BY <1>6, <2>1 DEF Build, SlotsBacked, Target, Or, Given
<1>8. Reported'
  BY DEF Build, Reported, Ending, ReportsAgree, Fedavg
<1>9. Released'
  BY DEF Build, Released, Reported, Ending, EndsClean
<1> QED BY <1>1, <1>2, <1>7, <1>8, <1>9

\* A call that is refused has written and opened nothing.
LEMMA ClaimKeeps == ASSUME RunInv, Claim PROVE RunInv'
<1> USE DEF RunInv, limits, held
<1>1. RunTyped'
  BY DEF Claim, RunTyped, Target, Or, Given
<1>2. Sized'
  BY DEF Claim, Sized, Limiting, Fedavg, Slots
<1>3. SlotsBacked'
  BY DEF Claim, Sized, SlotsBacked, Limiting
<1>4. Reported'
  BY DEF Claim, Reported, Ending, ReportsAgree, Fedavg
<1>5. Released'
  BY DEF Claim, Released, Reported, Ending, EndsClean
<1> QED BY <1>1, <1>2, <1>3, <1>4, <1>5

LEMMA FailKeeps == ASSUME RunInv, Fail PROVE RunInv'
<1> USE DEF RunInv, limits, held
<1>1. RunTyped'
  BY DEF Fail, RunTyped, Target, Or, Given
<1>2. Sized' /\ SlotsBacked'
  BY SizesStay DEF Fail, Raise, Limiting
<1>3. Reported'
  BY DEF Fail, Raise, Reported, Ending, ReportsAgree, Fedavg
<1>4. Released'
  BY DEF Fail, Raise, Released, Reported, Ending, EndsClean
<1> QED BY <1>1, <1>2, <1>3, <1>4

\* The rest of the call: the simulation, the reports, the handler, the end.
LEMMA TrainKeeps == ASSUME RunInv, Train PROVE RunInv'
<1> USE DEF RunInv, limits, held
<1>1. RunTyped'
  BY DEF Train, RunTyped, Target, Or, Given, Texts, Reports, Reported, Ending, Judgements
<1>2. Sized' /\ SlotsBacked'
  BY SizesStay DEF Train, Limiting
<1>3. Reported'
  BY DEF Train, RunTyped, Reported, Released, Ending, ReportsAgree, Fedavg, Reports, Judgements
<1>4. Released'
  BY DEF Train, RunTyped, Released, Reported, Ending, EndsClean
<1> QED BY <1>1, <1>2, <1>3, <1>4

LEMMA StartKeeps == ASSUME RunInv, Start PROVE RunInv'
<1> USE DEF RunInv, limits, held
<1>1. RunTyped'
  BY DEF Start, Raise, Stopped, StopRaises, RunTyped, Target, Or, Given, Texts, Reports, Reported, Ending, Judgements
<1>2. Sized' /\ SlotsBacked'
  BY SizesStay DEF Start, Raise, Stopped, StopRaises, Limiting
<1>3. Reported'
  BY DEF Start, Raise, Stopped, StopRaises, RunTyped, Reported, Released, Ending, ReportsAgree, Fedavg, Reports, Judgements
<1>4. Released'
  BY DEF Start, Raise, Stopped, StopRaises, RunTyped, Released, Reported, Ending, EndsClean
<1> QED BY <1>1, <1>2, <1>3, <1>4

LEMMA SimulateKeeps == ASSUME RunInv, Simulate PROVE RunInv'
<1> USE DEF RunInv, limits, held
<1>1. RunTyped'
  BY DEF Simulate, Raise, Stopped, StopRaises, RunTyped, Target, Or, Given, Texts, Reports, Reported, Ending, Judgements
<1>2. Sized' /\ SlotsBacked'
  BY SizesStay DEF Simulate, Raise, Stopped, StopRaises, Limiting
<1>3. Reported'
  BY DEF Simulate, Raise, Stopped, StopRaises, RunTyped, Reported, Released, Ending, ReportsAgree, Fedavg, Reports, Judgements
<1>4. Released'
  BY DEF Simulate, Raise, Stopped, StopRaises, RunTyped, Released, Reported, Ending, EndsClean
<1> QED BY <1>1, <1>2, <1>3, <1>4

LEMMA JudgeKeeps == ASSUME RunInv, Judge PROVE RunInv'
<1> USE DEF RunInv, limits, held
<1>1. RunTyped'
  BY DEF Judge, Write, Raise, RunTyped, Target, Or, Given, Texts, Reports, Reported, Ending, Judgements
<1>2. Sized' /\ SlotsBacked'
  BY SizesStay DEF Judge, Write, Raise, Limiting
<1>3. Reported'
  BY DEF Judge, Write, Raise, RunTyped, Reported, Released, Ending, ReportsAgree, Fedavg, Reports, Judgements
<1>4. Released'
  BY DEF Judge, Write, Raise, RunTyped, Released, Reported, Ending, EndsClean
<1> QED BY <1>1, <1>2, <1>3, <1>4

LEMMA MeasureKeeps == ASSUME RunInv, Measure PROVE RunInv'
<1> USE DEF RunInv, limits, held
<1>1. RunTyped'
  BY DEF Measure, Write, Raise, RunTyped, Target, Or, Given, Texts, Reports, Reported, Ending, Judgements
<1>2. Sized' /\ SlotsBacked'
  BY SizesStay DEF Measure, Write, Raise, Limiting
<1>3. Reported'
  BY DEF Measure, Write, Raise, RunTyped, Reported, Released, Ending, ReportsAgree, Fedavg, Reports, Judgements
<1>4. Released'
  BY DEF Measure, Write, Raise, RunTyped, Released, Reported, Ending, EndsClean
<1> QED BY <1>1, <1>2, <1>3, <1>4

LEMMA SummariseKeeps == ASSUME RunInv, Summarise PROVE RunInv'
<1> USE DEF RunInv, limits, held
<1>1. RunTyped'
  BY DEF Summarise, Write, Raise, RunTyped, Target, Or, Given, Texts, Reports, Reported, Ending, Judgements
<1>2. Sized' /\ SlotsBacked'
  BY SizesStay DEF Summarise, Write, Raise, Limiting
<1>3. Reported'
  BY DEF Summarise, Write, Raise, RunTyped, Reported, Released, Ending, ReportsAgree, Fedavg, Reports, Judgements
<1>4. Released'
  BY DEF Summarise, Write, Raise, RunTyped, Released, Reported, Ending, EndsClean
<1> QED BY <1>1, <1>2, <1>3, <1>4

LEMMA VerdictKeeps == ASSUME RunInv, Verdict PROVE RunInv'
<1> USE DEF RunInv, limits, held
<1>1. RunTyped'
  BY DEF Verdict, Raise, RunTyped, Target, Or, Given, Texts, Reports, Reported, Ending, Judgements
<1>2. Sized' /\ SlotsBacked'
  BY SizesStay DEF Verdict, Raise, Limiting
<1>3. Reported'
  BY DEF Verdict, Raise, RunTyped, Reported, Released, Ending, ReportsAgree, Fedavg, Reports, Judgements
<1>4. Released'
  BY DEF Verdict, Raise, RunTyped, Released, Reported, Ending, EndsClean
<1> QED BY <1>1, <1>2, <1>3, <1>4

LEMMA HandleKeeps == ASSUME RunInv, Handle PROVE RunInv'
<1> USE DEF RunInv, limits, held
<1>1. RunTyped'
  BY DEF Handle, Account, RunTyped, Target, Or, Given, Texts, Reports, Reported, Ending, Judgements
<1>2. Sized' /\ SlotsBacked'
  BY SizesStay DEF Handle, Account, Limiting
<1>3. Reported'
  BY DEF Handle, Account, RunTyped, Reported, Released, Ending, ReportsAgree, Fedavg, Reports, Judgements
<1>4. Released'
  BY DEF Handle, Account, RunTyped, Released, Reported, Ending, EndsClean
<1> QED BY <1>1, <1>2, <1>3, <1>4

LEMMA CleanupKeeps == ASSUME RunInv, Cleanup PROVE RunInv'
<1> USE DEF RunInv, limits, held
<1>1. RunTyped'
  BY DEF Cleanup, StopRaises, RunTyped, Target, Or, Given, Texts, Reports, Reported, Ending, Judgements
<1>2. Sized' /\ SlotsBacked'
  BY SizesStay DEF Cleanup, StopRaises, Limiting
<1>3. Reported'
  BY DEF Cleanup, StopRaises, RunTyped, Reported, Released, Ending, ReportsAgree, Fedavg, Reports, Judgements
<1>4. Released'
  BY DEF Cleanup, StopRaises, RunTyped, Released, Reported, Ending, EndsClean
<1> QED BY <1>1, <1>2, <1>3, <1>4

\* The next job of the queue starts from its own configuration.
LEMMA RestartKeeps == ASSUME RunInv, NEW j \in Plan, Restart(j) PROVE RunInv'
<1> USE DEF RunInv
<1>1. /\ cfg' \in Options /\ Target(cfg') = Target(cfg) /\ cfg'.strict = cfg.strict
      /\ cfg'.maxResident = cfg.maxResident
  BY DEF Restart, RunTyped, Options, Method, Target, Or, Given
<1>2. Target(cfg) \in 1..Total
  BY TargetIsPositive DEF RunTyped
<1>3. RunTyped'
  BY <1>1, <1>2, VirtualAssumption DEF Restart, RunTyped, Texts, Options, None
<1>4. Sized' /\ SlotsBacked'
  BY <1>1, <1>2 DEF Restart, RunTyped, Sized, SlotsBacked, Options, Given, None
<1>5. Reported'
  BY DEF Restart, Reported, Ending, ReportsAgree, Reports
<1>6. Released'
  BY DEF Restart, Released, Ending, EndsClean
<1> QED BY <1>3, <1>4, <1>5, <1>6

\* The constructor leaves between one worker and the target.
LEMMA RunStarts == ASSUME QueueInit PROVE RunInv
<1>1. PICK host \in 1..Total : Constructs(cfg, host) /\ effective = Derived(cfg, host)
  BY DEF QueueInit, Init
<1>2. cfg \in Options /\ Target(cfg) \in 1..Total
  BY TargetIsPositive DEF QueueInit, Init
<1>3. effective \in 1..Target(cfg) /\ (cfg.strict => effective = Target(cfg))
  BY <1>1, <1>2, LeastOfTwo, VirtualAssumption DEF Derived
<1>4. RunTyped
  BY <1>2, <1>3, VirtualAssumption DEF QueueInit, Init, RunTyped, Texts, Options, None
<1>5. Sized /\ SlotsBacked
  BY <1>2, <1>3 DEF QueueInit, Init, Sized, SlotsBacked, Options, Given, None
<1>6. Reported /\ Released
  BY DEF QueueInit, Init, Reported, Released, Ending, ReportsAgree, EndsClean, Reports
<1> QED BY <1>4, <1>5, <1>6 DEF RunInv

\* One case for each statement of the call, and the queue between two calls.
LEMMA CallStep == ASSUME RunInv, Next PROVE RunInv'
<1>1. AdmitDeclared => RunInv'
  BY AdmitKeeps DEF AdmitDeclared, RunInv, RunTyped, Options, held
<1>2. AdmitGpu => RunInv'
  BY AdmitKeeps DEF AdmitGpu, held
<1> QED BY <1>1, <1>2, ClaimKeeps, InitializeRayKeeps, RecordCapacityKeeps, BuildKeeps,
    TrainKeeps, FailKeeps, StartKeeps, SimulateKeeps, JudgeKeeps, MeasureKeeps,
    SummariseKeeps, VerdictKeeps, HandleKeeps, CleanupKeeps DEF Next

LEMMA RunStep == ASSUME RunInv, [QueueNext]_allVars PROVE RunInv'
<1>1. CASE UNCHANGED vars
  BY <1>1 DEF vars, limits, held, RunInv, RunTyped, Sized, SlotsBacked, Reported, Released,
     ReportsAgree, EndsClean, Fedavg, Slots, Target
<1>2. CASE Next
  BY <1>2, CallStep
<1>3. ASSUME NEW c \in Controllers, Launch(c) PROVE RunInv'
  BY <1>3, LeastPending, RestartKeeps DEF Launch, Pending
<1>4. ASSUME NEW c \in Controllers, Controller(c) PROVE UNCHANGED vars \/ Launch(c)
  BY <1>4 DEF Controller, Open, Claims, ClaimFile, Announce, Read, RunQueue, Record, Changed,
     Watched, Verdicts, Save, Discard, Stop, Validate, SummariseQueue, Raises, Preserve,
     Close, Dies
<1>5. JobStep => UNCHANGED vars
  BY DEF JobStep, Begin, Trained, Checked, Failing, ChildCrashes, Judged
<1> QED BY <1>1, <1>2, <1>3, <1>4, <1>5 DEF QueueNext, TrainStep, allVars

LEMMA RunInvariant == QueueSpec => []RunInv
<1>1. QueueInit => RunInv
  BY RunStarts
<1>2. RunInv /\ [QueueNext]_allVars => RunInv'
  BY RunStep
<1> QED BY <1>1, <1>2, PTL DEF QueueSpec

\* run_virtual builds a server whose every lane has a slot, every slot a worker,
\* every worker an actor, and whose states fit both memories, whatever order
\* the bounds of _admit_resources and initialize_ray came in.
THEOREM SlotsAreBacked == QueueSpec => []SlotsBacked
<1>1. RunInv => SlotsBacked
  BY DEF RunInv
<1> QED BY <1>1, RunInvariant, PTL

\* However a call of run_virtual or run_fedavg ends, also when a report was cut
\* short or the service would not stop, its reports agree with its outcome and
\* what it held is given back.
THEOREM CallsEndInOrder == QueueSpec => []EndsInOrder
<1>1. RunInv => EndsInOrder
  BY DEF RunInv, Reported, Released, EndsInOrder
<1> QED BY <1>1, RunInvariant, PTL
===============================================================================
