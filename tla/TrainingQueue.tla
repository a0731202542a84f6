----------------------------- MODULE TrainingQueue -----------------------------
(***************************************************************************)
(* The paired training of experiments/resnet50_quality around VirtualRun:  *)
(* a campaign file and its queue file name the jobs in a frozen order; a   *)
(* controller process claims both and runs the jobs one after the other.   *)
(* A job is a process that prepares a directory and runs one child, which  *)
(* calls run_virtual or run_fedavg and goes on to check and to test what   *)
(* was trained.  Controllers may be started again, interrupted or die      *)
(* between any two steps, and so may the processes of a job.               *)
(*                                                                         *)
(* A call of run_virtual by itself (direct) has any configuration, a job   *)
(* has that of make_config.  What a job's processes start in sessions of   *)
(* their own, Ray's above all, can outlive them (left).                    *)
(***************************************************************************)
EXTENDS VirtualRun

CONSTANTS Controllers,   \* processes that execute the campaign
          Jobs           \* planned_runs

ASSUME QueueAssumption == Jobs \in Nat \ {0}

VARIABLES direct,    \* no queue: run_virtual is called by itself
          campaign,  \* campaign.json: its status
          queue,     \* queue.json
          claims,    \* campaign_claim.json and execution_claim.json
          at, copy,  \* each controller: where it is, and its queue
          job,       \* the job whose processes are or were the last
          child,     \* where these processes are
          dirs,      \* dirs[j]: what the directory of j says
          left       \* jobs of which a process outlived the watch over them

records == <<campaign, queue, claims, dirs>>
processes == <<at, copy, job, child, left>>
queueVars == <<direct, records, processes>>
allVars == <<vars, queueVars>>

Plan == 1..Jobs
Method(j) == IF j % 4 \in {0, 1} THEN "fedavg" ELSE "splitfleet"

Inner == {"training", "checking", "testing", "receipt", "failing"}
ChildLives == child \in Inner \cup {"boot", "inner0", "inner1"}

NoDirectory == [result |-> "absent", summary |-> "absent", quality |-> FALSE, test |-> FALSE]
Complete == [result |-> "passed", summary |-> "passed", quality |-> TRUE, test |-> TRUE]

Recorded == {"running", "validating_results"}     \* a queue with a controller
Outcomes == {"passed", "failed", "incomplete", "controller_failed"}

\* make_config with apply_hardware_profile.
Frozen(o) ==
    /\ o.strict /\ o.perClient /\ o.maxSuffix = Total /\ o.participants = Total
    /\ o.requested # None /\ o.maxResident = o.requested
    /\ o.lanes = 1 /\ o.byRound = None /\ o.budget = None
    /\ o.method = Method(1)

QueueInit ==
    /\ Init
    /\ direct \in BOOLEAN
    /\ ~direct => Frozen(cfg) /\ expected = None
    /\ campaign = "prepared"
    /\ queue = [status |-> "prepared", owner |-> None, jobs |-> [j \in Plan |-> "pending"]]
    /\ claims = {}
    /\ at = [c \in Controllers |-> "idle"] /\ copy = [c \in Controllers |-> queue]
    /\ job = 0 /\ child = "none" /\ left = {}
    /\ dirs = [j \in Plan |-> NoDirectory]

-----------------------------------------------------------------------------
(* A controller: execute_campaign, run_controller, execute_queue            *)

Goes(c, from, to) == at[c] = from /\ at' = [at EXCEPT ![c] = to]

Saves(c, q) == copy' = [copy EXCEPT ![c] = q] /\ queue' = q

\* execute_campaign reads both files and refuses what is not as it was
\* prepared, sources included.
Open(c) ==
    /\ at[c] = "idle"
    /\ \/ /\ campaign = "prepared" /\ \A j \in Plan : queue.jobs[j] = "pending"
          /\ Goes(c, "idle", "claim")
       \/ Goes(c, "idle", "done")
    /\ UNCHANGED <<vars, direct, records, copy, job, child, left>>

ClaimFile(c, file, from, to, refused) ==
    /\ Goes(c, from, IF file \in claims THEN refused ELSE to)
    /\ claims' = claims \cup {file}
    /\ UNCHANGED <<vars, direct, campaign, queue, dirs, copy, job, child, left>>

\* Only the queue is claimed.
MutantClaims(c) ==
    \/ ClaimFile(c, "none", "claim", "announce", "announce")
    \/ ClaimFile(c, "queue", "take", "start", "handler")

\* open("x"): of two that found the file prepared one gets the claim.
Claims(c) ==
    \/ ClaimFile(c, "campaign", "claim", "announce", "done")
    \/ ClaimFile(c, "queue", "take", "start", "handler")

Announce(c) ==
    /\ Goes(c, "announce", "read")
    /\ campaign' = "running"
    /\ UNCHANGED <<vars, direct, queue, claims, dirs, copy, job, child, left>>

Read(c) ==
    /\ Goes(c, "read", IF queue.status = "prepared" THEN "take" ELSE "handler")
    /\ copy' = [copy EXCEPT ![c] = queue]
    /\ UNCHANGED <<vars, direct, records, job, child, left>>

RunQueue(c) ==
    /\ Goes(c, "start", "next")
    /\ Saves(c, [copy[c] EXCEPT !.status = "running", !.owner = c])
    /\ UNCHANGED <<vars, direct, campaign, claims, dirs, job, child, left>>

Pending(c) == {j \in Plan : copy[c].jobs[j] = "pending"}

\* The next run of the frozen configuration.
Restart(j) ==
    /\ cfg' = [cfg EXCEPT !.method = Method(j)]
    /\ pc' = "claim" /\ outcome' = "running"
    /\ effective' = Target(cfg) /\ resident' = cfg.maxResident
    /\ free' = None /\ pool' = None
    /\ built' = [slots |-> None, lanes |-> None]
    /\ files' = [f \in Reports |-> "absent"]
    /\ service' = "none" /\ store' = FALSE /\ ray' = FALSE
    /\ stops' = 0
    /\ UNCHANGED <<expected, faults>>

\* Popen; the job is recorded in the copy first, in the file afterwards.
Launch(c) ==
    /\ Pending(c) # {}
    /\ Goes(c, "next", "launched")
    /\ LET j == Min(Pending(c))
       IN /\ copy' = [copy EXCEPT ![c].jobs[j] = "running"]
          /\ job' = j /\ child' = "boot"
          /\ Restart(j)
    /\ UNCHANGED <<direct, records, left>>

Record(c) ==
    /\ Goes(c, "launched", "watch")
    /\ queue' = copy[c]
    /\ UNCHANGED <<vars, direct, campaign, claims, dirs, copy, job, child, left>>

\* The protocol or the hardware changed before the job.
Changed(c) ==
    /\ Pending(c) # {}
    /\ Goes(c, "next", "failed")
    /\ Saves(c, [copy[c] EXCEPT !.status = "failed"])
    /\ UNCHANGED <<vars, direct, campaign, claims, dirs, job, child, left>>

\* run_bounded: a crash in the logs, a lack of memory or the deadline stops the
\* child, otherwise it has exited.  What was seen running is stopped with it;
\* what was started since the last look stays.
Watched(c) ==
    /\ at[c] = "watch"
    /\ \/ child \in {"exit0", "exit1"} /\ UNCHANGED child
       \/ ChildLives /\ child' = "stopped"
    /\ Goes(c, "watch", "judge")
    /\ left' \in {left} \cup (IF ray THEN {left \cup {job}} ELSE {})
    /\ UNCHANGED <<vars, direct, records, copy, job>>

\* The exit code is not asked for.
MutantEarned(crashed) == child # "stopped" /\ ~crashed /\ dirs[job].quality /\ dirs[job].test

\* A worker's native crash may be in the logs although the child went on.
Earned(crashed) ==
    child = "exit0" /\ ~crashed /\ dirs[job].quality /\ dirs[job].test

Verdicts(c) ==
    /\ at[c] = "judge"
    /\ \E crashed \in BOOLEAN :
          IF Earned(crashed)
          THEN /\ Goes(c, "judge", "save")
               /\ copy' = [copy EXCEPT ![c].jobs[job] = "passed"]
          ELSE /\ Goes(c, "judge", "discard")
               /\ copy' = [copy EXCEPT ![c].jobs[job] = "failed"]
    /\ UNCHANGED <<vars, direct, records, job, child, left>>

Save(c) ==
    /\ Goes(c, "save", "next")
    /\ queue' = copy[c]
    /\ UNCHANGED <<vars, direct, campaign, claims, dirs, copy, job, child, left>>

Discard(c) ==
    /\ Goes(c, "discard", "mark")
    /\ dirs' = [dirs EXCEPT ![job] = NoDirectory]
    /\ UNCHANGED <<vars, direct, campaign, queue, claims, copy, job, child, left>>

\* The queue goes on after a failure.
MutantStop(c) ==
    /\ Goes(c, "mark", "next")
    /\ Saves(c, copy[c])
    /\ UNCHANGED <<vars, direct, campaign, claims, dirs, job, child, left>>

\* failure_policy: the later jobs remain pending.
Stop(c) ==
    /\ Goes(c, "mark", "failed")
    /\ Saves(c, [copy[c] EXCEPT !.status = "failed"])
    /\ UNCHANGED <<vars, direct, campaign, claims, dirs, job, child, left>>

Validate(c) ==
    /\ Pending(c) = {}
    /\ Goes(c, "next", "summarise")
    /\ Saves(c, [copy[c] EXCEPT !.status = "validating_results"])
    /\ UNCHANGED <<vars, direct, campaign, claims, dirs, job, child, left>>

\* summarize_queue compares complete pairs; a run it cannot use raises.
SummariseQueue(c) ==
    /\ IF \A j \in Plan : copy[c].jobs[j] = "passed"
       THEN /\ \A j \in Plan : dirs[j].quality /\ dirs[j].test
            /\ Goes(c, "summarise", "passed")
            /\ Saves(c, [copy[c] EXCEPT !.status = "passed"])
       ELSE /\ Goes(c, "summarise", "failed")
            /\ Saves(c, [copy[c] EXCEPT !.status = "incomplete"])
    /\ UNCHANGED <<vars, direct, campaign, claims, dirs, job, child, left>>

\* Any statement of execute_queue may raise, an interrupt included.
Raises(c) ==
    /\ at[c] \in {"read", "take", "start", "next", "launched", "watch",
                  "judge", "save", "discard", "mark", "summarise"}
    /\ at' = [at EXCEPT ![c] = "handler"]
    /\ UNCHANGED <<vars, direct, records, copy, job, child, left>>

\* The except clause of run_controller.
Preserve(c) ==
    /\ Goes(c, "handler", "failed")
    /\ queue' = IF queue.status \in Recorded /\ queue.owner = c
                THEN [queue EXCEPT !.status = "controller_failed"] ELSE queue
    /\ UNCHANGED <<vars, direct, campaign, claims, dirs, copy, job, child, left>>

\* The end of execute_campaign.
Close(c) ==
    /\ at[c] \in {"passed", "failed"}
    /\ campaign' = IF /\ at[c] = "passed" /\ queue.status = "passed"
                      /\ \A j \in Plan : queue.jobs[j] = "passed"
                   THEN "passed" ELSE "failed"
    /\ Goes(c, at[c], "done")
    /\ UNCHANGED <<vars, direct, queue, claims, dirs, copy, job, child, left>>

Dies(c) ==
    /\ at[c] \notin {"idle", "done", "dead"}
    /\ at' = [at EXCEPT ![c] = "dead"]
    /\ UNCHANGED <<vars, direct, records, copy, job, child, left>>

Controller(c) ==
    \/ Open(c) \/ Claims(c) \/ Announce(c) \/ Read(c) \/ RunQueue(c)
    \/ Launch(c) \/ Record(c) \/ Changed(c) \/ Watched(c) \/ Verdicts(c)
    \/ Save(c) \/ Discard(c) \/ Stop(c) \/ Validate(c) \/ SummariseQueue(c)
    \/ Raises(c) \/ Preserve(c) \/ Close(c) \/ Dies(c)

-----------------------------------------------------------------------------
(* The processes of a job: frozen_child and execute_frozen                  *)

Process(from, to) == child = from /\ child' = to

Says(field, value) == dirs' = [dirs EXCEPT ![job][field] = value]

\* begin_run, unless something is wrong with the hardware or the directory.
Begin ==
    /\ \/ Process("boot", "training") /\ dirs[job] = NoDirectory /\ Says("result", "running")
       \/ Process("boot", "exit1") /\ UNCHANGED dirs
    /\ UNCHANGED <<vars, direct, campaign, queue, claims, at, copy, job, left>>

TrainStep ==
    /\ direct \/ child = "training"
    /\ Next
    /\ UNCHANGED queueVars

\* What follows the call; the data may be missing before it.
Trained ==
    /\ \/ /\ pc = "ended"
          /\ Process("training", IF outcome = "returned" THEN "checking" ELSE "failing")
          /\ Says("summary", files["summary"])
       \/ pc = "claim" /\ Process("training", "failing") /\ UNCHANGED dirs
    /\ UNCHANGED <<vars, direct, campaign, queue, claims, at, copy, job, left>>

\* validate_quality_budget and the final test may raise, and so may finish_run,
\* before or after it has written the result.
Checked ==
    /\ \/ Process("checking", "testing") /\ Says("quality", TRUE)
       \/ Process("testing", "receipt") /\ Says("test", TRUE)
       \/ Process("receipt", "inner0") /\ Says("result", "passed")
       \/ Process("receipt", "failing") /\ Says("result", "passed")
       \/ child \in {"checking", "testing", "receipt"} /\ child' = "failing" /\ UNCHANGED dirs
    /\ UNCHANGED <<vars, direct, campaign, queue, claims, at, copy, job, left>>

\* The except clause of execute_frozen, which may fail in turn.
Failing ==
    /\ Process("failing", "inner1")
    /\ \/ Says("result", "failed")
       \/ UNCHANGED dirs
    /\ UNCHANGED <<vars, direct, campaign, queue, claims, at, copy, job, left>>

\* The child crashes, or frozen_child ends it at its hard deadline.
ChildCrashes ==
    /\ child \in Inner /\ child' = "inner1"
    /\ UNCHANGED <<vars, direct, records, at, copy, job, left>>

\* What frozen_child makes of the child's exit.
Judged ==
    /\ \/ /\ Process("inner0", "exit0") /\ dirs[job].result = "passed" /\ UNCHANGED dirs
       \/ /\ Process("inner1", "exit1")
          /\ IF dirs[job].result = "running" THEN Says("result", "failed") ELSE UNCHANGED dirs
    /\ UNCHANGED <<vars, direct, campaign, queue, claims, at, copy, job, left>>

JobStep ==
    /\ ~direct
    /\ Begin \/ Trained \/ Checked \/ Failing \/ ChildCrashes \/ Judged

QueueNext ==
    \/ TrainStep \/ JobStep
    \/ ~direct /\ \E c \in Controllers : Controller(c)

QueueSpec == QueueInit /\ [][QueueNext]_allVars

-----------------------------------------------------------------------------
\* A job that counts has earned it: its training returned, its budget was
\* checked, its model tested and its receipt written, in the directory that is
\* compared; a failed job leaves no directory to compare when the queue is over,
\* and a campaign has passed only with all of them (execute_queue:232-259,
\* execute_campaign:61-67).
PassedEarned ==
    /\ \A j \in Plan : queue.jobs[j] = "passed" => dirs[j] = Complete
    /\ \A j \in Plan : queue.jobs[j] = "failed" => dirs[j] = NoDirectory
    /\ campaign = "passed" => queue.status = "passed"
    /\ queue.status = "passed" => \A j \in Plan : queue.jobs[j] = "passed"

\* "Refusing an existing attempt must not rewrite its historical outcome": a
\* queue has one controller, nobody else writes its file, and the outcome stays
\* however often the campaign is executed again (run_controller:273-286).
OutcomeKept ==
    [][/\ queue.status \in Outcomes => queue' = queue
       /\ queue' # queue => queue'.owner = (IF queue.owner = None THEN queue'.owner ELSE queue.owner)
       /\ \A c \in Controllers : at'[c] # at[c] /\ queue' # queue => queue'.owner = c
       /\ campaign \in {"passed", "failed"} => campaign' = campaign]_allVars

\* A job has the machine to itself and starts in its turn: every earlier job
\* has passed, and nothing of it is running any more, although the watch sees
\* only what it had time to see (run_bounded:99-161, execute_queue:168-172,
\* 241-258).
JobsAlone ==
    ChildLives => \A j \in 1..(job - 1) : queue.jobs[j] = "passed" /\ j \notin left
===============================================================================
