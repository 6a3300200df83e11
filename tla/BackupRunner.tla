------------------------------ MODULE BackupRunner ------------------------------
(***************************************************************************)
(* How a backup job is run: netcanon/services/backup_runner.py, functions  *)
(* run_backup_job, _process_one_device(_limited) and finalize_crashed_job. *)
(*                                                                         *)
(* A job runs on one thread of the job executor.  It hands its devices to  *)
(* a pool of its own (or, with one worker, takes them one by one itself),  *)
(* and every device is collected under a permit of one semaphore that all  *)
(* jobs share.  Results are written attribute by attribute while clients   *)
(* poll, so each write that a poll can see is a step of its own.           *)
(*                                                                         *)
(* Jobs are started in any order here: the executor's queue is module      *)
(* JobExecutor, what is kept of a job in memory and on disk is JobRegistry.*)
(* So is the shutdown of the process, which may cancel the coroutine that  *)
(* finalizes a scheduled job: here somebody always finalizes a crashed job.*)
(* The first thing a job may meet, Settings() raising, and the last, the   *)
(* OSError of job_store.save, are both modelled.                           *)
(***************************************************************************)
EXTENDS Integers, FiniteSets

CONSTANTS Jobs,         \* backup jobs
          N,            \* devices of a job: job.results has N entries
          MaxWorkers,   \* max_workers of a job: Settings.backup_concurrency
                        \* when it was accepted
          Permits,      \* MAX_GLOBAL_BACKUP_CONCURRENCY
          Unknown,      \* the <<job, device>> whose type_key has no definition
          MayEscape,    \* an exception may escape from _process_one_device
          MayLackThreads \* the system may refuse to start another thread

Devices == 1..N

ASSUME RunnerAssumption ==
    /\ IsFiniteSet(Jobs)
    /\ N \in Nat \ {0}
    /\ MaxWorkers \in [Jobs -> Nat \ {0}]
    /\ Permits \in Nat \ {0}
    /\ Unknown \subseteq Jobs \X (1..N)
    /\ MayEscape \in BOOLEAN
    /\ MayLackThreads \in BOOLEAN

VARIABLES
    status,    \* job.status; "none" before the job exists
    stamped,   \* job.completed_at is set
    results,   \* job.results: per device its status, error and config_record
    step,      \* where the job's thread is
    broken,    \* an exception is on its way out of run_backup_job
    crew,      \* threads of the job's own pool
    dev,       \* where the work on a device is
    permits,   \* _GLOBAL_LIMITER: permits that are free
    disk       \* the status of the job in its file; "none" without a file

vars == <<status, stamped, results, step, broken, crew, dev, permits, disk>>

Terminal == {"completed", "partial", "failed"}     \* _TERMINAL_JOB_STATUSES
Workers(j) == IF MaxWorkers[j] < N THEN MaxWorkers[j] ELSE N
Serial(j) == Workers(j) = 1

(* Where a device is: not handed over yet; in the pool's queue; taken by a *)
(* worker that waits for a permit; under the permit (in several stages);   *)
(* done with.                                                              *)
UnderPermit == {"holding", "nameless", "collecting", "saved", "worded"}
Busy == {"worker"} \cup UnderPermit

Blank == [status |-> "none", error |-> FALSE, record |-> FALSE]
Queued == [status |-> "queued", error |-> FALSE, record |-> FALSE]

TypeOK ==
    /\ status \in [Jobs -> {"none", "pending", "running"} \cup Terminal]
    /\ stamped \in [Jobs -> BOOLEAN]
    /\ results \in [Jobs -> [Devices ->
         [status : {"none", "queued", "running", "success", "failed"},
          error : BOOLEAN, record : BOOLEAN]]]
    /\ step \in [Jobs -> {"none", "accepted", "dispatch", "pool", "settle",
                          "verdict", "save", "over"}]
    /\ broken \in [Jobs -> BOOLEAN]
    /\ crew \in [Jobs -> 0..N]
    /\ dev \in [Jobs -> [Devices -> {"idle", "queued", "over"} \cup Busy]]
    /\ permits \in 0..Permits
    /\ disk \in [Jobs -> {"none", "pending"} \cup Terminal]

Init ==
    /\ status = [j \in Jobs |-> "none"]
    /\ stamped = [j \in Jobs |-> FALSE]
    /\ results = [j \in Jobs |-> [d \in Devices |-> Blank]]
    /\ step = [j \in Jobs |-> "none"]
    /\ broken = [j \in Jobs |-> FALSE]
    /\ crew = [j \in Jobs |-> 0]
    /\ dev = [j \in Jobs |-> [d \in Devices |-> "idle"]]
    /\ permits = Permits
    /\ disk = [j \in Jobs |-> "none"]

------------------------------------------------------------------------------
(* The job's own thread.                                                   *)

Goes(j, s) == step' = [step EXCEPT ![j] = s]
Ended(j, d) == results[j][d].status \in {"success", "failed"}

(* A route or a schedule made the job and tried to save it.                *)
Accept(j) ==
    /\ step[j] = "none"
    /\ Goes(j, "accepted")
    /\ status' = [status EXCEPT ![j] = "pending"]
    /\ \E saved \in {"none", "pending"} : disk' = [disk EXCEPT ![j] = saved]
    /\ UNCHANGED <<stamped, results, broken, crew, dev, permits>>

(* The runner lists every device as queued and turns the job running.      *)
Begin(j) ==
    /\ step[j] = "accepted"
    /\ Goes(j, "dispatch")
    /\ results' = [results EXCEPT ![j] = [d \in Devices |-> Queued]]
    /\ status' = [status EXCEPT ![j] = "running"]
    /\ UNCHANGED <<stamped, broken, crew, dev, permits, disk>>

(* Settings() raises before anything is listed: on to finalize_crashed_job.*)
BeginFails(j) ==
    /\ step[j] = "accepted"
    /\ MayEscape
    /\ Goes(j, "settle")
    /\ broken' = [broken EXCEPT ![j] = TRUE]
    /\ UNCHANGED <<status, stamped, results, crew, dev, permits, disk>>

HandOver(j, threads, upTo) ==
    /\ step[j] = "dispatch"
    /\ Goes(j, "pool")
    /\ crew' = [crew EXCEPT ![j] = threads]
    /\ dev' = [dev EXCEPT ![j] = [d \in Devices |->
                 IF d <= upTo THEN "queued" ELSE "idle"]]
    /\ UNCHANGED <<status, stamped, results, permits, disk>>

Dispatch(j) == HandOver(j, Workers(j), N) /\ UNCHANGED broken

(* submit() raises when the system has no thread for it: the device is in  *)
(* the pool's queue by then, the later ones never get there.  Leaving the  *)
(* with-block waits for the threads there are; they empty the queue.       *)
OutOfThreads(j) ==
    /\ MayLackThreads
    /\ ~Serial(j)
    /\ \E threads \in 0..(Workers(j) - 1) :
         \E upTo \in (threads + 1)..N : HandOver(j, threads, upTo)
    /\ broken' = [broken EXCEPT ![j] = TRUE]

(* wait(futures), or the end of the loop of the serial path.               *)
JoinedAtOnce(j) ==                                \* mutant: nobody waits
    /\ step[j] = "pool"
    /\ Goes(j, "settle")
    /\ UNCHANGED <<status, stamped, results, broken, crew, dev, permits, disk>>

Joined(j) ==
    /\ step[j] = "pool"
    /\ \A d \in Devices : dev[j][d] \notin Busy
    /\ crew[j] > 0 => \A d \in Devices : dev[j][d] # "queued"
    /\ Goes(j, "settle")
    /\ UNCHANGED <<status, stamped, results, broken, crew, dev, permits, disk>>

(* The safety net of run_backup_job, and the same loop in                  *)
(* finalize_crashed_job: a device without a verdict has failed.  Its error *)
(* is written before its status.                                           *)
Unsettled(j) == {d \in Devices : results[j][d].status \in {"queued", "running"}}
NextUnsettled(j) == CHOOSE d \in Unsettled(j) : \A e \in Unsettled(j) : d <= e

SettleBackwards(j) ==                             \* mutant: status, then error
    /\ step[j] = "settle"
    /\ Unsettled(j) # {}
    /\ results' = [results EXCEPT ![j][NextUnsettled(j)].status = "failed"]
    /\ UNCHANGED <<status, stamped, step, broken, crew, dev, permits, disk>>

SettleOne(j) ==
    /\ step[j] = "settle"
    /\ Unsettled(j) # {}
    /\ LET d == NextUnsettled(j) IN
         results' = IF results[j][d].error
                    THEN [results EXCEPT ![j][d].status = "failed"]
                    ELSE [results EXCEPT ![j][d].error = TRUE]
    /\ UNCHANGED <<status, stamped, step, broken, crew, dev, permits, disk>>

StampWithoutNet(j) ==                             \* mutant: no safety net
    /\ step[j] = "settle"
    /\ Goes(j, "verdict")
    /\ stamped' = [stamped EXCEPT ![j] = TRUE]
    /\ UNCHANGED <<status, results, broken, crew, dev, permits, disk>>

StampOrStrand(j) ==                               \* mutant: nobody finalizes a crash
    /\ step[j] = "settle"
    /\ broken[j] \/ Unsettled(j) = {}
    /\ Goes(j, IF broken[j] THEN "over" ELSE "verdict")
    /\ stamped' = [stamped EXCEPT ![j] = ~broken[j]]
    /\ UNCHANGED <<status, results, broken, crew, dev, permits, disk>>

Stamp(j) ==
    /\ step[j] = "settle"
    /\ Unsettled(j) = {}
    /\ Goes(j, "verdict")
    /\ stamped' = [stamped EXCEPT ![j] = TRUE]
    /\ UNCHANGED <<status, results, broken, crew, dev, permits, disk>>

NoSuccess(j) == \A d \in Devices : results[j][d].status # "success"
NoFailure(j) == \A d \in Devices : results[j][d].status # "failed"

(* A job with no failed device is completed, a crashed one is failed       *)
(* whatever its devices did.                                               *)
VerdictOnCrash(j) ==                              \* mutant: a crash looks like an end
    IF NoFailure(j) THEN "completed" ELSE IF NoSuccess(j) THEN "failed" ELSE "partial"

Verdict(j) ==
    IF broken[j] THEN "failed"
    ELSE IF NoFailure(j) THEN "completed"
    ELSE IF NoSuccess(j) THEN "failed" ELSE "partial"

Decide(j) ==
    /\ step[j] = "verdict"
    /\ Goes(j, "save")
    /\ status' = [status EXCEPT ![j] = Verdict(j)]
    /\ UNCHANGED <<stamped, results, broken, crew, dev, permits, disk>>

(* job_store.save, whose OSError is logged and dropped.                    *)
Save(j) ==
    /\ step[j] = "save"
    /\ Goes(j, "over")
    /\ disk' \in {disk, [disk EXCEPT ![j] = status[j]]}
    /\ UNCHANGED <<status, stamped, results, broken, crew, dev, permits>>

(* The job is history: its name stands for a later job.                    *)
Forget(j) ==
    /\ step[j] = "over"
    /\ Goes(j, "none")
    /\ status' = [status EXCEPT ![j] = "none"]
    /\ stamped' = [stamped EXCEPT ![j] = FALSE]
    /\ results' = [results EXCEPT ![j] = [d \in Devices |-> Blank]]
    /\ broken' = [broken EXCEPT ![j] = FALSE]
    /\ crew' = [crew EXCEPT ![j] = 0]
    /\ dev' = [dev EXCEPT ![j] = [d \in Devices |-> "idle"]]
    /\ disk' = [disk EXCEPT ![j] = "none"]
    /\ UNCHANGED permits

------------------------------------------------------------------------------
(* One device: _process_one_device_limited.                                *)

Moves(j, d, to) == dev' = [dev EXCEPT ![j][d] = to]
BusyOf(j) == {d \in Devices : dev[j][d] \in Busy}

(* A worker of the job takes the device, first come first served.          *)
PickUp(j, d) ==
    /\ dev[j][d] = "queued"
    /\ \A e \in Devices : e < d => dev[j][e] # "queued"
    /\ Cardinality(BusyOf(j)) < crew[j]
    /\ Moves(j, d, "worker")
    /\ UNCHANGED <<status, stamped, results, step, broken, crew, permits, disk>>

GetPermit(j, d) ==
    /\ dev[j][d] = "worker"
    /\ permits > 0
    /\ permits' = permits - 1
    /\ Moves(j, d, "holding")
    /\ UNCHANGED <<status, stamped, results, step, broken, crew, disk>>

(* An unknown type_key is a failure of the device, status first.           *)
UnknownType(j, d) ==
    /\ dev[j][d] = "holding"
    /\ <<j, d>> \in Unknown
    /\ Moves(j, d, "nameless")
    /\ results' = [results EXCEPT ![j][d].status = "failed"]
    /\ UNCHANGED <<status, stamped, step, broken, crew, permits, disk>>

UnknownTypeWorded(j, d) ==
    /\ dev[j][d] = "nameless"
    /\ Moves(j, d, "over")
    /\ results' = [results EXCEPT ![j][d].error = TRUE]
    /\ permits' = permits + 1
    /\ UNCHANGED <<status, stamped, step, broken, crew, disk>>

(* Probed and resolved: the collection itself starts.                      *)
StartCollecting(j, d) ==
    /\ dev[j][d] = "holding"
    /\ <<j, d>> \notin Unknown
    /\ Moves(j, d, "collecting")
    /\ results' = [results EXCEPT ![j][d].status = "running"]
    /\ UNCHANGED <<status, stamped, step, broken, crew, permits, disk>>

(* The configuration is collected and stored.                              *)
Collected(j, d) ==
    /\ dev[j][d] = "collecting"
    /\ Moves(j, d, "saved")
    /\ results' = [results EXCEPT ![j][d].record = TRUE]
    /\ UNCHANGED <<status, stamped, step, broken, crew, permits, disk>>

Succeeded(j, d) ==
    /\ dev[j][d] = "saved"
    /\ Moves(j, d, "over")
    /\ results' = [results EXCEPT ![j][d].status = "success"]
    /\ permits' = permits + 1
    /\ UNCHANGED <<status, stamped, step, broken, crew, disk>>

(* collect or storage.save raised: the error is worded first.              *)
CollectFailed(j, d) ==
    /\ dev[j][d] = "collecting"
    /\ Moves(j, d, "worded")
    /\ results' = [results EXCEPT ![j][d].error = TRUE]
    /\ UNCHANGED <<status, stamped, step, broken, crew, permits, disk>>

Failed(j, d) ==
    /\ dev[j][d] = "worded"
    /\ Moves(j, d, "over")
    /\ results' = [results EXCEPT ![j][d].status = "failed"]
    /\ permits' = permits + 1
    /\ UNCHANGED <<status, stamped, step, broken, crew, disk>>

(* An exception gets out: between the permit and the try block, or out of  *)
(* the except block that words the error.  A pool only logs it; the serial *)
(* loop ends with it, and the devices behind it are never looked at.       *)
LeaveLoop(j, d) ==
    IF Serial(j)
    THEN /\ broken' = [broken EXCEPT ![j] = TRUE]
         /\ dev' = [dev EXCEPT ![j] = [e \in Devices |->
                      IF e = d THEN "over"
                      ELSE IF dev[j][e] = "queued" THEN "idle" ELSE dev[j][e]]]
    ELSE Moves(j, d, "over") /\ UNCHANGED broken

EscapeKeepingPermit(j, d) ==                      \* mutant: no with-block
    /\ MayEscape
    /\ dev[j][d] \in {"holding", "collecting"}
    /\ <<j, d>> \notin Unknown
    /\ LeaveLoop(j, d)
    /\ UNCHANGED <<status, stamped, results, step, crew, permits, disk>>

Escape(j, d) ==
    /\ MayEscape
    /\ dev[j][d] \in {"holding", "collecting"}
    /\ <<j, d>> \notin Unknown
    /\ LeaveLoop(j, d)
    /\ permits' = permits + 1
    /\ UNCHANGED <<status, stamped, results, step, crew, disk>>

------------------------------------------------------------------------------
JobStep(j) ==
    \/ Begin(j)
    \/ BeginFails(j)
    \/ Dispatch(j)
    \/ OutOfThreads(j)
    \/ Joined(j)
    \/ SettleOne(j)
    \/ Stamp(j)
    \/ Decide(j)
    \/ Save(j)

DeviceStep(j, d) ==
    \/ PickUp(j, d)
    \/ GetPermit(j, d)
    \/ UnknownType(j, d)
    \/ UnknownTypeWorded(j, d)
    \/ StartCollecting(j, d)
    \/ Collected(j, d)
    \/ Succeeded(j, d)
    \/ CollectFailed(j, d)
    \/ Failed(j, d)
    \/ Escape(j, d)

Next ==
    \E j \in Jobs :
        \/ Accept(j)
        \/ JobStep(j)
        \/ Forget(j)
        \/ \E d \in Devices : DeviceStep(j, d)

Spec == Init /\ [][Next]_vars

(* Threads run, and a collection ends: every collector has timeouts.  The  *)
(* semaphore favours nobody, so a worker that waits for a permit needs to  *)
(* find one free again and again.                                          *)
Fairness ==
    /\ \A j \in Jobs : WF_vars(JobStep(j))
    /\ \A j \in Jobs, d \in Devices :
        WF_vars(DeviceStep(j, d)) /\ SF_vars(GetPermit(j, d))

FairSpec == Spec /\ Fairness

------------------------------------------------------------------------------
(***************************************************************************)
(* Safety.                                                                 *)
(***************************************************************************)

(* The semaphore never drifts: what is free and what is held is what there *)
(* is, whichever way a device was left.  With permits >= 0 that bounds the *)
(* sessions of all jobs together.                                          *)
PermitsAreExact ==
    permits + Cardinality({p \in Jobs \X Devices : dev[p[1]][p[2]] \in UnderPermit})
      = Permits

(* A backup that did not happen never reads as one that did: completed     *)
(* means a stored configuration for every device, partial at least one of  *)
(* each kind, and a device succeeds only with its record.                  *)
NoFalseVerdict ==
    \A j \in Jobs :
        /\ status[j] = "completed" =>
             \A d \in Devices : results[j][d].status = "success"
        /\ status[j] = "partial" => ~NoSuccess(j) /\ ~NoFailure(j)
        /\ \A d \in Devices :
             results[j][d].status = "success" => results[j][d].record

(* A poll that sees a job ended sees all of it: when it ended, a verdict   *)
(* for every device it listed, nobody at work on it; and its file, once it *)
(* tells of the end, tells the same.                                       *)
EndedJobIsWhole ==
    \A j \in Jobs :
        /\ status[j] \in Terminal =>
             /\ stamped[j]
             /\ \A d \in Devices : results[j][d].status # "none" => Ended(j, d)
             /\ \A d \in Devices : dev[j][d] \notin Busy
        /\ disk[j] \in Terminal => disk[j] = status[j]

(* A poll never sees a device failed without the reason, on every path but *)
(* that of an unknown type_key (HEAD-review F8).                           *)
ReasonBeforeFailure ==
    \A j \in Jobs, d \in Devices :
        results[j][d].status = "failed" /\ <<j, d>> \notin Unknown
          => results[j][d].error

(* JobStatus, "failed - every device failed (zero successes)": not so when *)
(* the runner raises after a device of the job has succeeded; run          *)
(* runner_failed.                                                          *)
FailedMeansNoSuccess == \A j \in Jobs : status[j] = "failed" => NoSuccess(j)

(***************************************************************************)
(* Action properties.                                                      *)
(***************************************************************************)

(* BackupResult: once a device has its verdict its result is not touched   *)
(* again (but for the error that an unknown type_key still owes it), and   *)
(* neither is the status of a job that has ended, late writers of a pool   *)
(* and the safety net included.                                            *)
FinalMeansFinal ==
    [][\A j \in Jobs : step'[j] # "none" =>
         /\ status[j] \in Terminal => status'[j] = status[j]
         /\ \A d \in Devices : Ended(j, d) =>
              /\ results'[j][d].status = results[j][d].status
              /\ <<j, d>> \notin Unknown => results'[j][d] = results[j][d]]_vars

(***************************************************************************)
(* Refinement.                                                             *)
(***************************************************************************)

(* The promise has no word for a runner that raised after a success: the   *)
(* code's word is failed (FailedMeansNoSuccess).                           *)
PromisedStatus(j) ==
    IF status[j] = "failed" /\ broken[j] /\ ~NoSuccess(j) THEN "crashed" ELSE status[j]

Promise == INSTANCE BackupPromise WITH
    status <- [j \in Jobs |-> PromisedStatus(j)],
    verdict <- [j \in Jobs |-> [d \in Devices |->
                 IF Ended(j, d) THEN results[j][d].status ELSE "open"]]

KeepsThePromise == Promise!Spec

(***************************************************************************)
(* Liveness.                                                               *)
(***************************************************************************)

(* No job is stranded: each that was accepted comes to its end, whatever   *)
(* escapes, whatever it cannot start, and however many compete for the     *)
(* permits.                                                                *)
EveryJobEnds == \A j \in Jobs : step[j] = "accepted" ~> status[j] \in Terminal
==============================================================================
