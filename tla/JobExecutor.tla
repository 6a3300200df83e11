------------------------------ MODULE JobExecutor ------------------------------
(***************************************************************************)
(* How a backup job gets onto a thread: _job_executor, reset_job_executor, *)
(* submit_backup_job and _on_job_future_done of netcanon/services/         *)
(* backup_runner.py, and the run_in_executor call of the scheduler in      *)
(* netcanon/api/routes/schedules.py.                                       *)
(*                                                                         *)
(* The executor is a concurrent.futures.ThreadPoolExecutor, modelled by    *)
(* its own source: submit() queues the work item FIRST and then claims an  *)
(* idle thread or starts one, so a submit that raises because the system   *)
(* has no thread to give leaves the item in the queue.  What a run does is *)
(* module BackupRunner; here it begins and it ends, or it crashes.         *)
(*                                                                         *)
(* The executor is dropped once in the life of the process, when it shuts  *)
(* down, with cancel_futures=False: MaxPools is 2.  The scheduler is shut  *)
(* down with it, with wait=False, and cancels the coroutines that await a  *)
(* scheduled run (so does the loop, when it is torn down).                 *)
(***************************************************************************)
EXTENDS Naturals, FiniteSets, Sequences

CONSTANTS Jobs,           \* backup jobs
          Scheduled,      \* those a schedule started
          Slots,          \* MAX_CONCURRENT_BACKUP_JOBS
          MaxPools,       \* bound: executors built in one life of the process
          MaxShort        \* bound: jobs at a time that found no thread

ASSUME ExecutorAssumption ==
    /\ Scheduled \subseteq Jobs
    /\ Slots \in Nat \ {0}
    /\ MaxPools \in Nat \ {0}
    /\ MaxShort \in Nat

Pools == 1..MaxPools

VARIABLES
    status,    \* of the job: "ended" stands for every terminal status
    step,      \* where the thread that submits the job is
    try,       \* its first or its second submit
    had,       \* the executor that _job_executor() gave it
    minded,    \* the try whose future has the done-callback or is awaited;
               \* 0: none; Gone: who awaited it was cancelled
    current,   \* _JOB_EXECUTOR; 0 for None
    built,     \* how many executors were built
    closing,   \* dropped, and its shutdown() not called yet
    shut,      \* ThreadPoolExecutor._shutdown
    threads,   \* how many threads an executor has started
    idle,      \* its _idle_semaphore
    queue,     \* its work items, each a job and the try that put it there
    active,    \* the items its threads run
    short      \* history: the jobs for which the system had no thread

vars == <<status, step, try, had, minded, current, built, closing, shut,
          threads, idle, queue, active, short>>

Items == Jobs \X {1, 2}
Gone == 3

TypeOK ==
    /\ status \in [Jobs -> {"none", "pending", "running", "ended"}]
    /\ step \in [Jobs -> {"idle", "resolve", "submit", "returned", "raised"}]
    /\ try \in [Jobs -> {1, 2}]
    /\ had \in [Jobs -> 0..MaxPools]
    /\ minded \in [Jobs -> {0, 1, 2, Gone}]
    /\ current \in 0..MaxPools
    /\ built \in 0..MaxPools
    /\ closing \subseteq Pools
    /\ shut \subseteq Pools
    /\ threads \in [Pools -> 0..Slots]
    /\ idle \in [Pools -> Nat]
    /\ queue \in [Pools -> Seq(Items)]
    /\ active \in [Pools -> SUBSET Items]
    /\ short \subseteq Jobs

Init ==
    /\ status = [j \in Jobs |-> "none"]
    /\ step = [j \in Jobs |-> "idle"]
    /\ try = [j \in Jobs |-> 1]
    /\ had = [j \in Jobs |-> 0]
    /\ minded = [j \in Jobs |-> 0]
    /\ current = 0
    /\ built = 0
    /\ closing = {}
    /\ shut = {}
    /\ threads = [p \in Pools |-> 0]
    /\ idle = [p \in Pools |-> 0]
    /\ queue = [p \in Pools |-> <<>>]
    /\ active = [p \in Pools |-> {}]
    /\ short = {}

pools == <<current, built, closing, shut, threads, idle, queue, active>>

------------------------------------------------------------------------------
(* Submitting.                                                             *)

(* The route has stored the job as pending; submit_backup_job is called.   *)
Accept(j) ==
    /\ step[j] = "idle"
    /\ step' = [step EXCEPT ![j] = "resolve"]
    /\ status' = [status EXCEPT ![j] = "pending"]
    /\ UNCHANGED <<try, had, minded, pools, short>>

(* _job_executor(): the executor there is, or a new one.                   *)
Resolve(j) ==
    /\ step[j] = "resolve"
    /\ step' = [step EXCEPT ![j] = "submit"]
    /\ IF current # 0
       THEN had' = [had EXCEPT ![j] = current] /\ UNCHANGED <<current, built>>
       ELSE /\ built < MaxPools
            /\ had' = [had EXCEPT ![j] = built + 1]
            /\ current' = built + 1
            /\ built' = built + 1
    /\ UNCHANGED <<status, try, minded, closing, shut, threads, idle, queue, active, short>>

(* submit() raised RuntimeError.  A manual job is submitted once more; a   *)
(* second error goes up to the route, which answers 500.  A scheduled job  *)
(* is finalized at once.                                                   *)
Raise(j) ==
    IF j \notin Scheduled /\ try[j] = 1
    THEN /\ step' = [step EXCEPT ![j] = "resolve"]
         /\ try' = [try EXCEPT ![j] = 2]
         /\ UNCHANGED status
    ELSE /\ step' = [step EXCEPT ![j] = "raised"]
         /\ status' = IF j \in Scheduled THEN [status EXCEPT ![j] = "ended"] ELSE status
         /\ UNCHANGED try

(* submit() returned a future, which gets the done-callback (or is awaited *)
(* by the scheduler's coroutine).                                          *)
ReturnAndRetry(j) ==                              \* mutant: retried though it went well
    IF try[j] = 1
    THEN /\ step' = [step EXCEPT ![j] = "resolve"]
         /\ try' = [try EXCEPT ![j] = 2]
         /\ UNCHANGED <<minded, status>>
    ELSE /\ step' = [step EXCEPT ![j] = "returned"]
         /\ minded' = [minded EXCEPT ![j] = 2]
         /\ UNCHANGED <<try, status>>

Return(j) ==
    /\ step' = [step EXCEPT ![j] = "returned"]
    /\ minded' = [minded EXCEPT ![j] = try[j]]
    /\ UNCHANGED <<try, status>>

Enqueue(p, j) == queue' = [queue EXCEPT ![p] = Append(@, <<j, try[j]>>)]

SubmitToShutPool(j) ==
    /\ step[j] = "submit"
    /\ had[j] \in shut
    /\ Raise(j)
    /\ UNCHANGED <<had, minded, pools, short>>

(* A thread claims to be idle, or there are as many as there may be.       *)
SubmitToThreads(j) ==
    LET p == had[j] IN
    /\ step[j] = "submit"
    /\ p \notin shut
    /\ idle[p] > 0 \/ threads[p] = Slots
    /\ Enqueue(p, j)
    /\ idle' = [idle EXCEPT ![p] = IF @ > 0 THEN @ - 1 ELSE 0]
    /\ Return(j)
    /\ UNCHANGED <<had, current, built, closing, shut, threads, active, short>>

SubmitStartsThread(j) ==
    LET p == had[j] IN
    /\ step[j] = "submit"
    /\ p \notin shut
    /\ idle[p] = 0
    /\ threads[p] < Slots
    /\ Enqueue(p, j)
    /\ threads' = [threads EXCEPT ![p] = @ + 1]
    /\ Return(j)
    /\ UNCHANGED <<had, current, built, closing, shut, idle, active, short>>

(* No thread to be had: RuntimeError, with the item in the queue.          *)
SubmitFindsNoThread(j) ==
    LET p == had[j] IN
    /\ Cardinality(short \cup {j}) <= MaxShort
    /\ step[j] = "submit"
    /\ p \notin shut
    /\ idle[p] = 0
    /\ threads[p] < Slots
    /\ Enqueue(p, j)
    /\ Raise(j)
    /\ short' = short \cup {j}
    /\ UNCHANGED <<had, minded, current, built, closing, shut, threads, idle, active>>

------------------------------------------------------------------------------
(* Running.                                                                *)

FreeThread(p) == Cardinality(active[p]) < threads[p]

(* A thread takes the next item; the runner turns the job running.         *)
RunBegins(p) ==
    /\ queue[p] # <<>>
    /\ FreeThread(p)
    /\ LET item == Head(queue[p]) IN
         /\ minded[item[1]] # Gone
         /\ active' = [active EXCEPT ![p] = @ \cup {item}]
         /\ status' = [status EXCEPT ![item[1]] = "running"]
    /\ queue' = [queue EXCEPT ![p] = Tail(@)]
    /\ UNCHANGED <<step, try, had, minded, current, built, closing, shut, threads, idle, short>>

(* Its future was cancelled while it was queued: the item is thrown away,  *)
(* and the job stays pending.                                              *)
SkipCancelled(p) ==
    /\ queue[p] # <<>>
    /\ FreeThread(p)
    /\ minded[Head(queue[p])[1]] = Gone
    /\ queue' = [queue EXCEPT ![p] = Tail(@)]
    /\ idle' = [idle EXCEPT ![p] = @ + 1]
    /\ UNCHANGED <<status, step, try, had, minded, current, built, closing, shut,
                   threads, active, short>>

ThreadIsFree(p, item) ==
    /\ active' = [active EXCEPT ![p] = @ \ {item}]
    /\ idle' = [idle EXCEPT ![p] = @ + 1]

RunEnds(p, item) ==
    /\ item \in active[p]
    /\ ThreadIsFree(p, item)
    /\ status' = [status EXCEPT ![item[1]] = "ended"]
    /\ UNCHANGED <<step, try, had, minded, current, built, closing, shut, threads, queue, short>>

(* run_backup_job raises.  Only the future of the submit that returned has *)
(* somebody who listens, and finalizes the job: the callback, or the       *)
(* coroutine that awaits it and was not cancelled (its except Exception    *)
(* does not catch CancelledError).                                         *)
RunCrashesUnheard(p, item) ==                     \* mutant: no done-callback
    /\ item \in active[p]
    /\ ThreadIsFree(p, item)
    /\ UNCHANGED <<status, step, try, had, minded, current, built, closing, shut,
                   threads, queue, short>>

RunCrashes(p, item) ==
    /\ item \in active[p]
    /\ ThreadIsFree(p, item)
    /\ status' = IF minded[item[1]] = item[2]
                 THEN [status EXCEPT ![item[1]] = "ended"] ELSE status
    /\ UNCHANGED <<step, try, had, minded, current, built, closing, shut, threads, queue, short>>

(* reset_job_executor: the reference is cleared under the lock, the pool   *)
(* is shut down after it, and its threads empty its queue.                 *)
Reset ==
    /\ current # 0
    /\ built < MaxPools
    /\ closing' = closing \cup {current}
    /\ current' = 0
    /\ UNCHANGED <<status, step, try, had, minded, built, shut, threads, idle, queue, active, short>>

Shutdown(p) ==
    /\ p \in closing
    /\ closing' = closing \ {p}
    /\ shut' = shut \cup {p}
    /\ UNCHANGED <<status, step, try, had, minded, current, built, threads, idle, queue, active, short>>

------------------------------------------------------------------------------
(* The work items of a job that are in a queue or run, and where.          *)
There(p, item) == item \in active[p] \/ \E i \in 1..Len(queue[p]) : queue[p][i] = item
ItemsOf(j) == {x \in Pools \X Items : x[2][1] = j /\ There(x[1], x[2])}

(* The coroutine that awaits a scheduled run is cancelled, once the loop   *)
(* gets to it after the lifespan has shut the executor down.  With it goes *)
(* the future, if the run has not begun.                                   *)
Cancel(j) ==
    /\ j \in Scheduled
    /\ step[j] = "returned"
    /\ shut # {}
    /\ ItemsOf(j) # {}
    /\ minded' = [minded EXCEPT ![j] = Gone]
    /\ UNCHANGED <<status, step, try, had, pools, short>>

(* The job is history, and its name stands for a later one.                *)
Forget(j) ==
    /\ step[j] \in {"returned", "raised"}
    /\ ItemsOf(j) = {}
    /\ step' = [step EXCEPT ![j] = "idle"]
    /\ status' = [status EXCEPT ![j] = "none"]
    /\ try' = [try EXCEPT ![j] = 1]
    /\ had' = [had EXCEPT ![j] = 0]
    /\ minded' = [minded EXCEPT ![j] = 0]
    /\ short' = short \ {j}
    /\ UNCHANGED pools

Submit(j) ==
    \/ SubmitToShutPool(j)
    \/ SubmitToThreads(j)
    \/ SubmitStartsThread(j)
    \/ SubmitFindsNoThread(j)

Next ==
    \/ \E j \in Jobs : Accept(j) \/ Resolve(j) \/ Submit(j) \/ Cancel(j) \/ Forget(j)
    \/ Reset
    \/ \E p \in Pools :
        \/ RunBegins(p)
        \/ SkipCancelled(p)
        \/ Shutdown(p)
        \/ \E item \in Items : RunEnds(p, item) \/ RunCrashes(p, item)

Spec == Init /\ [][Next]_vars

(* The submitting threads and the executor's own make progress, and a run  *)
(* comes to an end one way or the other.                                   *)
Fairness ==
    /\ \A j \in Jobs : WF_vars(Resolve(j)) /\ WF_vars(Submit(j))
    /\ \A p \in Pools :
        /\ WF_vars(RunBegins(p) \/ SkipCancelled(p))
        /\ \A item \in Items : WF_vars(RunEnds(p, item) \/ RunCrashes(p, item))

FairSpec == Spec /\ Fairness

------------------------------------------------------------------------------
Once(j) ==
    /\ Cardinality(ItemsOf(j)) <= 1
    /\ status[j] = "ended" => ItemsOf(j) = {}

(* A job for which the system had a thread is run once: there is one work  *)
(* item for it at most, and none once it has ended, also when              *)
(* submit_backup_job had to try again.                                     *)
RunsOnceGivenThreads == \A j \in Jobs \ short : Once(j)

(* Every job that was accepted comes to its end, also one that met the     *)
(* shutdown of the executor, waited behind others or crashed; but not one  *)
(* that a schedule started and whose coroutine was cancelled while the run *)
(* was queued or going on.  (The lifespan lets "already-queued runs drain" *)
(* because "a queued backup shouldn't be silently dropped": it holds of    *)
(* manual jobs, and of scheduled ones until the loop cancels them.)        *)
EveryJobIsRun ==
    \A j \in Jobs :
        step[j] = "resolve" ~> \/ status[j] = "ended"
                               \/ j \in short
                               \/ minded[j] = Gone
==============================================================================
