----------------------------- MODULE BackupPromise -----------------------------
(***************************************************************************)
(* What somebody who polls backup jobs is promised (netcanon/models/       *)
(* backup.py, JobStatus and BackupResult): a job goes through its life     *)
(* once and never back, each device gets one verdict that is never changed *)
(* again, and a job that ends has a verdict for every device it listed:    *)
(* completed is all successes, partial some of each, failed none at all.   *)
(*                                                                         *)
(* One end is outside the promise, and has a status of its own here that   *)
(* is none of JobStatus: a runner that raised after a device of the job    *)
(* had succeeded is "crashed".  What the code calls such a job is shown by *)
(* module BackupRunner.                                                    *)
(***************************************************************************)
EXTENDS Naturals

CONSTANTS Jobs, Devices

VARIABLES status,     \* [Jobs -> the status of the job, "none" before it exists]
          verdict     \* [Jobs -> [Devices -> "open" | "success" | "failed"]]

vars == <<status, verdict>>

Open == [d \in Devices |-> "open"]

Init == /\ status = [j \in Jobs |-> "none"]
        /\ verdict = [j \in Jobs |-> Open]

Accept(j) == /\ status[j] = "none"
             /\ status' = [status EXCEPT ![j] = "pending"]
             /\ UNCHANGED verdict

Start(j) == /\ status[j] = "pending"
            /\ status' = [status EXCEPT ![j] = "running"]
            /\ UNCHANGED verdict

Settle(j, d) == /\ status[j] = "running"
                /\ verdict[j][d] = "open"
                /\ \E v \in {"success", "failed"} :
                     verdict' = [verdict EXCEPT ![j][d] = v]
                /\ UNCHANGED status

Overall(v) == IF \A d \in Devices : v[d] = "success" THEN "completed"
              ELSE IF \E d \in Devices : v[d] = "success" THEN "partial"
              ELSE "failed"

(* The runner came to its end.                                             *)
End(j) == /\ status[j] = "running"
          /\ \A d \in Devices : verdict[j][d] # "open"
          /\ status' = [status EXCEPT ![j] = Overall(verdict[j])]
          /\ UNCHANGED verdict

(* The runner raised: before it had listed a device, or after every device *)
(* it had listed was given a verdict, none of them a success.              *)
Crash(j) == /\ \/ status[j] = "pending"
               \/ status[j] = "running" /\ \A d \in Devices : verdict[j][d] # "open"
            /\ \A d \in Devices : verdict[j][d] # "success"
            /\ status' = [status EXCEPT ![j] = "failed"]
            /\ UNCHANGED verdict

(* It raised, and a device had succeeded.                                  *)
CrashAfterSuccess(j) == /\ status[j] = "running"
                        /\ \A d \in Devices : verdict[j][d] # "open"
                        /\ \E d \in Devices : verdict[j][d] = "success"
                        /\ status' = [status EXCEPT ![j] = "crashed"]
                        /\ UNCHANGED verdict

Forget(j) == /\ status[j] \in {"completed", "partial", "failed", "crashed"}
             /\ status' = [status EXCEPT ![j] = "none"]
             /\ verdict' = [verdict EXCEPT ![j] = Open]

Next == \E j \in Jobs :
          \/ Accept(j) \/ Start(j) \/ End(j) \/ Crash(j)
          \/ CrashAfterSuccess(j) \/ Forget(j)
          \/ \E d \in Devices : Settle(j, d)

Spec == Init /\ [][Next]_vars
==============================================================================
