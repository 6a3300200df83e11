---------------------------- MODULE MCScheduledJobs ----------------------------
(***************************************************************************)
(* Schedules and JobExecutor on small instances: recurring backups, and    *)
(* the executor that runs them.  The two share no variable, so they are    *)
(* checked in one run but not interleaved: each behaviour is one of either *)
(* module, and the other stays where it starts.                            *)
(***************************************************************************)
EXTENDS Schedules, JobExecutor, TLC

VARIABLE moving  \* which of the two the behaviour is of

MCInit ==
    /\ SchedulesInit
    /\ Init
    /\ moving \in {"schedules", "executor"}

MCNext ==
    \/ moving = "schedules" /\ SchedulesNext /\ UNCHANGED <<vars, moving>>
    \/ moving = "executor" /\ Next /\ UNCHANGED <<svars, moving>>

(* Nothing that is fair is possible where a module starts.                 *)
MCSpec ==
    /\ MCInit
    /\ [][MCNext]_<<vars, svars, moving>>
    /\ SchedulesFairness
    /\ Fairness
================================================================================
