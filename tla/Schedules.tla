------------------------------ MODULE Schedules -------------------------------
(***************************************************************************)
(* Recurring backups: netcanon/api/routes/schedules.py, the files of       *)
(* storage/schedule_store.py and the start-up of main.py.                  *)
(*                                                                         *)
(* A schedule is kept three times: in the registry in memory, in a file,   *)
(* and as a job of APScheduler, which lives in memory only.  Each route    *)
(* holds SCHEDULE_REGISTRY_LOCK over all it does, but a run that fires     *)
(* looks at the registry without it, a file operation may raise OSError,   *)
(* and the process may die between any two steps; so the routes are split  *)
(* at their file operations.  A save is one step: it writes a temporary    *)
(* file and renames it.  What a run does is module BackupRunner.           *)
(***************************************************************************)
EXTENDS Naturals, FiniteSets

CONSTANTS Ids,           \* schedules that clients ask to create, a fresh id each
          MaxSchedules,  \* the capacity, 200 in the code
          MaxFaults,     \* bound: file operations that fail
          MaxRestarts    \* bound: crashes of the process

ASSUME SchedulesAssumption ==
    /\ IsFiniteSet(Ids)
    /\ MaxSchedules \in Nat \ {0}
    /\ MaxFaults \in Nat
    /\ MaxRestarts \in Nat

VARIABLES
    listed,    \* app.state.schedules: the ids in it
    enabled,   \* the flag of each schedule object
    file,      \* {schedule_id}.json: the flag it holds, or "none"
    ap,        \* the jobs APScheduler has
    holder,    \* what the holder of SCHEDULE_REGISTRY_LOCK is about to do
    run,       \* the scheduled run of each schedule (max_instances is 1)
    told,      \* the last answer a client had about the schedule
    faults,
    restarts

svars == <<listed, enabled, file, ap, holder, run, told, faults, restarts>>

Free == [at |-> "free"]
Holding == [at : {"save", "save again", "unlink", "unregister", "save flag"}, id : Ids]
Flag(on) == IF on THEN "on" ELSE "off"

SchedulesTypeOK ==
    /\ listed \subseteq Ids
    /\ enabled \in [Ids -> BOOLEAN]
    /\ file \in [Ids -> {"none", "on", "off"}]
    /\ ap \subseteq Ids
    /\ holder \in Holding \cup {Free}
    /\ run \in [Ids -> {"idle", "fired", "working", "worked"}]
    /\ told \in [Ids -> {"nothing", "on", "off", "failed", "partly", "gone", "unsure"}]
    /\ faults \in 0..MaxFaults
    /\ restarts \in 0..MaxRestarts

SchedulesInit ==
    /\ listed = {}
    /\ enabled = [i \in Ids |-> FALSE]
    /\ file = [i \in Ids |-> "none"]
    /\ ap = {}
    /\ holder = Free
    /\ run = [i \in Ids |-> "idle"]
    /\ told = [i \in Ids |-> "nothing"]
    /\ faults = 0
    /\ restarts = 0

Fault ==
    /\ faults < MaxFaults
    /\ faults' = faults + 1

------------------------------------------------------------------------------
(* create_schedule: listed, saved, registered, saved again with the first  *)
(* next_run_at.                                                            *)

Create(i) ==
    /\ holder = Free
    /\ told[i] = "nothing"
    /\ Cardinality(listed) < MaxSchedules
    /\ holder' = [at |-> "save", id |-> i]
    /\ listed' = listed \cup {i}
    /\ enabled' = [enabled EXCEPT ![i] = TRUE]
    /\ UNCHANGED <<file, ap, run, told, faults, restarts>>

SaveNew(i) ==
    /\ holder = [at |-> "save", id |-> i]
    /\ holder' = [at |-> "save again", id |-> i]
    /\ file' = [file EXCEPT ![i] = Flag(enabled[i])]
    /\ ap' = ap \cup {i}
    /\ UNCHANGED <<listed, enabled, run, told, faults, restarts>>

SaveNextRun(i) ==
    /\ holder = [at |-> "save again", id |-> i]
    /\ holder' = Free
    /\ file' = [file EXCEPT ![i] = Flag(enabled[i])]
    /\ told' = [told EXCEPT ![i] = "on"]
    /\ UNCHANGED <<listed, enabled, ap, run, faults, restarts>>

(* Either save fails: the registry and APScheduler are put back, the file  *)
(* of a first save is not.  The client is answered the same either way.    *)
Refusal == IF holder.at = "save" THEN "failed" ELSE "partly"

CreateFailsKeepingJob(i) ==                       \* mutant: the job is left
    /\ \E at \in {"save", "save again"} : holder = [at |-> at, id |-> i]
    /\ Fault
    /\ holder' = Free
    /\ listed' = listed \ {i}
    /\ told' = [told EXCEPT ![i] = Refusal]
    /\ UNCHANGED <<enabled, file, ap, run, restarts>>

CreateFails(i) ==
    /\ \E at \in {"save", "save again"} : holder = [at |-> at, id |-> i]
    /\ Fault
    /\ holder' = Free
    /\ listed' = listed \ {i}
    /\ ap' = ap \ {i}
    /\ told' = [told EXCEPT ![i] = Refusal]
    /\ UNCHANGED <<enabled, file, run, restarts>>

------------------------------------------------------------------------------
(* delete_schedule: out of the registry, the file unlinked, unregistered.  *)

Delete(i) ==
    /\ holder = Free
    /\ i \in listed
    /\ holder' = [at |-> "unlink", id |-> i]
    /\ listed' = listed \ {i}
    /\ UNCHANGED <<enabled, file, ap, run, told, faults, restarts>>

Unlink(i) ==
    /\ holder = [at |-> "unlink", id |-> i]
    /\ holder' = [at |-> "unregister", id |-> i]
    /\ file' = [file EXCEPT ![i] = "none"]
    /\ UNCHANGED <<listed, enabled, ap, run, told, faults, restarts>>

UnlinkFails(i) ==
    /\ holder = [at |-> "unlink", id |-> i]
    /\ Fault
    /\ holder' = Free
    /\ listed' = listed \cup {i}
    /\ UNCHANGED <<enabled, file, ap, run, told, restarts>>

Unregister(i) ==
    /\ holder = [at |-> "unregister", id |-> i]
    /\ holder' = Free
    /\ ap' = ap \ {i}
    /\ told' = [told EXCEPT ![i] = "gone"]
    /\ UNCHANGED <<listed, enabled, file, run, faults, restarts>>

------------------------------------------------------------------------------
(* toggle_schedule: the flag and the job at once, then the save; a save    *)
(* that fails puts both back.                                              *)

JobsWith(i, on) == IF on THEN ap \cup {i} ELSE ap \ {i}

Toggle(i) ==
    /\ holder = Free
    /\ i \in listed
    /\ holder' = [at |-> "save flag", id |-> i]
    /\ enabled' = [enabled EXCEPT ![i] = ~@]
    /\ ap' = JobsWith(i, ~enabled[i])
    /\ UNCHANGED <<listed, file, run, told, faults, restarts>>

SaveFlag(i) ==
    /\ holder = [at |-> "save flag", id |-> i]
    /\ holder' = Free
    /\ file' = [file EXCEPT ![i] = Flag(enabled[i])]
    /\ told' = [told EXCEPT ![i] = Flag(enabled[i])]
    /\ UNCHANGED <<listed, enabled, ap, run, faults, restarts>>

ToggleFailsJobless(i) ==                          \* mutant: the job is not put back
    /\ holder = [at |-> "save flag", id |-> i]
    /\ Fault
    /\ holder' = Free
    /\ enabled' = [enabled EXCEPT ![i] = ~@]
    /\ UNCHANGED <<listed, ap, file, run, told, restarts>>

ToggleFails(i) ==
    /\ holder = [at |-> "save flag", id |-> i]
    /\ Fault
    /\ holder' = Free
    /\ enabled' = [enabled EXCEPT ![i] = ~@]
    /\ ap' = JobsWith(i, ~enabled[i])
    /\ UNCHANGED <<listed, file, run, told, restarts>>

------------------------------------------------------------------------------
(* A scheduled run.  APScheduler (external) starts the coroutine.          *)

Fire(i) ==
    /\ i \in ap
    /\ run[i] = "idle"
    /\ run' = [run EXCEPT ![i] = "fired"]
    /\ UNCHANGED <<listed, enabled, file, ap, holder, told, faults, restarts>>

(* _run_scheduled_backup_inner looks the schedule up without the lock, and *)
(* goes on when it is there and enabled.                                   *)
BeginRun(i) ==
    /\ run[i] = "fired"
    /\ run' = [run EXCEPT ![i] = IF i \in listed /\ enabled[i] THEN "working" ELSE "idle"]
    /\ UNCHANGED <<listed, enabled, file, ap, holder, told, faults, restarts>>

Work(i) ==
    /\ run[i] = "working"
    /\ run' = [run EXCEPT ![i] = "worked"]
    /\ UNCHANGED <<listed, enabled, file, ap, holder, told, faults, restarts>>

(* No device is left to back up, or the runner raised.                     *)
WorkFails(i) ==
    /\ run[i] = "working"
    /\ Fault
    /\ run' = [run EXCEPT ![i] = "idle"]
    /\ UNCHANGED <<listed, enabled, file, ap, holder, told, restarts>>

(* After the run, under the lock: the schedule is saved with the run's     *)
(* time and job, unless it was deleted meanwhile.                          *)
RecordUnchecked(i) ==                             \* mutant: CONC-2 is back
    /\ run[i] = "worked"
    /\ holder = Free
    /\ run' = [run EXCEPT ![i] = "idle"]
    /\ file' = [file EXCEPT ![i] = Flag(enabled[i])]
    /\ UNCHANGED <<listed, enabled, ap, holder, told, faults, restarts>>

Record(i) ==
    /\ run[i] = "worked"
    /\ holder = Free
    /\ i \in listed
    /\ run' = [run EXCEPT ![i] = "idle"]
    /\ file' = [file EXCEPT ![i] = Flag(enabled[i])]
    /\ UNCHANGED <<listed, enabled, ap, holder, told, faults, restarts>>

RecordUnsaved(i) ==
    /\ run[i] = "worked"
    /\ holder = Free
    /\ i \in listed
    /\ Fault
    /\ run' = [run EXCEPT ![i] = "idle"]
    /\ UNCHANGED <<listed, enabled, file, ap, holder, told, restarts>>

RemovedMeanwhile(i) ==
    /\ run[i] = "worked"
    /\ holder = Free
    /\ i \notin listed
    /\ run' = [run EXCEPT ![i] = "idle"]
    /\ UNCHANGED <<listed, enabled, file, ap, holder, told, faults, restarts>>

------------------------------------------------------------------------------
(* The process dies; the next one loads every file (all can be read) and   *)
(* registers the schedules that are enabled.                               *)

OnDisk == {i \in Ids : file[i] # "none"}

Restart ==
    /\ restarts < MaxRestarts
    /\ restarts' = restarts + 1
    /\ listed' = OnDisk
    /\ enabled' = [i \in Ids |-> file[i] = "on"]
    /\ ap' = {i \in OnDisk : file[i] = "on"}
    /\ holder' = Free
    /\ run' = [i \in Ids |-> "idle"]
    /\ told' = [i \in Ids |-> IF holder # Free /\ holder.id = i THEN "unsure" ELSE told[i]]
    /\ UNCHANGED <<file, faults>>

------------------------------------------------------------------------------
Routes(i) ==
    \/ Create(i)
    \/ SaveNew(i)
    \/ SaveNextRun(i)
    \/ CreateFails(i)
    \/ Delete(i)
    \/ Unlink(i)
    \/ UnlinkFails(i)
    \/ Unregister(i)
    \/ Toggle(i)
    \/ SaveFlag(i)
    \/ ToggleFails(i)

Runs(i) ==
    \/ Fire(i)
    \/ BeginRun(i)
    \/ Work(i)
    \/ WorkFails(i)
    \/ Record(i)
    \/ RecordUnsaved(i)
    \/ RemovedMeanwhile(i)

SchedulesNext ==
    \/ \E i \in Ids : Routes(i)
    \/ \E i \in Ids : Runs(i)
    \/ Restart

SchedulesSpec == SchedulesInit /\ [][SchedulesNext]_svars

(* A route that holds the lock finishes, APScheduler keeps firing, the     *)
(* coroutine and its job go on, and a run that waits for the lock gets it  *)
(* although routes keep taking it: each of them gives it back after a few  *)
(* file operations.                                                        *)
Holds(i) ==
    \/ SaveNew(i)
    \/ SaveNextRun(i)
    \/ Unlink(i)
    \/ Unregister(i)
    \/ SaveFlag(i)

SchedulesFairness ==
    \A i \in Ids :
        /\ WF_svars(Holds(i))
        /\ WF_svars(Fire(i))
        /\ WF_svars(BeginRun(i))
        /\ WF_svars(Work(i))
        /\ SF_svars(Record(i))

------------------------------------------------------------------------------
(* What the client was last told stands, in the file and after restarts: a *)
(* schedule that exists keeps its flag whatever failed since, and one that *)
(* was deleted comes back neither to the registry nor on disk nor in       *)
(* APScheduler, though a run of it may end later (CONC-2, C3); one whose   *)
(* creation failed at its first save is nowhere either.  The one moment    *)
(* excepted is between the file operation of a deletion and its answer.    *)
Deleting(i) == holder = [at |-> "unregister", id |-> i]

ToldIsKept ==
    \A i \in Ids :
        /\ told[i] \in {"on", "off"} /\ ~Deleting(i) => file[i] = told[i]
        /\ told[i] \in {"gone", "failed"} => i \notin listed /\ file[i] = "none" /\ i \notin ap

(* When no route is at work, what GET lists, what fires and what a restart *)
(* would list agree: memory and file have the same flag, APScheduler has a *)
(* job for the enabled ones and for nothing else, and there is no file of  *)
(* a schedule that is not listed, after every rollback but one: a creation *)
(* whose second save fails leaves the file of its first, and the schedule  *)
(* that the client was refused is there, and runs, after a restart.        *)
ThreeCopiesAgree ==
    holder = Free =>
        /\ \A i \in listed : file[i] = Flag(enabled[i])
        /\ ap = {i \in listed : enabled[i]}
        /\ \A i \in Ids \ listed : file[i] # "none" => told[i] = "partly"

(* A schedule that stays on is run again and again, whatever the routes of *)
(* other schedules do, and although a run is skipped when its look-up sees *)
(* a toggle that is about to be rolled back.                               *)
EnabledSchedulesRun ==
    \A i \in Ids : <>[](told[i] = "on") => []<>(run[i] = "working")
==============================================================================
