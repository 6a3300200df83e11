---------------------------- MODULE SchedulesProofs ----------------------------
(***************************************************************************)
(* Proofs about Schedules, for any finite set of schedules and any number  *)
(* of failures and restarts: what a client was told stands, and registry,  *)
(* files and APScheduler agree whenever no route is at work.               *)
(*                                                                         *)
(* Neither is inductive: what a rollback has to restore depends on how far *)
(* the holder of the lock has come.  InStep(i) says, for each point of a   *)
(* route, how the three copies and the last answer stand there.            *)
(***************************************************************************)
EXTENDS Schedules, TLAPS

Points == {"save", "save again", "unlink", "unregister", "save flag"}

(* The holder of the lock is about to do this with schedule i.             *)
In(i, at) == holder = [at |-> at, id |-> i]
Resting(i) == \A at \in Points : ~In(i, at)

(* A client has had an answer, and not that there is no such schedule.     *)
Answered(i) ==
    /\ told[i] \notin {"nothing", "gone", "failed"}
    /\ told[i] \in {"on", "off"} => file[i] = told[i]

Settled(i) ==
    /\ i \in listed => file[i] = Flag(enabled[i]) /\ Answered(i)
    /\ i \in ap <=> (i \in listed /\ enabled[i])
    /\ told[i] \in {"nothing", "gone", "failed"} => i \notin listed /\ file[i] = "none"
    /\ i \notin listed /\ file[i] # "none" => told[i] = "partly"
    /\ told[i] \in {"on", "off"} => i \in listed

InStep(i) ==
    /\ Resting(i) => Settled(i)
    /\ In(i, "save") =>
        i \in listed /\ enabled[i] /\ file[i] = "none" /\ i \notin ap /\ told[i] = "nothing"
    /\ In(i, "save again") =>
        i \in listed /\ enabled[i] /\ file[i] = "on" /\ i \in ap /\ told[i] = "nothing"
    /\ In(i, "unlink") =>
        /\ i \notin listed
        /\ file[i] = Flag(enabled[i])
        /\ i \in ap <=> enabled[i]
        /\ Answered(i)
    /\ In(i, "unregister") =>
        i \notin listed /\ file[i] = "none" /\ told[i] \notin {"nothing", "gone", "failed"}
    /\ In(i, "save flag") =>
        /\ i \in listed
        /\ file[i] = Flag(~enabled[i])
        /\ i \in ap <=> enabled[i]
        /\ Answered(i)

IInv == SchedulesTypeOK /\ \A i \in Ids : InStep(i)

------------------------------------------------------------------------------
(* The state of a schedule that a step leaves alone.                       *)
Untouched(i) ==
    /\ i \in listed' <=> i \in listed
    /\ enabled'[i] = enabled[i]
    /\ file'[i] = file[i]
    /\ i \in ap' <=> i \in ap
    /\ told'[i] = told[i]

(* A schedule in the hands of nobody stays as it is when it is left alone. *)
LEMMA UntouchedStaysInStep ==
    ASSUME NEW i \in Ids, InStep(i), Untouched(i), Resting(i), Resting(i)'
    PROVE  InStep(i)'
<1>1. Settled(i)
  BY DEF InStep
<1>2. Settled(i)'
  BY <1>1 DEF Settled, Answered, Untouched, Flag
<1>3. \A at \in Points : ~In(i, at)'
  BY DEF Resting
<1> QED
  BY <1>2, <1>3 DEF InStep, Points

(* With the lock free nobody is in the middle of anything, and a route has *)
(* it for one schedule, at one point.                                      *)
LEMMA FreeIsAtNoPoint ==
    ASSUME NEW i \in Ids, NEW at \in Points
    PROVE  Free # [at |-> at, id |-> i]
<1>1. Free.at = "free" /\ [at |-> at, id |-> i].at = at
  BY DEF Free
<1> QED
  BY <1>1 DEF Points

LEMMA OneIdOnePoint ==
    ASSUME NEW i \in Ids, NEW j \in Ids, NEW a \in Points, NEW b \in Points,
           [at |-> a, id |-> i] = [at |-> b, id |-> j]
    PROVE  a = b /\ i = j
<1>1. [at |-> a, id |-> i].at = a /\ [at |-> b, id |-> j].at = b
  OBVIOUS
<1>2. [at |-> a, id |-> i].id = i /\ [at |-> b, id |-> j].id = j
  OBVIOUS
<1> QED
  BY <1>1, <1>2

(* The lock is free or held for schedule i.                                *)
For(i) == holder = Free \/ \E at \in Points : In(i, at)

LEMMA OthersRest ==
    ASSUME NEW i \in Ids, NEW j \in Ids, i # j
    PROVE  /\ For(i) => Resting(j)
           /\ For(i)' => Resting(j)'
BY FreeIsAtNoPoint, OneIdOnePoint DEF For, Resting, In

(* Whatever a route of i does, it does to i.                               *)
LEMMA OthersStayInStep ==
    ASSUME IInv, NEW i \in Ids, NEW j \in Ids, i # j, Routes(i)
    PROVE  InStep(j)'
<1>1. For(i) /\ For(i)'
  BY DEF Routes, Create, SaveNew, SaveNextRun, CreateFails, Delete, Unlink, UnlinkFails,
         Unregister, Toggle, SaveFlag, ToggleFails, For, In, Points
<1>2. j \in listed' <=> j \in listed
  BY DEF Routes, Create, SaveNew, SaveNextRun, CreateFails, Delete, Unlink, UnlinkFails,
         Unregister, Toggle, SaveFlag, ToggleFails
<1>3. enabled'[j] = enabled[j] /\ file'[j] = file[j] /\ told'[j] = told[j]
  BY DEF Routes, Create, SaveNew, SaveNextRun, CreateFails, Delete, Unlink, UnlinkFails,
         Unregister, Toggle, SaveFlag, ToggleFails, IInv, SchedulesTypeOK
<1>4. j \in ap' <=> j \in ap
  BY DEF Routes, Create, SaveNew, SaveNextRun, CreateFails, Delete, Unlink, UnlinkFails,
         Unregister, Toggle, SaveFlag, ToggleFails, JobsWith
<1>5. Untouched(j)
  BY <1>2, <1>3, <1>4 DEF Untouched
<1>6. InStep(j)
  BY DEF IInv
<1> QED
  BY <1>1, <1>5, <1>6, OthersRest, UntouchedStaysInStep

------------------------------------------------------------------------------
(* Every action keeps the types.                                           *)
LEMMA TypesFromStart == SchedulesInit => SchedulesTypeOK
BY SchedulesAssumption DEF SchedulesInit, SchedulesTypeOK, Free

LEMMA FaultsStayInBounds == ASSUME SchedulesTypeOK, Fault PROVE faults' \in 0..MaxFaults
BY SchedulesAssumption DEF SchedulesTypeOK, Fault

LEMMA TypesKept == SchedulesTypeOK /\ [SchedulesNext]_svars => SchedulesTypeOK'
<1> SUFFICES ASSUME SchedulesTypeOK, [SchedulesNext]_svars PROVE SchedulesTypeOK'
  OBVIOUS
<1>1. ASSUME NEW i \in Ids, Routes(i) PROVE SchedulesTypeOK'
  <2>1. CASE Create(i)
    BY <2>1 DEF SchedulesTypeOK, Create, Holding
  <2>2. CASE SaveNew(i)
    BY <2>2 DEF SchedulesTypeOK, SaveNew, Holding, Flag
  <2>3. CASE SaveNextRun(i)
    BY <2>3 DEF SchedulesTypeOK, SaveNextRun, Flag
  <2>4. CASE CreateFails(i)
    <3>1. faults' \in 0..MaxFaults
      BY <2>4, FaultsStayInBounds DEF CreateFails
    <3>2. told' = [told EXCEPT ![i] = Refusal] /\ Refusal \in {"failed", "partly"}
      BY <2>4 DEF CreateFails, Refusal
    <3> QED
      BY <2>4, <3>1, <3>2 DEF SchedulesTypeOK, CreateFails
  <2>5. CASE Delete(i)
    BY <2>5 DEF SchedulesTypeOK, Delete, Holding
  <2>6. CASE Unlink(i)
    BY <2>6 DEF SchedulesTypeOK, Unlink, Holding
  <2>7. CASE UnlinkFails(i)
    BY <2>7, FaultsStayInBounds DEF SchedulesTypeOK, UnlinkFails
  <2>8. CASE Unregister(i)
    BY <2>8 DEF SchedulesTypeOK, Unregister
  <2>9. CASE Toggle(i)
    BY <2>9 DEF SchedulesTypeOK, Toggle, JobsWith, Holding
  <2>10. CASE SaveFlag(i)
    BY <2>10 DEF SchedulesTypeOK, SaveFlag, Flag
  <2>11. CASE ToggleFails(i)
    <3>1. faults' \in 0..MaxFaults
      BY <2>11, FaultsStayInBounds DEF ToggleFails
    <3>2. enabled' \in [Ids -> BOOLEAN]
      BY <2>11 DEF SchedulesTypeOK, ToggleFails
    <3>3. ap' \subseteq Ids
      BY <2>11 DEF SchedulesTypeOK, ToggleFails, JobsWith
    <3> QED
      BY <2>11, <3>1, <3>2, <3>3 DEF SchedulesTypeOK, ToggleFails
  <2> QED
    BY <1>1, <2>1, <2>2, <2>3, <2>4, <2>5, <2>6, <2>7, <2>8, <2>9, <2>10, <2>11 DEF Routes
<1>2. ASSUME NEW i \in Ids, Runs(i) PROVE SchedulesTypeOK'
  BY <1>2, SchedulesAssumption
     DEF SchedulesTypeOK, Runs, Fire, BeginRun, Work, WorkFails, Record, RecordUnsaved, RemovedMeanwhile,
         Fault, Flag
<1>3. CASE Restart
  BY <1>3, SchedulesAssumption DEF SchedulesTypeOK, Restart, OnDisk
<1>4. CASE UNCHANGED svars
  BY <1>4 DEF SchedulesTypeOK, svars
<1> QED
  BY <1>1, <1>2, <1>3, <1>4 DEF SchedulesNext

------------------------------------------------------------------------------
(* What a schedule is at before its own step, and after it.                *)
LEMMA Arrives ==
    ASSUME NEW i \in Ids, NEW at \in Points, In(i, at)'
    PROVE  /\ ~Resting(i)'
           /\ \A b \in Points : In(i, b)' => b = at
BY OneIdOnePoint DEF In, Resting

LEMMA ComesToRest ==
    ASSUME NEW i \in Ids, holder' = Free, Settled(i)'
    PROVE  InStep(i)'
<1>1. \A at \in Points : ~In(i, at)'
  BY FreeIsAtNoPoint DEF In
<1> QED
  BY <1>1 DEF InStep, Points

LEMMA ItsOwnStep ==
    ASSUME IInv, SchedulesTypeOK', NEW i \in Ids, Routes(i)
    PROVE  InStep(i)'
<1> USE DEF IInv
<1>0. InStep(i)
  OBVIOUS
<1>1. CASE Create(i)
  <2>1. Resting(i) /\ In(i, "save")'
    BY <1>1, FreeIsAtNoPoint DEF Create, Resting, In
  <2>2. Settled(i) /\ told[i] = "nothing"
    BY <1>0, <1>1, <2>1 DEF InStep, Create
  <2>3. /\ i \in listed' /\ enabled'[i] /\ file'[i] = "none" /\ i \notin ap'
        /\ told'[i] = "nothing"
    BY <1>1, <2>2 DEF Create, Settled, SchedulesTypeOK
  <2> QED
    BY <2>1, <2>3, Arrives DEF InStep, Points
<1>2. CASE SaveNew(i)
  <2>1. In(i, "save") /\ In(i, "save again")'
    BY <1>2 DEF SaveNew, In
  <2>2. i \in listed /\ enabled[i] /\ told[i] = "nothing"
    BY <1>0, <2>1 DEF InStep
  <2>3. file' = [file EXCEPT ![i] = Flag(enabled[i])]
    BY <1>2 DEF SaveNew
  <2>4. file'[i] = "on"
    BY <2>2, <2>3 DEF SchedulesTypeOK, Flag
  <2>5. i \in listed' /\ enabled'[i] /\ i \in ap' /\ told'[i] = "nothing"
    BY <1>2, <2>2 DEF SaveNew
  <2> QED
    BY <2>1, <2>4, <2>5, Arrives DEF InStep, Points
<1>3. CASE SaveNextRun(i)
  <2>1. In(i, "save again") /\ holder' = Free
    BY <1>3 DEF SaveNextRun, In
  <2>2. i \in listed /\ enabled[i] /\ i \in ap
    BY <1>0, <2>1 DEF InStep
  <2>3. i \in listed' /\ enabled'[i] /\ i \in ap'
    BY <1>3, <2>2 DEF SaveNextRun
  <2>4. file'[i] = Flag(enabled[i]) /\ told'[i] = "on"
    BY <1>3 DEF SaveNextRun, SchedulesTypeOK
  <2>5. file'[i] = "on" /\ Flag(enabled'[i]) = "on"
    BY <2>2, <2>3, <2>4 DEF Flag
  <2>6. Settled(i)'
    BY <2>3, <2>4, <2>5 DEF Settled, Answered
  <2> QED
    BY <2>1, <2>6, ComesToRest
<1>4. CASE CreateFails(i)
  <2>1. i \notin listed' /\ i \notin ap' /\ told'[i] = Refusal /\ holder' = Free
        /\ file' = file
    BY <1>4 DEF CreateFails, SchedulesTypeOK
  <2>2. CASE In(i, "save")
    <3>1. Refusal = "failed" /\ file[i] = "none"
      BY <1>0, <2>2 DEF InStep, In, Refusal
    <3> QED
      BY <2>1, <3>1, ComesToRest DEF Settled
  <2>3. CASE In(i, "save again")
    <3>1. Refusal = "partly"
      BY <2>3 DEF In, Refusal
    <3> QED
      BY <2>1, <3>1, ComesToRest DEF Settled
  <2> QED
    BY <1>4, <2>2, <2>3 DEF CreateFails, In
<1>5. CASE Delete(i)
  <2>1. Resting(i) /\ In(i, "unlink")'
    BY <1>5, FreeIsAtNoPoint DEF Delete, Resting, In
  <2>2. Settled(i) /\ i \in listed
    BY <1>0, <1>5, <2>1 DEF InStep, Delete
  <2>3. /\ i \notin listed' /\ file'[i] = Flag(enabled'[i]) /\ Answered(i)'
        /\ i \in ap' <=> enabled'[i]
    BY <1>5, <2>2 DEF Delete, Settled, Answered
  <2> QED
    BY <2>1, <2>3, Arrives DEF InStep, Points
<1>6. CASE Unlink(i)
  <2>1. In(i, "unlink") /\ In(i, "unregister")'
    BY <1>6 DEF Unlink, In
  <2>2. file' = [file EXCEPT ![i] = "none"]
    BY <1>6 DEF Unlink
  <2>3. file'[i] = "none"
    BY <2>2 DEF SchedulesTypeOK
  <2>4. i \notin listed /\ Answered(i)
    BY <1>0, <2>1 DEF InStep
  <2>5. i \notin listed' /\ told'[i] \notin {"nothing", "gone", "failed"}
    BY <1>6, <2>4 DEF Unlink, Answered
  <2> QED
    BY <2>1, <2>3, <2>5, Arrives DEF InStep, Points
<1>7. CASE UnlinkFails(i)
  <2>1. In(i, "unlink") /\ holder' = Free
    BY <1>7 DEF UnlinkFails, In
  <2>2. Settled(i)'
    BY <1>0, <1>7, <2>1 DEF UnlinkFails, InStep, Settled, Answered
  <2> QED
    BY <2>1, <2>2, ComesToRest
<1>8. CASE Unregister(i)
  <2>1. In(i, "unregister") /\ holder' = Free
    BY <1>8 DEF Unregister, In
  <2>2. i \notin listed /\ file[i] = "none"
    BY <1>0, <2>1 DEF InStep
  <2>3. told' = [told EXCEPT ![i] = "gone"]
    BY <1>8 DEF Unregister
  <2>4. told'[i] = "gone"
    BY <2>3 DEF SchedulesTypeOK
  <2>5. i \notin listed' /\ file'[i] = "none" /\ i \notin ap'
    BY <1>8, <2>2 DEF Unregister
  <2>6. Settled(i)'
    BY <2>4, <2>5 DEF Settled
  <2> QED
    BY <2>1, <2>6, ComesToRest
<1>9. CASE Toggle(i)
  <2>1. Resting(i) /\ In(i, "save flag")'
    BY <1>9, FreeIsAtNoPoint DEF Toggle, Resting, In
  <2>2. Settled(i) /\ i \in listed
    BY <1>0, <1>9, <2>1 DEF InStep, Toggle
  <2>3. enabled'[i] = ~enabled[i]
    BY <1>9 DEF Toggle, SchedulesTypeOK
  <2>4. i \in ap' <=> ~enabled[i]
    BY <1>9 DEF Toggle, JobsWith
  <2>5. i \in listed' /\ file'[i] = Flag(enabled[i]) /\ Answered(i)'
    BY <1>9, <2>2 DEF Toggle, Settled, Answered
  <2>6. enabled[i] \in BOOLEAN
    BY DEF SchedulesTypeOK
  <2>7. file'[i] = Flag(~enabled'[i])
    BY <2>3, <2>5, <2>6 DEF Flag
  <2> QED
    BY <2>1, <2>3, <2>4, <2>5, <2>7, Arrives DEF InStep, Points
<1>10. CASE SaveFlag(i)
  <2>1. In(i, "save flag") /\ holder' = Free
    BY <1>10 DEF SaveFlag, In
  <2>2. file'[i] = Flag(enabled[i]) /\ told'[i] = Flag(enabled[i])
    BY <1>10 DEF SaveFlag, SchedulesTypeOK
  <2>3. i \in listed' /\ enabled'[i] = enabled[i] /\ (i \in ap' <=> enabled'[i])
    BY <1>0, <1>10, <2>1 DEF SaveFlag, InStep
  <2>4. Settled(i)'
    BY <2>2, <2>3 DEF Settled, Answered, Flag
  <2> QED
    BY <2>1, <2>4, ComesToRest
<1>11. CASE ToggleFails(i)
  <2>1. In(i, "save flag") /\ holder' = Free
    BY <1>11 DEF ToggleFails, In
  <2>2. enabled'[i] = ~enabled[i]
    BY <1>11 DEF ToggleFails, SchedulesTypeOK
  <2>3. i \in ap' <=> ~enabled[i]
    BY <1>11 DEF ToggleFails, JobsWith
  <2>4. i \in listed' /\ file'[i] = Flag(~enabled[i]) /\ Answered(i)'
    BY <1>0, <1>11, <2>1 DEF ToggleFails, InStep, Answered
  <2>5. file'[i] = Flag(enabled'[i])
    BY <2>2, <2>4
  <2>6. Settled(i)'
    BY <2>2, <2>3, <2>4, <2>5 DEF Settled, Answered
  <2> QED
    BY <2>1, <2>6, ComesToRest
<1> QED
  BY <1>1, <1>2, <1>3, <1>4, <1>5, <1>6, <1>7, <1>8, <1>9, <1>10, <1>11 DEF Routes

------------------------------------------------------------------------------
(* A scheduled run writes nothing but the file of a schedule that is       *)
(* listed while the lock is free, and writes what is there.                *)
LEMMA RunsChangeNothing ==
    ASSUME IInv, NEW i \in Ids, Runs(i), NEW j \in Ids
    PROVE  InStep(j)'
<1>1. UNCHANGED <<listed, enabled, ap, holder, told>>
  BY DEF Runs, Fire, BeginRun, Work, WorkFails, Record, RecordUnsaved, RemovedMeanwhile
<1>2. file'[j] = file[j]
  <2>1. CASE Record(i)
    <3>1. Resting(i)
      BY <2>1, FreeIsAtNoPoint DEF Record, Resting, In
    <3>2. file[i] = Flag(enabled[i])
      BY <2>1, <3>1 DEF Record, IInv, InStep, Settled
    <3>3. file' = [file EXCEPT ![i] = Flag(enabled[i])]
      BY <2>1 DEF Record
    <3> QED
      BY <3>2, <3>3 DEF IInv, SchedulesTypeOK
  <2>2. CASE ~Record(i)
    BY <2>2 DEF Runs, Fire, BeginRun, Work, WorkFails, RecordUnsaved, RemovedMeanwhile
  <2> QED
    BY <2>1, <2>2
<1>3. InStep(j)
  BY DEF IInv
<1> QED
  BY <1>1, <1>2, <1>3 DEF InStep, Resting, In, Settled, Answered

(* The next process: what its files say, and no client has been told more. *)
LEMMA RestartSettles ==
    ASSUME IInv, Restart, NEW j \in Ids
    PROVE  InStep(j)'
<1>1. /\ holder' = Free
      /\ j \in listed' <=> file[j] # "none"
      /\ enabled'[j] = (file[j] = "on")
      /\ j \in ap' <=> file[j] = "on"
      /\ file' = file
  BY DEF Restart, OnDisk
<1>2. told'[j] = IF holder # Free /\ holder.id = j THEN "unsure" ELSE told[j]
  BY DEF Restart
<1>3. InStep(j) /\ file[j] \in {"none", "on", "off"}
  BY DEF IInv, SchedulesTypeOK
<1>4. Settled(j)'
  <2>1. CASE holder # Free /\ holder.id = j
    BY <1>1, <1>2, <1>3, <2>1 DEF Settled, Answered, Flag
  <2>2. CASE ~(holder # Free /\ holder.id = j)
    <3>1. Resting(j)
      <4> SUFFICES ASSUME NEW at \in Points, In(j, at) PROVE FALSE
        BY DEF Resting
      <4>1. holder # Free
        BY FreeIsAtNoPoint DEF In
      <4>2. holder.id = j
        BY DEF In
      <4> QED
        BY <2>2, <4>1, <4>2
    <3>2. Settled(j)
      BY <1>3, <3>1 DEF InStep
    <3> QED
      BY <1>1, <1>2, <1>3, <2>2, <3>2 DEF Settled, Answered, Flag
  <2> QED
    BY <2>1, <2>2
<1> QED
  BY <1>1, <1>4, ComesToRest

------------------------------------------------------------------------------
LEMMA InvariantFromStart == SchedulesInit => IInv
<1> SUFFICES ASSUME SchedulesInit PROVE IInv
  OBVIOUS
<1>1. SchedulesTypeOK
  BY TypesFromStart
<1>2. ASSUME NEW i \in Ids PROVE InStep(i)
  <2>1. \A at \in Points : ~In(i, at)
    BY FreeIsAtNoPoint DEF SchedulesInit, In
  <2>2. Settled(i)
    BY DEF SchedulesInit, Settled
  <2> QED
    BY <2>1, <2>2 DEF InStep, Points
<1> QED
  BY <1>1, <1>2 DEF IInv

LEMMA InvariantKept == IInv /\ [SchedulesNext]_svars => IInv'
<1> SUFFICES ASSUME IInv, [SchedulesNext]_svars PROVE IInv'
  OBVIOUS
<1>1. SchedulesTypeOK'
  BY TypesKept DEF IInv
<1>2. ASSUME NEW i \in Ids, Routes(i), NEW j \in Ids PROVE InStep(j)'
  BY <1>1, <1>2, ItsOwnStep, OthersStayInStep
<1>3. ASSUME NEW i \in Ids, Runs(i), NEW j \in Ids PROVE InStep(j)'
  BY <1>3, RunsChangeNothing
<1>4. ASSUME Restart, NEW j \in Ids PROVE InStep(j)'
  BY <1>4, RestartSettles
<1>5. ASSUME UNCHANGED svars, NEW j \in Ids PROVE InStep(j)'
  BY <1>5 DEF svars, IInv, InStep, Resting, In, Settled, Answered
<1> QED
  BY <1>1, <1>2, <1>3, <1>4, <1>5 DEF IInv, SchedulesNext

LEMMA InvariantHolds == SchedulesSpec => []IInv
BY InvariantFromStart, InvariantKept, PTL DEF SchedulesSpec

(* Type correctness, of any schedules and bounds.                          *)
THEOREM SchedulesAreTyped == SchedulesSpec => []SchedulesTypeOK
<1>1. IInv => SchedulesTypeOK
  BY DEF IInv
<1> QED
  BY <1>1, InvariantHolds, PTL

(* What a client was told stands: an existing schedule keeps its flag and  *)
(* a deleted one stays deleted, and one that was refused at its first save *)
(* stays away, on disk, in memory and in APScheduler,                      *)
(* through failed file operations, runs that end late and restarts (CONC-2 *)
(* and C3 of api/routes/schedules.py).                                     *)
THEOREM AnswersStand == SchedulesSpec => []ToldIsKept
<1>1. IInv => ToldIsKept
  <2> SUFFICES ASSUME IInv, NEW i \in Ids
               PROVE  /\ told[i] \in {"on", "off"} /\ ~Deleting(i) => file[i] = told[i]
                      /\ told[i] \in {"gone", "failed"} => i \notin listed /\ file[i] = "none" /\ i \notin ap
    BY DEF ToldIsKept
  <2>1. InStep(i)
    BY DEF IInv
  <2>2. Resting(i) \/ \E at \in Points : In(i, at)
    BY DEF Resting
  <2> QED
    BY <2>1, <2>2 DEF InStep, Settled, Answered, Points, Deleting, In
<1> QED
  BY <1>1, InvariantHolds, PTL

(* When no route is at work, after any failures and rollbacks, registry    *)
(* and files have the same flags, APScheduler has the jobs of exactly the  *)
(* enabled schedules, and the only file of a schedule that is not listed   *)
(* is one that a creation left whose second save failed.                   *)
THEOREM CopiesAgree == SchedulesSpec => []ThreeCopiesAgree
<1>1. IInv => ThreeCopiesAgree
  <2> SUFFICES ASSUME IInv, holder = Free
               PROVE  /\ \A i \in listed : file[i] = Flag(enabled[i])
                      /\ ap = {i \in listed : enabled[i]}
                      /\ \A i \in Ids \ listed : file[i] # "none" => told[i] = "partly"
    BY DEF ThreeCopiesAgree
  <2>1. listed \subseteq Ids /\ ap \subseteq Ids
    BY DEF IInv, SchedulesTypeOK
  <2>2. ASSUME NEW i \in Ids PROVE Settled(i)
    <3>1. Resting(i)
      BY FreeIsAtNoPoint DEF Resting, In
    <3> QED
      BY <3>1 DEF IInv, InStep
  <2> QED
    BY <2>1, <2>2 DEF Settled
<1> QED
  BY <1>1, InvariantHolds, PTL
==============================================================================
