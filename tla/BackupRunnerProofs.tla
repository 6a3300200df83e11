-------------------------- MODULE BackupRunnerProofs --------------------------
(***************************************************************************)
(* The backup runner keeps its word for every number of jobs, devices,     *)
(* workers and permits, whatever escapes and whatever cannot be started.   *)
(*                                                                         *)
(* None of its properties is inductive by itself: each speaks of what the  *)
(* polls can see, and what makes it so is where the threads are.  IInv     *)
(* ties the two together, job by job: the status that goes with each step  *)
(* of the job's thread, that nobody works on a device before the hand-over *)
(* or after the join, and what the result of a device says at each stage   *)
(* of the work on it.                                                      *)
(***************************************************************************)
EXTENDS BackupRunner, FiniteSetTheorems, WellFoundedInduction, TLAPS

(* The step of the job's thread tells its status, and the other way round. *)
StatusFits(j) ==
    /\ step[j] = "none" <=> status[j] = "none"
    /\ step[j] = "accepted" => status[j] = "pending"
    /\ step[j] \in {"dispatch", "pool"} => status[j] = "running"
    /\ step[j] \in {"settle", "verdict"} => status[j] \in {"pending", "running"}
    /\ step[j] \in {"save", "over"} <=> status[j] \in Terminal
    /\ step[j] \in {"settle", "verdict"} /\ status[j] = "pending" => broken[j]

(* Nobody works on a device before the hand-over or after the join, and    *)
(* what is still queued after the join has no thread to take it.           *)
DevicesRest(j) ==
    /\ step[j] \in {"none", "accepted", "dispatch"} =>
         \A d \in Devices : dev[j][d] = "idle"
    /\ step[j] \in {"settle", "verdict", "save", "over"} =>
         \A d \in Devices : dev[j][d] \notin Busy /\ (dev[j][d] = "queued" => crew[j] = 0)

(* What the result of a device says at each stage of the work on it.       *)
ResultFits(j, d) ==
    /\ status[j] \in {"none", "pending"} => results[j][d] = Blank
    /\ status[j] = "running" => results[j][d].status # "none"
    /\ step[j] = "dispatch" => results[j][d].status = "queued"
    /\ step[j] = "pool" /\ dev[j][d] = "queued" => results[j][d].status = "queued"
    /\ dev[j][d] \in {"worker", "holding"} => results[j][d].status = "queued"
    /\ dev[j][d] \in {"collecting", "saved", "worded"} => results[j][d].status = "running"
    /\ dev[j][d] = "saved" => results[j][d].record
    /\ dev[j][d] = "worded" => results[j][d].error
    /\ dev[j][d] = "nameless" => <<j, d>> \in Unknown
    /\ results[j][d].status = "success" => results[j][d].record
    /\ results[j][d].status = "failed" /\ <<j, d>> \notin Unknown => results[j][d].error

(* When the safety net is through, every device that was listed has its    *)
(* verdict; the file tells of an end only when there was one.              *)
EndFits(j) ==
    /\ step[j] \in {"verdict", "save", "over"} =>
         /\ stamped[j]
         /\ \A d \in Devices : results[j][d].status \notin {"queued", "running"}
    /\ status[j] = "completed" => \A d \in Devices : results[j][d].status = "success"
    /\ status[j] = "partial" => ~NoSuccess(j) /\ ~NoFailure(j)
    /\ disk[j] \in Terminal => disk[j] = status[j]

JobInv(j) ==
    /\ StatusFits(j)
    /\ DevicesRest(j)
    /\ \A d \in Devices : ResultFits(j, d)
    /\ EndFits(j)

IInv ==
    /\ TypeOK
    /\ PermitsAreExact
    /\ \A j \in Jobs : JobInv(j)

------------------------------------------------------------------------------
(* The permits that are out.                                               *)
Held == {p \in Jobs \X Devices : dev[p[1]][p[2]] \in UnderPermit}

(* There are finitely many devices.                                        *)
LEMMA DevicesAreFinite == IsFiniteSet(Devices)
  BY FS_Interval, RunnerAssumption DEF Devices

LEMMA PairsAreFinite ==
    ASSUME NEW S, S \subseteq Jobs \X Devices
    PROVE  IsFiniteSet(S) /\ Cardinality(S) \in Nat
<1>1. IsFiniteSet(Jobs \X Devices)
  BY FS_Product, DevicesAreFinite, RunnerAssumption
<1> QED  BY <1>1, FS_Subset, FS_CardinalityType

LEMMA HeldIsFinite == IsFiniteSet(Held) /\ Cardinality(Held) \in Nat
  BY PairsAreFinite DEF Held

(* A device that is moved changes the permits that are out by itself only. *)
LEMMA HeldAfterMove ==
    ASSUME TypeOK, NEW j \in Jobs, NEW d \in Devices, NEW to, Moves(j, d, to)
    PROVE  Held' = IF to \in UnderPermit THEN Held \cup {<<j, d>>} ELSE Held \ {<<j, d>>}
<1>1. \A i \in Jobs, e \in Devices :
         dev'[i][e] = IF i = j /\ e = d THEN to ELSE dev[i][e]
  BY DEF TypeOK, Moves
<1>2. \A p \in Jobs \X Devices :
         /\ p = <<p[1], p[2]>>
         /\ dev'[p[1]][p[2]] = IF p = <<j, d>> THEN to ELSE dev[p[1]][p[2]]
  BY <1>1
<1>3. <<j, d>> \in Jobs \X Devices
  OBVIOUS
<1> QED  BY <1>2, <1>3 DEF Held

LEMMA PermitsUntouched ==
    ASSUME PermitsAreExact, Held' = Held, permits' = permits
    PROVE  PermitsAreExact'
  BY DEF PermitsAreExact, Held

LEMMA PermitTaken ==
    ASSUME TypeOK, PermitsAreExact, NEW j \in Jobs, NEW d \in Devices,
           dev[j][d] \notin UnderPermit,
           Held' = Held \cup {<<j, d>>}, permits' = permits - 1
    PROVE  PermitsAreExact'
<1>1. <<j, d>> \notin Held
  BY DEF Held
<1>2. Cardinality(Held') = Cardinality(Held) + 1
  BY <1>1, HeldIsFinite, FS_AddElement
<1>3. permits \in Int
  BY RunnerAssumption DEF TypeOK
<1> QED  BY <1>2, <1>3, HeldIsFinite DEF PermitsAreExact, Held

LEMMA PermitReturned ==
    ASSUME TypeOK, PermitsAreExact, NEW j \in Jobs, NEW d \in Devices,
           dev[j][d] \in UnderPermit,
           Held' = Held \ {<<j, d>>}, permits' = permits + 1
    PROVE  PermitsAreExact'
<1>1. <<j, d>> \in Held
  BY DEF Held
<1>2. Cardinality(Held') = Cardinality(Held) - 1
  BY <1>1, HeldIsFinite, FS_RemoveElement
<1>3. permits \in Int
  BY RunnerAssumption DEF TypeOK
<1> QED  BY <1>2, <1>3, HeldIsFinite DEF PermitsAreExact, Held

(* Exact books keep the number of free permits within its bounds.          *)
LEMMA ExactPermitsAreBounded ==
    ASSUME PermitsAreExact', permits' \in Nat
    PROVE  permits' \in 0..Permits
<1>1. Cardinality(Held') \in Nat
  BY PairsAreFinite DEF Held
<1>2. permits' + Cardinality(Held') = Permits
  BY DEF PermitsAreExact, Held
<1> QED  BY <1>1, <1>2, RunnerAssumption

------------------------------------------------------------------------------
(* What is not touched stays in order.                                     *)
Untouched(i) ==
    /\ status'[i] = status[i]
    /\ stamped'[i] = stamped[i]
    /\ results'[i] = results[i]
    /\ step'[i] = step[i]
    /\ broken'[i] = broken[i]
    /\ crew'[i] = crew[i]
    /\ dev'[i] = dev[i]
    /\ disk'[i] = disk[i]

LEMMA UntouchedKeeps ==
    ASSUME NEW i \in Jobs, JobInv(i), Untouched(i)
    PROVE  JobInv(i)'
<1>1. StatusFits(i)'
  BY DEF JobInv, StatusFits, Untouched
<1>2. DevicesRest(i)'
  BY DEF JobInv, DevicesRest, Untouched
<1>3. ASSUME NEW d \in Devices PROVE ResultFits(i, d)'
  BY DEF JobInv, ResultFits, Untouched
<1>4. EndFits(i)'
  BY DEF JobInv, EndFits, NoSuccess, NoFailure, Untouched
<1> QED  BY <1>1, <1>2, <1>3, <1>4 DEF JobInv

(* Every step is a step of one job.                                        *)
StepOf(j) == Accept(j) \/ JobStep(j) \/ Forget(j) \/ \E d \in Devices : DeviceStep(j, d)

LEMMA JobStepsTouchOneJob ==
    ASSUME TypeOK, NEW j \in Jobs, Accept(j) \/ JobStep(j) \/ Forget(j),
           NEW i \in Jobs, i # j
    PROVE  Untouched(i)
<1>1. CASE Accept(j) \/ Forget(j)
  BY <1>1 DEF Accept, Forget, Goes, Untouched, TypeOK
<1>2. CASE Begin(j) \/ BeginFails(j) \/ Joined(j) \/ Stamp(j) \/ Decide(j)
  BY <1>2 DEF Begin, BeginFails, Joined, Stamp, Decide, Goes, Untouched, TypeOK
<1>3. CASE Dispatch(j) \/ OutOfThreads(j)
  BY <1>3 DEF Dispatch, OutOfThreads, HandOver, Goes, Untouched, TypeOK
<1>4. CASE SettleOne(j)
  BY <1>4 DEF SettleOne, Untouched, TypeOK
<1>5. CASE Save(j)
  BY <1>5 DEF Save, Goes, Untouched, TypeOK
<1> QED  BY <1>1, <1>2, <1>3, <1>4, <1>5 DEF JobStep

LEMMA DeviceStepsTouchOneJob ==
    ASSUME TypeOK, NEW j \in Jobs, NEW d \in Devices, DeviceStep(j, d),
           NEW i \in Jobs, i # j
    PROVE  Untouched(i)
<1>1. CASE PickUp(j, d) \/ GetPermit(j, d)
  BY <1>1 DEF PickUp, GetPermit, Moves, Untouched, TypeOK
<1>2. CASE UnknownType(j, d) \/ UnknownTypeWorded(j, d) \/ StartCollecting(j, d)
  BY <1>2 DEF UnknownType, UnknownTypeWorded, StartCollecting, Moves, Untouched, TypeOK
<1>3. CASE Collected(j, d) \/ Succeeded(j, d) \/ CollectFailed(j, d) \/ Failed(j, d)
  BY <1>3 DEF Collected, Succeeded, CollectFailed, Failed, Moves, Untouched, TypeOK
<1>4. CASE Escape(j, d)
  BY <1>4 DEF Escape, LeaveLoop, Moves, Untouched, TypeOK
<1> QED  BY <1>1, <1>2, <1>3, <1>4 DEF DeviceStep

------------------------------------------------------------------------------
(* The job's own thread keeps its job in order.                            *)
LEMMA AcceptKeeps ==
    ASSUME TypeOK, NEW j \in Jobs, JobInv(j), Accept(j) \/ Forget(j)  PROVE JobInv(j)'
<1> USE DEF Accept, Forget, Goes, TypeOK, JobInv, Terminal
<1>1. StatusFits(j)'
  BY DEF StatusFits
<1>2. DevicesRest(j)'
  BY DEF StatusFits, DevicesRest
<1>3. ASSUME NEW d \in Devices PROVE ResultFits(j, d)'
  <2>1. CASE Accept(j)
    <3>1. dev[j][d] = "idle" /\ results[j][d] = Blank
      BY <2>1 DEF StatusFits, DevicesRest, ResultFits
    <3> QED  BY <2>1, <3>1 DEF ResultFits, Blank
  <2>2. CASE Forget(j)
    <3>1. dev'[j] = [e \in Devices |-> "idle"] /\ results'[j] = [e \in Devices |-> Blank]
      BY <2>2
    <3> QED  BY <2>2, <3>1 DEF ResultFits, Blank
  <2> QED  BY <2>1, <2>2
<1>4. EndFits(j)'
  BY DEF StatusFits, EndFits
<1> QED  BY <1>1, <1>2, <1>3, <1>4

LEMMA BeginKeeps ==
    ASSUME TypeOK, NEW j \in Jobs, JobInv(j), Begin(j) \/ BeginFails(j)  PROVE JobInv(j)'
<1> USE DEF Begin, BeginFails, Goes, TypeOK, JobInv, Terminal
<1>1. StatusFits(j)'
  BY DEF StatusFits
<1>2. DevicesRest(j)'
  BY DEF DevicesRest, Busy, UnderPermit
<1>3. ASSUME NEW d \in Devices PROVE ResultFits(j, d)'
  <2>1. dev'[j][d] = "idle" /\ results[j][d] = Blank
    BY DEF StatusFits, DevicesRest, ResultFits
  <2>2. CASE Begin(j)
    <3>1. results'[j] = [e \in Devices |-> Queued]
      BY <2>2
    <3> QED  BY <2>1, <2>2, <3>1 DEF ResultFits, Queued
  <2>3. CASE BeginFails(j)
    <3>1. results'[j][d] = Blank /\ status'[j] = "pending" /\ step'[j] = "settle"
      BY <2>1, <2>3 DEF StatusFits
    <3> QED  BY <2>1, <3>1 DEF ResultFits, Blank
  <2> QED  BY <2>2, <2>3
<1>4. EndFits(j)'
  BY DEF StatusFits, EndFits
<1> QED  BY <1>1, <1>2, <1>3, <1>4

LEMMA DispatchKeeps ==
    ASSUME TypeOK, NEW j \in Jobs, JobInv(j), Dispatch(j) \/ OutOfThreads(j)
    PROVE  JobInv(j)'
<1>1. /\ step[j] = "dispatch" /\ step'[j] = "pool"
      /\ status'[j] = status[j] /\ results'[j] = results[j] /\ disk'[j] = disk[j]
      /\ \A d \in Devices : dev'[j][d] \in {"idle", "queued"}
  BY DEF Dispatch, OutOfThreads, HandOver, Goes, TypeOK
<1>2. StatusFits(j)'
  BY <1>1 DEF JobInv, StatusFits, Terminal
<1>3. DevicesRest(j)'
  BY <1>1 DEF DevicesRest
<1>4. ASSUME NEW d \in Devices PROVE ResultFits(j, d)'
  BY <1>1 DEF JobInv, ResultFits
<1>5. EndFits(j)'
  BY <1>1 DEF JobInv, StatusFits, EndFits, Terminal, NoSuccess, NoFailure
<1> QED  BY <1>2, <1>3, <1>4, <1>5 DEF JobInv

LEMMA JoinedKeeps ==
    ASSUME TypeOK, NEW j \in Jobs, JobInv(j), Joined(j)  PROVE JobInv(j)'
<1>1. /\ step[j] = "pool" /\ step'[j] = "settle"
      /\ UNCHANGED <<status, stamped, results, broken, crew, dev, disk>>
  BY DEF Joined, Goes, TypeOK
<1>2. StatusFits(j)'
  BY <1>1 DEF JobInv, StatusFits, Terminal
<1>3. DevicesRest(j)'
  BY <1>1, RunnerAssumption DEF Joined, DevicesRest, TypeOK
<1>4. ASSUME NEW d \in Devices PROVE ResultFits(j, d)'
  BY <1>1 DEF JobInv, ResultFits
<1>5. EndFits(j)'
  BY <1>1 DEF JobInv, EndFits, NoSuccess, NoFailure
<1> QED  BY <1>2, <1>3, <1>4, <1>5 DEF JobInv

(* A set of naturals has a smallest element.                               *)
LEMMA SmallestOne ==
    ASSUME NEW S, S \subseteq Nat, S # {}
    PROVE  \E s \in S : \A t \in S : s <= t
<1> DEFINE R == OpToRel(<, Nat)
<1>1. IsWellFoundedOn(R, Nat)
  BY NatLessThanWellFounded
<1>2. \A x, y \in Nat : <<y, x>> \in R <=> y < x
  BY DEF OpToRel
<1> HIDE DEF R
<1>3. PICK x \in S : \A y \in S : ~ (<<y, x>> \in R)
  BY <1>1, WFMin
<1>4. \A y \in S : x \in Nat /\ y \in Nat /\ ~ (y < x)
  BY <1>2, <1>3
<1>5. \A y \in S : x <= y
  BY <1>4
<1> QED  BY <1>5

(* The safety net always has a next device while one is left.              *)
LEMMA NextUnsettledIsUnsettled ==
    ASSUME NEW j \in Jobs, Unsettled(j) # {}
    PROVE  NextUnsettled(j) \in Unsettled(j)
<1>1. Unsettled(j) \subseteq Nat
  BY DEF Unsettled, Devices
<1>2. \E d \in Unsettled(j) : \A e \in Unsettled(j) : d <= e
  BY <1>1, SmallestOne
<1> QED  BY <1>2 DEF NextUnsettled

LEMMA SettleOneKeeps ==
    ASSUME TypeOK, NEW j \in Jobs, JobInv(j), SettleOne(j)  PROVE JobInv(j)'
<1> DEFINE n == NextUnsettled(j)
<1>1. n \in Devices /\ results[j][n].status \in {"queued", "running"}
  BY NextUnsettledIsUnsettled DEF SettleOne, Unsettled
<1> HIDE DEF n
<1>2. /\ step[j] = "settle"
      /\ UNCHANGED <<status, stamped, step, broken, crew, dev, disk>>
      /\ results' = IF results[j][n].error THEN [results EXCEPT ![j][n].status = "failed"]
                    ELSE [results EXCEPT ![j][n].error = TRUE]
  BY DEF SettleOne, n
<1>3. ASSUME NEW d \in Devices, d # n  PROVE results'[j][d] = results[j][d]
  BY <1>1, <1>2, <1>3 DEF TypeOK
<1>4. results'[j][n] = IF results[j][n].error
                       THEN [results[j][n] EXCEPT !.status = "failed"]
                       ELSE [results[j][n] EXCEPT !.error = TRUE]
  BY <1>1, <1>2 DEF TypeOK
<1>5. StatusFits(j)'
  BY <1>2 DEF JobInv, StatusFits
<1>6. DevicesRest(j)'
  BY <1>2 DEF JobInv, DevicesRest
<1>7. status[j] = "running"
  <2>1. ResultFits(j, n) /\ results[j][n] # Blank
    BY <1>1 DEF JobInv, Blank
  <2>2. status[j] \in {"pending", "running"}
    BY <1>2 DEF JobInv, StatusFits
  <2> QED  BY <2>1, <2>2 DEF ResultFits
<1>8. ASSUME NEW d \in Devices PROVE ResultFits(j, d)'
  <2>1. ResultFits(j, d) /\ dev[j][d] \notin Busy
    BY <1>2 DEF JobInv, DevicesRest
  <2>2. CASE d # n
    BY <1>2, <1>3, <2>1, <2>2 DEF ResultFits
  <2>3. CASE d = n
    <3>1. /\ results'[j][d].status # "none"
          /\ results'[j][d].status # "success"
          /\ results'[j][d].status = "failed" => results'[j][d].error
      <4>1. results[j][n] \in [status : {"none", "queued", "running", "success", "failed"},
                               error : BOOLEAN, record : BOOLEAN]
        BY <1>1 DEF TypeOK
      <4>2. CASE results[j][n].error
        <5>1. results'[j][d] = [results[j][n] EXCEPT !.status = "failed"]
          BY <1>4, <2>3, <4>2
        <5>2. results'[j][d].status = "failed" /\ results'[j][d].error = results[j][n].error
          BY <4>1, <5>1
        <5> QED  BY <4>2, <5>2
      <4>3. CASE ~results[j][n].error
        <5>1. results'[j][d] = [results[j][n] EXCEPT !.error = TRUE]
          BY <1>4, <2>3, <4>3
        <5>2. results'[j][d].status = results[j][n].status
          BY <4>1, <5>1
        <5> QED  BY <1>1, <5>2
      <4> QED  BY <4>2, <4>3
    <3> QED  BY <1>2, <1>7, <2>1, <3>1 DEF ResultFits, Busy, UnderPermit
  <2> QED  BY <2>2, <2>3
<1>9. EndFits(j)'
  BY <1>2, <1>7 DEF JobInv, EndFits, Terminal
<1> QED  BY <1>5, <1>6, <1>8, <1>9 DEF JobInv

LEMMA StampKeeps ==
    ASSUME TypeOK, NEW j \in Jobs, JobInv(j), Stamp(j)  PROVE JobInv(j)'
<1>1. /\ step[j] = "settle" /\ step'[j] = "verdict" /\ stamped'[j]
      /\ UNCHANGED <<status, results, broken, crew, dev, disk>>
      /\ \A d \in Devices : results[j][d].status \notin {"queued", "running"}
  BY DEF Stamp, Goes, TypeOK, Unsettled
<1>2. StatusFits(j)'
  BY <1>1 DEF JobInv, StatusFits
<1>3. DevicesRest(j)'
  BY <1>1 DEF JobInv, DevicesRest
<1>4. ASSUME NEW d \in Devices PROVE ResultFits(j, d)'
  BY <1>1 DEF JobInv, ResultFits
<1>5. EndFits(j)'
  BY <1>1 DEF JobInv, EndFits, NoSuccess, NoFailure
<1> QED  BY <1>2, <1>3, <1>4, <1>5 DEF JobInv

LEMMA DecideKeeps ==
    ASSUME TypeOK, NEW j \in Jobs, JobInv(j), Decide(j)  PROVE JobInv(j)'
<1>1. /\ step[j] = "verdict" /\ step'[j] = "save" /\ status'[j] = Verdict(j)
      /\ status[j] \in {"pending", "running"}
      /\ UNCHANGED <<stamped, results, broken, crew, dev, disk>>
  BY DEF Decide, Goes, TypeOK, JobInv, StatusFits
<1>2. status'[j] \in Terminal
  BY <1>1 DEF Verdict, Terminal
<1>3. StatusFits(j)'
  BY <1>1, <1>2 DEF StatusFits, Terminal
<1>4. DevicesRest(j)'
  BY <1>1 DEF JobInv, DevicesRest
<1>5. ASSUME NEW d \in Devices PROVE ResultFits(j, d)'
  BY <1>1, <1>2 DEF JobInv, ResultFits, Terminal, DevicesRest, Busy, UnderPermit
<1>6. EndFits(j)'
  <2>1. /\ stamped'[j]
        /\ \A d \in Devices : results'[j][d].status \notin {"queued", "running"}
    BY <1>1 DEF JobInv, EndFits
  <2>2. status'[j] = "completed" => \A d \in Devices : results'[j][d].status = "success"
    <3> SUFFICES ASSUME status'[j] = "completed", NEW d \in Devices
                 PROVE  results[j][d].status = "success"
      BY <1>1
    <3>1. ~broken[j] /\ NoFailure(j)
      BY <1>1 DEF Verdict
    <3>2. status[j] = "running"
      BY <1>1, <3>1 DEF JobInv, StatusFits
    <3>3. results[j][d].status \notin {"none", "failed", "queued", "running"}
      BY <1>1, <2>1, <3>1, <3>2 DEF JobInv, ResultFits, NoFailure
    <3> QED  BY <3>3 DEF TypeOK
  <2>3. status'[j] = "partial" => ~NoSuccess(j) /\ ~NoFailure(j)
    BY <1>1 DEF Verdict
  <2>4. disk'[j] \notin Terminal
    BY <1>1 DEF JobInv, EndFits, Terminal
  <2> QED  BY <1>1, <2>1, <2>2, <2>3, <2>4 DEF EndFits, NoSuccess, NoFailure
<1> QED  BY <1>3, <1>4, <1>5, <1>6 DEF JobInv

LEMMA SaveKeeps ==
    ASSUME TypeOK, NEW j \in Jobs, JobInv(j), Save(j)  PROVE JobInv(j)'
<1>1. /\ step[j] = "save" /\ step'[j] = "over"
      /\ disk'[j] \in {disk[j], status[j]}
      /\ UNCHANGED <<status, stamped, results, broken, crew, dev>>
  BY DEF Save, Goes, TypeOK
<1>2. StatusFits(j)'
  BY <1>1 DEF JobInv, StatusFits
<1>3. DevicesRest(j)'
  BY <1>1 DEF JobInv, DevicesRest
<1>4. ASSUME NEW d \in Devices PROVE ResultFits(j, d)'
  BY <1>1 DEF JobInv, ResultFits
<1>5. EndFits(j)'
  BY <1>1 DEF JobInv, EndFits, NoSuccess, NoFailure
<1> QED  BY <1>2, <1>3, <1>4, <1>5 DEF JobInv

------------------------------------------------------------------------------
(* The work on a device keeps the job in order.                            *)

(* It happens between the hand-over and the join, so the job reads running.*)
LEMMA WorkIsInThePool ==
    ASSUME TypeOK, NEW j \in Jobs, JobInv(j), NEW d \in Devices,
           dev[j][d] \in Busy \/ PickUp(j, d)
    PROVE  step[j] = "pool" /\ status[j] = "running"
<1>1. dev[j][d] # "idle"
  BY DEF PickUp, Busy, UnderPermit
<1>2. PickUp(j, d) => dev[j][d] = "queued" /\ crew[j] # 0
  <2>1. Cardinality(BusyOf(j)) \in Nat
    BY DevicesAreFinite, FS_Subset, FS_CardinalityType DEF BusyOf
  <2> QED  BY <2>1 DEF PickUp
<1>3. step[j] \notin {"none", "accepted", "dispatch"}
  BY <1>1 DEF JobInv, DevicesRest
<1>4. step[j] \notin {"settle", "verdict", "save", "over"}
  BY <1>2 DEF JobInv, DevicesRest
<1>5. step[j] = "pool"
  BY <1>3, <1>4 DEF TypeOK
<1> QED  BY <1>5 DEF JobInv, StatusFits

(* What a step of the work on device d may do to its job.                  *)
WorkStep(j, d) ==
    /\ step[j] = "pool" /\ status[j] = "running"
    /\ UNCHANGED <<status, stamped, step, crew, disk>>
    /\ \A e \in Devices \ {d} :
         results'[j][e] = results[j][e] /\ dev'[j][e] \in {dev[j][e], "idle"}

LEMMA WorkStepKeeps ==
    ASSUME TypeOK, NEW j \in Jobs, JobInv(j), NEW d \in Devices,
           WorkStep(j, d), ResultFits(j, d)'
    PROVE  JobInv(j)'
<1>1. StatusFits(j)'
  BY DEF WorkStep, StatusFits, Terminal
<1>2. DevicesRest(j)'
  BY DEF WorkStep, DevicesRest
<1>3. ASSUME NEW e \in Devices PROVE ResultFits(j, e)'
  <2>1. CASE e # d
    <3>1. /\ results'[j][e] = results[j][e]
          /\ dev'[j][e] \in {dev[j][e], "idle"}
          /\ UNCHANGED <<status, step>>
          /\ ResultFits(j, e)
      BY <2>1 DEF WorkStep, JobInv
    <3> QED  BY <3>1 DEF ResultFits
  <2> QED  BY <2>1
<1>4. EndFits(j)'
  BY DEF JobInv, WorkStep, StatusFits, EndFits, Terminal
<1> QED  BY <1>1, <1>2, <1>3, <1>4 DEF JobInv

(* The steps that leave the results alone.                                 *)
LEMMA PickUpKeeps ==
    ASSUME TypeOK, NEW j \in Jobs, JobInv(j), NEW d \in Devices,
           PickUp(j, d) \/ GetPermit(j, d) \/ Escape(j, d)
    PROVE  JobInv(j)'
<1>1. step[j] = "pool" /\ status[j] = "running"
  BY WorkIsInThePool DEF GetPermit, Escape, Busy, UnderPermit
<1>2. UNCHANGED <<status, stamped, results, step, crew, disk>>
  BY DEF PickUp, GetPermit, Escape
<1>3. /\ \A e \in Devices \ {d} : dev'[j][e] \in {dev[j][e], "idle"}
      /\ \/ dev[j][d] = "queued" /\ dev'[j][d] = "worker"
         \/ dev[j][d] = "worker" /\ dev'[j][d] = "holding"
         \/ dev'[j][d] = "over"
  <2>1. CASE PickUp(j, d) \/ GetPermit(j, d)
    BY <2>1 DEF PickUp, GetPermit, Moves, TypeOK
  <2>2. CASE Escape(j, d) /\ Serial(j)
    BY <2>2 DEF Escape, LeaveLoop, TypeOK
  <2>3. CASE Escape(j, d) /\ ~Serial(j)
    BY <2>3 DEF Escape, LeaveLoop, Moves, TypeOK
  <2> QED  BY <2>1, <2>2, <2>3
<1>4. WorkStep(j, d)
  BY <1>1, <1>2, <1>3 DEF WorkStep
<1>5. ResultFits(j, d)'
  BY <1>1, <1>2, <1>3 DEF JobInv, ResultFits
<1> QED  BY <1>4, <1>5, WorkStepKeeps

(* The steps that write one attribute of the device's result.              *)
Writes(j, d) ==
    \/ UnknownType(j, d) \/ UnknownTypeWorded(j, d) \/ StartCollecting(j, d)
    \/ Collected(j, d) \/ Succeeded(j, d) \/ CollectFailed(j, d) \/ Failed(j, d)

LEMMA WritesAreWork ==
    ASSUME TypeOK, NEW j \in Jobs, JobInv(j), NEW d \in Devices, Writes(j, d)
    PROVE  WorkStep(j, d)
<1>1. step[j] = "pool" /\ status[j] = "running"
  BY WorkIsInThePool DEF Writes, UnknownType, UnknownTypeWorded, StartCollecting, Collected,
     Succeeded, CollectFailed, Failed, Busy, UnderPermit
<1>2. UNCHANGED <<status, stamped, step, crew, disk>>
  BY DEF Writes, UnknownType, UnknownTypeWorded, StartCollecting, Collected, Succeeded,
     CollectFailed, Failed
<1>3. ASSUME NEW e \in Devices, e # d
      PROVE  results'[j][e] = results[j][e] /\ dev'[j][e] = dev[j][e]
  <2>1. CASE UnknownType(j, d) \/ StartCollecting(j, d) \/ Succeeded(j, d) \/ Failed(j, d)
    BY <1>3, <2>1 DEF UnknownType, StartCollecting, Succeeded, Failed, Moves, TypeOK
  <2>2. CASE UnknownTypeWorded(j, d) \/ Collected(j, d) \/ CollectFailed(j, d)
    BY <1>3, <2>2 DEF UnknownTypeWorded, Collected, CollectFailed, Moves, TypeOK
  <2> QED  BY <2>1, <2>2 DEF Writes
<1> QED  BY <1>1, <1>2, <1>3 DEF WorkStep

(* What each write makes of the device's result, attribute by attribute.   *)
Result == [status : {"none", "queued", "running", "success", "failed"},
           error : BOOLEAN, record : BOOLEAN]

LEMMA WriteStatus ==
    ASSUME TypeOK, NEW j \in Jobs, NEW d \in Devices, NEW st,
           results' = [results EXCEPT ![j][d].status = st]
    PROVE  /\ results'[j][d].status = st
           /\ results'[j][d].error = results[j][d].error
           /\ results'[j][d].record = results[j][d].record
<1>1. results[j][d] \in Result
  BY DEF TypeOK, Result
<1>2. results'[j][d] = [results[j][d] EXCEPT !.status = st]
  BY DEF TypeOK
<1> QED  BY <1>1, <1>2 DEF Result

LEMMA WriteError ==
    ASSUME TypeOK, NEW j \in Jobs, NEW d \in Devices,
           results' = [results EXCEPT ![j][d].error = TRUE]
    PROVE  /\ results'[j][d].status = results[j][d].status
           /\ results'[j][d].error = TRUE
           /\ results'[j][d].record = results[j][d].record
<1>1. results[j][d] \in Result
  BY DEF TypeOK, Result
<1>2. results'[j][d] = [results[j][d] EXCEPT !.error = TRUE]
  BY DEF TypeOK
<1> QED  BY <1>1, <1>2 DEF Result

LEMMA WriteRecord ==
    ASSUME TypeOK, NEW j \in Jobs, NEW d \in Devices,
           results' = [results EXCEPT ![j][d].record = TRUE]
    PROVE  /\ results'[j][d].status = results[j][d].status
           /\ results'[j][d].error = results[j][d].error
           /\ results'[j][d].record = TRUE
<1>1. results[j][d] \in Result
  BY DEF TypeOK, Result
<1>2. results'[j][d] = [results[j][d] EXCEPT !.record = TRUE]
  BY DEF TypeOK
<1> QED  BY <1>1, <1>2 DEF Result

LEMMA WritesKeep ==
    ASSUME TypeOK, NEW j \in Jobs, JobInv(j), NEW d \in Devices, Writes(j, d)
    PROVE  JobInv(j)'
<1>1. WorkStep(j, d)
  BY WritesAreWork
<1>2. ResultFits(j, d)
  BY DEF JobInv
<1>3. /\ step'[j] = "pool" /\ status'[j] = "running"
  BY <1>1 DEF WorkStep
<1>4. ASSUME NEW to, Moves(j, d, to)  PROVE dev'[j][d] = to
  BY <1>4 DEF Moves, TypeOK
<1>5. ResultFits(j, d)'
  <2>1. CASE UnknownType(j, d)
    <3>1. dev'[j][d] = "nameless" /\ <<j, d>> \in Unknown
      BY <2>1, <1>4 DEF UnknownType
    <3>2. results' = [results EXCEPT ![j][d].status = "failed"]
      BY <2>1 DEF UnknownType
    <3>3. results'[j][d].status = "failed"
      BY <3>2, WriteStatus
    <3> QED  BY <1>3, <3>1, <3>3 DEF ResultFits
  <2>2. CASE UnknownTypeWorded(j, d)
    <3>1. /\ dev'[j][d] = "over"
          /\ results'[j][d].status = results[j][d].status
          /\ results'[j][d].error = TRUE
          /\ results'[j][d].record = results[j][d].record
      BY <2>2, <1>4, WriteError DEF UnknownTypeWorded
    <3> QED  BY <1>1, <1>2, <1>3, <3>1 DEF ResultFits, WorkStep
  <2>3. CASE StartCollecting(j, d)
    <3>1. dev'[j][d] = "collecting"
      BY <2>3, <1>4 DEF StartCollecting
    <3>2. results' = [results EXCEPT ![j][d].status = "running"]
      BY <2>3 DEF StartCollecting
    <3>3. results'[j][d].status = "running"
      BY <3>2, WriteStatus
    <3> QED  BY <1>3, <3>1, <3>3 DEF ResultFits
  <2>4. CASE Collected(j, d)
    <3>1. /\ dev[j][d] = "collecting" /\ dev'[j][d] = "saved"
          /\ results'[j][d].status = results[j][d].status
          /\ results'[j][d].record = TRUE
      BY <2>4, <1>4, WriteRecord DEF Collected
    <3> QED  BY <1>2, <1>3, <3>1 DEF ResultFits
  <2>5. CASE Succeeded(j, d)
    <3>1. dev[j][d] = "saved" /\ dev'[j][d] = "over"
      BY <2>5, <1>4 DEF Succeeded
    <3>2. results' = [results EXCEPT ![j][d].status = "success"]
      BY <2>5 DEF Succeeded
    <3>3. results'[j][d].status = "success"
      BY <3>2, WriteStatus
    <3>4. results'[j][d].record = results[j][d].record
      BY <3>2, WriteStatus
    <3> QED  BY <1>2, <1>3, <3>1, <3>3, <3>4 DEF ResultFits
  <2>6. CASE CollectFailed(j, d)
    <3>1. /\ dev[j][d] = "collecting" /\ dev'[j][d] = "worded"
          /\ results'[j][d].status = results[j][d].status
          /\ results'[j][d].error = TRUE
      BY <2>6, <1>4, WriteError DEF CollectFailed
    <3> QED  BY <1>2, <1>3, <3>1 DEF ResultFits
  <2>7. CASE Failed(j, d)
    <3>1. dev[j][d] = "worded" /\ dev'[j][d] = "over"
      BY <2>7, <1>4 DEF Failed
    <3>2. results' = [results EXCEPT ![j][d].status = "failed"]
      BY <2>7 DEF Failed
    <3>3. results'[j][d].status = "failed"
      BY <3>2, WriteStatus
    <3>4. results'[j][d].error = results[j][d].error
      BY <3>2, WriteStatus
    <3> QED  BY <1>2, <1>3, <3>1, <3>3, <3>4 DEF ResultFits
  <2> QED  BY <2>1, <2>2, <2>3, <2>4, <2>5, <2>6, <2>7 DEF Writes
<1> QED  BY <1>1, <1>5, WorkStepKeeps

------------------------------------------------------------------------------
(* The books of the permits.                                               *)
LEMMA JobStepsTakeNoPermit ==
    ASSUME NEW j \in Jobs, Accept(j) \/ JobStep(j) \/ Forget(j)
    PROVE  permits' = permits
<1>1. CASE Dispatch(j) \/ OutOfThreads(j)
  BY <1>1 DEF Dispatch, OutOfThreads, HandOver
<1>2. CASE ~(Dispatch(j) \/ OutOfThreads(j))
  BY <1>2 DEF Accept, JobStep, Forget, Begin, BeginFails, Joined, SettleOne, Stamp, Decide,
     Save
<1> QED  BY <1>1, <1>2

LEMMA JobStepsKeepPermits ==
    ASSUME IInv, NEW j \in Jobs, Accept(j) \/ JobStep(j) \/ Forget(j)
    PROVE  PermitsAreExact'
<1> USE DEF IInv
<1>1. permits' = permits
  BY JobStepsTakeNoPermit
<1>2. CASE Dispatch(j) \/ OutOfThreads(j) \/ Forget(j)
  <2>1. \A d \in Devices : dev[j][d] \notin UnderPermit
    BY <1>2 DEF Dispatch, OutOfThreads, HandOver, Forget, JobInv, DevicesRest, Busy,
       UnderPermit
  <2>2. \A i \in Jobs \ {j} : dev'[i] = dev[i]
    BY JobStepsTouchOneJob DEF Untouched
  <2>3. \A d \in Devices : dev'[j][d] \in {"idle", "queued"}
    BY <1>2 DEF Dispatch, OutOfThreads, HandOver, Forget, TypeOK
  <2>4. \A d \in Devices : dev'[j][d] \notin UnderPermit
    BY <2>3 DEF UnderPermit
  <2>5. \A p \in Jobs \X Devices :
           dev'[p[1]][p[2]] \in UnderPermit <=> dev[p[1]][p[2]] \in UnderPermit
    <3> SUFFICES ASSUME NEW p \in Jobs \X Devices
                 PROVE  dev'[p[1]][p[2]] \in UnderPermit <=> dev[p[1]][p[2]] \in UnderPermit
      OBVIOUS
    <3>1. p[1] \in Jobs /\ p[2] \in Devices
      OBVIOUS
    <3> QED  BY <2>1, <2>2, <2>4, <3>1
  <2>6. Held' = Held
    BY <2>5 DEF Held
  <2> QED  BY <1>1, <2>6, PermitsUntouched
<1>3. CASE ~(Dispatch(j) \/ OutOfThreads(j) \/ Forget(j))
  <2>1. dev' = dev
    BY <1>3 DEF Accept, JobStep, Begin, BeginFails, Joined, SettleOne, Stamp, Decide, Save
  <2>2. Held' = Held
    BY <2>1 DEF Held
  <2> QED  BY <1>1, <2>2, PermitsUntouched
<1> QED  BY <1>2, <1>3

LEMMA DeviceStepsKeepPermits ==
    ASSUME IInv, NEW j \in Jobs, NEW d \in Devices, DeviceStep(j, d)
    PROVE  PermitsAreExact'
<1> USE DEF IInv
<1>1. CASE PickUp(j, d)
  <2>1. dev[j][d] \notin UnderPermit /\ permits' = permits /\ Moves(j, d, "worker")
    BY <1>1 DEF PickUp, UnderPermit
  <2>2. Held' = Held \ {<<j, d>>} /\ <<j, d>> \notin Held
    BY <2>1, HeldAfterMove DEF UnderPermit, Held
  <2>3. Held' = Held
    BY <2>2
  <2> QED  BY <2>1, <2>3, PermitsUntouched
<1>2. CASE GetPermit(j, d)
  <2>1. /\ dev[j][d] \notin UnderPermit /\ permits' = permits - 1
        /\ Moves(j, d, "holding") /\ "holding" \in UnderPermit
    BY <1>2 DEF GetPermit, UnderPermit
  <2>2. Held' = Held \cup {<<j, d>>}
    BY <2>1, HeldAfterMove
  <2> QED  BY <2>1, <2>2, PermitTaken
<1>3. CASE UnknownType(j, d) \/ StartCollecting(j, d) \/ Collected(j, d) \/ CollectFailed(j, d)
  <2>1. /\ dev[j][d] \in UnderPermit /\ permits' = permits
        /\ \E to \in UnderPermit : Moves(j, d, to)
    BY <1>3 DEF UnknownType, StartCollecting, Collected, CollectFailed, UnderPermit
  <2>2. Held' = Held \cup {<<j, d>>} /\ <<j, d>> \in Held
    BY <2>1, HeldAfterMove DEF Held
  <2>3. Held' = Held
    BY <2>2
  <2> QED  BY <2>1, <2>3, PermitsUntouched
<1>4. CASE UnknownTypeWorded(j, d) \/ Succeeded(j, d) \/ Failed(j, d)
  <2>1. /\ dev[j][d] \in UnderPermit /\ permits' = permits + 1
        /\ Moves(j, d, "over") /\ "over" \notin UnderPermit
    BY <1>4 DEF UnknownTypeWorded, Succeeded, Failed, UnderPermit
  <2>2. Held' = Held \ {<<j, d>>}
    BY <2>1, HeldAfterMove
  <2> QED  BY <2>1, <2>2, PermitReturned
<1>5. CASE Escape(j, d)
  <2>1. dev[j][d] \in UnderPermit /\ permits' = permits + 1 /\ LeaveLoop(j, d)
    BY <1>5 DEF Escape, UnderPermit
  <2>2. CASE ~Serial(j)
    <3>1. Moves(j, d, "over") /\ "over" \notin UnderPermit
      BY <2>1, <2>2 DEF LeaveLoop, UnderPermit
    <3>2. Held' = Held \ {<<j, d>>}
      BY <3>1, HeldAfterMove
    <3> QED  BY <2>1, <3>2, PermitReturned
  <2>3. CASE Serial(j)
    <3>1. /\ \A i \in Jobs \ {j} : dev'[i] = dev[i]
          /\ \A e \in Devices : dev'[j][e] \in UnderPermit
                                  <=> e # d /\ dev[j][e] \in UnderPermit
      BY <2>1, <2>3 DEF LeaveLoop, TypeOK, UnderPermit
    <3>2. ASSUME NEW p \in Jobs \X Devices
          PROVE  dev'[p[1]][p[2]] \in UnderPermit
                   <=> dev[p[1]][p[2]] \in UnderPermit /\ p # <<j, d>>
      <4>1. p[1] \in Jobs /\ p[2] \in Devices /\ (p = <<j, d>> <=> p[1] = j /\ p[2] = d)
        OBVIOUS
      <4> QED  BY <3>1, <4>1
    <3>3. Held' = Held \ {<<j, d>>}
      BY <3>2 DEF Held
    <3> QED  BY <2>1, <3>3, PermitReturned
  <2> QED  BY <2>2, <2>3
<1> QED  BY <1>1, <1>2, <1>3, <1>4, <1>5 DEF DeviceStep

------------------------------------------------------------------------------
(* Types.                                                                  *)
LEMMA WorkersAreInRange == \A j \in Jobs : Workers(j) \in 1..N
  BY RunnerAssumption DEF Workers

LEMMA VerdictIsTerminal == \A j \in Jobs : Verdict(j) \in Terminal
  BY DEF Verdict, Terminal

TypesButPermits ==
    /\ status \in [Jobs -> {"none", "pending", "running"} \cup Terminal]
    /\ stamped \in [Jobs -> BOOLEAN]
    /\ results \in [Jobs -> [Devices -> Result]]
    /\ step \in [Jobs -> {"none", "accepted", "dispatch", "pool", "settle",
                          "verdict", "save", "over"}]
    /\ broken \in [Jobs -> BOOLEAN]
    /\ crew \in [Jobs -> 0..N]
    /\ dev \in [Jobs -> [Devices -> {"idle", "queued", "over"} \cup Busy]]
    /\ disk \in [Jobs -> {"none", "pending"} \cup Terminal]

(* A write into one result keeps the results typed.                        *)
LEMMA StatusWriteIsTyped ==
    ASSUME TypeOK, NEW j \in Jobs, NEW d \in Devices, NEW st \in {"queued", "running", "success", "failed"},
           results' = [results EXCEPT ![j][d].status = st]
    PROVE  results' \in [Jobs -> [Devices -> Result]]
<1> DEFINE r == [results[j][d] EXCEPT !.status = st]
<1>1. results \in [Jobs -> [Devices -> Result]] /\ results[j][d] \in Result
  BY DEF TypeOK, Result
<1>2. r \in Result
  BY <1>1 DEF Result
<1>3. results' = [results EXCEPT ![j] = [results[j] EXCEPT ![d] = r]]
  OBVIOUS
<1> HIDE DEF r
<1>4. [results[j] EXCEPT ![d] = r] \in [Devices -> Result]
  BY <1>1, <1>2
<1> QED  BY <1>1, <1>3, <1>4

LEMMA ErrorWriteIsTyped ==
    ASSUME TypeOK, NEW j \in Jobs, NEW d \in Devices,
           results' = [results EXCEPT ![j][d].error = TRUE]
    PROVE  results' \in [Jobs -> [Devices -> Result]]
<1> DEFINE r == [results[j][d] EXCEPT !.error = TRUE]
<1>1. results \in [Jobs -> [Devices -> Result]] /\ results[j][d] \in Result
  BY DEF TypeOK, Result
<1>2. r \in Result
  BY <1>1 DEF Result
<1>3. results' = [results EXCEPT ![j] = [results[j] EXCEPT ![d] = r]]
  OBVIOUS
<1> HIDE DEF r
<1>4. [results[j] EXCEPT ![d] = r] \in [Devices -> Result]
  BY <1>1, <1>2
<1> QED  BY <1>1, <1>3, <1>4

LEMMA RecordWriteIsTyped ==
    ASSUME TypeOK, NEW j \in Jobs, NEW d \in Devices,
           results' = [results EXCEPT ![j][d].record = TRUE]
    PROVE  results' \in [Jobs -> [Devices -> Result]]
<1> DEFINE r == [results[j][d] EXCEPT !.record = TRUE]
<1>1. results \in [Jobs -> [Devices -> Result]] /\ results[j][d] \in Result
  BY DEF TypeOK, Result
<1>2. r \in Result
  BY <1>1 DEF Result
<1>3. results' = [results EXCEPT ![j] = [results[j] EXCEPT ![d] = r]]
  OBVIOUS
<1> HIDE DEF r
<1>4. [results[j] EXCEPT ![d] = r] \in [Devices -> Result]
  BY <1>1, <1>2
<1> QED  BY <1>1, <1>3, <1>4

LEMMA JobStepsKeepTypes ==
    ASSUME IInv, NEW j \in Jobs, Accept(j) \/ JobStep(j) \/ Forget(j)
    PROVE  TypesButPermits'
<1> USE DEF IInv, TypesButPermits, Result
<1>1. CASE Accept(j)
  BY <1>1 DEF TypeOK, Accept, Goes
<1>2. CASE Forget(j)
  BY <1>2, RunnerAssumption DEF TypeOK, Forget, Goes, Blank
<1>3. CASE Begin(j) \/ BeginFails(j)
  <2>1. CASE Begin(j)
    <3>1. [d \in Devices |-> Queued] \in [Devices -> Result]
      BY DEF Queued
    <3> QED  BY <2>1, <3>1 DEF TypeOK, Begin, Goes
  <2>2. CASE BeginFails(j)
    BY <2>2 DEF TypeOK, BeginFails, Goes
  <2> QED  BY <1>3, <2>1, <2>2
<1>4. CASE Dispatch(j) \/ OutOfThreads(j)
  <2>1. PICK threads \in 0..N, upTo \in 0..N : HandOver(j, threads, upTo)
    BY <1>4, WorkersAreInRange, RunnerAssumption DEF Dispatch, OutOfThreads
  <2>2. broken' \in [Jobs -> BOOLEAN]
    BY <1>4 DEF TypeOK, Dispatch, OutOfThreads
  <2>3. dev' \in [Jobs -> [Devices -> {"idle", "queued", "over"} \cup Busy]]
    BY <2>1 DEF TypeOK, HandOver
  <2> QED  BY <2>1, <2>2, <2>3 DEF TypeOK, HandOver, Goes
<1>5. CASE Joined(j) \/ Stamp(j)
  BY <1>5 DEF TypeOK, Joined, Stamp, Goes
<1>6. CASE SettleOne(j)
  <2>1. NextUnsettled(j) \in Devices
    BY <1>6, NextUnsettledIsUnsettled DEF SettleOne, Unsettled
  <2>2. results' \in [Jobs -> [Devices -> Result]]
    BY <1>6, <2>1, StatusWriteIsTyped, ErrorWriteIsTyped DEF SettleOne
  <2> QED  BY <1>6, <2>2 DEF TypeOK, SettleOne
<1>7. CASE Decide(j)
  BY <1>7, VerdictIsTerminal DEF TypeOK, Decide, Goes
<1>8. CASE Save(j)
  <2>1. status[j] \in Terminal
    BY <1>8 DEF Save, JobInv, StatusFits
  <2>2. disk' \in [Jobs -> {"none", "pending"} \cup Terminal]
    BY <1>8, <2>1 DEF TypeOK, Save
  <2> QED  BY <1>8, <2>2 DEF TypeOK, Save, Goes
<1> QED  BY <1>1, <1>2, <1>3, <1>4, <1>5, <1>6, <1>7, <1>8 DEF JobStep

LEMMA DeviceStepsKeepTypes ==
    ASSUME IInv, NEW j \in Jobs, NEW d \in Devices, DeviceStep(j, d)
    PROVE  TypesButPermits'
<1> USE DEF IInv, TypesButPermits, Result
<1>1. ASSUME NEW to \in {"over"} \cup Busy, Moves(j, d, to)
      PROVE  dev' \in [Jobs -> [Devices -> {"idle", "queued", "over"} \cup Busy]]
  BY <1>1 DEF TypeOK, Moves
<1>2. CASE PickUp(j, d) \/ GetPermit(j, d)
  BY <1>1, <1>2 DEF TypeOK, PickUp, GetPermit, Busy, UnderPermit
<1>3. CASE UnknownType(j, d) \/ StartCollecting(j, d)
  <2>1. results' \in [Jobs -> [Devices -> Result]]
    BY <1>3, StatusWriteIsTyped DEF UnknownType, StartCollecting
  <2> QED  BY <1>1, <1>3, <2>1 DEF TypeOK, UnknownType, StartCollecting, Busy, UnderPermit
<1>4. CASE UnknownTypeWorded(j, d) \/ CollectFailed(j, d)
  <2>1. results' \in [Jobs -> [Devices -> Result]]
    BY <1>4, ErrorWriteIsTyped DEF UnknownTypeWorded, CollectFailed
  <2> QED  BY <1>1, <1>4, <2>1 DEF TypeOK, UnknownTypeWorded, CollectFailed, Busy, UnderPermit
<1>5. CASE Collected(j, d)
  <2>1. results' \in [Jobs -> [Devices -> Result]]
    BY <1>5, RecordWriteIsTyped DEF Collected
  <2> QED  BY <1>1, <1>5, <2>1 DEF TypeOK, Collected, Busy, UnderPermit
<1>6. CASE Succeeded(j, d) \/ Failed(j, d)
  <2>1. results' \in [Jobs -> [Devices -> Result]]
    BY <1>6, StatusWriteIsTyped DEF Succeeded, Failed
  <2> QED  BY <1>1, <1>6, <2>1 DEF TypeOK, Succeeded, Failed
<1>7. CASE Escape(j, d)
  <2>1. broken' \in [Jobs -> BOOLEAN]
    BY <1>7 DEF TypeOK, Escape, LeaveLoop
  <2>2. CASE Serial(j)
    <3>1. dev' \in [Jobs -> [Devices -> {"idle", "queued", "over"} \cup Busy]]
      <4> DEFINE g == [e \in Devices |->
                         IF e = d THEN "over"
                         ELSE IF dev[j][e] = "queued" THEN "idle" ELSE dev[j][e]]
      <4>1. g \in [Devices -> {"idle", "queued", "over"} \cup Busy]
        BY DEF TypeOK
      <4>2. dev' = [dev EXCEPT ![j] = g]
        BY <1>7, <2>2 DEF Escape, LeaveLoop
      <4> HIDE DEF g
      <4> QED  BY <4>1, <4>2 DEF TypeOK
    <3> QED  BY <1>7, <2>1, <3>1 DEF TypeOK, Escape
  <2>3. CASE ~Serial(j)
    BY <1>1, <1>7, <2>1, <2>3 DEF TypeOK, Escape, LeaveLoop
  <2> QED  BY <2>2, <2>3
<1> QED  BY <1>2, <1>3, <1>4, <1>5, <1>6, <1>7 DEF DeviceStep

LEMMA TypesWithPermits ==
    ASSUME TypesButPermits', PermitsAreExact', permits' \in Nat
    PROVE  TypeOK'
  BY ExactPermitsAreBounded DEF TypesButPermits, TypeOK, Result

------------------------------------------------------------------------------
(* The invariant.                                                          *)
LEMMA InitEstablishes == Init => IInv
<1> SUFFICES ASSUME Init PROVE IInv
  OBVIOUS
<1> USE DEF Init
<1>1. TypeOK
  BY RunnerAssumption DEF TypeOK, Blank
<1>2. Held = {}
  BY DEF Held, UnderPermit
<1>3. PermitsAreExact
  <2>1. Cardinality(Held) = 0
    BY <1>2, FS_EmptySet
  <2>2. permits + Cardinality(Held) = Permits
    BY <2>1, RunnerAssumption
  <2> QED  BY <2>2 DEF PermitsAreExact, Held
<1>4. ASSUME NEW j \in Jobs PROVE JobInv(j)
  <2>1. StatusFits(j) /\ DevicesRest(j) /\ EndFits(j)
    BY DEF StatusFits, DevicesRest, EndFits, Terminal
  <2>2. ASSUME NEW d \in Devices PROVE ResultFits(j, d)
    BY DEF ResultFits, Blank
  <2> QED  BY <2>1, <2>2 DEF JobInv
<1> QED  BY <1>1, <1>3, <1>4 DEF IInv

LEMMA PermitsStayNatural ==
    ASSUME IInv, NEW j \in Jobs, StepOf(j)  PROVE permits' \in Nat
<1>1. permits \in Nat
  BY RunnerAssumption DEF IInv, TypeOK
<1>2. \/ permits' = permits
      \/ permits' = permits + 1
      \/ permits > 0 /\ permits' = permits - 1
  <2>1. CASE Accept(j) \/ JobStep(j) \/ Forget(j)
    <3>1. permits' = permits
      BY <2>1, JobStepsTakeNoPermit
    <3> QED  BY <3>1
  <2>2. CASE \E d \in Devices : DeviceStep(j, d)
    <3> PICK d \in Devices : DeviceStep(j, d)
      BY <2>2
    <3>1. ASSUME GetPermit(j, d)
          PROVE  permits > 0 /\ permits' = permits - 1
      BY <3>1 DEF GetPermit
    <3>2. /\ PickUp(j, d) => permits' = permits
          /\ UnknownType(j, d) => permits' = permits
          /\ StartCollecting(j, d) => permits' = permits
          /\ Collected(j, d) => permits' = permits
          /\ CollectFailed(j, d) => permits' = permits
      BY DEF PickUp, UnknownType, StartCollecting, Collected, CollectFailed
    <3>3. /\ UnknownTypeWorded(j, d) => permits' = permits + 1
          /\ Succeeded(j, d) => permits' = permits + 1
          /\ Failed(j, d) => permits' = permits + 1
          /\ Escape(j, d) => permits' = permits + 1
      BY DEF UnknownTypeWorded, Succeeded, Failed, Escape
    <3>4. \/ GetPermit(j, d)
          \/ PickUp(j, d) \/ UnknownType(j, d) \/ StartCollecting(j, d)
               \/ Collected(j, d) \/ CollectFailed(j, d)
          \/ UnknownTypeWorded(j, d) \/ Succeeded(j, d) \/ Failed(j, d) \/ Escape(j, d)
      BY DEF DeviceStep
    <3> QED  BY <3>1, <3>2, <3>3, <3>4
  <2> QED  BY <2>1, <2>2 DEF StepOf
<1> QED  BY <1>1, <1>2

LEMMA StepOfPreserves ==
    ASSUME IInv, NEW j \in Jobs, StepOf(j)  PROVE IInv'
<1>1. CASE Accept(j) \/ JobStep(j) \/ Forget(j)
  <2>1. PermitsAreExact'
    BY <1>1, JobStepsKeepPermits
  <2>2. TypeOK'
    BY <1>1, <2>1, JobStepsKeepTypes, PermitsStayNatural, TypesWithPermits
  <2>3. JobInv(j)'
    BY <1>1, AcceptKeeps, BeginKeeps, DispatchKeeps, JoinedKeeps, SettleOneKeeps, StampKeeps,
       DecideKeeps, SaveKeeps DEF IInv, JobStep
  <2>4. \A i \in Jobs \ {j} : JobInv(i)'
    BY <1>1, JobStepsTouchOneJob, UntouchedKeeps DEF IInv
  <2> QED  BY <2>1, <2>2, <2>3, <2>4 DEF IInv
<1>2. CASE \E d \in Devices : DeviceStep(j, d)
  <2> PICK d \in Devices : DeviceStep(j, d)
    BY <1>2
  <2>1. PermitsAreExact'
    BY DeviceStepsKeepPermits
  <2>2. TypeOK'
    BY <2>1, DeviceStepsKeepTypes, PermitsStayNatural, TypesWithPermits
  <2>3. JobInv(j)'
    BY PickUpKeeps, WritesKeep DEF IInv, DeviceStep, Writes
  <2>4. \A i \in Jobs \ {j} : JobInv(i)'
    BY DeviceStepsTouchOneJob, UntouchedKeeps DEF IInv
  <2> QED  BY <2>1, <2>2, <2>3, <2>4 DEF IInv
<1> QED  BY <1>1, <1>2 DEF StepOf

LEMMA NextPreserves == IInv /\ [Next]_vars => IInv'
<1> SUFFICES ASSUME IInv, [Next]_vars PROVE IInv'
  OBVIOUS
<1>1. CASE Next
  BY <1>1, StepOfPreserves DEF Next, StepOf
<1>2. CASE UNCHANGED vars
  <2>1. TypeOK' /\ PermitsAreExact'
    BY <1>2 DEF vars, IInv, TypeOK, PermitsAreExact
  <2>2. \A i \in Jobs : JobInv(i)'
    BY <1>2, UntouchedKeeps DEF vars, IInv, Untouched
  <2> QED  BY <2>1, <2>2 DEF IInv
<1> QED  BY <1>1, <1>2

(* What the parts of the invariant say of the properties of the runs.      *)
LEMMA InvariantImplies ==
    IInv => TypeOK /\ PermitsAreExact /\ NoFalseVerdict /\ EndedJobIsWhole
              /\ ReasonBeforeFailure
<1> SUFFICES ASSUME IInv
             PROVE  NoFalseVerdict /\ EndedJobIsWhole /\ ReasonBeforeFailure
  BY DEF IInv
<1>1. NoFalseVerdict
  BY DEF IInv, JobInv, EndFits, ResultFits, NoFalseVerdict
<1>2. ASSUME NEW j \in Jobs, status[j] \in Terminal
      PROVE  /\ stamped[j]
             /\ \A d \in Devices : results[j][d].status # "none" => Ended(j, d)
             /\ \A d \in Devices : dev[j][d] \notin Busy
  <2>1. step[j] \in {"save", "over"}
    BY <1>2 DEF IInv, JobInv, StatusFits
  <2>2. /\ stamped[j]
        /\ \A d \in Devices : dev[j][d] \notin Busy
        /\ \A d \in Devices : results[j][d].status \notin {"queued", "running"}
    BY <2>1 DEF IInv, JobInv, DevicesRest, EndFits
  <2> QED  BY <2>2 DEF IInv, TypeOK, Ended
<1>3. EndedJobIsWhole
  BY <1>2 DEF EndedJobIsWhole, IInv, JobInv, EndFits
<1>4. ReasonBeforeFailure
  BY DEF ReasonBeforeFailure, IInv, JobInv, ResultFits
<1> QED  BY <1>1, <1>3, <1>4

(* The invariant holds of every behaviour of the runner.                   *)
THEOREM InvariantHolds == Spec => []IInv
  BY InitEstablishes, NextPreserves, PTL DEF Spec

(* Every variable stays in its type; of the semaphore that means that no   *)
(* permit is ever made and that a free one is never short (run_backup_job, *)
(* _process_one_device_limited).                                           *)
THEOREM TypesHold == Spec => []TypeOK
<1>1. IInv => TypeOK
  BY InvariantImplies
<1> QED  BY <1>1, InvariantHolds, PTL

(* The permits of _GLOBAL_LIMITER that are free and those that collections *)
(* hold are the permits there are, whichever way a device was left: never  *)
(* more than MAX_GLOBAL_BACKUP_CONCURRENCY devices are collected at once.  *)
THEOREM PermitsStayExact == Spec => []PermitsAreExact
<1>1. IInv => PermitsAreExact
  BY InvariantImplies
<1> QED  BY <1>1, InvariantHolds, PTL

(* A job reads completed only when every device of it was stored, partial  *)
(* only with one of each kind (the verdict of run_backup_job).             *)
THEOREM VerdictsAreTrue == Spec => []NoFalseVerdict
<1>1. IInv => NoFalseVerdict
  BY InvariantImplies
<1> QED  BY <1>1, InvariantHolds, PTL

(* Whoever sees a job ended sees all of it, and nobody is still at work on *)
(* it (run_backup_job joins before its safety net and its verdict).        *)
THEOREM EndedJobsAreWhole == Spec => []EndedJobIsWhole
<1>1. IInv => EndedJobIsWhole
  BY InvariantImplies
<1> QED  BY <1>1, InvariantHolds, PTL

(* On every path but that of an unknown type_key a device that reads failed*)
(* has its error (finalize_crashed_job, the safety net, the except block). *)
THEOREM FailuresHaveReasons == Spec => []ReasonBeforeFailure
<1>1. IInv => ReasonBeforeFailure
  BY InvariantImplies
<1> QED  BY <1>1, InvariantHolds, PTL

------------------------------------------------------------------------------
(* What is final stays.                                                    *)
FinalIsKept(j) ==
    step'[j] # "none" =>
      /\ status[j] \in Terminal => status'[j] = status[j]
      /\ \A d \in Devices : Ended(j, d) =>
           /\ results'[j][d].status = results[j][d].status
           /\ <<j, d>> \notin Unknown => results'[j][d] = results[j][d]

LEMMA JobStepsKeepWhatIsFinal ==
    ASSUME IInv, NEW j \in Jobs, Accept(j) \/ JobStep(j) \/ Forget(j)
    PROVE  FinalIsKept(j)
<1>1. TypeOK /\ JobInv(j)
  BY DEF IInv
<1>2. CASE Accept(j) \/ Forget(j)
  BY <1>1, <1>2 DEF Accept, Forget, Goes, TypeOK, JobInv, StatusFits, FinalIsKept
<1>3. CASE Begin(j)
  <2>1. status[j] = "pending" /\ \A d \in Devices : results[j][d] = Blank
    BY <1>1, <1>3 DEF Begin, JobInv, StatusFits, ResultFits
  <2>2. \A d \in Devices : ~Ended(j, d)
    BY <2>1 DEF Blank, Ended
  <2> QED  BY <2>1, <2>2 DEF FinalIsKept, Terminal
<1>4. CASE BeginFails(j) \/ Joined(j) \/ Stamp(j) \/ Save(j)
  BY <1>4 DEF BeginFails, Joined, Stamp, Save, FinalIsKept
<1>5. CASE Dispatch(j) \/ OutOfThreads(j)
  BY <1>5 DEF Dispatch, OutOfThreads, HandOver, FinalIsKept
<1>6. CASE SettleOne(j)
  <2>1. NextUnsettled(j) \in Devices /\ ~Ended(j, NextUnsettled(j))
    BY <1>6, NextUnsettledIsUnsettled DEF SettleOne, Unsettled, Ended
  <2>2. \A d \in Devices \ {NextUnsettled(j)} : results'[j][d] = results[j][d]
    BY <1>1, <1>6, <2>1 DEF SettleOne, TypeOK
  <2>3. status' = status
    BY <1>6 DEF SettleOne
  <2> QED  BY <2>1, <2>2, <2>3 DEF FinalIsKept
<1>7. CASE Decide(j)
  <2>1. status[j] \notin Terminal /\ results' = results
    BY <1>1, <1>7 DEF Decide, JobInv, StatusFits, Terminal
  <2> QED  BY <2>1 DEF FinalIsKept
<1> QED  BY <1>2, <1>3, <1>4, <1>5, <1>6, <1>7 DEF JobStep

LEMMA DeviceStepsKeepWhatIsFinal ==
    ASSUME IInv, NEW j \in Jobs, NEW d \in Devices, DeviceStep(j, d)
    PROVE  FinalIsKept(j)
<1>1. TypeOK /\ JobInv(j) /\ ResultFits(j, d)
  BY DEF IInv, JobInv
<1>2. CASE PickUp(j, d) \/ GetPermit(j, d) \/ Escape(j, d)
  BY <1>2 DEF PickUp, GetPermit, Escape, FinalIsKept
<1>3. CASE Writes(j, d)
  <2>1. /\ status' = status
        /\ \A e \in Devices \ {d} : results'[j][e] = results[j][e]
    BY <1>1, <1>3, WritesAreWork DEF WorkStep
  <2>2. CASE UnknownTypeWorded(j, d)
    <3>1. <<j, d>> \in Unknown
      BY <1>1, <2>2 DEF UnknownTypeWorded, ResultFits
    <3>2. results'[j][d].status = results[j][d].status
      BY <1>1, <2>2, WriteError DEF UnknownTypeWorded
    <3> QED  BY <2>1, <3>1, <3>2 DEF FinalIsKept
  <2>3. CASE ~UnknownTypeWorded(j, d)
    <3>1. dev[j][d] \in {"holding", "collecting", "saved", "worded"}
      BY <1>3, <2>3 DEF Writes, UnknownType, StartCollecting, Collected, Succeeded,
         CollectFailed, Failed
    <3>2. ~Ended(j, d)
      BY <1>1, <3>1 DEF ResultFits, Ended
    <3> QED  BY <2>1, <3>2 DEF FinalIsKept
  <2> QED  BY <2>2, <2>3
<1> QED  BY <1>2, <1>3 DEF DeviceStep, Writes

LEMMA UntouchedIsKept ==
    ASSUME NEW i \in Jobs, Untouched(i)  PROVE FinalIsKept(i)
  BY DEF Untouched, FinalIsKept

LEMMA StepsKeepWhatIsFinal ==
    ASSUME IInv, [Next]_vars, NEW i \in Jobs  PROVE FinalIsKept(i)
<1>1. CASE UNCHANGED vars
  BY <1>1, UntouchedIsKept DEF vars, Untouched
<1>2. CASE Next
  <2> PICK j \in Jobs : StepOf(j)
    BY <1>2 DEF Next, StepOf
  <2>1. CASE i # j
    BY <2>1, JobStepsTouchOneJob, DeviceStepsTouchOneJob, UntouchedIsKept DEF StepOf, IInv
  <2>2. CASE i = j
    BY <2>2, JobStepsKeepWhatIsFinal, DeviceStepsKeepWhatIsFinal DEF StepOf
  <2> QED  BY <2>1, <2>2
<1> QED  BY <1>1, <1>2

(* No late writer touches a verdict: neither the result of a device that   *)
(* has one nor the status of a job that has ended (BackupResult, JobStatus;*)
(* an unknown type_key still gets its error).                              *)
THEOREM WhatIsFinalStays == Spec => FinalMeansFinal
<1>1. IInv /\ [Next]_vars =>
        [\A j \in Jobs : step'[j] # "none" =>
           /\ status[j] \in Terminal => status'[j] = status[j]
           /\ \A d \in Devices : Ended(j, d) =>
                /\ results'[j][d].status = results[j][d].status
                /\ <<j, d>> \notin Unknown => results'[j][d] = results[j][d]]_vars
  BY StepsKeepWhatIsFinal DEF FinalIsKept
<1> QED  BY <1>1, InvariantHolds, PTL DEF Spec, FinalMeansFinal

------------------------------------------------------------------------------
(* The runner keeps the promise of BackupPromise.                          *)

(* What the promise knows of a device, and of all of them.                 *)
Shown(j, d) == IF Ended(j, d) THEN results[j][d].status ELSE "open"
Verdicts == [j \in Jobs |-> [d \in Devices |-> Shown(j, d)]]

(* And what it knows of the jobs.                                          *)
Statuses == [j \in Jobs |-> PromisedStatus(j)]

PromisedStep ==
    \/ Promise!Next
    \/ Statuses' = Statuses /\ Verdicts' = Verdicts

(* A job that has not failed is shown by the status it has.                *)
LEMMA ShownAsItIs ==
    ASSUME NEW j \in Jobs, status[j] # "failed"
    PROVE  Statuses[j] = status[j]
  BY DEF Statuses, PromisedStatus

LEMMA OthersAreShownTheSame ==
    ASSUME NEW i \in Jobs, Untouched(i)
    PROVE  PromisedStatus(i)' = PromisedStatus(i)
  BY DEF Untouched, PromisedStatus, NoSuccess

(* A step of one job that leaves its status alone.                         *)
LEMMA SameStatuses ==
    ASSUME NEW j \in Jobs, \A i \in Jobs \ {j} : Untouched(i),
           status'[j] = status[j], status[j] # "failed"
    PROVE  Statuses' = Statuses
<1>1. PromisedStatus(j)' = PromisedStatus(j)
  BY DEF PromisedStatus
<1> QED  BY <1>1, OthersAreShownTheSame DEF Statuses

(* A step of one job that gives it a status and does not fail it.          *)
LEMMA NewStatus ==
    ASSUME NEW j \in Jobs, \A i \in Jobs \ {j} : Untouched(i),
           NEW s, status'[j] = s, s # "failed"
    PROVE  Statuses' = [Statuses EXCEPT ![j] = s]
<1>1. PromisedStatus(j)' = s
  BY DEF PromisedStatus
<1> QED  BY <1>1, OthersAreShownTheSame DEF Statuses

LEMMA SameVerdicts ==
    ASSUME \A i \in Jobs, d \in Devices : Shown(i, d)' = Shown(i, d)
    PROVE  Verdicts' = Verdicts
  BY DEF Verdicts

LEMMA UntouchedIsShownTheSame ==
    ASSUME NEW i \in Jobs, Untouched(i), NEW d \in Devices
    PROVE  Shown(i, d)' = Shown(i, d)
  BY DEF Untouched, Shown, Ended

(* A device that had none is given its verdict, and nothing else happens.  *)
LEMMA VerdictIsSettled ==
    ASSUME TypeOK, NEW j \in Jobs, NEW d \in Devices, NEW v \in {"success", "failed"},
           status[j] = "running", status' = status,
           ~Ended(j, d), Shown(j, d)' = v,
           \A e \in Devices \ {d} : Shown(j, e)' = Shown(j, e),
           \A i \in Jobs \ {j} : Untouched(i)
    PROVE  Promise!Next
<1>1. Verdicts[j][d] = "open"
  BY DEF Verdicts, Shown
<1>2. \A i \in Jobs, e \in Devices :
         Shown(i, e)' = IF i = j /\ e = d THEN v ELSE Shown(i, e)
  BY UntouchedIsShownTheSame
<1>3. Verdicts' = [Verdicts EXCEPT ![j][d] = v]
  BY <1>2 DEF Verdicts
<1>5. Statuses' = Statuses /\ Statuses[j] = "running"
  BY SameStatuses, ShownAsItIs
<1>4. Promise!Settle(j, d)
  BY <1>1, <1>3, <1>5 DEF Promise!Settle, Verdicts, Shown, Statuses
<1> QED  BY <1>4 DEF Promise!Next

LEMMA AcceptIsPromised ==
    ASSUME IInv, NEW j \in Jobs, Accept(j)  PROVE Promise!Accept(j)
<1>1. status[j] = "none"
  BY DEF Accept, IInv, JobInv, StatusFits
<1>2. status'[j] = "pending" /\ results' = results
  BY DEF Accept, IInv, TypeOK
<1>3. Verdicts' = Verdicts
  BY <1>2 DEF Verdicts, Shown, Ended
<1>4. \A i \in Jobs \ {j} : Untouched(i)
  BY JobStepsTouchOneJob DEF IInv
<1>5. Statuses[j] = "none" /\ Statuses' = [Statuses EXCEPT ![j] = "pending"]
  BY <1>1, <1>2, <1>4, ShownAsItIs, NewStatus
<1> QED  BY <1>3, <1>5 DEF Promise!Accept, Verdicts, Shown, Statuses

LEMMA ForgetIsPromised ==
    ASSUME IInv, NEW j \in Jobs, Forget(j)  PROVE Promise!Forget(j)
<1>1. status[j] \in Terminal
  BY DEF Forget, IInv, JobInv, StatusFits
<1>2. status'[j] = "none" /\ \A i \in Jobs \ {j} : Untouched(i)
  BY JobStepsTouchOneJob DEF Forget, IInv, TypeOK
<1>5. Statuses' = [Statuses EXCEPT ![j] = "none"]
  BY <1>2, NewStatus
<1>6. Statuses[j] \in {"completed", "partial", "failed", "crashed"}
  BY <1>1 DEF Statuses, PromisedStatus, Terminal
<1>3. \A i \in Jobs, d \in Devices :
         Shown(i, d)' = IF i = j THEN "open" ELSE Shown(i, d)
  <2>1. \A d \in Devices : results'[j][d] = Blank
    BY DEF Forget, IInv, TypeOK
  <2>2. \A d \in Devices : Shown(j, d)' = "open"
    BY <2>1 DEF Shown, Ended, Blank
  <2> QED  BY <1>2, <2>2, UntouchedIsShownTheSame
<1>4. Verdicts' = [Verdicts EXCEPT ![j] = [d \in Devices |-> "open"]]
  BY <1>3 DEF Verdicts
<1> QED  BY <1>4, <1>5, <1>6 DEF Promise!Forget, Promise!Open, Verdicts, Shown, Statuses

LEMMA BeginIsPromised ==
    ASSUME IInv, NEW j \in Jobs, Begin(j)  PROVE Promise!Start(j)
<1>1. status[j] = "pending" /\ \A d \in Devices : results[j][d] = Blank
  BY DEF Begin, IInv, JobInv, StatusFits, ResultFits
<1>2. status'[j] = "running"
  BY DEF Begin, IInv, TypeOK
<1>3. \A d \in Devices : results'[j][d] = Queued
  BY DEF Begin, IInv, TypeOK
<1>4. \A d \in Devices : Shown(j, d)' = Shown(j, d)
  BY <1>1, <1>3 DEF Shown, Ended, Blank, Queued
<1>5. \A i \in Jobs \ {j} : Untouched(i)
  BY JobStepsTouchOneJob DEF IInv, JobStep
<1>6. Verdicts' = Verdicts
  BY <1>4, <1>5, UntouchedIsShownTheSame, SameVerdicts
<1>7. Statuses[j] = "pending" /\ Statuses' = [Statuses EXCEPT ![j] = "running"]
  BY <1>1, <1>2, <1>5, ShownAsItIs, NewStatus
<1> QED  BY <1>6, <1>7 DEF Promise!Start, Verdicts, Shown, Statuses

LEMMA SettleOneIsPromised ==
    ASSUME IInv, NEW j \in Jobs, SettleOne(j)  PROVE PromisedStep
<1>0. PICK n \in Devices : n = NextUnsettled(j) /\ n \in Unsettled(j)
  BY NextUnsettledIsUnsettled DEF SettleOne, Unsettled
<1>1. n \in Devices /\ results[j][n].status \in {"queued", "running"}
  BY <1>0 DEF Unsettled
<1>2. /\ status' = status
      /\ results' = IF results[j][n].error THEN [results EXCEPT ![j][n].status = "failed"]
                    ELSE [results EXCEPT ![j][n].error = TRUE]
  BY <1>0 DEF SettleOne
<1>3. \A i \in Jobs \ {j} : Untouched(i)
  BY JobStepsTouchOneJob DEF IInv, JobStep
<1>4. \A e \in Devices \ {n} : results'[j][e] = results[j][e]
  BY <1>1, <1>2 DEF IInv, TypeOK
<1>5. \A e \in Devices \ {n} : Shown(j, e)' = Shown(j, e)
  BY <1>4 DEF Shown, Ended
<1>6. ~Ended(j, n)
  BY <1>1 DEF Ended
<1>9. status[j] = "running"
  <2>1. status[j] \in {"pending", "running"} /\ results[j][n] # Blank
    BY <1>1 DEF SettleOne, IInv, JobInv, StatusFits, Blank
  <2> QED  BY <1>1, <2>1 DEF IInv, JobInv, ResultFits
<1>7. CASE results[j][n].error
  <2>1. results' = [results EXCEPT ![j][n].status = "failed"]
    BY <1>2, <1>7
  <2>2. results'[j][n].status = "failed"
    BY <1>1, <2>1, WriteStatus DEF IInv
  <2>3. Shown(j, n)' = "failed"
    BY <2>2 DEF Shown, Ended
  <2> QED  BY <1>1, <1>2, <1>3, <1>5, <1>6, <1>9, <2>3, VerdictIsSettled DEF IInv, PromisedStep
<1>8. CASE ~results[j][n].error
  <2>1. results' = [results EXCEPT ![j][n].error = TRUE]
    BY <1>2, <1>8
  <2>2. results'[j][n].status = results[j][n].status
    BY <1>1, <2>1, WriteError DEF IInv
  <2>3. Shown(j, n)' = Shown(j, n)
    BY <2>2 DEF Shown, Ended
  <2>4. Statuses' = Statuses
    BY <1>2, <1>3, <1>9, SameStatuses
  <2> QED  BY <1>3, <1>5, <2>3, <2>4, UntouchedIsShownTheSame, SameVerdicts DEF PromisedStep
<1> QED  BY <1>7, <1>8

(* The verdict of the code is the verdict of the promise.                  *)
LEMMA DecideIsPromised ==
    ASSUME IInv, NEW j \in Jobs, Decide(j)  
    PROVE  Promise!End(j) \/ Promise!Crash(j) \/ Promise!CrashAfterSuccess(j)
<1>1. /\ step[j] = "verdict" /\ status[j] \in {"pending", "running"}
      /\ status' = [status EXCEPT ![j] = Verdict(j)] /\ results' = results
      /\ status[j] = "pending" => broken[j]
  BY DEF Decide, IInv, JobInv, StatusFits
<1>2. Verdicts' = Verdicts
  BY <1>1 DEF Verdicts, Shown, Ended
<1>3. status[j] = "running" => \A d \in Devices : Ended(j, d)
  <2> SUFFICES ASSUME status[j] = "running", NEW d \in Devices PROVE Ended(j, d)
    OBVIOUS
  <2>1. results[j][d].status \notin {"none", "queued", "running"}
    BY <1>1 DEF IInv, JobInv, EndFits, ResultFits
  <2> QED  BY <2>1 DEF IInv, TypeOK, Ended
<1>4. \A d \in Devices : Ended(j, d) => Verdicts[j][d] = results[j][d].status
  BY DEF Verdicts, Shown
<1>5. \A d \in Devices : Ended(j, d) => Verdicts[j][d] # "open"
  BY <1>4 DEF Ended
<1>8. /\ \A i \in Jobs \ {j} : Untouched(i)
      /\ status'[j] = Verdict(j) /\ broken'[j] = broken[j]
  BY <1>1, JobStepsTouchOneJob DEF Decide, IInv, TypeOK, JobStep
<1>9. Statuses[j] = status[j]
  BY <1>1, ShownAsItIs
<1>10. status[j] = "pending" => \A d \in Devices : ~Ended(j, d)
  <2>1. status[j] = "pending" => \A d \in Devices : results[j][d] = Blank
    BY DEF IInv, JobInv, ResultFits
  <2> QED  BY <2>1 DEF Ended, Blank
<1>11. NoSuccess(j) <=> \A d \in Devices : Verdicts[j][d] # "success"
  BY DEF NoSuccess, Verdicts, Shown, Ended
<1>6. CASE broken[j]
  <2>1. status'[j] = "failed"
    BY <1>6, <1>8 DEF Verdict
  <2>2. NoSuccess(j)' <=> NoSuccess(j)
    BY <1>1 DEF NoSuccess
  <2>3. PromisedStatus(j)' = IF NoSuccess(j) THEN "failed" ELSE "crashed"
    BY <1>6, <1>8, <2>1, <2>2 DEF PromisedStatus
  <2>4. Statuses' = [Statuses EXCEPT ![j] = IF NoSuccess(j) THEN "failed" ELSE "crashed"]
    BY <1>8, <2>3, OthersAreShownTheSame DEF Statuses
  <2>5. CASE NoSuccess(j)
    BY <1>1, <1>2, <1>3, <1>5, <1>9, <1>11, <2>4, <2>5 DEF Promise!Crash, Verdicts, Shown, Statuses
  <2>6. CASE ~NoSuccess(j)
    <3>1. status[j] = "running"
      BY <1>1, <1>10, <2>6 DEF NoSuccess, Ended
    <3>2. \E d \in Devices : Verdicts[j][d] = "success"
      BY <1>11, <2>6
    <3> QED  BY <1>2, <1>3, <1>5, <1>9, <2>4, <2>6, <3>1, <3>2
             DEF Promise!CrashAfterSuccess, Verdicts, Shown, Statuses
  <2> QED  BY <2>5, <2>6
<1>7. CASE ~broken[j]
  <2>1. status[j] = "running" /\ \A d \in Devices : Ended(j, d)
    BY <1>1, <1>3, <1>7
  <2>2. NoFailure(j) <=> \A d \in Devices : Verdicts[j][d] = "success"
    BY <1>4, <2>1 DEF NoFailure, Ended
  <2>3. Verdict(j) = Promise!Overall(Verdicts[j])
    BY <1>7, <1>11, <2>2 DEF Verdict, Promise!Overall
  <2>4. PromisedStatus(j)' = Verdict(j)
    BY <1>7, <1>8 DEF PromisedStatus
  <2>5. Statuses' = [Statuses EXCEPT ![j] = Verdict(j)]
    BY <1>8, <2>4, OthersAreShownTheSame DEF Statuses
  <2> QED  BY <1>2, <1>5, <1>9, <2>1, <2>3, <2>5 DEF Promise!End, Verdicts, Shown, Statuses
<1> QED  BY <1>6, <1>7

LEMMA DeviceStepsArePromised ==
    ASSUME IInv, NEW j \in Jobs, NEW d \in Devices, DeviceStep(j, d)
    PROVE  PromisedStep
<1>1. TypeOK /\ JobInv(j) /\ ResultFits(j, d)
  BY DEF IInv, JobInv
<1>2. \A i \in Jobs \ {j} : Untouched(i)
  BY <1>1, DeviceStepsTouchOneJob
<1>3. CASE PickUp(j, d) \/ GetPermit(j, d) \/ Escape(j, d)
  <2>1. status' = status /\ results' = results
    BY <1>3 DEF PickUp, GetPermit, Escape
  <2>2. status[j] # "failed"
    BY <1>1, <1>3, WorkIsInThePool DEF PickUp, GetPermit, Escape, Busy, UnderPermit
  <2>3. Statuses' = Statuses
    BY <1>2, <2>1, <2>2, SameStatuses
  <2> QED  BY <2>1, <2>3 DEF PromisedStep, Verdicts, Shown, Ended
<1>4. CASE Writes(j, d)
  <2>1. /\ status' = status /\ status[j] = "running"
        /\ \A e \in Devices \ {d} : Shown(j, e)' = Shown(j, e)
    BY <1>1, <1>4, WritesAreWork DEF WorkStep, Shown, Ended
  <2>5. Statuses' = Statuses
    BY <1>2, <2>1, SameStatuses
  <2>2. CASE UnknownType(j, d) \/ Succeeded(j, d) \/ Failed(j, d)
    <3>1. ~Ended(j, d)
      BY <1>1, <2>2 DEF UnknownType, Succeeded, Failed, ResultFits, Ended
    <3>2. PICK v \in {"success", "failed"} : results' = [results EXCEPT ![j][d].status = v]
      BY <2>2 DEF UnknownType, Succeeded, Failed
    <3>3. results'[j][d].status = v
      BY <1>1, <3>2, WriteStatus
    <3>4. Shown(j, d)' = v
      BY <3>3 DEF Shown, Ended
    <3> QED  BY <1>1, <1>2, <2>1, <3>1, <3>4, VerdictIsSettled DEF PromisedStep
  <2>3. CASE StartCollecting(j, d)
    <3>1. results' = [results EXCEPT ![j][d].status = "running"]
      BY <2>3 DEF StartCollecting
    <3>2. results'[j][d].status = "running"
      BY <1>1, <3>1, WriteStatus
    <3>3. results[j][d].status = "queued"
      BY <1>1, <2>3 DEF StartCollecting, ResultFits
    <3>4. Shown(j, d)' = Shown(j, d)
      BY <3>2, <3>3 DEF Shown, Ended
    <3> QED  BY <1>2, <2>1, <2>5, <3>4, UntouchedIsShownTheSame, SameVerdicts DEF PromisedStep
  <2>4. CASE Collected(j, d) \/ UnknownTypeWorded(j, d) \/ CollectFailed(j, d)
    <3>1. \/ results' = [results EXCEPT ![j][d].record = TRUE]
          \/ results' = [results EXCEPT ![j][d].error = TRUE]
      BY <2>4 DEF Collected, UnknownTypeWorded, CollectFailed
    <3>2. results'[j][d].status = results[j][d].status
      BY <1>1, <3>1, WriteRecord, WriteError
    <3>3. Shown(j, d)' = Shown(j, d)
      BY <3>2 DEF Shown, Ended
    <3> QED  BY <1>2, <2>1, <2>5, <3>3, UntouchedIsShownTheSame, SameVerdicts DEF PromisedStep
  <2> QED  BY <1>4, <2>2, <2>3, <2>4 DEF Writes
<1> QED  BY <1>3, <1>4 DEF DeviceStep, Writes

LEMMA StepsArePromised == IInv /\ [Next]_vars => PromisedStep
<1> SUFFICES ASSUME IInv, [Next]_vars PROVE PromisedStep
  OBVIOUS
<1>1. CASE UNCHANGED vars
  BY <1>1 DEF vars, PromisedStep, Verdicts, Shown, Ended, Statuses, PromisedStatus, NoSuccess
<1>2. CASE Next
  <2> PICK j \in Jobs : StepOf(j)
    BY <1>2 DEF Next, StepOf
  <2>1. CASE Accept(j) \/ Forget(j) \/ Begin(j)
    BY <2>1, AcceptIsPromised, ForgetIsPromised, BeginIsPromised DEF PromisedStep, Promise!Next
  <2>2. CASE BeginFails(j) \/ Joined(j) \/ Stamp(j) \/ Save(j)
    <3>1. /\ status' = status /\ results' = results
          /\ \A i \in Jobs \ {j} : Untouched(i)
      BY <2>2, JobStepsTouchOneJob DEF BeginFails, Joined, Stamp, Save, JobStep, IInv
    <3>2. status[j] = "failed" => broken' = broken
      BY <2>2 DEF BeginFails, Joined, Stamp, Save, IInv, JobInv, StatusFits
    <3>3. Statuses' = Statuses
      BY <3>1, <3>2, SameStatuses DEF Statuses, PromisedStatus, NoSuccess
    <3> QED  BY <3>1, <3>3 DEF PromisedStep, Verdicts, Shown, Ended
  <2>3. CASE Dispatch(j) \/ OutOfThreads(j)
    <3>1. /\ status' = status /\ results' = results
          /\ \A i \in Jobs \ {j} : Untouched(i)
      BY <2>3, JobStepsTouchOneJob DEF Dispatch, OutOfThreads, HandOver, JobStep, IInv
    <3>2. status[j] # "failed"
      BY <2>3 DEF Dispatch, OutOfThreads, HandOver, IInv, JobInv, StatusFits
    <3>3. Statuses' = Statuses
      BY <3>1, <3>2, SameStatuses
    <3> QED  BY <3>1, <3>3 DEF PromisedStep, Verdicts, Shown, Ended
  <2>4. CASE SettleOne(j)
    BY <2>4, SettleOneIsPromised
  <2>5. CASE Decide(j)
    BY <2>5, DecideIsPromised DEF PromisedStep, Promise!Next
  <2>6. CASE \E d \in Devices : DeviceStep(j, d)
    BY <2>6, DeviceStepsArePromised
  <2> QED  BY <2>1, <2>2, <2>3, <2>4, <2>5, <2>6 DEF StepOf, JobStep
<1> QED  BY <1>1, <1>2

(* The runner keeps the promise of models/backup.py: a job goes through its*)
(* life once and never back, each device gets one verdict, and a job ends  *)
(* with the verdict that its devices give, but for the runner that raised  *)
(* after a success (FailedMeansNoSuccess).                                 *)
THEOREM RunnerKeepsThePromise == Spec => KeepsThePromise
<1>1. Init => Promise!Init
  <2> SUFFICES ASSUME Init PROVE Promise!Init
    OBVIOUS
  <2>1. \A j \in Jobs, d \in Devices : Shown(j, d) = "open"
    BY DEF Init, Shown, Ended, Blank
  <2>2. Verdicts = [j \in Jobs |-> [d \in Devices |-> "open"]]
    BY <2>1 DEF Verdicts
  <2>3. Statuses = [j \in Jobs |-> "none"]
    BY DEF Init, Statuses, PromisedStatus
  <2> QED  BY <2>2, <2>3 DEF Promise!Init, Promise!Open, Verdicts, Shown, Statuses
<1>2. IInv /\ [Next]_vars => [Promise!Next]_(Promise!vars)
  BY StepsArePromised DEF PromisedStep, Promise!vars, Verdicts, Shown, Statuses
<1> QED  BY <1>1, <1>2, InvariantHolds, PTL DEF Spec, KeepsThePromise, Promise!Spec
==============================================================================
