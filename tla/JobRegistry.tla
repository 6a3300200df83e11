------------------------------ MODULE JobRegistry ------------------------------
(***************************************************************************)
(* What is known of a backup job, and to whom: the bounded cache of        *)
(* netcanon/storage/job_registry.py in front of the files of job_store.py, *)
(* the route that puts a job into both (netcanon/api/routes/backups.py,    *)
(* and schedules.py for scheduled runs), the polls that read it back, the  *)
(* intake cap that counts it, and a crash of the process with the restart. *)
(*                                                                         *)
(* The registry's lock is held for each of its operations and never across *)
(* a read of the disk, so a poll that misses the cache is two steps.  How  *)
(* a job runs is module BackupRunner; its statuses matter here only as     *)
(* pending, running and ended (one of the terminal ones).                  *)
(***************************************************************************)
EXTENDS Integers, FiniteSets, Sequences

CONSTANTS Jobs,        \* backup jobs, each with an id of its own
          Scheduled,   \* those a schedule creates: no intake cap
          Polls,       \* threads that serve GET /backups/{id}
          Routes,      \* bound: threads inside create_backup at once
          MaxMemory,   \* max_memory_jobs
          MaxPending,  \* MAX_PENDING_BACKUP_JOBS
          MaxCrashes,  \* bound: crashes of the process
          DiskMayFail  \* job_store.save may raise OSError

ASSUME RegistryAssumption ==
    /\ IsFiniteSet(Jobs)
    /\ Scheduled \subseteq Jobs
    /\ Routes \in Nat \ {0}
    /\ MaxMemory \in Nat
    /\ MaxPending \in Nat \ {0}
    /\ MaxCrashes \in Nat
    /\ DiskMayFail \in BOOLEAN

VARIABLES
    status,    \* the job object of the running process; "lost" after a crash
    route,     \* where the thread is that creates the job
    settled,   \* the save of its end has been tried
    cache,     \* BackupJobRegistry._cache, least recently used first
    disk,      \* the status in {job_id}.json; "none" without a file
    born,      \* the jobs in the order of created_at
    unsaved,   \* jobs whose first save failed and was swallowed
    reading,   \* what a poll that missed has read from disk
    crashes

vars == <<status, route, settled, cache, disk, born, unsaved, reading, crashes>>

(* An entry of the cache is the object that a runner works on, or a copy   *)
(* made from the file.                                                     *)
Entries == [id : Jobs, obj : {"live", "pending", "ended"}]
Nothing == [id |-> "nobody", obj |-> "none"]

TypeOK ==
    /\ status \in [Jobs -> {"none", "pending", "running", "ended", "lost"}]
    /\ route \in [Jobs -> {"idle", "checked", "made", "over", "cut"}]
    /\ settled \in [Jobs -> BOOLEAN]
    /\ cache \in Seq(Entries)
    /\ \A i, k \in 1..Len(cache) : cache[i].id = cache[k].id => i = k
    /\ disk \in [Jobs -> {"none", "pending", "ended"}]
    /\ born \in Seq(Jobs)
    /\ unsaved \subseteq Jobs
    /\ reading \in [Polls -> Entries \cup {Nothing}]
    /\ crashes \in 0..MaxCrashes

Init ==
    /\ status = [j \in Jobs |-> "none"]
    /\ route = [j \in Jobs |-> "idle"]
    /\ settled = [j \in Jobs |-> FALSE]
    /\ cache = <<>>
    /\ disk = [j \in Jobs |-> "none"]
    /\ born = <<>>
    /\ unsaved = {}
    /\ reading = [p \in Polls |-> Nothing]
    /\ crashes = 0

------------------------------------------------------------------------------
(* The cache.                                                              *)

StatusOf(entry) == IF entry.obj = "live" THEN status[entry.id] ELSE entry.obj
IsEnded(entry) == StatusOf(entry) = "ended"
InCache == {cache[i] : i \in 1..Len(cache)}
Resident(j) == \E i \in 1..Len(cache) : cache[i].id = j

(* What a sequence has at the places S, in its order.                      *)
Nth(S, n) == CHOOSE i \in S : Cardinality({k \in S : k =< i}) = n
Picked(seq, S) == [n \in 1..Cardinality(S) |-> seq[Nth(S, n)]]

Without(c, j) == Picked(c, {i \in 1..Len(c) : c[i].id # j})

(* The loop: the least recently used job that has ended goes, until the    *)
(* cache is down to the cap or only live jobs are left in it.              *)
EvictWhateverStatus(c) ==                         \* mutant: not looked at
    Picked(c, {i \in 1..Len(c) : i > Len(c) - MaxMemory})

Evict(c) ==
    LET ended == {i \in 1..Len(c) : IsEnded(c[i])} IN
    Picked(c, {i \in 1..Len(c) :
        i \in ended => Cardinality({k \in ended : k =< i}) > Len(c) - MaxMemory})

(* __setitem__.                                                            *)
Put(entry) ==
    cache' = IF MaxMemory = 0 THEN cache
             ELSE IF Resident(entry.id) THEN Append(Without(cache, entry.id), entry)
             ELSE Evict(Append(cache, entry))

(* active_job_count.                                                       *)
ActiveCount == Cardinality({i \in 1..Len(cache) : ~IsEnded(cache[i])})

------------------------------------------------------------------------------
(* Creating and running a job.                                             *)

(* The intake cap is read in one critical section of the registry, the job *)
(* is put in another one.                                                  *)
UncheckedIntake(j) ==                             \* mutant: no cap
    /\ j \notin Scheduled
    /\ route[j] = "idle"
    /\ Cardinality({k \in Jobs : route[k] = "checked"}) < Routes
    /\ route' = [route EXCEPT ![j] = "checked"]
    /\ UNCHANGED <<status, settled, cache, disk, born, unsaved, reading, crashes>>

CheckIntake(j) ==
    /\ j \notin Scheduled
    /\ route[j] = "idle"
    /\ ActiveCount < MaxPending
    /\ Cardinality({k \in Jobs : route[k] = "checked"}) < Routes
    /\ route' = [route EXCEPT ![j] = "checked"]
    /\ UNCHANGED <<status, settled, cache, disk, born, unsaved, reading, crashes>>

(* No credentials for a device (422), or an address that is blocked (400). *)
Refuse(j) ==
    /\ route[j] = "checked"
    /\ route' = [route EXCEPT ![j] = "idle"]
    /\ UNCHANGED <<status, settled, cache, disk, born, unsaved, reading, crashes>>

Create(j) ==
    /\ route[j] = IF j \in Scheduled THEN "idle" ELSE "checked"
    /\ route' = [route EXCEPT ![j] = "made"]
    /\ status' = [status EXCEPT ![j] = "pending"]
    /\ born' = Append(born, j)
    /\ Put([id |-> j, obj |-> "live"])
    /\ UNCHANGED <<settled, disk, unsaved, reading, crashes>>

(* job_store.save: the file is replaced whole, or OSError is dropped.      *)
Saved(j, st) ==
    \/ disk' = [disk EXCEPT ![j] = st] /\ UNCHANGED unsaved
    \/ /\ DiskMayFail
       /\ UNCHANGED disk
       /\ unsaved' = IF st = "pending" THEN unsaved \cup {j} ELSE unsaved

(* Saved as pending, then handed to the executor.                          *)
SubmitUnsaved(j) ==                               \* mutant: no save at creation
    /\ route[j] = "made"
    /\ route' = [route EXCEPT ![j] = "over"]
    /\ UNCHANGED <<status, settled, cache, disk, born, unsaved, reading, crashes>>

SaveAndSubmit(j) ==
    /\ route[j] = "made"
    /\ route' = [route EXCEPT ![j] = "over"]
    /\ Saved(j, "pending")
    /\ UNCHANGED <<status, settled, cache, born, reading, crashes>>

RunBegins(j) ==
    /\ route[j] = "over"
    /\ status[j] = "pending"
    /\ status' = [status EXCEPT ![j] = "running"]
    /\ UNCHANGED <<route, settled, cache, disk, born, unsaved, reading, crashes>>

(* The runner's end, or finalize_crashed_job, also of a job that never ran.*)
RunEnds(j) ==
    /\ route[j] = "over"
    /\ status[j] \in {"pending", "running"}
    /\ status' = [status EXCEPT ![j] = "ended"]
    /\ UNCHANGED <<route, settled, cache, disk, born, unsaved, reading, crashes>>

SaveEnd(j) ==
    /\ status[j] = "ended"
    /\ ~settled[j]
    /\ settled' = [settled EXCEPT ![j] = TRUE]
    /\ Saved(j, "ended")
    /\ UNCHANGED <<status, route, cache, born, reading, crashes>>

------------------------------------------------------------------------------
(* Polling: __getitem__.                                                   *)

PollHits(p, j) ==
    /\ reading[p] = Nothing
    /\ Resident(j)
    /\ \E i \in 1..Len(cache) :
         cache[i].id = j /\ cache' = Append(Without(cache, j), cache[i])
    /\ UNCHANGED <<status, route, settled, disk, born, unsaved, reading, crashes>>

(* No entry and no file: 404.                                              *)
PollFindsNothing(p, j) ==
    /\ reading[p] = Nothing
    /\ ~Resident(j)
    /\ disk[j] = "none"
    /\ UNCHANGED vars

(* A miss reads the file with no lock held.                                *)
PollMisses(p, j) ==
    /\ reading[p] = Nothing
    /\ ~Resident(j)
    /\ disk[j] # "none"
    /\ reading' = [reading EXCEPT ![p] = [id |-> j, obj |-> disk[j]]]
    /\ UNCHANGED <<status, route, settled, cache, disk, born, unsaved, crashes>>

(* Only a copy of a job that has ended goes into the cache.                *)
PollKeepsAny(p) ==                                \* mutant: whatever was read is kept
    /\ reading[p] # Nothing
    /\ reading' = [reading EXCEPT ![p] = Nothing]
    /\ Put(reading[p])
    /\ UNCHANGED <<status, route, settled, disk, born, unsaved, crashes>>

PollEnds(p) ==
    /\ reading[p] # Nothing
    /\ reading' = [reading EXCEPT ![p] = Nothing]
    /\ IF reading[p].obj = "ended" THEN Put(reading[p]) ELSE UNCHANGED cache
    /\ UNCHANGED <<status, route, settled, disk, born, unsaved, crashes>>

------------------------------------------------------------------------------
(* The process dies and is started again: every object and thread is gone, *)
(* _warm_from_disk loads the newest files, ended or not.                   *)
OnDisk == Picked(born, {i \in 1..Len(born) : disk[born[i]] # "none"})
Newest == IF Len(OnDisk) <= MaxMemory THEN OnDisk
          ELSE SubSeq(OnDisk, Len(OnDisk) - MaxMemory + 1, Len(OnDisk))

Crash ==
    /\ crashes < MaxCrashes
    /\ crashes' = crashes + 1
    /\ status' = [j \in Jobs |-> IF status[j] = "none" THEN "none" ELSE "lost"]
    /\ route' = [j \in Jobs |-> CASE status[j] = "none" -> "idle"
                                  [] route[j] = "made" -> "cut"
                                  [] OTHER -> route[j]]
    /\ cache' = [i \in 1..Len(Newest) |-> [id |-> Newest[i], obj |-> disk[Newest[i]]]]
    /\ reading' = [p \in Polls |-> Nothing]
    /\ UNCHANGED <<settled, disk, born, unsaved>>

------------------------------------------------------------------------------
Next ==
    \/ \E j \in Jobs :
        \/ CheckIntake(j)
        \/ Refuse(j)
        \/ Create(j)
        \/ SaveAndSubmit(j)
        \/ RunBegins(j)
        \/ RunEnds(j)
        \/ SaveEnd(j)
        \/ \E p \in Polls :
            \/ PollHits(p, j)
            \/ PollMisses(p, j)
            \/ PollFindsNothing(p, j)
    \/ \E p \in Polls : PollEnds(p)
    \/ Crash

Spec == Init /\ [][Next]_vars

------------------------------------------------------------------------------
(* What a poll that comes now is answered: the cache, else the file.       *)
Answer(j) ==
    IF Resident(j)
    THEN StatusOf(CHOOSE entry \in InCache : entry.id = j)
    ELSE disk[j]

InFlight(j) == status[j] \in {"pending", "running"}

(* A live job is never evicted, and a copy of its file never takes its     *)
(* place: what the runner writes is what polls read (#25).                 *)
LiveJobsAreResident ==
    \A j \in Jobs : InFlight(j) => [id |-> j, obj |-> "live"] \in InCache

(* A poll is told the truth: of a job in flight always, of one that ended  *)
(* as soon as its end is on disk, however often it was evicted and read    *)
(* back, and after a crash what the disk has.                              *)
PollsAreTrue ==
    \A j \in Jobs :
        /\ InFlight(j) => Answer(j) = status[j]
        /\ disk[j] = "ended" => Answer(j) = "ended"

(* A job whose creation was answered is never a 404, wherever it was       *)
(* evicted from and whenever the process crashed (CONC-5, #26), unless its *)
(* own save failed; that of another job costs it nothing.                  *)
AnsweredJobsAreKnown ==
    \A j \in Jobs \ unsaved : route[j] = "over" => Answer(j) # "none"

(* active_job_count is the EXACT in-flight count.                          *)
CountIsExact == ActiveCount = Cardinality({j \in Jobs : InFlight(j)})

(* It is as long as the process lives: each live job is counted, once, and *)
(* nothing else is, whatever was evicted and read back.  After a restart   *)
(* it also counts the files that still say pending.                        *)
CountIsExactUntilRestart == crashes = 0 => CountIsExact

(* The cap counts before it adds, without holding the lock in between, so  *)
(* as many more as there are routes can get in, and no more.  Scheduled    *)
(* jobs are not held to it, though they are counted.                       *)
IntakeIsBounded ==
    Cardinality({j \in Jobs \ Scheduled : InFlight(j)}) <= MaxPending + Routes - 1
==============================================================================
