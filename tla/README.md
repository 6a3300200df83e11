# Netcanon in TLA+

Netcanon backs up and translates network configurations: a FastAPI server
(`src/netcanon`), a desktop wrapper around it (`src/netcanon_desktop`) and, for the
public demo, a *warden* that hands every visitor a container of his own
(`src/demo/warden`). This directory holds TLA+ models of the parts of it that run
concurrently, keep state or decide in several passes, the TLC runs that check them on
small instances, and proofs that TLAPS checks for every value of the constants.

Contents: [the system](#the-system) · [modules](#modules) ·
[the runs](#the-runs) · [bounds](#bounds) · [fairness](#fairness) ·
[what is proved](#what-is-proved) · [only model-checked](#what-is-only-model-checked) ·
[disagreements](#where-the-code-and-its-words-disagree) ·
[observations](#observations) · [plan](#plan) · [not modelled](#what-is-not-modelled)

## The system

| component | state it keeps | operations | what is hard |
|---|---|---|---|
| **Turn gate** `migration/limits.py` (`_Turns`, `Answer`), `api/routes/_migration_helpers.py` (`AnswerSent`, `_InItsTime`) | counters `working` and `places`, the line (a deque), lent turns; per request its place, deadline, turn | `admit`, `take`, `done`, `answer_sent`, the middleware's `receive` / `send` / timeouts | one `Condition` between worker threads and the event loop; waits with a deadline; turns that are *lent* to an answer on its way and taken back when overdue; a client that leaves in the middle |
| **Backup runner** `services/backup_runner.py` (`run_backup_job`, `_process_one_device*`, `finalize_crashed_job`) | job status, per-device results, the shared semaphore, the job's file | list devices, dispatch to a pool or work serially, settle, decide, save | polls read results attribute by attribute while pool threads write them; exceptions that leave through the side doors; a system without threads to give |
| **Job executor** the same file (`_job_executor`, `submit_backup_job`, `reset_job_executor`), `main.py` | the executor singleton, work items, the done-callback | resolve, submit, retry once, shut down | shutdown between resolve and submit; a submit that had an effect before it raised |
| **Job registry and job files** `storage/job_registry.py`, `storage/job_store.py`, `api/routes/backups.py` | an LRU cache, one JSON file per job | insert, evict, read through, count, warm start; the POST's intake cap | the disk is read without the lock; eviction must spare live jobs; saves fail and are swallowed; the process dies between insert, save, submit and the last save |
| **Schedules** `api/routes/schedules.py`, `storage/schedule_store.py`, `main.py` | registry under a lock, files, APScheduler's jobs | create, toggle, delete, run, reload | memory, file and scheduler change one after the other and any of the writes may fail; a run ends minutes after it read its schedule |
| **Device profiles** `api/routes/device_profiles.py`, `storage/device_profile_store.py`, the worker of `backup_runner.py` | registry under a lock, files | create, update, delete, detected facts, load | the worker and the routes write the same profile; failed saves |
| **Credentials** `security/credentials.py`, `security/migration.py` | the resolved key, the OS keyring, `.fernet_key`, encrypted fields | resolve, generate, encrypt, decrypt, migrate | a key that the next process must find; a migration that stops half-way |
| **Host keys** `collectors/hostkey.py` and the two collectors | one `known_hosts` | probe and pin (Netmiko), load and extend (Paramiko) | concurrent first contacts rewrite one file; Netmiko reads it and Paramiko rewrites it without the lock |
| **Config store** `storage/file_store.py`, `api/routes/configs.py` | configurations with sidecars | save, delete | two files per save; two saves in a second; deletes take no lock |
| **Port mapping** `services/migration_pipeline.py` (`run_plan_with_models`), `migration/port_mapping.py`, `migration/canonical/port_names.py` | the map of a run and what it placed where | pair, merge, translate, displace, translate again, settle | four sources of decisions overwrite one map, and the second run places the rest anew |
| **Demo warden** `demo/warden/app.py`, `constants.py` | warm pool, sessions, per-address records, `_reserving`, docker's containers | `/session/new`, `/end`, heartbeat, proxying, refill, reaper, startup | one event loop, but every docker call is awaited and everything else happens in between; three timers per session; several caps |
| The rest: meters, the other stages of the pipeline, codecs, definitions, collectors, egress, other routes, CLI, desktop, templates | none, or read-only | pure functions, input and output | data rather than control |

How they interact: a route or a schedule makes a job (*registry*), hands it to the
*executor*, whose thread runs it (*runner*); the runner writes the same object that
polls read through the *registry*. For each device the runner's worker logs in with
the credential of a *profile*, past the *host keys*, stores what it collected in the
*config store*, and writes what it detected back to the profile. The *turn gate* stands
in front of the routes that parse, map ports and render; it shares nothing with backups.
The *warden* is a process of its own.

What makes them correct, in one sentence each:

* gate - no turn or place is lost or given back twice, no wake-up is lost, the
  line is first come first served, and nobody waits for ever;
* runner - nothing that failed reads as a success, what has ended stays ended and is
  whole, permits do not drift, and every job ends;
* executor - a job runs once and is never left with nobody to run it;
* registry - a poll is told the truth, an answered job is never unknown, and the
  number of jobs in flight is exact;
* schedules - what a client was told stands through failures, late runs and restarts,
  and a schedule that is on is run again and again;
* profiles and credentials - a password that was answered with success can be read back
  by the next process, and a profile that was deleted stays so;
* host keys and config store - a key that was trusted stays pinned, a backup that was
  reported is never overwritten, and links lead to the right profile;
* port mapping - decisions stand through every later pass, ports are fused by the
  operator only, and *completed* can be taken as it is;
* warden - a container serves one visitor, is removed once and by somebody, caps hold
  up to a known overshoot, and sessions end on time.

## Modules

| module | models | theorems in |
|---|---|---|
| `TurnQueue` | the promise of the gate: a bounded first-come first-served queue in front of a bounded number of turns (abstract) | |
| `TurnGate` | `_Turns`, `Answer`, the middleware; refines `TurnQueue` | `TurnGateProofs` |
| `BackupPromise` | what `models/backup.py` promises to whoever polls (abstract) | |
| `BackupRunner` | one job, its devices, the shared permits; refines `BackupPromise` | `BackupRunnerProofs` |
| `JobExecutor` | submitting, shutdown, `ThreadPoolExecutor` (external) | `JobExecutorProofs` |
| `JobRegistry` | cache, files, intake, polls, crash | `JobRegistryProofs` |
| `Schedules` | routes, scheduled runs, APScheduler (external), restart | `SchedulesProofs` |
| `DeviceProfiles` | routes, the backup worker, the three places of the key, migration, restart | `DeviceProofs` |
| `HostKeys` | the pins of both collectors, Paramiko's own save included | `DeviceProofs` |
| `ConfigStore` | configurations with sidecars | `DeviceProofs` |
| `PortMapping` | the passes of `run_plan_with_models` over one map | `PortMappingProofs` |
| `Warden` | the demo warden | `WardenProofs` |

A module `MC...` has the instance that TLC checks. Two of them put components that share
nothing beside each other, to be checked in one run: `MCScheduledJobs` (`Schedules`,
`JobExecutor`) and `MCDeviceRecords` (`DeviceProfiles`, `HostKeys`, `ConfigStore`). Each
behaviour there is one of a single component, and the others rest where they start:
interleaving what shares no variable would only multiply the states.

**TurnGate.** One action is one critical section of the condition's lock with what the
same thread does around it. `stage[r]` says where the request is (`idle`, `body`,
`handler`, `line`, `work`, `answer`); `place`, `gone`, `turn` are `Answer._place`,
`_gone`, `_held.state`; `line`, `working`, `places` are the fields of `_Turns`.
`left[r]` is `Answer.left()`; `sleep[r]` is what is left of the thread's
`Condition.wait(timeout)` and 0 while it is awake. `Take` is the entry of
`_Turns.take` (its own turn back, a free turn, refused, joining the line), `Look` one
round of its loop. The dequeue, the notification and the settlement of the place
belong to the action that performs them in the code. Time is relative, so states
repeat and the behaviours are infinite.

**BackupRunner.** Every write that a poll can see is one step: the status and the
error of a failed device are two. `step[j]` is where the job's own thread is,
`dev[j][d]` where the work on a device is, `crew[j]` the threads of the job's own
pool, `broken[j]` an exception on its way out. `OutOfThreads` is `pool.submit` raising
half-way; `Escape` an exception past the `except` of `_process_one_device`, which ends
the loop of a serial job and is only logged in a pool. `finalize_crashed_job` and the
safety net of `run_backup_job` are the same loop and share `SettleOne`. `BackupPromise`
is that of `models/backup.py`, where a failed job has no success. A job that crashes after
a success is called failed all the same; `PromisedStatus` takes it out of the promise, as
a status of its own, and the run `runner_failed` shows it.

**JobExecutor.** `ThreadPoolExecutor` is the standard library's; its model follows its
documented order (queue the item, then claim an idle thread or start one), and those
definitions are marked external. `step`, `try`, `had` are the locals of the thread in
`submit_backup_job`; `current` is `_JOB_EXECUTOR`; `minded[j]` tells which of the two
futures has the done-callback or is awaited, or that the coroutine which awaited it is
`Gone`: `Cancel` is the shutdown of the scheduler, or of the loop, cancelling it. A
cancelled run that is queued is thrown away (`SkipCancelled`), one that goes on and
crashes has nobody to finalize it (`RunCrashes`).

**JobRegistry.** An entry of `cache` is the live object or a copy of the file. A poll
that misses is two steps, the read of the file and the promotion, for the lock is not
held in between. `Crash` kills all threads and warms the cache from the newest files.
A status is `pending`, `running`, `ended` (any terminal one) or `lost`.

**Schedules.** A schedule is kept three times: `listed` and `enabled` are the registry,
`file` the JSON file, `ap` APScheduler's jobs. Each route holds the registry's lock over
all it does, so `holder` is where the one route at work is; it is split at its file
operations, each of which has a failing twin. A run that fires looks the schedule up
without the lock (`BeginRun`) and takes it to save its result (`Record`, `RecordUnsaved`,
`RemovedMeanwhile`). `told` is a history: the last answer a client had; *partly* is the
refusal of a creation whose first save had gone well (the client is told the same).

**DeviceProfiles.** A credential is what it says and the sequence of keys it is wrapped
in: `<<>>` is plaintext, `Decrypted` takes one layer off or leaves the text as it is,
which is what `decrypt_field` does. `memory` is the registry, `disk` the files,
`holder` the route at work with the profile a rollback would restore, `held` the
credential that a worker logged in with. `ResolveKey` is `_resolve_key` with its side
effects: environment, keyring, file, and the generation of a key where the tier has
none. `BadKey` is a text that is no key: a wrong setting, or `.fernet_key` after a write
that was cut (`KeyFileIsCut`, by an error or by the end of the process). Every use of it
is a ValueError, which the routes do not roll back (`KeyRefused`) and at which a start
leaves out every profile (`StartWithoutKey`). `Move` changes where the key comes from
between two processes. `Start` is `load_all` with `migrate_credential_fields`.

**HostKeys.** `pins` is `known_hosts` when nobody writes it, `loaded` the pins in a
session's memory. Netmiko's way is probe, verify under the lock (`Learn`,
`KnownAndUnchanged`, `Refused`) and a strict connection, which reads the file without the
lock and may see part of a write (`MixesOf`). Paramiko's is to load, to connect and to lay
its keys over the file as it is then (`Persist`). In between, if there was a file to load
and the host is new, `AutoAddPolicy` has the client load the file once more and save it in
place, without the lock (`AddHost`, `HostAdded`, `AddHostFails`). `torn` is a history: a
write was cut, an error hid the file, or that save overlapped another use of it.

**ConfigStore.** All saves are of one device in one second, so they compete for the
names `stem`, `stem_1`, ... A save holds `writer` from the choice of the name to its
sidecar. A delete resolves the path, removes the sidecar, then the file, with no lock, at
any time and beside other deletes. `crossed` is a history: the names on which a delete
overlapped a save or another delete.

**PortMapping.** A name is a base and a unit. What the codecs make of a name's shape is
`shape`, chosen freely: nothing is assumed of them. One action is one pass:
`Translate` (pairing, followers and the operator's entries merged, then
`translate_port_names`), `Displace` or `NothingToDisplace` (`_undecided_clashes`, the
second run), `Settle` (`unresolved`, `fused_targets`, the verdict).

**Warden.** The asyncio lock is only held in sections that never await, so a handler
runs from one await to the next in one step, and each docker call is the boundary of
two steps. A token is identified with its container. `mint[m]` is a request inside
`session_new` (`creating`, `ending` a session it replaces, `reclaiming` one),
`reaper` the pass in progress, `refill` the one in flight, `due` the ones spawned.
Ages saturate just above the limit they are compared with. The band of the idle TTL
(tight above 80 %, loose below 70 %) is translated as it stands; with the small
`MaxActive` of the runs nothing lies between the two. The sweep of leftovers at
startup is one step; the creations that docker was still working on at a crash may
complete behind it.

Definitions marked `\* mutant` are wrong on purpose: each is a plausible bug at that
place (a dropped guard, a missing notification, a swapped order), and each property of
a passing run is known to catch one of them.

## The runs

| run | instance | distinct states | question |
|---|---|---|---|
| `gate` | 3 requests, 1 turn, 2 places in line, deadline 2 | 52 588 | books, wake-ups, taking back, refinement of `TurnQueue`; does every waiter leave, does every place come back |
| `runner` | a serial and a pooled job, 2 devices each, 1 permit, escapes, thread exhaustion, one unknown type | 39 070 | verdicts, permits, refinement of `BackupPromise`, every job ends |
| `runner_failed` | the same | violation | does a failed job have no success? |
| `registry` | 3 manual jobs and a scheduled one, cache of 1, intake cap 1, 2 routes, failing saves, 1 crash | 1 823 542 | residents, polls, count, known jobs, intake |
| `registry_restart` | 1 job, 1 crash | violation | is the count exact after a restart? |
| `scheduled_jobs` | 2 schedules, 2 failures, 1 restart; 2 manual jobs and a scheduled one, 1 thread per executor, 1 refusal of a thread, shutdown | 231 643 | do answers stand, do the three copies agree, do enabled schedules run; run once, always run |
| `device_records` | 2 profiles, 2 passwords, 1 failure, 3 ends of the process, 2 moves of the key; a Netmiko and a Paramiko session with one host, a Paramiko session with another, 2 keys, 1 rekeyed device, failing files, crashes; 3 saves of one second, 2 deletes | 1 143 890 | are passwords kept, do deletes stand, do memory and files agree; trust, backups, links |
| `port_mapping` | 3 ports and a sub-interface of each; 7 source and 16 target inventories, every config and map of one entry, every answer of the codecs | 1 939 601 | fusing, decisions, verdict |
| `port_mapping_keeper` | the same without entries | violation | does one name of an undecided clash keep its place? |
| `warden_caps` | 3 containers, 2 requests at once of one address, session cap 1, slow docker, 1 crash | 148 440 | keepers, orphans, overshoot |
| `warden_cap` | the same | violation | is MAX_ACTIVE never exceeded? |
| `warden_times` | 3 containers, 2 addresses, 1 request at once, TTLs, failures, 1 crash, prompt docker | 132 896 | ages, reservations, counts |

What the passing ones show:

* `gate`. `CountersAreExact`: the two counters equal what they count after every
  release of the lock. `NoLostWakeUp`: the first of the line never sleeps beside a free
  turn. `NobodyOversleeps`: when a lent turn falls due somebody is awake to take it
  back. `NothingLeftBehind`: a finished request holds nothing, and one whose client
  left keeps its place only while it waits or works. `ImplementsQueue`: a newcomer
  never passes a request that waits. `EveryWaiterLeaves` needs no client and no handler
  to do anything. `EveryPlaceComesBack` needs handlers to end, which is its stated
  premise.
* `runner`. `NoFalseVerdict`: *completed* means a stored configuration for each device.
  `EndedJobIsWhole`: a job that reads ended is stamped, has a verdict for each device
  and no thread at work on it, and a file that tells of the end tells the same.
  `ReasonBeforeFailure`: a poll never sees a failure without its reason, but for the
  unknown type. `KeepsThePromise`: the refinement of `BackupPromise`,
  for every job but one that crashed after a success. `EveryJobEnds`.
* `registry`. `LiveJobsAreResident`: no job in flight is evicted or hidden by a copy of
  its file, with failing saves too. `PollsAreTrue`: what a poll is answered is the live
  status, or the end once it is on disk. `CountIsExactUntilRestart`: eviction,
  re-reading and updating never make the in-flight count wrong. `AnsweredJobsAreKnown`:
  a job whose POST was answered is found after eviction and after a crash.
  `IntakeIsBounded`: the check of the cap and the insertion are apart, so as many more
  get in as there are routes in between, and no more.
* `scheduled_jobs`. `ToldIsKept`: a schedule that was answered to be on or off is so on
  disk until the next answer, and one that was deleted, or refused at its first save, comes
  back neither to memory nor to disk nor to APScheduler, though a run of it may end later.
  `ThreeCopiesAgree`: when no route is at work registry, files and APScheduler say the
  same and no file is of a schedule that is not listed, after every rollback but one: a
  creation whose second save fails leaves the file of its first.
  `EnabledSchedulesRun`: a schedule that stays on is run for ever.
  `RunsOnceGivenThreads`, `EveryJobIsRun`: across a shutdown at any point, for every job
  whose submits met no refusal of a thread; but the second says nothing of a scheduled job
  whose coroutine the shutdown cancels.
* `device_records`. `AnsweredPasswordsAreKept`: a password answered with success is on
  disk and the next start finds its key, unless the place of the key was changed.
  `DeletedStaysDeleted`: no worker and no file brings a profile back.
  `MemoryMatchesDisk`: memory is what the process's key makes of the files when no route
  is at work, and no plaintext is left in them, after faults of every file and whatever
  the next process finds for a key; but for a profile whose create met a key that is none,
  which stays in memory only. `TrustIsKept`: two sessions that went on with a host
  trusted the same key, and it is still pinned, as long as no write of the file was cut
  or overlapped. `BackupsAreKept`: a backup that was reported is under its name until it
  is deleted. `LinksAreTrue`: no configuration has another one's sidecar, under every name
  on which no delete overlapped a save or another delete.
* `port_mapping`. `OnlyTheOperatorFuses`: after the second run two names share a port
  only where an entry of the operator did it. `DecisionsStand`: what the operator
  decided, and the position of every data port left to the pairing, is what the last
  run did. `CompletedIsRight`: a job that says *completed* needs no look.
* `warden_*`. `OneKeeper`: no container backs two sessions, stays in the pool it was
  taken from or is removed twice. `NoOrphans`: while removals work, every container has
  somebody who will remove it. `OvershootIsBounded`: the caps are passed by concurrent
  requests only, at most by their number less one; that on all instances, the pool and a
  refill in flight included, by these and `POOL_SIZE`. `ReservingIsExact`, `PerIpIsExact`:
  the two counts the caps read are right whatever fails or is forgotten.
  `SessionsEndOnTime`, `AssignableIsYoung`: the timers.

`TypeOK` is an invariant of the run `gate`. That of every component but `PortMapping`,
whose variables are functions of its inputs, is a theorem.

## Bounds

* Gate: with three requests one works, two wait (so that the order matters) or one waits
  and one is refused; with a deadline of two ticks a request can sleep for less than its
  own deadline. No symmetry, for the run has liveness properties.
* Runner: one serial and one pooled job contend for one permit, the smallest case in
  which a job holds pool threads while another holds the permit; two devices are
  enough for *partial*, for a half-way thread exhaustion and for a serial loop that
  ends before its last device. A finished job's name is used again (`Forget`).
* Jobs: `MaxPools = 2` is the code's own number, for the executor is dropped once
  in the life of a process. One thread per pool makes jobs queue. `MaxShort` bounds the
  jobs that are refused a thread.
* Registry: a cache of one with four jobs makes every insertion evict; `Routes` bounds
  the threads that are between the check of the cap and the insertion.
* Schedules: two schedules let a route of one meet the run of the other; two failures
  let a rollback be followed by another failure; a restart loads whatever the files then
  say, and no second one finds more; `MaxSchedules` is not what is at stake.
  A schedule that ended its life is not created again (its id is fresh in the code), so
  a behaviour may stop: `CHECK_DEADLOCK FALSE`.
* Profiles: three ends of the process and two moves let a key be left for another and
  found again, with a start in between; one failure suffices for a rollback, for a
  profile that is left out of the registry and for a key made by a save that failed. Ids
  are not used again either.
* Host keys: the three sessions are the smallest set in which two collectors meet on one
  host while a third writes the same file for another; two of them are Paramiko's, so that
  one's own save meets the other's.
* Config store: three saves, one without a sidecar, and two deletes let a name be freed,
  taken again and freed by a delete that began before. No second is used again.
* Port mapping: the inventories include ports out of order, of different ranks and
  roles, more ports than places, a repeated name and none at all; a third port that is in
  no source inventory may be a logical name. One entry of the operator suffices to
  decide a port, its unit or the partner of another. Runs end, so deadlock is not
  checked.
* Warden: `Boxes` bounds the containers named at once, `Mints` the requests inside
  `session_new`, `MaxDue` the refills spawned and not begun, `MaxCrashes` the crashes.
  Two requests reach one session above the cap and four mints in a window of three: these
  bounds of `OvershootIsBounded` are attained. That of an address is not (for one address
  the cap of all sessions is the tighter one). All are proved for all constants.
* A refusal by a bound (no container left to name, no refill slot) disables the action;
  in the gate, the runner, the registry and the warden no such state is a
  deadlock, and their runs check for deadlock.

## Fairness

* `TurnGate!Fairness`: time passes; a thread of the line that is awake gets the lock;
  the middleware's timers fire. Clients owe nothing. `HandlersEnd` (blocks end because
  a parse or a render checks the deadline, handlers open finitely many scopes) is
  assumed by one property only, as its premise. `SF` for the return of the handler
  expresses that it opens finitely many scopes.
* `BackupRunner!Fairness`: threads run and a collection ends, since every collector has
  timeouts. A worker that waits for the semaphore needs strong fairness, for
  `threading.Semaphore` favours nobody.
* `JobExecutor!Fairness`: the submitting thread goes on, a free pool thread takes the
  first item, a run ends or crashes.
* `Schedules!SchedulesFairness`: a route that holds the lock goes on, APScheduler fires a job
  that is due, a run begins and works. The end of a run needs *strong* fairness
  (`SF` for `Record`): it waits for a lock that routes take again and again, each for a
  few file operations, and `threading.Lock` promises nothing better than that a waiter
  gets it at some time. Clients owe nothing.

The other modules state no liveness: `JobRegistry`, `DeviceProfiles`, `HostKeys` and
`ConfigStore` have nothing that must happen, `PortMapping` takes four steps, and the timers of
`Warden` are bounded by invariants, which say more than that they expire.

## What is proved

Eight modules hold the proofs. Each theorem holds for every value of the constants that
satisfies the named assumption of its module (finite sets, bounds that are numbers), and
for any number of failures, crashes and restarts; nothing else is assumed unless said.

| module | theorem | states `Spec =>` |
|---|---|---|
| `TurnGateProofs` | `TypesAreCorrect` | `[]TypeOK` |
| | `CountersNeverDrift` | `[]CountersAreExact` |
| | `MemoryStaysBounded` | `[]MemoryIsBounded` |
| | `NoWakeUpIsLost` | `[]NoLostWakeUp` |
| | `NobodySleepsTooLong` | `[]NobodyOversleeps` |
| | `BooksAlwaysAgree` | `[](BooksAgree /\ NothingLeftBehind)` |
| | `PlacesOutlastWork` | `PlaceOutlastsWork` |
| | `TurnsAreNotStolen` | `TakenBackOnlyWhenOverdue` |
| | `GateImplementsQueue` | `ImplementsQueue` |
| `BackupRunnerProofs` | `TypesHold` | `[]TypeOK` |
| | `PermitsStayExact` | `[]PermitsAreExact` |
| | `VerdictsAreTrue` | `[]NoFalseVerdict` |
| | `EndedJobsAreWhole` | `[]EndedJobIsWhole` |
| | `FailuresHaveReasons` | `[]ReasonBeforeFailure` |
| | `WhatIsFinalStays` | `FinalMeansFinal` |
| | `RunnerKeepsThePromise` | `KeepsThePromise` |
| `JobExecutorProofs` | `ExecutorIsTyped` | `[]TypeOK` |
| | `JobsRunOnce` | `[]RunsOnceGivenThreads` |
| `JobRegistryProofs` | `Invariance` | `[]IInv` |
| | `TypeCorrect` | `[]TypeOK` |
| | `LiveStayResident` | `[]LiveJobsAreResident`, assuming `MaxMemory > 0` |
| | `TruthfulPolls` | `[]PollsAreTrue`, assuming `MaxMemory > 0` |
| | `AnsweredAreKnown` | `[]AnsweredJobsAreKnown` |
| | `ExactCount` | `[]CountIsExactUntilRestart`, assuming `MaxMemory > 0` |
| | `BoundedIntake` | `[]IntakeIsBounded`, assuming `MaxMemory > 0` |
| `SchedulesProofs` | `SchedulesAreTyped` | `[]SchedulesTypeOK` |
| | `AnswersStand` | `[]ToldIsKept` |
| | `CopiesAgree` | `[]ThreeCopiesAgree` |
| `DeviceProofs` | `ProfilesAreTyped` | `[]ProfilesTypeOK` |
| | `PasswordsStay` | `[]AnsweredPasswordsAreKept` |
| | `DeletedStay` | `[]DeletedStaysDeleted` |
| | `MemoryIsOfTheFiles` | `[]MemoryMatchesDisk` |
| | `KeysAreTyped` | `[]KeysTypeOK` |
| | `PinsStay` | `[]TrustIsKept` |
| | `StoreIsTyped` | `[]StoreTypeOK` |
| | `NoBackupIsOverwritten` | `[]BackupsAreKept` |
| | `LinksStayTrue` | `[]LinksAreTrue` |
| `PortMappingProofs` | `Invariance` | `[]IInv` |
| | `OthersNeverFuse` | `[]OnlyTheOperatorFuses` |
| | `DecidedIsDone` | `[]DecisionsStand` |
| | `CompletedCanBeTaken` | `[]CompletedIsRight` |
| `WardenProofs` | `TypeCorrect` | `[]TypeOK` |
| | `ReservationsAreExact` | `[]ReservingIsExact` |
| | `OvershootsAreBounded` | `[]OvershootIsBounded` |
| | `ContainersHaveOneKeeper` | `[]OneKeeper` |
| | `NobodyIsForgotten` | `[]NoOrphans`, assuming `~DockerMayFail` |
| | `AddressesAreCounted` | `[]PerIpIsExact` |
| | `SessionsEnd` | `[]SessionsEndOnTime`, assuming `~DockerIsSlow` |
| | `AssignedAreYoung` | `[]AssignableIsYoung`, assuming `~DockerIsSlow` |

The assumptions are those of the runs, and none is for the sake of a proof; without them the
properties are false of the code:

* `MaxMemory > 0`. A cache of no entries holds no job: nothing is in flight to be counted or
  capped, and a poll reads the file of a job as it was created. That a job which was
  answered is known does not need it.
* `~DockerMayFail`. A container whose removal fails is forgotten by the running warden.
* `~DockerIsSlow`. While docker is awaited time passes, and a container or a session grows
  older than its limit before the reaper is back.

Hardly any of these is inductive as it stands. What each proof adds, and why:

* **TurnGate.** The guards of the code compare the *counters*, so the counters have to
  be exact before anything follows about the turns and places they count; and they stay
  exact only because a turn is given back by somebody who holds one, which is what
  `BooksAgree` says of a request's thread, its turn and the line, and
  `NothingLeftBehind` of one that is over. `IInv` is the conjunction of all of these
  with the two facts about sleepers. Two groups of lemmas carry it: how the number of
  turns and places changes when one request's entry does, and what `RemoveAt` does to
  the line, so that the order of those who stay is kept. For the refinement each step is
  a step of `TurnQueue` or changes neither turns nor line; the only case with substance
  is a waiter that takes its turn: it must be the first of the line, and the turn must
  be free after the overdue ones came back.
* **BackupRunner.** That a device is failed after its error was written, or that a job
  is completed only with every record stored, depends on where the threads are. `IInv`
  is `TypeOK`, `PermitsAreExact` and, for each job: which status goes with each step of
  its thread (`StatusFits`); that nobody works on a device before the hand-over or after
  the join, and that what is still queued then has no thread to take it (`DevicesRest`);
  what the result of a device says at each stage of the work on it (`ResultFits`); and
  that after the safety net nothing is left open (`EndFits`). The jobs are not bounded,
  so the proof goes job by job: a step leaves every other job `Untouched`. In the
  refinement two cases carry the weight: a device gets a verdict only while its job is
  `running`, and the verdict of `Decide` is the one the promise computes.
* **JobExecutor.** To count the work items of a job one has to know which there may be.
  `InPlace(j)` says of a job that met no refusal: an item of it is the one of its last
  submit, in the executor which that submit was given, and only while the job has not
  ended (`Expected`); it is queued at one place or runs (`Alone`); and a submit that has
  not returned is of a job that has not run (`NotYet`). A retry happens only after a
  submit to an executor that was shut, and that submit queued nothing.
* **Schedules.** What a rollback has to restore depends on how far the route has come.
  `InStep(i)` says, for each point at which the lock's holder may be, how registry,
  file, APScheduler and the last answer stand; at rest they agree (`Settled`).
* **DeviceProfiles.** `Before(i)` is the credential from before the route at work, which
  a rollback restores; `SoundProfile(i)` relates it to file and answer; and `KeyIsFound` says
  that as long as the key was not moved a running process has the key the next one will
  find. `SoundProfile` says of a process with the wrong key only what memory and file have in
  common, which is why `MemoryMatchesDisk` needs no premise on keys; `Ahead(i)` is the one
  profile that a bad key keeps off the disk, `LeftOut(i)` one that the start did not load.
* **ConfigStore.** For the backups, `StoreInv`: a save that has chosen a name holds the
  lock, the name is free until it writes, and what is stored is under the name of its own
  save. For the links, `LinkInv` says of every name that is not `crossed` that it is
  `Clean`: a sidecar is that of the configuration under it, one delete is at it at most and
  no save, and once the delete has removed the sidecar there is none.
* **HostKeys.** `Stored` is what the file holds, or will when the write going on is done.
  As long as no write is cut or overlapped there is one writer (`OneWriter`) and `Stored`
  only `Grows`, by the key that the host has; `Knows(s)` says what each point of a session
  knows of it.
* **JobRegistry.** A poll answers from the cache, else from the file, so what it says
  depends on which of the two there is and which of them is the newer. `JobShape` says how
  a job's object, its creating thread and its file go together; `CacheShape` of which jobs
  an entry may be a copy: of one whose end is on disk, or, after a crash only, of one whose
  file says pending; `ReadingShape` that what a poll has in hand as ended has its end on
  disk, though the file may be written between the poll's two steps. `KeepsLive`: the object of a job in flight is in the
  cache, since eviction passes it over and a copy is put in only for a job that has ended.
  From these each property follows in a few lines. `Admitted` counts, with the jobs in
  flight, the requests that have passed the check. Eviction is stated as what is left of
  the cache, in its order (`Picked`), and a group of lemmas says of it and of `Put` that
  they invent no entry, double none and lose none of a live job.
* **PortMapping.** What the second run does has its reasons in the first. `IInv` keeps
  them: `FirstPlace(n)`, where the first run put a name; that the map is what was merged
  and None for what was displaced (`MapFits`); that of names which shared a place of a
  hardware port only decided ones are left, or one (`ClashesAreSettled`), and no logical
  name on a port of the target (`PortsAreFree`). The second run puts a name where the first
  did or drops it (`SecondRun`), so that it can make no new clash. Decided names are apart
  because positions in a group are numbered without a gap (`PositionsCount`) and partners
  are therefore unique (`PartnersAreApart`, `DecidedAreApart`). Nothing is assumed of
  what the codecs make of a name.
* **Warden.** Each group of properties has an invariant of its own.
  *Caps*: they are read in one step and passed in a later one. `IInv` counts, with what is
  there, what the requests that were let through will still add (`UsedIsBounded`,
  `AddressIsBounded`); `MintsAreBounded` does so for the mints in an address's window: they
  and the requests that will note one are at most the limit and the spare requests.
  *Keepers*: five hands can hold a container: the pool, a session, the task of `/end`, the
  reaper, a request. `Apart` keeps their sets disjoint (`Split`) and inside what docker
  has; a step moves one container from one set to another, takes a fresh one or lets one
  go. `AllAreHeld` is the converse: what docker has is in one of the hands. It needs
  `ReaperHolds`: the reaper has one container in hand at most, and none while it sleeps or
  refills.
  *Counts*: `CountsAreExact`: the number of an address is that of its sessions, and 0
  without a record.
  *Types*: the pool and what the refill in flight still has to add are at most
  `POOL_SIZE` (`PoolFits`); the rest of `Typed` is routine.
  *Times*: with a prompt docker time passes only while nothing is awaited and the reaper
  sleeps (`Busy`, `TickIsIdle`), and requests are new (`RequestsAreNew`). While the reaper
  sleeps a session is past its deadline by a period less the rest of the sleep at most;
  while it works, one that is past it is among those it has found (`OnTime`). A warm
  container lasts to the reaper's next round: its age and the rest of the sleep, or a whole
  period while the reaper works, are within `POOL_MAX_AGE` (`Young`).

## What is only model-checked

* Liveness under fairness (`EveryWaiterLeaves`, `EveryPlaceComesBack`, `EveryJobEnds`,
  `EveryJobIsRun`, `EnabledSchedulesRun`): out of the prover's reach.
* That `registry_restart`, `port_mapping_keeper`, `runner_failed` and `warden_cap` are
  violated.

Every invariant and every action property of the runs that pass is stated by a theorem.

No module declares a recursive operator.

## Where the code and its words disagree

Four runs end in a violation of what the repository says of itself.

* `registry_restart`: `_warm_from_disk` loads the `pending` files of jobs that died
  with the process. Nobody ends them, so `active_job_count`, "the EXACT in-flight
  count" (`job_registry.py:309`), counts them until they are deleted.
* `runner_failed`: "`failed` - every device failed (zero successes)"
  (`models/backup.py:27`). `finalize_crashed_job` calls every job whose runner raised
  failed, also when `pool.submit` raised half-way and devices had succeeded.
* `warden_cap`: "MAX_ACTIVE may never be exceeded" (`tests/demo/test_warden_caps.py:216`),
  a "Hard instance cap" (`docs/DEMO_WHITEPAPER.md:88`). After `_reclaim_one`,
  `session_new` takes its place without looking at the cap again, though it awaited a
  removal in between (`app.py:393-397`). `OvershootIsBounded` states by how much that, and
  the two sessions per address that the whitepaper grants, can be passed.
* `port_mapping_keeper`: of the names of a clash in which nothing was decided "one keeps
  the name" (`migration_pipeline.py:1744`). The keeper is picked without asking whether
  its own port is displaced in the same pass: a sub-interface that is kept follows its
  port in the second run and is dropped with it, and of the clash no name is left.

## Observations

Seen while modelling, and not given a run of their own.

Backups:

* The unknown-type path of `_process_one_device` writes `status = "failed"`
  (`backup_runner.py:435`) before `error`, where the comment at line 726 has every
  terminal write path write the error first; `ReasonBeforeFailure` excepts it.
* `submit_backup_job` retries every `RuntimeError` (`backup_runner.py:297`). The one the
  comment has in mind queues nothing; "can't start new thread" is raised after the item
  was queued, and the retry queues the job a second time, so results that ended are
  written again (`models/backup.py:67` says never). When the second submit raises
  too, no callback is attached. `RunsOnceGivenThreads` and `EveryJobIsRun` except jobs
  that were refused a thread (`short`).
* The lifespan shuts the executor down with `cancel_futures=False` since "a queued backup
  shouldn't be silently dropped" (`main.py`). A scheduled run is awaited by a coroutine
  that the shutdown of the scheduler (`wait=False`), or of the loop, cancels: if it is
  queued it is dropped and its job stays pending, and if it crashes later nobody
  finalizes it, since `except Exception` (`schedules.py:327`) does not catch
  `CancelledError`. `EveryJobIsRun` excepts these jobs, and no others.
* A job whose last save failed reads as pending once it is evicted, and stays so. With
  `max_memory_jobs = 0` nothing is resident, so nothing is counted.
* A sidecar that cannot be written fails the device although its configuration is
  stored and listed.

Schedules and profiles:

* When the second save of `create_schedule` fails the client is told so, the registry
  and APScheduler forget the schedule, and the file of the first save stays
  (`schedules.py:400-418`, against the comment above it): the next start lists it and runs
  it. `ThreeCopiesAgree` excepts this file (`told` is *partly*), and no other.
* A process that starts with another key leaves the credentials it cannot decrypt as
  they are (`migration.py:59-63, 86-87`); a PUT that does not touch the password then
  encrypts the text once more (`device_profile_store.py:65`). Once the first key is
  back, one layer too many is left. `AnsweredPasswordsAreKept` holds as long as the place
  of the key was not changed (`moved`).
* The keyring tier does not look at an existing `.fernet_key`
  (`credentials.py:207-221`): an installation whose keyring starts to work generates a
  new key. Also `moved`.
* `.fernet_key` is written in place (`credentials.py:183`). Cut by an error or a crash it
  holds no key, and neither may `NETCANON_FERNET_KEY`; `Fernet()` then raises `ValueError`,
  which `except OSError` (`device_profiles.py:169, 247`) does not roll back, although
  "memory can't drift ahead of disk" (line 248). A create that meets it is answered with an
  error and stays in the registry until the process ends: `OnlyInMemory` in
  `MemoryMatchesDisk`. No answered password is lost by it.

Device files:

* `FileConfigStore.delete` takes no lock (`file_store.py:274-290`). A delete between the
  two writes of a save leaves the sidecar to the next configuration of that name, and so
  do two deletes of one name around a save; the docstring at `file_store.py:51-54` says
  "never leave one without the other". `LinksAreTrue` says nothing of such names
  (`crossed`); `BackupsAreKept` holds of them too.
* Inside `connect()` Paramiko's `AutoAddPolicy` saves the `known_hosts` it was given, in
  place and outside `_KNOWN_HOSTS_LOCK` (`hostkey.py:79-85`, `paramiko_collector.py:197`;
  the lock's comment counts on one "spanning the whole load+merge+save"). Two first
  contacts at a time can then lose a pin, or a reader find half a file. `TrustIsKept` says
  nothing once that happened (`torn`).
* Netmiko reads `known_hosts` without the lock while it is being written in place
  (`hostkey.py:133-136`): a strict connection can miss a pin that is there, and fails.
  It never trusts a wrong one.
* A device that changes its key between the load and the connection of a Paramiko
  session is accepted with the new key when it had no pin. `Rekey` waits for open
  sessions.

Warden:

* A refill in flight counts neither in the pool nor in `_reserving`: pool and sessions
  together can pass `MAX_ACTIVE` (`InstancesAreBounded`). `rec.active` is checked before a creation is awaited
  and raised after it.
* While the reaper awaits slow removals a warm container can grow older than
  `POOL_MAX_AGE`, which `constants.py:25` says it never does; `AssignableIsYoung` is
  therefore checked with a prompt docker.
* A container whose removal or start failed is forgotten by the running warden (the
  next startup, or the systemd backstop, removes it); `NoOrphans` is therefore checked
  with removals that work.

Gate: `AnswerSent` can report the end of an answer before the request's own thread
reaches `take`, when a client leaves early; `TurnGate` has that order (`gone` in stage
`handler`) and its books stand it.

## Plan

Done, in this order: gate, runner, executor, registry, warden; schedules, profiles with
their keys, host keys with the config store, port mapping; the proofs of every invariant
and action property. Left, by weight:

1. A composition of registry, executor and runner: one job from the POST to its last
   poll, with `BackupPromise` as its specification.
2. The meters of `limits.py` (`_Meter`, `_Scope`): work that is charged as a run goes,
   across nested scopes.
3. In `PortMapping`: sub-interfaces that are stated apart, tags, and what a dropped port
   takes with it (LAG members, addresses).
4. `FileDeviceProfileStore.load_all` and its siblings over files that cannot be read.
5. An abstract specification of the warden's caps (the proof suggests one: a
   request is *let through*, then lands).

## What is not modelled

By far the most lines of the repository are parsers and renderers: a dozen vendor
codecs, device models, target profiles and the pipeline's transformations. They are pure
functions from text to a tree and back; they keep no state, meet no concurrency, and
what can be wrong in them is a rule about one vendor's syntax, which a model would have
to repeat line by line and could not contradict. The models therefore cover the modules
that have control, and of those most of their lines, but a small share of the whole.

* The work meters (planned above): counters of one thread.
* Codecs, detection, canonical model, device models, target profiles, definitions,
  sanitizer, diff; in the pipeline everything but the ports.
* Collectors and probes: to the runner a collection succeeds, fails or escapes.
* Egress filter, authentication, pages, listing and reading routes, CLI, logging, desktop
  wrapper, deployment: stateless, read-only after the start, or outside the process.
* Of the warden: the create-body shim, proxying of pages, the systemd backstop that
  removes containers from outside, counters, cookies and headers.
* Of the runner: probing and overlay resolution, which change nothing of the job.
* Of the profiles: the fields other than the credential. Of the config store: listing, reading, and the move of files of an older
  layout at start. Of the host keys: `auto_add`, which keeps no state.
* Of the port mapping: letter case, RouterOS' factory names, units that are stated
  apart, tags, next hops.
