---------------------------- MODULE DeviceProfiles ----------------------------
(***************************************************************************)
(* Device profiles and the key that encrypts their credentials:            *)
(* netcanon/api/routes/device_profiles.py, storage/device_profile_store.py,*)
(* security/credentials.py and migration.py, and the backup worker of      *)
(* services/backup_runner.py that writes what it detected to a profile.    *)
(*                                                                         *)
(* Memory holds a profile with its credential in the clear, its file the   *)
(* credential under the key that the process has resolved: from the        *)
(* environment, else the OS keyring, else a file, made when there is none. *)
(* What is found there may be no key at all: a wrong setting, or a file    *)
(* whose writing was cut.  Fernet() then raises ValueError, at every use.  *)
(* A credential is what it says and the keys it is wrapped in: <<>> is     *)
(* plaintext, and a text that cannot be unwrapped stays as it is.  One     *)
(* credential stands for both that a profile may have.                     *)
(***************************************************************************)
EXTENDS Naturals, FiniteSets, SequencesExt

CONSTANTS Ids,        \* profiles, a fresh id each
          Passwords,  \* what operators enter
          MaxFaults,  \* bound: file operations that fail, cuts of the key file included
          MaxEnds,    \* bound: ends of the process
          MaxMoves    \* bound: changes of where the key comes from

ASSUME ProfilesAssumption ==
    /\ IsFiniteSet(Ids)
    /\ Passwords # {}
    /\ Passwords \cap {"nothing", "failed", "gone", "unsure"} = {}
    /\ MaxFaults \in Nat
    /\ MaxEnds \in Nat
    /\ MaxMoves \in Nat

VARIABLES
    memory,   \* app.state.device_profiles: the credential of each profile
    disk,     \* {profile_id}.json: the same, as written
    holder,   \* what the holder of DEVICE_PROFILE_REGISTRY_LOCK will do next
    held,     \* the credential that a backup of the device was started with
    skipped,  \* files that the last start could not load or migrate
    up,       \* the process runs
    fernet,   \* the key it has resolved
    env,      \* what NETCANON_FERNET_KEY says
    backend,  \* the OS keyring
    ring,     \* what is in it
    keyfile,  \* what is in .fernet_key
    made,     \* keys generated so far
    moved,    \* the next start would not have found the key of the last one
    told,     \* what the operator may count on
    faults, ends, moves

keyVars == <<fernet, ring, keyfile, made>>
world == <<env, backend, moved, moves>>
pvars == <<memory, disk, holder, held, skipped, up, keyVars, world, told, faults, ends>>

NoKey == 0      \* not there
BadKey == 1     \* a text that is no key
EnvKey == 2
FernetKeys == Nat \ {NoKey, BadKey}
Absent == [says |-> "nothing", under |-> <<>>]
Credentials == [says : Passwords, under : Seq(FernetKeys)]
Plain(p) == [says |-> p, under |-> <<>>]

Free == [to |-> "none"]
Holding == [to : {"save", "unlink"}, id : Ids, old : Credentials \cup {Absent}]

ProfilesTypeOK ==
    /\ memory \in [Ids -> Credentials \cup {Absent}]
    /\ disk \in [Ids -> Credentials \cup {Absent}]
    /\ holder \in Holding \cup {Free}
    /\ held \in [Ids -> Credentials \cup {Absent}]
    /\ skipped \subseteq Ids
    /\ up \in BOOLEAN
    /\ fernet \in FernetKeys \cup {NoKey}
    /\ {env, ring, keyfile} \subseteq Nat
    /\ backend \in {"works", "readonly", "none"}
    /\ made \in Nat
    /\ moved \in BOOLEAN
    /\ told \in [Ids -> Passwords \cup {"nothing", "failed", "gone", "unsure"}]
    /\ faults \in 0..MaxFaults
    /\ ends \in 0..MaxEnds
    /\ moves \in 0..MaxMoves

(* The process has not been started; some files may date from a version    *)
(* that did not encrypt.                                                   *)
ProfilesInit ==
    /\ memory = [i \in Ids |-> Absent]
    /\ disk \in [Ids -> {Plain(p) : p \in Passwords} \cup {Absent}]
    /\ holder = Free
    /\ held = [i \in Ids |-> Absent]
    /\ skipped = {}
    /\ up = FALSE
    /\ env \in {NoKey, BadKey, EnvKey}
    /\ backend \in {"works", "readonly", "none"}
    /\ ring \in {NoKey, BadKey}
    /\ fernet = NoKey /\ keyfile = NoKey
    /\ made = 0
    /\ moved = FALSE
    /\ told = [i \in Ids |-> disk[i].says]
    /\ faults = 0 /\ ends = 0 /\ moves = 0

Fault(n) ==
    /\ faults + n <= MaxFaults
    /\ faults' = faults + n

------------------------------------------------------------------------------
(* The key.  _get_fernet resolves it once, under a lock of its own.        *)

FromEnvironment ==
    /\ env \in FernetKeys
    /\ fernet' = env
    /\ UNCHANGED <<ring, keyfile, made>>

FromKeyring ==
    /\ env = NoKey /\ backend # "none" /\ ring \in FernetKeys
    /\ fernet' = ring
    /\ UNCHANGED <<ring, keyfile, made>>

Fresh == made + 3

(* A keyring without a key gets a new one, whatever the file has.          *)
IntoKeyring ==
    /\ env = NoKey /\ backend = "works" /\ ring = NoKey
    /\ made' = made + 1
    /\ fernet' = Fresh
    /\ ring' = Fresh
    /\ UNCHANGED keyfile

FileTier == env = NoKey /\ (backend = "none" \/ (backend = "readonly" /\ ring = NoKey))

FromFile ==
    /\ FileTier /\ keyfile \in FernetKeys
    /\ fernet' = keyfile
    /\ UNCHANGED <<ring, keyfile, made>>

IntoFile ==
    /\ FileTier /\ keyfile = NoKey
    /\ made' = made + 1
    /\ fernet' = Fresh
    /\ keyfile' = Fresh
    /\ UNCHANGED ring

ResolveKeyUnsaved ==                              \* mutant: a new key is not kept
    IF fernet # NoKey THEN UNCHANGED keyVars
    ELSE /\ made' = made + 1
         /\ fernet' = Fresh
         /\ UNCHANGED <<ring, keyfile>>

ResolveKey ==
    IF fernet # NoKey THEN UNCHANGED keyVars
    ELSE \/ FromEnvironment
         \/ FromKeyring
         \/ IntoKeyring
         \/ FromFile
         \/ IntoFile

(* The file is written in place: cut, it has nothing, a piece or the key,  *)
(* and the process has none.                                               *)
KeyFileIsCut ==
    /\ FileTier /\ fernet = NoKey /\ keyfile = NoKey
    /\ keyfile' \in {NoKey, BadKey, Fresh}
    /\ made' = made + 1
    /\ UNCHANGED <<fernet, ring>>

(* OSError: the key file cannot be read or written.                        *)
KeyFileFails ==
    \/ FileTier /\ fernet = NoKey /\ UNCHANGED keyVars
    \/ KeyFileIsCut

(* What a process started now would find; NoKey where it would make one.   *)
KeyToFind ==
    IF env # NoKey THEN env
    ELSE IF backend # "none" /\ ring # NoKey THEN ring
    ELSE IF FileTier THEN keyfile ELSE NoKey

(* ValueError: there is something, and it is no key.                       *)
KeyIsBad == fernet = NoKey /\ KeyToFind = BadKey

Encrypted(c, key) == [c EXCEPT !.under = Append(@, key)]

(* decrypt_field: one layer off, or the text left alone.                   *)
Decrypted(c, key) ==
    IF c.under # <<>> /\ Last(c.under) = key THEN [c EXCEPT !.under = Front(@)] ELSE c

IsPlain(c) == c.under = <<>>

------------------------------------------------------------------------------
(* create_device_profile and update_device_profile: the profile in memory, *)
(* then its file.  An update sends a password or leaves it as it is.       *)

Enter(i, c) ==
    /\ up
    /\ holder = Free
    /\ memory' = [memory EXCEPT ![i] = c]
    /\ holder' = [to |-> "save", id |-> i, old |-> memory[i]]
    /\ UNCHANGED <<disk, held, skipped, up, keyVars, world, told, faults, ends>>

Create(i, p) == told[i] = "nothing" /\ Enter(i, Plain(p))
ChangePassword(i, p) == memory[i] # Absent /\ Enter(i, Plain(p))
ChangeOther(i) == memory[i] # Absent /\ Enter(i, memory[i])

Save(i) ==
    /\ holder.to = "save" /\ holder.id = i
    /\ ResolveKey
    /\ disk' = [disk EXCEPT ![i] = Encrypted(memory[i], fernet')]
    /\ holder' = Free
    /\ told' = [told EXCEPT ![i] = memory[i].says]
    /\ UNCHANGED <<memory, held, skipped, up, world, faults, ends>>

(* OSError, of the key file too: the registry gets the old profile back.   *)
SaveFailsAhead(i) ==                              \* mutant: no rollback
    /\ holder.to = "save" /\ holder.id = i
    /\ Fault(1)
    /\ ResolveKey
    /\ holder' = Free
    /\ UNCHANGED <<memory, disk, held, skipped, up, world, told, ends>>

ProfileSaveFails(i) ==
    /\ holder.to = "save" /\ holder.id = i
    /\ Fault(1)
    /\ ResolveKey \/ KeyFileFails
    /\ memory' = [memory EXCEPT ![i] = holder.old]
    /\ holder' = Free
    /\ told' = [told EXCEPT ![i] = IF holder.old = Absent THEN "failed" ELSE @]
    /\ UNCHANGED <<disk, held, skipped, up, world, ends>>

(* A ValueError is none of theirs: the registry keeps the new profile.     *)
KeyRefused(i) ==
    /\ holder.to = "save" /\ holder.id = i
    /\ KeyIsBad
    /\ holder' = Free
    /\ told' = [told EXCEPT ![i] = IF holder.old = Absent THEN "failed" ELSE @]
    /\ UNCHANGED <<memory, disk, held, skipped, up, keyVars, world, faults, ends>>

(* delete_device_profile.                                                  *)
Delete(i) ==
    /\ up
    /\ holder = Free
    /\ memory[i] # Absent
    /\ memory' = [memory EXCEPT ![i] = Absent]
    /\ holder' = [to |-> "unlink", id |-> i, old |-> memory[i]]
    /\ UNCHANGED <<disk, held, skipped, up, keyVars, world, told, faults, ends>>

Unlink(i) ==
    /\ holder.to = "unlink" /\ holder.id = i
    /\ disk' = [disk EXCEPT ![i] = Absent]
    /\ holder' = Free
    /\ told' = [told EXCEPT ![i] = "gone"]
    /\ UNCHANGED <<memory, held, skipped, up, keyVars, world, faults, ends>>

UnlinkFails(i) ==
    /\ holder.to = "unlink" /\ holder.id = i
    /\ Fault(1)
    /\ memory' = [memory EXCEPT ![i] = holder.old]
    /\ holder' = Free
    /\ UNCHANGED <<disk, held, skipped, up, keyVars, world, told, ends>>

------------------------------------------------------------------------------
(* A backup of the device logs in with the profile's credential, and what  *)
(* its probe detected is written to the profile, looked up again under the *)
(* lock.  Only a plaintext lets it in; an error of the save is dropped.    *)

StartBackup(i) ==
    /\ up
    /\ held[i] = Absent
    /\ memory[i] # Absent
    /\ IsPlain(memory[i])
    /\ held' = [held EXCEPT ![i] = memory[i]]
    /\ UNCHANGED <<memory, disk, holder, skipped, up, keyVars, world, told, faults, ends>>

SaveFactsOfStart(i) ==                            \* mutant: the profile of the start
    /\ held[i] # Absent
    /\ holder = Free
    /\ ResolveKey
    /\ disk' = [disk EXCEPT ![i] = Encrypted(held[i], fernet')]
    /\ held' = [held EXCEPT ![i] = Absent]
    /\ UNCHANGED <<memory, holder, skipped, up, world, told, faults, ends>>

SaveFacts(i) ==
    /\ held[i] # Absent
    /\ holder = Free
    /\ memory[i] # Absent
    /\ ResolveKey
    /\ disk' = [disk EXCEPT ![i] = Encrypted(memory[i], fernet')]
    /\ held' = [held EXCEPT ![i] = Absent]
    /\ UNCHANGED <<memory, holder, skipped, up, world, told, faults, ends>>

(* Nothing was detected, the profile is gone, or the save failed.  The     *)
(* first save of a process is a route's or the start's, so by now it has   *)
(* its key or has found a bad one.                                         *)
DropFacts(i) ==
    /\ held[i] # Absent
    /\ holder = Free
    /\ held' = [held EXCEPT ![i] = Absent]
    /\ UNCHANGED keyVars
    /\ UNCHANGED <<memory, disk, holder, skipped, up, world, told, faults, ends>>

------------------------------------------------------------------------------
(* The process ends, the world it gets its key from may change, and the    *)
(* next process loads the files.                                           *)

(* It may end in the middle of writing its first key.                      *)
EndProcess ==
    /\ up
    /\ ends < MaxEnds
    /\ ends' = ends + 1
    /\ up' = FALSE
    /\ memory' = [i \in Ids |-> Absent]
    /\ held' = [i \in Ids |-> Absent]
    /\ skipped' = {}
    /\ fernet' = NoKey
    /\ \/ UNCHANGED <<ring, keyfile, made>>
       \/ holder.to = "save" /\ KeyFileIsCut
    /\ holder' = Free
    /\ told' = [i \in Ids |-> IF holder # Free /\ holder.id = i THEN "unsure" ELSE told[i]]
    /\ UNCHANGED <<disk, world, faults>>

Move ==
    /\ ~up
    /\ moves < MaxMoves
    /\ moves' = moves + 1
    /\ \/ env' \in {NoKey, BadKey, EnvKey} \ {env} /\ UNCHANGED backend
       \/ backend' \in {"works", "readonly", "none"} \ {backend} /\ UNCHANGED env
    /\ UNCHANGED <<memory, disk, holder, held, skipped, up, keyVars, told, faults, ends>>
    /\ moved' = (moved \/ KeyToFind' # KeyToFind)

Written == {i \in Ids : disk[i] # Absent}
Legacy == {i \in Written : IsPlain(disk[i])}

(* load_all: a plaintext is encrypted and its file saved again; where a    *)
(* file operation fails the profile is left out of the registry.           *)
Start ==
    /\ ~up
    /\ up' = TRUE
    /\ IF Written = {} THEN UNCHANGED keyVars ELSE ResolveKey
    /\ \E failing \in SUBSET Written :
        /\ Fault(Cardinality(failing))
        /\ skipped' = failing
        /\ memory' = [i \in Ids |->
                        IF i \in failing THEN Absent ELSE Decrypted(disk[i], fernet')]
        /\ disk' = [i \in Ids |->
                        IF i \in Legacy \ failing THEN Encrypted(disk[i], fernet') ELSE disk[i]]
    /\ UNCHANGED <<holder, held, world, told, ends>>

(* Without a key every profile is left out.                                *)
StartWithoutKey ==
    /\ ~up
    /\ Written # {}
    /\ up' = TRUE
    /\ \/ KeyIsBad /\ UNCHANGED <<keyVars, faults>>
       \/ KeyFileFails /\ Fault(1)
    /\ skipped' = Written
    /\ UNCHANGED <<memory, disk, holder, held, world, told, ends>>

------------------------------------------------------------------------------
Routes(i) ==
    \/ \E p \in Passwords : Create(i, p) \/ ChangePassword(i, p)
    \/ ChangeOther(i)
    \/ Save(i)
    \/ ProfileSaveFails(i)
    \/ KeyRefused(i)
    \/ Delete(i)
    \/ Unlink(i)
    \/ UnlinkFails(i)

Backups(i) == StartBackup(i) \/ SaveFacts(i) \/ DropFacts(i)

ProfilesNext ==
    \/ \E i \in Ids : Routes(i) \/ Backups(i)
    \/ EndProcess
    \/ Move
    \/ Start
    \/ StartWithoutKey

ProfilesSpec == ProfilesInit /\ [][ProfilesNext]_pvars

------------------------------------------------------------------------------
(* A password that was answered with success is on disk, in the clear only *)
(* before the first start of a version that encrypts, and the next start   *)
(* will find the key to it, for as long as the place the key is found in   *)
(* did not change: through failed saves, rollbacks, facts written by       *)
(* workers that started earlier, and crashes.                              *)
AnsweredPasswordsAreKept ==
    ~moved =>
        \A i \in Ids : told[i] \in Passwords =>
            \/ disk[i] = Plain(told[i])
            \/ disk[i] = Encrypted(Plain(told[i]), KeyToFind) /\ KeyToFind \in FernetKeys

(* A profile that was deleted does not come back, from a worker that still *)
(* has facts for it or from its file (review findings #10 and #47b, C3).   *)
DeletedStaysDeleted ==
    \A i \in Ids : told[i] = "gone" => memory[i] = Absent /\ disk[i] = Absent

(* A create that met a key that is none: it was answered with an error,    *)
(* and the profile stays in the registry until the process ends.           *)
OnlyInMemory(i) == KeyIsBad /\ told[i] = "failed" /\ disk[i] = Absent

(* When no route is at work, memory is what the key of the process makes   *)
(* of the files and no plaintext is left in them, after faults of every    *)
(* file, that of the key included, and whatever the next process finds for *)
(* a key; files that could not be loaded are not in memory at all.  The    *)
(* routes promise it ("memory can't drift ahead of disk", review #47b) but *)
(* roll back for OSError alone: the one profile the registry may be ahead  *)
(* with is one that a ValueError of the key kept off the disk.             *)
MemoryMatchesDisk ==
    up /\ holder = Free =>
        \A i \in Ids :
            IF i \in skipped THEN memory[i] = Absent
            ELSE \/ /\ memory[i] = Decrypted(disk[i], fernet)
                    /\ disk[i] # Absent => ~IsPlain(disk[i])
                 \/ OnlyInMemory(i)

==============================================================================
