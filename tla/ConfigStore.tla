------------------------------ MODULE ConfigStore ------------------------------
(***************************************************************************)
(* The stored configurations: netcanon/storage/file_store.py and the route *)
(* that deletes them (api/routes/configs.py).                              *)
(*                                                                         *)
(* A configuration is a file and, when it was taken of a device profile, a *)
(* second file beside it, the sidecar, that links it to the profile.  All  *)
(* saves here are of one device in one second, so they compete for the     *)
(* names stem, stem_1, stem_2 ...; a save holds a lock from the choice of  *)
(* the name to the sidecar, a delete takes none.  Each write is a rename   *)
(* of a temporary file, which nothing lists.                               *)
(***************************************************************************)
EXTENDS Naturals, FiniteSets

CONSTANTS Savers,     \* saves, each with content of its own
          Linked,     \* those that have a device profile, each its own
          Deleters,   \* threads that serve DELETE /configs/{filename}
          DiskFails   \* file operations may raise OSError

ASSUME ConfigStoreAssumption ==
    /\ IsFiniteSet(Savers) /\ Savers # {}
    /\ "nobody" \notin Savers
    /\ Linked \subseteq Savers
    /\ DiskFails \in BOOLEAN

VARIABLES
    config,    \* the files: whose content is under each name
    sidecar,   \* the sidecars: whose profile
    writer,    \* the save that holds the lock
    save,      \* where a save is
    name,      \* the name it chose
    delete,    \* where a delete is
    target,    \* the name it is for
    deleted,   \* contents that a delete took away
    crossed    \* the names on which a delete overlapped a save or a delete

cvars == <<config, sidecar, writer, save, name, delete, target, deleted, crossed>>

Nobody == "nobody"
Names == 0..Cardinality(Savers) - 1
Files == [Names -> Savers \cup {Nobody}]

StoreTypeOK ==
    /\ config \in Files
    /\ sidecar \in Files
    /\ writer \in Savers \cup {Nobody}
    /\ save \in [Savers -> {"ready", "named", "written", "saved", "failed"}]
    /\ name \in [Savers -> Names]
    /\ delete \in [Deleters -> {"idle", "found", "unlinked"}]
    /\ target \in [Deleters -> Names]
    /\ deleted \subseteq Savers
    /\ crossed \subseteq Names

StoreInit ==
    /\ config = [n \in Names |-> Nobody]
    /\ sidecar = [n \in Names |-> Nobody]
    /\ writer = Nobody
    /\ save = [s \in Savers |-> "ready"]
    /\ name = [s \in Savers |-> 0]
    /\ delete = [d \in Deleters |-> "idle"]
    /\ target = [d \in Deleters |-> 0]
    /\ deleted = {}
    /\ crossed = {}

Saves(s, at) == save' = [save EXCEPT ![s] = at]

------------------------------------------------------------------------------
(* FileConfigStore.save.                                                   *)

(* There are as many names as saves, so one is always free.                *)
FirstFree(n) ==
    /\ config[n] = Nobody
    /\ \A m \in Names : config[m] = Nobody => n <= m

SaveIsAt(n) == \E s \in Savers : save[s] \in {"named", "written"} /\ name[s] = n
DeleteIsAt(n) == \E d \in Deleters : delete[d] # "idle" /\ target[d] = n

(* The history of the names that nobody locks against a delete.            *)
Crosses(n, busy) == crossed' = IF busy THEN crossed \cup {n} ELSE crossed

TakeFirstFree(s) ==
    \E n \in Names :
        /\ FirstFree(n)
        /\ name' = [name EXCEPT ![s] = n]
        /\ Crosses(n, DeleteIsAt(n))

ChooseNameUnlocked(s) ==                          \* mutant: CONC-3 is back
    /\ save[s] = "ready"
    /\ writer' = s
    /\ TakeFirstFree(s)
    /\ Saves(s, "named")
    /\ UNCHANGED <<config, sidecar, delete, target, deleted>>

ChooseName(s) ==
    /\ save[s] = "ready"
    /\ writer = Nobody
    /\ writer' = s
    /\ TakeFirstFree(s)
    /\ Saves(s, "named")
    /\ UNCHANGED <<config, sidecar, delete, target, deleted>>

WriteConfig(s) ==
    /\ save[s] = "named"
    /\ config' = [config EXCEPT ![name[s]] = s]
    /\ Saves(s, IF s \in Linked THEN "written" ELSE "saved")
    /\ writer' = IF s \in Linked THEN s ELSE Nobody
    /\ UNCHANGED <<sidecar, name, delete, target, deleted, crossed>>

WriteSidecar(s) ==
    /\ save[s] = "written"
    /\ sidecar' = [sidecar EXCEPT ![name[s]] = s]
    /\ Saves(s, "saved")
    /\ writer' = Nobody
    /\ UNCHANGED <<config, name, delete, target, deleted, crossed>>

(* OSError at either file: the device's backup counts as failed.           *)
SaveRaises(s) ==
    /\ DiskFails
    /\ save[s] \in {"named", "written"}
    /\ Saves(s, "failed")
    /\ writer' = Nobody
    /\ UNCHANGED <<config, sidecar, name, delete, target, deleted, crossed>>

(* More than MAX_CONFIG_SIZE.                                              *)
TooLarge(s) ==
    /\ save[s] = "ready"
    /\ Saves(s, "failed")
    /\ UNCHANGED <<config, sidecar, writer, name, delete, target, deleted, crossed>>

------------------------------------------------------------------------------
(* FileConfigStore.delete: the path resolved, the sidecar, then the file.  *)

Deletes(d, at) == delete' = [delete EXCEPT ![d] = at]

FindFile(d, n) ==
    /\ delete[d] = "idle"
    /\ config[n] # Nobody
    /\ target' = [target EXCEPT ![d] = n]
    /\ Deletes(d, "found")
    /\ Crosses(n, SaveIsAt(n) \/ DeleteIsAt(n))
    /\ UNCHANGED <<config, sidecar, writer, save, name, deleted>>

DeleteFileOnly(d) ==                              \* mutant: the sidecar is forgotten
    /\ delete[d] = "found"
    /\ Deletes(d, "unlinked")
    /\ UNCHANGED <<config, sidecar, writer, save, name, target, deleted, crossed>>

DeleteSidecar(d) ==
    /\ delete[d] = "found"
    /\ sidecar' = [sidecar EXCEPT ![target[d]] = Nobody]
    /\ Deletes(d, "unlinked")
    /\ UNCHANGED <<config, writer, save, name, target, deleted, crossed>>

(* Another delete may have been faster: 404.                               *)
DeleteFile(d) ==
    /\ delete[d] = "unlinked"
    /\ config' = [config EXCEPT ![target[d]] = Nobody]
    /\ deleted' = deleted \cup ({config[target[d]]} \ {Nobody})
    /\ Deletes(d, "idle")
    /\ UNCHANGED <<sidecar, writer, save, name, target, crossed>>

DeleteRaises(d) ==
    /\ DiskFails
    /\ delete[d] # "idle"
    /\ Deletes(d, "idle")
    /\ UNCHANGED <<config, sidecar, writer, save, name, target, deleted, crossed>>

(* The process dies.                                                       *)
StoreCrash ==
    /\ writer' = Nobody
    /\ save' = [s \in Savers |-> IF save[s] \in {"named", "written"} THEN "failed" ELSE save[s]]
    /\ delete' = [d \in Deleters |-> "idle"]
    /\ UNCHANGED <<config, sidecar, name, target, deleted, crossed>>

SaveStep(s) ==
    \/ ChooseName(s)
    \/ WriteConfig(s)
    \/ WriteSidecar(s)
    \/ SaveRaises(s)
    \/ TooLarge(s)

DeleteStep(d) ==
    \/ \E n \in Names : FindFile(d, n)
    \/ DeleteSidecar(d)
    \/ DeleteFile(d)
    \/ DeleteRaises(d)

StoreNext ==
    \/ \E s \in Savers : SaveStep(s)
    \/ \E d \in Deleters : DeleteStep(d)
    \/ StoreCrash

StoreSpec == StoreInit /\ [][StoreNext]_cvars

------------------------------------------------------------------------------
(* A backup that was reported as saved is under the name in its record     *)
(* until it is deleted: no other save of the same second takes its place   *)
(* ("so no file is ever silently overwritten", CONC-3).                    *)
BackupsAreKept ==
    \A s \in Savers : save[s] = "saved" => config[name[s]] = s \/ s \in deleted

(* A stored configuration is linked to no profile but the one it was taken *)
(* of, through names that are used again, failed writes, half-done deletes *)
(* and crashes; under every name but those on which a delete overlapped a  *)
(* save or another delete.  There it may be: delete takes no lock, so one  *)
(* between the two writes of a save leaves the second to whoever gets the  *)
(* name next, although delete says that it takes both files in lockstep    *)
(* and leaves neither without the other.                                   *)
LinksAreTrue ==
    \A n \in Names \ crossed : config[n] # Nobody => sidecar[n] \in {config[n], Nobody}

==============================================================================
