---------------------------- MODULE DeviceProofs ----------------------------
(***************************************************************************)
(* What is kept on disk for each device: proofs about ConfigStore, its     *)
(* stored configurations, about HostKeys, the pin of its host key, and     *)
(* about DeviceProfiles, its profile with the credential and the key that  *)
(* encrypts it.  The three modules share no variable.                      *)
(***************************************************************************)
EXTENDS ConfigStore, HostKeys, DeviceProfiles, FiniteSetTheorems, TLAPS

(***************************************************************************)
(* Proofs about ConfigStore, for any saves and deleting clients in any     *)
(* order: no stored configuration is overwritten, and no sidecar links to  *)
(* the wrong profile under a name on which no delete overlapped a save or  *)
(* another delete.                                                         *)
(***************************************************************************)

LEMMA NamesAreNumbers == 0 \in Names /\ Names \subseteq Nat
<1>1. Cardinality(Savers) \in Nat /\ Cardinality(Savers) # 0
  BY ConfigStoreAssumption, FS_CardinalityType, FS_EmptySet
<1> QED
  BY <1>1 DEF Names

LEMMA StoreTypesFromStart == StoreInit => StoreTypeOK
BY NamesAreNumbers DEF StoreInit, StoreTypeOK, Files

LEMMA StoreTypesKept == StoreTypeOK /\ StoreNext => StoreTypeOK'
<1> SUFFICES ASSUME StoreTypeOK, StoreNext PROVE StoreTypeOK'
  OBVIOUS
<1> USE DEF StoreTypeOK
<1>1. ASSUME NEW s \in Savers, SaveStep(s) PROVE StoreTypeOK'
  <2>1. CASE ChooseName(s)
    BY <2>1 DEF ChooseName, TakeFirstFree, Saves, Crosses
  <2>2. CASE WriteConfig(s)
    <3>1. config' \in Files
      BY <2>2 DEF WriteConfig, Files
    <3> QED
      BY <2>2, <3>1 DEF WriteConfig, Saves
  <2>3. CASE WriteSidecar(s)
    <3>1. sidecar' \in Files
      BY <2>3 DEF WriteSidecar, Files
    <3> QED
      BY <2>3, <3>1 DEF WriteSidecar, Saves
  <2>4. CASE SaveRaises(s)
    BY <2>4 DEF SaveRaises, Saves
  <2>5. CASE TooLarge(s)
    BY <2>5 DEF TooLarge, Saves
  <2> QED
    BY <1>1, <2>1, <2>2, <2>3, <2>4, <2>5 DEF SaveStep
<1>2. ASSUME NEW d \in Deleters, DeleteStep(d) PROVE StoreTypeOK'
  <2>1. ASSUME NEW n \in Names, FindFile(d, n) PROVE StoreTypeOK'
    BY <2>1 DEF FindFile, Deletes, Crosses
  <2>2. CASE DeleteSidecar(d)
    <3>1. sidecar' \in Files
      BY <2>2 DEF DeleteSidecar, Files
    <3> QED
      BY <2>2, <3>1 DEF DeleteSidecar, Deletes
  <2>3. CASE DeleteFile(d)
    <3>1. config' \in Files
      BY <2>3 DEF DeleteFile, Files
    <3>2. deleted' \subseteq Savers
      BY <2>3 DEF DeleteFile, Files
    <3> QED
      BY <2>3, <3>1, <3>2 DEF DeleteFile, Deletes
  <2>4. CASE DeleteRaises(d)
    BY <2>4 DEF DeleteRaises, Deletes
  <2> QED
    BY <1>2, <2>1, <2>2, <2>3, <2>4 DEF DeleteStep
<1>3. CASE StoreCrash
  BY <1>3 DEF StoreCrash
<1> QED
  BY <1>1, <1>2, <1>3 DEF StoreNext

------------------------------------------------------------------------------
(* Backups.  What a save has under its name, at each point of it, and that *)
(* a content is under no name but its save's: the lock and the choice of a *)
(* free name keep two saves from meeting.                                  *)
InPlace(s) == config[name[s]] = s \/ s \in deleted

SaveInStep(s) ==
    /\ save[s] = "named" => writer = s /\ config[name[s]] = Nobody
    /\ save[s] = "written" => writer = s /\ InPlace(s)
    /\ save[s] = "saved" => InPlace(s)

OwnName(n) ==
    config[n] # Nobody => name[config[n]] = n /\ save[config[n]] \notin {"ready", "named"}

StoreInv ==
    /\ StoreTypeOK
    /\ \A s \in Savers : SaveInStep(s)
    /\ \A n \in Names : OwnName(n)

(* The steps of one save.                                                  *)
LEMMA SavesKeepStoreInv ==
    ASSUME StoreInv, StoreTypeOK', NEW s \in Savers, SaveStep(s)
    PROVE  StoreInv'
<1> USE DEF StoreInv
<1>1. CASE ChooseName(s)
  <2>1. PICK n \in Names : FirstFree(n) /\ name' = [name EXCEPT ![s] = n]
    BY <1>1 DEF ChooseName, TakeFirstFree
  <2>2. /\ save[s] = "ready" /\ writer = Nobody /\ writer' = s
        /\ save' = [save EXCEPT ![s] = "named"]
        /\ UNCHANGED <<config, deleted>>
    BY <1>1 DEF ChooseName, Saves
  <2>3. config[n] = Nobody
    BY <2>1 DEF FirstFree
  <2>4. ASSUME NEW t \in Savers PROVE SaveInStep(t)'
    <3>1. CASE t = s
      BY <2>1, <2>2, <2>3, <3>1 DEF SaveInStep, StoreTypeOK
    <3>2. CASE t # s
      <4>1. SaveInStep(t) /\ save'[t] = save[t] /\ name'[t] = name[t]
        BY <2>1, <2>2, <3>2 DEF StoreTypeOK
      <4>2. save[t] \notin {"named", "written"}
        BY <2>2, <4>1, ConfigStoreAssumption DEF SaveInStep, Nobody
      <4> QED
        BY <2>2, <4>1, <4>2 DEF SaveInStep, InPlace
    <3> QED
      BY <3>1, <3>2
  <2>5. ASSUME NEW m \in Names, config'[m] # Nobody PROVE OwnName(m)'
    <3>1. config[m] = config'[m] /\ config[m] \in Savers /\ OwnName(m)
      BY <2>2, <2>5 DEF StoreTypeOK, Files
    <3>2. config[m] # s
      BY <2>2, <2>5, <3>1 DEF OwnName
    <3>3. name[config[m]] = m /\ save[config[m]] \notin {"ready", "named"}
      BY <2>2, <2>5, <3>1 DEF OwnName
    <3>4. name'[config[m]] = name[config[m]] /\ save'[config[m]] = save[config[m]]
      BY <2>1, <2>2, <3>1, <3>2 DEF StoreTypeOK
    <3> QED
      BY <3>1, <3>3, <3>4 DEF OwnName
  <2> QED
    BY <2>4, <2>5 DEF OwnName
<1>2. CASE WriteConfig(s)
  <2>1. /\ save[s] = "named" /\ config' = [config EXCEPT ![name[s]] = s]
        /\ save'[s] \in {"written", "saved"}
        /\ save'[s] = "written" => writer' = s
        /\ \A t \in Savers \ {s} : save'[t] = save[t]
        /\ UNCHANGED <<name, deleted>>
    BY <1>2 DEF WriteConfig, Saves, StoreTypeOK
  <2>2. writer = s /\ config[name[s]] = Nobody /\ name[s] \in Names
    BY <2>1 DEF SaveInStep, StoreTypeOK
  <2>3. /\ config'[name[s]] = s
        /\ \A m \in Names \ {name[s]} : config'[m] = config[m]
    BY <2>1, <2>2 DEF StoreTypeOK, Files
  <2>4. ASSUME NEW t \in Savers PROVE SaveInStep(t)'
    <3>1. CASE t = s
      BY <2>1, <2>3, <3>1 DEF SaveInStep, InPlace
    <3>2. CASE t # s
      <4>1. SaveInStep(t) /\ save'[t] = save[t] /\ name'[t] = name[t]
        BY <2>1, <3>2
      <4>2. save[t] \notin {"named", "written"}
        BY <2>2, <3>2, <4>1 DEF SaveInStep
      <4>3. InPlace(t) => InPlace(t)'
        BY <2>1, <2>2, <2>3, <4>1, ConfigStoreAssumption DEF InPlace, StoreTypeOK, Nobody
      <4> QED
        BY <4>1, <4>2, <4>3 DEF SaveInStep
    <3> QED
      BY <3>1, <3>2
  <2>5. ASSUME NEW m \in Names PROVE OwnName(m)'
    <3>1. CASE m = name[s]
      BY <2>1, <2>3, <3>1 DEF OwnName
    <3>2. CASE m # name[s] /\ config[m] # Nobody
      <4>1. OwnName(m) /\ config[m] \in Savers
        BY <3>2 DEF StoreTypeOK, Files
      <4>2. config[m] # s
        BY <2>1, <3>2, <4>1 DEF OwnName
      <4> QED
        BY <2>1, <2>3, <3>2, <4>1, <4>2 DEF OwnName
    <3>3. CASE m # name[s] /\ config[m] = Nobody
      BY <2>3, <3>3 DEF OwnName
    <3> QED
      BY <3>1, <3>2, <3>3
  <2> QED
    BY <2>4, <2>5
<1>3. CASE WriteSidecar(s) \/ SaveRaises(s) \/ TooLarge(s)
  <2>1. /\ save'[s] \in {"saved", "failed"}
        /\ save'[s] = "saved" => save[s] = "written"
        /\ \A t \in Savers \ {s} : save'[t] = save[t]
        /\ UNCHANGED <<config, name, deleted>>
    BY <1>3 DEF WriteSidecar, SaveRaises, TooLarge, Saves, StoreTypeOK
  <2>2. writer' = writer \/ (save[s] \in {"named", "written"} /\ writer' = Nobody)
    BY <1>3 DEF WriteSidecar, SaveRaises, TooLarge
  <2>3. ASSUME NEW t \in Savers PROVE SaveInStep(t)'
    <3>1. SaveInStep(t) /\ SaveInStep(s)
      OBVIOUS
    <3>2. CASE t = s
      BY <2>1, <3>1, <3>2 DEF SaveInStep, InPlace
    <3>3. CASE t # s
      BY <2>1, <2>2, <3>1, <3>3 DEF SaveInStep, InPlace
    <3> QED
      BY <3>2, <3>3
  <2>4. ASSUME NEW m \in Names, config[m] # Nobody PROVE OwnName(m)'
    <3>1. config[m] \in Savers /\ OwnName(m)
      BY <2>4 DEF StoreTypeOK, Files
    <3> QED
      BY <2>1, <3>1 DEF OwnName
  <2> QED
    BY <2>1, <2>3, <2>4 DEF OwnName
<1> QED
  BY <1>1, <1>2, <1>3 DEF SaveStep

(* A delete takes a content away, but then it is among the deleted; a      *)
(* crash fails the save that was going on.                                 *)
LEMMA DeletesKeepStoreInv ==
    ASSUME StoreInv, StoreTypeOK', NEW d \in Deleters, DeleteStep(d)
    PROVE  StoreInv'
<1> USE DEF StoreInv
<1>1. UNCHANGED <<writer, save, name>>
  BY DEF DeleteStep, FindFile, DeleteSidecar, DeleteFile, DeleteRaises
<1>2. ASSUME NEW n \in Names
      PROVE  config'[n] = config[n] \/ (config'[n] = Nobody /\ config[n] \in deleted' \cup {Nobody})
  <2>1. CASE DeleteFile(d)
    <3>1. config' = [config EXCEPT ![target[d]] = Nobody]
      BY <2>1 DEF DeleteFile
    <3>2. deleted' = deleted \cup ({config[target[d]]} \ {Nobody})
      BY <2>1 DEF DeleteFile
    <3> QED
      BY <3>1, <3>2 DEF StoreTypeOK, Files
  <2>2. CASE ~DeleteFile(d)
    BY <2>2 DEF DeleteStep, FindFile, DeleteSidecar, DeleteRaises
  <2> QED
    BY <2>1, <2>2
<1>3. deleted \subseteq deleted'
  BY DEF DeleteStep, FindFile, DeleteSidecar, DeleteFile, DeleteRaises
<1>4. ASSUME NEW s \in Savers PROVE SaveInStep(s)'
  <2>1. SaveInStep(s) /\ name[s] \in Names
    BY DEF StoreTypeOK
  <2>2. InPlace(s) => InPlace(s)'
    BY <1>1, <1>2, <1>3, <2>1, ConfigStoreAssumption DEF InPlace, Nobody
  <2> QED
    BY <1>1, <1>2, <2>1, <2>2 DEF SaveInStep
<1>5. ASSUME NEW n \in Names PROVE OwnName(n)'
  BY <1>1, <1>2 DEF OwnName
<1> QED
  BY <1>4, <1>5

LEMMA CrashKeepsStoreInv ==
    ASSUME StoreInv, StoreTypeOK', StoreCrash
    PROVE  StoreInv'
<1> USE DEF StoreInv
<1>1. UNCHANGED <<config, name, deleted>>
  BY DEF StoreCrash
<1>2. ASSUME NEW s \in Savers
      PROVE  save'[s] = IF save[s] \in {"named", "written"} THEN "failed" ELSE save[s]
  BY DEF StoreCrash
<1>3. ASSUME NEW s \in Savers PROVE SaveInStep(s)'
  <2>1. SaveInStep(s)
    OBVIOUS
  <2> QED
    BY <1>1, <1>2, <2>1 DEF SaveInStep, InPlace
<1>4. ASSUME NEW n \in Names, config[n] # Nobody PROVE OwnName(n)'
  <2>1. config[n] \in Savers /\ OwnName(n)
    BY <1>4 DEF StoreTypeOK, Files
  <2> QED
    BY <1>1, <1>2, <1>4, <2>1 DEF OwnName
<1> QED
  BY <1>1, <1>3, <1>4 DEF OwnName

LEMMA StoreInvFromStart == StoreInit => StoreInv
<1> SUFFICES ASSUME StoreInit PROVE StoreInv
  OBVIOUS
<1>1. StoreTypeOK
  BY StoreTypesFromStart
<1>2. \A s \in Savers : SaveInStep(s)
  BY DEF StoreInit, SaveInStep
<1>3. \A n \in Names : OwnName(n)
  BY DEF StoreInit, OwnName
<1> QED
  BY <1>1, <1>2, <1>3 DEF StoreInv

LEMMA StoreInvKept == StoreInv /\ [StoreNext]_cvars => StoreInv'
<1> SUFFICES ASSUME StoreInv, [StoreNext]_cvars PROVE StoreInv'
  OBVIOUS
<1>1. CASE StoreNext
  <2>1. StoreTypeOK'
    BY <1>1, StoreTypesKept DEF StoreInv
  <2> QED
    BY <1>1, <2>1, SavesKeepStoreInv, DeletesKeepStoreInv, CrashKeepsStoreInv DEF StoreNext
<1>2. CASE UNCHANGED cvars
  BY <1>2 DEF cvars, StoreInv, StoreTypeOK, SaveInStep, InPlace, OwnName
<1> QED
  BY <1>1, <1>2

(* Type correctness, for any saves and deletes.                            *)
THEOREM StoreIsTyped == StoreSpec => []StoreTypeOK
<1>1. StoreInv => StoreTypeOK
  BY DEF StoreInv
<1> QED
  BY <1>1, StoreInvFromStart, StoreInvKept, PTL DEF StoreSpec

(* A backup that was reported as saved is under the name in its record     *)
(* until it is deleted, whichever saves, deletes, failed writes and        *)
(* crashes come in between (CONC-3 of storage/file_store.py).              *)
THEOREM NoBackupIsOverwritten == StoreSpec => []BackupsAreKept
<1>1. StoreInv => BackupsAreKept
  BY DEF StoreInv, SaveInStep, InPlace, BackupsAreKept
<1> QED
  BY <1>1, StoreInvFromStart, StoreInvKept, PTL DEF StoreSpec

------------------------------------------------------------------------------
(* Links.  Under a name that no delete has had to share, what is there is  *)
(* in one hand at a time: a save's, or one delete's, which finds a         *)
(* configuration and takes the sidecar first.                              *)
Clean(n) ==
    /\ sidecar[n] # Nobody => sidecar[n] = config[n]
    /\ \A s \in Savers : save[s] = "written" /\ name[s] = n => config[n] = s
    /\ DeleteIsAt(n) => config[n] # Nobody /\ ~SaveIsAt(n)
    /\ \A d \in Deleters : delete[d] = "unlinked" /\ target[d] = n => sidecar[n] = Nobody
    /\ \A d, e \in Deleters :
          delete[d] # "idle" /\ target[d] = n /\ delete[e] # "idle" /\ target[e] = n => d = e

LinkInv == \A n \in Names \ crossed : Clean(n)

(* A step that leaves a name, and those at it, alone.                      *)
LEMMA CleanStays ==
    ASSUME NEW n \in Names, Clean(n),
           config'[n] = config[n], sidecar'[n] = sidecar[n],
           \A s \in Savers : save'[s] \in {"named", "written"} /\ name'[s] = n =>
                save'[s] = save[s] /\ name[s] = n,
           \A d \in Deleters : delete'[d] # "idle" /\ target'[d] = n =>
                delete'[d] = delete[d] /\ target[d] = n
    PROVE  Clean(n)'
<1>1. DeleteIsAt(n)' => DeleteIsAt(n)
  BY DEF DeleteIsAt
<1>2. SaveIsAt(n)' => SaveIsAt(n)
  BY DEF SaveIsAt
<1>3. \A s \in Savers : save'[s] = "written" /\ name'[s] = n => config'[n] = s
  BY DEF Clean
<1>4. \A d \in Deleters : delete'[d] = "unlinked" /\ target'[d] = n => sidecar'[n] = Nobody
  BY DEF Clean
<1>5. \A d, e \in Deleters :
          delete'[d] # "idle" /\ target'[d] = n /\ delete'[e] # "idle" /\ target'[e] = n => d = e
  BY DEF Clean
<1> QED
  BY <1>1, <1>2, <1>3, <1>4, <1>5 DEF Clean

LEMMA SavesKeepLinks ==
    ASSUME StoreInv, NEW s \in Savers, SaveStep(s), NEW n \in Names \ crossed', Clean(n)
    PROVE  Clean(n)'
<1>0. /\ StoreTypeOK
      /\ \A t \in Savers : SaveInStep(t)
      /\ n \in Names
  BY DEF StoreInv
<1>1. UNCHANGED <<delete, target>>
  BY DEF SaveStep, ChooseName, WriteConfig, WriteSidecar, SaveRaises, TooLarge
<1>2. CASE ChooseName(s)
  <2>1. PICK m \in Names : name' = [name EXCEPT ![s] = m] /\ Crosses(m, DeleteIsAt(m))
    BY <1>2 DEF ChooseName, TakeFirstFree
  <2>2. /\ save' = [save EXCEPT ![s] = "named"]
        /\ UNCHANGED <<config, sidecar>>
    BY <1>2 DEF ChooseName, Saves
  <2>3. \A t \in Savers \ {s} : save'[t] = save[t] /\ name'[t] = name[t]
    BY <1>0, <2>1, <2>2 DEF StoreTypeOK
  <2>4. save'[s] = "named" /\ name'[s] = m
    BY <1>0, <2>1, <2>2 DEF StoreTypeOK
  <2>5. CASE m = n
    <3>1. ~DeleteIsAt(n)
      BY <2>1, <2>5 DEF Crosses
    <3>2. ~DeleteIsAt(n)'
      BY <1>1, <3>1 DEF DeleteIsAt
    <3>3. \A t \in Savers : save'[t] = "written" /\ name'[t] = n => config'[n] = t
      BY <2>2, <2>3, <2>4 DEF Clean
    <3> QED
      BY <1>1, <2>2, <3>2, <3>3 DEF Clean
  <2>6. CASE m # n
    BY <1>0, <1>1, <2>2, <2>3, <2>4, <2>6, CleanStays
  <2> QED
    BY <2>5, <2>6
<1>3. CASE WriteConfig(s) \/ WriteSidecar(s)
  <2>1. /\ save[s] \in {"named", "written"} /\ name[s] \in Names
        /\ UNCHANGED name
    BY <1>0, <1>3 DEF WriteConfig, WriteSidecar, StoreTypeOK
  <2>2. \A t \in Savers \ {s} : save'[t] = save[t]
    BY <1>0, <1>3 DEF WriteConfig, WriteSidecar, Saves, StoreTypeOK
  <2>3. \A t \in Savers \ {s} : save[t] \notin {"named", "written"}
    BY <1>0, <2>1 DEF SaveInStep
  <2>4. \A k \in Names \ {name[s]} : config'[k] = config[k] /\ sidecar'[k] = sidecar[k]
    BY <1>0, <1>3, <2>1 DEF WriteConfig, WriteSidecar, StoreTypeOK, Files
  <2>5. CASE name[s] # n
    BY <1>0, <1>1, <2>1, <2>2, <2>4, <2>5, CleanStays
  <2>6. CASE name[s] = n
    <3>1. ~DeleteIsAt(n)
      BY <2>1, <2>6 DEF Clean, SaveIsAt
    <3>2. ~DeleteIsAt(n)' /\ \A d \in Deleters : delete'[d] # "idle" => target'[d] # n
      BY <1>1, <3>1 DEF DeleteIsAt
    <3>3. CASE WriteConfig(s)
      <4>1. save[s] = "named" /\ config' = [config EXCEPT ![n] = s] /\ UNCHANGED sidecar
        BY <2>6, <3>3 DEF WriteConfig
      <4>2. config'[n] = s
        BY <1>0, <4>1 DEF StoreTypeOK, Files
      <4>3. config[n] = Nobody
        BY <1>0, <2>6, <4>1 DEF SaveInStep
      <4>4. sidecar'[n] = Nobody
        BY <4>1, <4>3 DEF Clean
      <4>5. \A t \in Savers : save'[t] = "written" /\ name'[t] = n => config'[n] = t
        BY <2>2, <2>3, <4>2
      <4> QED
        BY <3>2, <4>4, <4>5 DEF Clean
    <3>4. CASE WriteSidecar(s)
      <4>1. /\ save[s] = "written" /\ save' = [save EXCEPT ![s] = "saved"]
            /\ sidecar' = [sidecar EXCEPT ![n] = s] /\ UNCHANGED config
        BY <2>6, <3>4 DEF WriteSidecar, Saves
      <4>2. sidecar'[n] = s
        BY <1>0, <4>1 DEF StoreTypeOK, Files
      <4>3. config'[n] = s
        BY <2>6, <4>1 DEF Clean
      <4>4. \A t \in Savers : save'[t] = "written" /\ name'[t] = n => config'[n] = t
        BY <1>0, <2>2, <2>3, <4>1 DEF StoreTypeOK
      <4> QED
        BY <3>2, <4>2, <4>3, <4>4 DEF Clean
    <3> QED
      BY <1>3, <3>3, <3>4
  <2> QED
    BY <2>5, <2>6
<1>4. CASE SaveRaises(s) \/ TooLarge(s)
  <2>1. /\ save' = [save EXCEPT ![s] = "failed"]
        /\ UNCHANGED <<name, config, sidecar>>
    BY <1>4 DEF SaveRaises, TooLarge, Saves
  <2>2. save'[s] = "failed" /\ \A t \in Savers \ {s} : save'[t] = save[t]
    BY <1>0, <2>1 DEF StoreTypeOK
  <2> QED
    BY <1>0, <1>1, <2>1, <2>2, CleanStays
<1> QED
  BY <1>2, <1>3, <1>4 DEF SaveStep

LEMMA DeletesKeepLinks ==
    ASSUME StoreInv, NEW d \in Deleters, DeleteStep(d), NEW n \in Names \ crossed', Clean(n)
    PROVE  Clean(n)'
<1>0. StoreTypeOK /\ n \in Names
  BY DEF StoreInv
<1>1. UNCHANGED <<save, name>>
  BY DEF DeleteStep, FindFile, DeleteSidecar, DeleteFile, DeleteRaises
<1>2. ASSUME NEW m \in Names, FindFile(d, m) PROVE Clean(n)'
  <2>1. /\ delete[d] = "idle" /\ config[m] # Nobody
        /\ Crosses(m, SaveIsAt(m) \/ DeleteIsAt(m))
        /\ UNCHANGED <<config, sidecar>>
    BY <1>2 DEF FindFile
  <2>2. /\ target'[d] = m /\ delete'[d] = "found"
        /\ \A e \in Deleters \ {d} : delete'[e] = delete[e] /\ target'[e] = target[e]
    BY <1>0, <1>2 DEF FindFile, Deletes, StoreTypeOK
  <2>3. CASE m = n
    <3>1. ~SaveIsAt(n) /\ ~DeleteIsAt(n)
      BY <2>1, <2>3 DEF Crosses
    <3>2. ~SaveIsAt(n)'
      BY <1>1, <3>1 DEF SaveIsAt
    <3>3. \A e \in Deleters \ {d} : delete'[e] # "idle" => target'[e] # n
      BY <2>2, <3>1 DEF DeleteIsAt
    <3>4. config'[n] # Nobody /\ (sidecar'[n] # Nobody => sidecar'[n] = config'[n])
      BY <2>1, <2>3 DEF Clean
    <3>5. \A s \in Savers : save'[s] = "written" => name'[s] # n
      BY <3>2 DEF SaveIsAt
    <3>6. \A e \in Deleters : delete'[e] = "unlinked" => target'[e] # n
      BY <2>2, <3>3
    <3>7. \A a, b \in Deleters :
            delete'[a] # "idle" /\ target'[a] = n /\ delete'[b] # "idle" /\ target'[b] = n => a = b
      BY <3>3
    <3> QED
      BY <3>2, <3>4, <3>5, <3>6, <3>7 DEF Clean
  <2>4. CASE m # n
    BY <1>0, <1>1, <2>1, <2>2, <2>4, CleanStays
  <2> QED
    BY <2>3, <2>4
<1>3. CASE DeleteSidecar(d)
  <2>1. /\ delete[d] = "found" /\ sidecar' = [sidecar EXCEPT ![target[d]] = Nobody]
        /\ target[d] \in Names
        /\ UNCHANGED <<config, target>>
    BY <1>0, <1>3 DEF DeleteSidecar, StoreTypeOK
  <2>2. delete'[d] = "unlinked" /\ \A e \in Deleters \ {d} : delete'[e] = delete[e]
    BY <1>0, <1>3 DEF DeleteSidecar, Deletes, StoreTypeOK
  <2>3. CASE target[d] = n
    <3>1. sidecar'[n] = Nobody
      BY <1>0, <2>1, <2>3 DEF StoreTypeOK, Files
    <3>2. \A e \in Deleters : delete'[e] # "idle" => delete[e] # "idle"
      BY <2>1, <2>2
    <3>3. DeleteIsAt(n)' => DeleteIsAt(n)
      BY <2>1, <3>2 DEF DeleteIsAt
    <3>4. SaveIsAt(n)' => SaveIsAt(n)
      BY <1>1 DEF SaveIsAt
    <3>5. \A a, b \in Deleters :
            delete'[a] # "idle" /\ target'[a] = n /\ delete'[b] # "idle" /\ target'[b] = n => a = b
      BY <2>1, <3>2 DEF Clean
    <3>6. \A s \in Savers : save'[s] = "written" /\ name'[s] = n => config'[n] = s
      BY <1>1, <2>1 DEF Clean
    <3> QED
      BY <2>1, <3>1, <3>3, <3>4, <3>5, <3>6 DEF Clean
  <2>4. CASE target[d] # n
    <3>1. sidecar'[n] = sidecar[n]
      BY <1>0, <2>1, <2>4 DEF StoreTypeOK, Files
    <3> QED
      BY <1>0, <1>1, <2>1, <2>2, <2>4, <3>1, CleanStays
  <2> QED
    BY <2>3, <2>4
<1>4. CASE DeleteFile(d)
  <2>1. /\ delete[d] = "unlinked" /\ config' = [config EXCEPT ![target[d]] = Nobody]
        /\ target[d] \in Names
        /\ UNCHANGED <<sidecar, target>>
    BY <1>0, <1>4 DEF DeleteFile, StoreTypeOK
  <2>2. delete'[d] = "idle" /\ \A e \in Deleters \ {d} : delete'[e] = delete[e]
    BY <1>0, <1>4 DEF DeleteFile, Deletes, StoreTypeOK
  <2>3. CASE target[d] = n
    <3>1. sidecar'[n] = Nobody
      BY <2>1, <2>3 DEF Clean
    <3>2. DeleteIsAt(n)
      BY <2>1, <2>3 DEF DeleteIsAt
    <3>3. \A s \in Savers : save'[s] = "written" => name'[s] # n
      BY <1>1, <3>2 DEF Clean, SaveIsAt
    <3>4. \A e \in Deleters : delete'[e] # "idle" => target'[e] # n
      BY <2>1, <2>2, <2>3 DEF Clean
    <3>5. ~DeleteIsAt(n)'
      BY <3>4 DEF DeleteIsAt
    <3> QED
      BY <3>1, <3>3, <3>4, <3>5 DEF Clean
  <2>4. CASE target[d] # n
    <3>1. config'[n] = config[n]
      BY <1>0, <2>1, <2>4 DEF StoreTypeOK, Files
    <3> QED
      BY <1>0, <1>1, <2>1, <2>2, <2>4, <3>1, CleanStays
  <2> QED
    BY <2>3, <2>4
<1>5. CASE DeleteRaises(d)
  <2>1. /\ delete'[d] = "idle" /\ \A e \in Deleters \ {d} : delete'[e] = delete[e]
        /\ UNCHANGED <<config, sidecar, target>>
    BY <1>0, <1>5 DEF DeleteRaises, Deletes, StoreTypeOK
  <2> QED
    BY <1>0, <1>1, <2>1, CleanStays
<1> QED
  BY <1>2, <1>3, <1>4, <1>5 DEF DeleteStep

LEMMA CrashKeepsLinks ==
    ASSUME StoreCrash, NEW n \in Names, Clean(n)
    PROVE  Clean(n)'
<1>1. /\ UNCHANGED <<config, sidecar, name, target>>
      /\ \A d \in Deleters : delete'[d] = "idle"
      /\ \A s \in Savers : save'[s] \notin {"named", "written"}
  BY DEF StoreCrash
<1> QED
  BY <1>1, CleanStays

(* A stored configuration is linked to no profile but the one it was taken *)
(* of, through names that are used again, failed writes, half-done deletes *)
(* and crashes, under every name but those on which a delete overlapped a  *)
(* save or another delete, which FileConfigStore does not prevent.         *)
THEOREM LinksStayTrue == StoreSpec => []LinksAreTrue
<1>1. StoreInit => LinkInv
  <2> SUFFICES ASSUME StoreInit, NEW n \in Names PROVE Clean(n)
    BY DEF LinkInv
  <2> QED
    BY DEF StoreInit, Clean, DeleteIsAt
<1>2. StoreInv /\ LinkInv /\ [StoreNext]_cvars => LinkInv'
  <2> SUFFICES ASSUME StoreInv, LinkInv, [StoreNext]_cvars, NEW n \in Names' \ crossed'
               PROVE  Clean(n)'
    BY DEF LinkInv
  <2>1. crossed \subseteq crossed'
    <3>1. ASSUME NEW s \in Savers, SaveStep(s) PROVE crossed \subseteq crossed'
      BY <3>1 DEF SaveStep, ChooseName, TakeFirstFree, Crosses, WriteConfig, WriteSidecar,
                  SaveRaises, TooLarge
    <3>2. ASSUME NEW d \in Deleters, DeleteStep(d) PROVE crossed \subseteq crossed'
      BY <3>2 DEF DeleteStep, FindFile, Crosses, DeleteSidecar, DeleteFile, DeleteRaises
    <3> QED
      BY <3>1, <3>2 DEF StoreNext, StoreCrash, cvars
  <2>2. n \in Names \ crossed' /\ Clean(n)
    BY <2>1 DEF LinkInv, Names
  <2>3. CASE StoreNext
    BY <2>2, <2>3, SavesKeepLinks, DeletesKeepLinks, CrashKeepsLinks DEF StoreNext
  <2>4. CASE UNCHANGED cvars
    BY <2>2, <2>4 DEF cvars, Clean, DeleteIsAt, SaveIsAt
  <2> QED
    BY <2>3, <2>4
<1>3. StoreTypeOK /\ LinkInv => LinksAreTrue
  BY DEF LinkInv, Clean, LinksAreTrue
<1>4. StoreInv => StoreTypeOK
  BY DEF StoreInv
<1> QED
  BY <1>1, <1>2, <1>3, <1>4, StoreInvFromStart, StoreInvKept, PTL DEF StoreSpec

------------------------------------------------------------------------------
(***************************************************************************)
(* Proofs about HostKeys, for any hosts, keys and sessions of either       *)
(* collector.                                                              *)
(*                                                                         *)
(* What the file holds, or will when the write that is going on is done,   *)
(* only grows, by keys that their hosts have, as long as no two uses of it *)
(* overlapped and none was cut; what each point of a session knows of it   *)
(* follows.                                                                *)
(***************************************************************************)
Stored == IF Writers = {} THEN pins ELSE loaded[CHOOSE w \in Writers : TRUE]

Knows(s) ==
    LET h == HostOf[s] IN
    /\ step[s] \in {"verified", "learned", "rewriting", "in"} => Stored[h] = seen[s]
    /\ step[s] \in {"loaded", "attached"} =>
        /\ \A g \in Hosts : loaded[s][g] # None => Stored[g] = loaded[s][g]
        /\ loaded[s][h] = None => Stored[h] \in {None, key[h]}
    /\ step[s] = "connected" =>
        /\ \A g \in Hosts \ {h} : loaded[s][g] # None => Stored[g] = loaded[s][g]
        /\ loaded[s][h] = key[h]
        /\ Stored[h] \in {None, key[h]}

(* A session in the middle of things has the key that its host has: no     *)
(* device is given a new one meanwhile.                                    *)
Sound(s) ==
    /\ step[s] \in {"met", "connected", "learned", "rewriting", "verified"} =>
         seen[s] = key[HostOf[s]]
    /\ step[s] = "in" => seen[s] # None

OneWriter == \A s, t \in Writers : s = t

KeysInv ==
    /\ KeysTypeOK
    /\ \A s \in Sessions : Sound(s)
    /\ ~torn => OneWriter /\ \A s \in Sessions : Knows(s)

LEMMA PinsArePins ==
    /\ NoPins \in Pins
    /\ \A texts : MixesOf(texts) \subseteq Pins
    /\ \A p, q \in Pins : Over(p, q) \in Pins
    /\ KeysTypeOK => Contents \subseteq Pins
<1>1. NoPins \in Pins
  BY DEF NoPins, Pins
<1>2. \A texts : MixesOf(texts) \subseteq Pins
  BY DEF MixesOf
<1>3. \A p, q \in Pins : Over(p, q) \in Pins
  BY DEF Over, Pins
<1>4. KeysTypeOK => Contents \subseteq Pins
  BY <1>2 DEF Contents, KeysTypeOK
<1> QED
  BY <1>1, <1>2, <1>3, <1>4

LEMMA KeyTypesFromStart == KeysInit => KeysTypeOK
<1> SUFFICES ASSUME KeysInit PROVE KeysTypeOK
  OBVIOUS
<1>1. pins \in Pins
  BY PinsArePins DEF KeysInit, Pins
<1>2. loaded \in [Sessions -> Pins]
  BY PinsArePins DEF KeysInit
<1>3. rekeys \in 0..MaxRekeys
  BY HostKeysAssumption DEF KeysInit
<1>4. step \in [Sessions -> Steps]
  BY DEF KeysInit, Steps
<1> QED
  BY <1>1, <1>2, <1>3, <1>4 DEF KeysInit, KeysTypeOK

(* The ways a session's step leaves the type of its own row.               *)
LEMMA FailingKeepsTypes ==
    ASSUME KeysTypeOK, NEW s \in Sessions, Fails(s)
    PROVE  /\ step' \in [Sessions -> Steps]
           /\ seen' \in [Sessions -> Keys \cup {None}]
           /\ loaded' \in [Sessions -> Pins]
  BY PinsArePins DEF KeysTypeOK, Fails, Goes, Forgets, Steps

LEMMA ReadingGivesPins ==
    ASSUME KeysTypeOK, NEW view, ReadsStore(view)
    PROVE  view \in Pins /\ torn' \in BOOLEAN
  BY PinsArePins DEF ReadsStore, KeysTypeOK

LEMMA EndingKeepsPins ==
    ASSUME KeysTypeOK, NEW s \in Sessions, Ends(s)
    PROVE  pins' \in Pins
<1>1. loaded[s] \in Pins /\ Contents \subseteq Pins
  BY PinsArePins DEF KeysTypeOK
<1> QED
  BY <1>1 DEF Ends

LEMMA WritingKeepsTypes ==
    ASSUME KeysTypeOK, NEW s \in Sessions, NEW p \in Pins, StartsWriting(s, p)
    PROVE  step' \in [Sessions -> Steps] /\ loaded' \in [Sessions -> Pins]
  BY DEF KeysTypeOK, StartsWriting, Goes, Steps

LEMMA KeyTypesKept == KeysTypeOK /\ KeysNext => KeysTypeOK'
<1> SUFFICES ASSUME KeysTypeOK, KeysNext PROVE KeysTypeOK'
  OBVIOUS
<1> USE DEF KeysTypeOK, Steps
<1>1. ASSUME NEW s \in Sessions, SessionStep(s) PROVE KeysTypeOK'
  <2>0. HostOf[s] \in Hosts /\ seen[s] \in Keys \cup {None} /\ loaded[s] \in Pins
    BY HostKeysAssumption
  <2>1. CASE ReadRemoteKey(s)
    BY <2>0, <2>1 DEF ReadRemoteKey, Goes
  <2>2. CASE KnownAndUnchanged(s)
    BY <2>2, ReadingGivesPins DEF KnownAndUnchanged, Goes
  <2>3. CASE Refused(s)
    BY <2>3, ReadingGivesPins, FailingKeepsTypes DEF Refused
  <2>4. CASE Learn(s)
    <3>1. PICK view \in Pins :
             ReadsStore(view) /\ StartsWriting(s, [view EXCEPT ![HostOf[s]] = seen[s]])
      BY <2>4 DEF Learn
    <3>2. [view EXCEPT ![HostOf[s]] = seen[s]] \in Pins
      BY <2>0 DEF Pins
    <3> QED
      BY <2>4, <3>1, <3>2, ReadingGivesPins, WritingKeepsTypes DEF Learn
  <2>5. CASE ConnectStrictly(s)
    <3>1. (Goes(s, "in") /\ UNCHANGED <<seen, loaded>>) \/ Fails(s)
      BY <2>5 DEF ConnectStrictly
    <3>2. UNCHANGED <<mode, key, pins, torn, rekeys>>
      BY <2>5 DEF ConnectStrictly
    <3> QED
      BY <3>1, <3>2, FailingKeepsTypes DEF Goes
  <2>6. CASE ApplyPolicy(s)
    <3>1. PICK view \in Pins :
             ReadsStore(view) /\ loaded' = [loaded EXCEPT ![s] = view]
      BY <2>6 DEF ApplyPolicy
    <3>2. loaded' \in [Sessions -> Pins] /\ torn' \in BOOLEAN
      BY <3>1, ReadingGivesPins
    <3>3. Goes(s, "attached") \/ Goes(s, "loaded")
      BY <2>6 DEF ApplyPolicy
    <3> QED
      BY <2>6, <3>2, <3>3 DEF ApplyPolicy, Goes
  <2>7. CASE Connect(s)
    <3>1. /\ seen' = [seen EXCEPT ![s] = key[HostOf[s]]]
          /\ step' \in {[step EXCEPT ![s] = "connected"], [step EXCEPT ![s] = "in"]}
          /\ UNCHANGED <<mode, key, pins, torn, rekeys>>
      BY <2>7 DEF Connect, Goes
    <3>2. loaded' \in [Sessions -> Pins]
      <4>1. CASE loaded' = [loaded EXCEPT ![s][HostOf[s]] = key[HostOf[s]]]
        <5>1. [loaded[s] EXCEPT ![HostOf[s]] = key[HostOf[s]]] \in Pins
          BY <2>0 DEF Pins
        <5> QED
          BY <4>1, <5>1
      <4>2. CASE loaded' = [loaded EXCEPT ![s] = NoPins]
        BY <4>2, PinsArePins
      <4> QED
        BY <2>7, <4>1, <4>2 DEF Connect, Forgets
    <3> QED
      BY <2>0, <3>1, <3>2
  <2>8. CASE AddHost(s)
    <3>1. PICK view \in Contents :
             loaded' = [loaded EXCEPT ![s] =
                          Over([@ EXCEPT ![HostOf[s]] = key[HostOf[s]]], view)]
      BY <2>8 DEF AddHost
    <3>2. [loaded[s] EXCEPT ![HostOf[s]] = key[HostOf[s]]] \in Pins
      BY <2>0 DEF Pins
    <3>3. Over([loaded[s] EXCEPT ![HostOf[s]] = key[HostOf[s]]], view) \in Pins
      BY <3>2, PinsArePins
    <3>4. loaded' \in [Sessions -> Pins]
      BY <3>1, <3>3
    <3>5. /\ seen' = [seen EXCEPT ![s] = key[HostOf[s]]]
          /\ step' = [step EXCEPT ![s] = "rewriting"]
          /\ torn' \in BOOLEAN
          /\ UNCHANGED <<mode, key, pins, rekeys>>
      BY <2>8 DEF AddHost, Goes
    <3> QED
      BY <2>0, <3>4, <3>5
  <2>9. CASE HostAdded(s)
    BY <2>9, EndingKeepsPins DEF HostAdded, Goes
  <2>10. CASE AddHostFails(s)
    BY <2>10, PinsArePins, FailingKeepsTypes DEF AddHostFails
  <2>11. CASE ConnectFails(s) \/ LoginFails(s)
    BY <2>11, FailingKeepsTypes DEF ConnectFails, LoginFails
  <2>12. CASE Persist(s)
    <3>1. PICK view \in Pins : ReadsStore(view) /\ StartsWriting(s, Over(loaded[s], view))
      BY <2>12 DEF Persist
    <3>2. Over(loaded[s], view) \in Pins
      BY <2>0, PinsArePins
    <3> QED
      BY <2>12, <3>1, <3>2, ReadingGivesPins, WritingKeepsTypes DEF Persist
  <2>13. CASE Saved(s)
    BY <2>13, PinsArePins, EndingKeepsPins DEF Saved, AfterSave, Goes, Forgets
  <2>14. CASE SaveFails(s)
    BY <2>14, PinsArePins DEF SaveFails, AfterSave, Goes, Forgets
  <2> QED
    BY <1>1, <2>1, <2>2, <2>3, <2>4, <2>5, <2>6, <2>7, <2>8, <2>9, <2>10, <2>11, <2>12,
       <2>13, <2>14 DEF SessionStep
<1>2. ASSUME NEW h \in Hosts, Rekey(h) PROVE KeysTypeOK'
  <2>1. rekeys' \in 0..MaxRekeys
    BY <1>2, HostKeysAssumption DEF Rekey
  <2>2. PICK k \in Keys : key' = [key EXCEPT ![h] = k]
    BY <1>2 DEF Rekey
  <2> QED
    BY <1>2, <2>1, <2>2 DEF Rekey
<1>3. CASE KeysCrash
  <2>1. pins' \in Pins /\ torn' \in BOOLEAN
    BY <1>3, PinsArePins DEF KeysCrash
  <2>2. step' \in [Sessions -> Steps]
    BY <1>3 DEF KeysCrash
  <2>3. seen' \in [Sessions -> Keys \cup {None}] /\ loaded' \in [Sessions -> Pins]
    BY <1>3, PinsArePins DEF KeysCrash
  <2> QED
    BY <1>3, <2>1, <2>2, <2>3 DEF KeysCrash
<1> QED
  BY <1>1, <1>2, <1>3 DEF KeysNext

------------------------------------------------------------------------------
(* What a step of one session leaves alone.                                *)
LEMMA OnlyItself ==
    ASSUME KeysTypeOK, NEW s \in Sessions, SessionStep(s)
    PROVE  /\ UNCHANGED <<mode, key>>
           /\ torn => torn'
           /\ \A t \in Sessions \ {s} :
                 step'[t] = step[t] /\ seen'[t] = seen[t] /\ loaded'[t] = loaded[t]
<1> USE DEF KeysTypeOK
<1>1. CASE Learn(s) \/ Persist(s)
  <2>1. PICK p : StartsWriting(s, p)
    BY <1>1 DEF Learn, Persist
  <2>2. UNCHANGED <<mode, key, seen>> /\ (torn => torn')
    BY <1>1 DEF Learn, Persist, ReadsStore
  <2> QED
    BY <2>1, <2>2 DEF StartsWriting, Goes
<1>2. CASE Connect(s)
  BY <1>2 DEF Connect, Goes, Forgets
<1>3. CASE ApplyPolicy(s)
  BY <1>3 DEF ApplyPolicy, ReadsStore, Goes
<1>4. CASE ConnectStrictly(s)
  BY <1>4 DEF ConnectStrictly, Goes, Fails, Forgets
<1>5. CASE ReadRemoteKey(s) \/ KnownAndUnchanged(s)
  BY <1>5 DEF ReadRemoteKey, KnownAndUnchanged, ReadsStore, Goes
<1>6. CASE Refused(s) \/ ConnectFails(s) \/ LoginFails(s) \/ AddHostFails(s)
  BY <1>6 DEF Refused, ConnectFails, LoginFails, AddHostFails, ReadsStore, Fails, Goes, Forgets
<1>7. CASE Saved(s) \/ SaveFails(s)
  BY <1>7 DEF Saved, SaveFails, AfterSave, Goes, Forgets
<1>8. CASE AddHost(s) \/ HostAdded(s)
  BY <1>8 DEF AddHost, HostAdded, Goes
<1> QED
  BY <1>1, <1>2, <1>3, <1>4, <1>5, <1>6, <1>7, <1>8 DEF SessionStep

(* The file is not touched by s, or s begins to write it, or is done.      *)
Unlocked(s) == Writers' = Writers /\ s \notin Writers /\ UNCHANGED pins
Locks(s)    == Writers = {} /\ Writers' = {s} /\ UNCHANGED pins
Unlocks(s)  == Writers = {s} /\ Writers' = {} /\ pins' = loaded[s]

(* Who reads the file under the lock, with no overlap, sees it as it is.   *)
LEMMA ReadsItAsItIs ==
    ASSUME NEW view, ReadsStore(view), ~torn'
    PROVE  view = pins /\ Writers = {}
<1>1. ~Locked /\ Rewriters = {} /\ view \in Contents
  BY DEF ReadsStore
<1>2. Writers = {}
  BY <1>1 DEF Writers, Locked, Rewriters
<1> QED
  BY <1>1, <1>2 DEF Contents

LEMMA LockMoves ==
    ASSUME KeysTypeOK, OneWriter, NEW s \in Sessions, SessionStep(s), ~torn'
    PROVE  Unlocked(s) \/ Locks(s) \/ Unlocks(s)
<1> USE DEF KeysTypeOK
<1>0. ~torn /\ \A t \in Sessions \ {s} : step'[t] = step[t]
  BY OnlyItself
<1>1. CASE Learn(s) \/ Persist(s)
  <2>1. PICK p, view : StartsWriting(s, p) /\ ReadsStore(view)
    BY <1>1 DEF Learn, Persist
  <2>2. Writers = {} /\ step'[s] = "learned" /\ UNCHANGED pins
    BY <1>1, <2>1, ReadsItAsItIs DEF Learn, Persist, StartsWriting, Goes
  <2> QED
    BY <1>0, <2>2 DEF Locks, Writers
<1>2. CASE AddHost(s)
  <2>1. Writers = {} /\ step'[s] = "rewriting" /\ UNCHANGED pins
    BY <1>2 DEF AddHost, Goes
  <2> QED
    BY <1>0, <2>1 DEF Locks, Writers
<1>3. CASE Saved(s) \/ HostAdded(s)
  <2>1. step[s] \in {"learned", "rewriting"} /\ pins' = loaded[s]
    BY <1>0, <1>3 DEF Saved, HostAdded, Ends
  <2>2. step'[s] \notin {"learned", "rewriting"}
    BY <1>3 DEF Saved, HostAdded, AfterSave, Goes
  <2>3. Writers = {s}
    BY <2>1 DEF Writers, OneWriter
  <2>4. Writers' = {}
    BY <1>0, <2>2, <2>3 DEF Writers
  <2> QED
    BY <2>1, <2>3, <2>4 DEF Unlocks
<1>4. ASSUME {step[s], step'[s]} \cap {"learned", "rewriting"} = {}, UNCHANGED pins
      PROVE  Unlocked(s)
  BY <1>0, <1>4 DEF Unlocked, Writers
<1>5. CASE Connect(s)
  BY <1>4, <1>5 DEF Connect, Goes, Forgets
<1>6. CASE ApplyPolicy(s)
  BY <1>4, <1>6 DEF ApplyPolicy, Goes
<1>7. CASE ConnectStrictly(s)
  BY <1>4, <1>7 DEF ConnectStrictly, Goes, Fails, Forgets
<1>8. CASE ReadRemoteKey(s) \/ KnownAndUnchanged(s)
  BY <1>4, <1>8 DEF ReadRemoteKey, KnownAndUnchanged, Goes
<1>9. CASE Refused(s) \/ ConnectFails(s) \/ LoginFails(s) \/ AddHostFails(s)
  BY <1>4, <1>9 DEF Refused, ConnectFails, LoginFails, AddHostFails, Fails, Goes, Forgets
<1> QED
  BY <1>1, <1>2, <1>3, <1>5, <1>6, <1>7, <1>8, <1>9 DEF SessionStep, SaveFails

(* What a session has seen after a step of its own.                        *)
LEMMA SeesItsHost ==
    ASSUME KeysTypeOK, NEW s \in Sessions, Sound(s), SessionStep(s)
    PROVE  Sound(s)'
<1> USE DEF KeysTypeOK
<1>0. HostOf[s] \in Hosts /\ key[HostOf[s]] # None /\ UNCHANGED key
  BY HostKeysAssumption, OnlyItself DEF None
<1>1. CASE Learn(s) \/ Persist(s)
  <2>1. PICK p : StartsWriting(s, p)
    BY <1>1 DEF Learn, Persist
  <2>2. UNCHANGED seen /\ step[s] \in {"met", "connected"}
    BY <1>1 DEF Learn, Persist
  <2> QED
    BY <1>0, <2>1, <2>2 DEF StartsWriting, Goes, Sound
<1>2. CASE Connect(s) \/ AddHost(s)
  BY <1>0, <1>2 DEF Connect, AddHost, Goes, Sound
<1>3. CASE ApplyPolicy(s)
  BY <1>0, <1>3 DEF ApplyPolicy, Goes, Sound
<1>4. CASE ConnectStrictly(s)
  BY <1>0, <1>4 DEF ConnectStrictly, Goes, Fails, Sound
<1>5. CASE ReadRemoteKey(s)
  BY <1>0, <1>5 DEF ReadRemoteKey, Goes, Sound
<1>6. CASE KnownAndUnchanged(s) \/ HostAdded(s)
  BY <1>0, <1>6 DEF KnownAndUnchanged, HostAdded, Goes, Sound
<1>7. CASE Refused(s) \/ ConnectFails(s) \/ LoginFails(s) \/ AddHostFails(s)
  BY <1>7 DEF Refused, ConnectFails, LoginFails, AddHostFails, Fails, Goes, Sound
<1>8. CASE Saved(s) \/ SaveFails(s)
  <2>1. step[s] = "learned" /\ UNCHANGED seen
    BY <1>8 DEF Saved, SaveFails
  <2> QED
    BY <1>0, <1>8, <2>1 DEF Saved, SaveFails, AfterSave, Goes, Sound
<1> QED
  BY <1>1, <1>2, <1>3, <1>4, <1>5, <1>6, <1>7, <1>8 DEF SessionStep

------------------------------------------------------------------------------
(* The file only grows, by the key its host has.                           *)
Grows ==
    \A g \in Hosts :
        Stored'[g] = Stored[g] \/ (Stored[g] = None /\ Stored'[g] = key[g])

(* What one session's step does to what another knows.                     *)
LEMMA KnowledgeLasts ==
    ASSUME KeysTypeOK, NEW t \in Sessions, Sound(t), Knows(t), Grows,
           UNCHANGED key,
           step'[t] = step[t], seen'[t] = seen[t], loaded'[t] = loaded[t]
    PROVE  Knows(t)'
<1>1. HostOf[t] \in Hosts /\ key[HostOf[t]] # None
  BY HostKeysAssumption DEF KeysTypeOK, None
<1>2. \A g \in Hosts : Stored'[g] = Stored[g] \/ (Stored[g] = None /\ Stored'[g] = key[g])
  BY DEF Grows
<1>3. ASSUME step[t] \in {"verified", "learned", "rewriting", "in"}
      PROVE  Stored'[HostOf[t]] = seen[t]
  BY <1>1, <1>2, <1>3 DEF Knows, Sound
<1>4. ASSUME step[t] \in {"loaded", "attached"}
      PROVE  /\ \A g \in Hosts : loaded[t][g] # None => Stored'[g] = loaded[t][g]
             /\ loaded[t][HostOf[t]] = None => Stored'[HostOf[t]] \in {None, key[HostOf[t]]}
  BY <1>1, <1>2, <1>4 DEF Knows
<1>5. ASSUME step[t] = "connected"
      PROVE  /\ \A g \in Hosts \ {HostOf[t]} :
                    loaded[t][g] # None => Stored'[g] = loaded[t][g]
             /\ loaded[t][HostOf[t]] = key[HostOf[t]]
             /\ Stored'[HostOf[t]] \in {None, key[HostOf[t]]}
  BY <1>1, <1>2, <1>5 DEF Knows
<1> QED
  BY <1>3, <1>4, <1>5 DEF Knows

(* Who begins to write lays what it knows over the file: only its own      *)
(* host's entry can be new.                                                *)
LEMMA WritesWhatGrows ==
    ASSUME KeysInv, NEW s \in Sessions, SessionStep(s), ~torn', Locks(s)
    PROVE  /\ Stored = pins /\ Stored' = loaded'[s]
           /\ loaded'[s][HostOf[s]] = key[HostOf[s]]
           /\ pins[HostOf[s]] \in {None, key[HostOf[s]]}
           /\ \A g \in Hosts \ {HostOf[s]} : loaded'[s][g] = pins[g]
<1> USE DEF KeysTypeOK
<1>0. KeysTypeOK /\ Sound(s) /\ ~torn /\ HostOf[s] \in Hosts /\ key[HostOf[s]] # None
  BY HostKeysAssumption, OnlyItself DEF KeysInv, None
<1>1. Knows(s) /\ Stored = pins /\ Stored' = loaded'[s]
  BY <1>0 DEF KeysInv, Stored, Locks
<1>2. step'[s] \in {"learned", "rewriting"} /\ step[s] \notin {"learned", "rewriting"}
  BY DEF Locks, Writers
<1>3. CASE Learn(s)
  <2>1. PICK view \in Pins : /\ ReadsStore(view) /\ view[HostOf[s]] = None
                             /\ StartsWriting(s, [view EXCEPT ![HostOf[s]] = seen[s]])
    BY <1>3 DEF Learn
  <2>2. loaded'[s] = [pins EXCEPT ![HostOf[s]] = seen[s]] /\ pins[HostOf[s]] = None
    BY <1>0, <2>1, ReadsItAsItIs DEF StartsWriting
  <2>3. seen[s] = key[HostOf[s]]
    BY <1>0, <1>3 DEF Learn, Sound
  <2> QED
    BY <1>0, <1>1, <2>2, <2>3 DEF Pins
<1>4. CASE Persist(s)
  <2>1. PICK view \in Pins : ReadsStore(view) /\ StartsWriting(s, Over(loaded[s], view))
    BY <1>4 DEF Persist
  <2>2. loaded'[s] = Over(loaded[s], pins)
    BY <1>0, <2>1, ReadsItAsItIs DEF StartsWriting
  <2>3. /\ \A g \in Hosts \ {HostOf[s]} : loaded[s][g] # None => pins[g] = loaded[s][g]
        /\ loaded[s][HostOf[s]] = key[HostOf[s]]
        /\ pins[HostOf[s]] \in {None, key[HostOf[s]]}
    BY <1>1, <1>4 DEF Persist, Knows
  <2> QED
    BY <1>0, <1>1, <2>2, <2>3 DEF Over
<1>5. CASE AddHost(s)
  <2>1. PICK view \in Contents :
          loaded' = [loaded EXCEPT ![s] =
                       Over([@ EXCEPT ![HostOf[s]] = key[HostOf[s]]], view)]
    BY <1>5 DEF AddHost
  <2>2. view = pins
    BY <2>1 DEF Contents, Locks
  <2>3. loaded'[s] = Over([loaded[s] EXCEPT ![HostOf[s]] = key[HostOf[s]]], pins)
    BY <1>0, <2>1, <2>2
  <2>4. /\ \A g \in Hosts : loaded[s][g] # None => pins[g] = loaded[s][g]
        /\ pins[HostOf[s]] \in {None, key[HostOf[s]]}
    BY <1>1, <1>5 DEF AddHost, Knows
  <2>5. [loaded[s] EXCEPT ![HostOf[s]] = key[HostOf[s]]] \in Pins
    BY <1>0 DEF Pins
  <2> DEFINE own == [loaded[s] EXCEPT ![HostOf[s]] = key[HostOf[s]]]
  <2>6. /\ own[HostOf[s]] = key[HostOf[s]]
        /\ \A g \in Hosts \ {HostOf[s]} : own[g] = loaded[s][g]
    BY <1>0 DEF Pins
  <2>7. loaded'[s] = Over(own, pins)
    BY <2>3
  <2> HIDE DEF own
  <2> QED
    BY <1>0, <1>1, <2>4, <2>6, <2>7 DEF Over
<1>6. Learn(s) \/ Persist(s) \/ AddHost(s)
  BY <1>0, <1>2
     DEF SessionStep, ReadRemoteKey, KnownAndUnchanged, Refused, ConnectStrictly, ApplyPolicy,
         Connect, HostAdded, AddHostFails, ConnectFails, LoginFails, Saved, SaveFails, AfterSave,
         Fails, Goes
<1> QED
  BY <1>3, <1>4, <1>5, <1>6

LEMMA StoreGrows ==
    ASSUME KeysInv, NEW s \in Sessions, SessionStep(s), ~torn'
    PROVE  ~torn /\ Grows
<1>0. KeysTypeOK
  BY DEF KeysInv
<1>1. ~torn /\ OneWriter
  BY <1>0, OnlyItself DEF KeysInv
<1>2. CASE Unlocked(s)
  <2>1. \A w \in Writers : loaded'[w] = loaded[w]
    BY <1>0, <1>2, OnlyItself DEF Unlocked, Writers
  <2>2. Stored' = Stored
    BY <1>2, <2>1 DEF Stored, Unlocked
  <2> QED
    BY <1>1, <2>2 DEF Grows
<1>3. CASE Unlocks(s)
  <2>1. Stored' = Stored
    BY <1>3 DEF Stored, Unlocks
  <2> QED
    BY <1>1, <2>1 DEF Grows
<1>4. CASE Locks(s)
  BY <1>1, <1>4, WritesWhatGrows DEF Grows
<1> QED
  BY <1>0, <1>1, <1>2, <1>3, <1>4, LockMoves

(* What a session knows after a step of its own.                           *)
LEMMA LearnsItsHost ==
    ASSUME KeysInv, NEW s \in Sessions, SessionStep(s), ~torn'
    PROVE  Knows(s)'
<1> USE DEF KeysTypeOK
<1>0. /\ KeysTypeOK /\ Sound(s) /\ HostOf[s] \in Hosts /\ Knows(s) /\ Grows
      /\ ~torn /\ OneWriter /\ UNCHANGED key /\ key[HostOf[s]] # None
  BY HostKeysAssumption, StoreGrows, OnlyItself DEF KeysInv, None
<1>1. CASE Locks(s)
  <2>1. Stored'[HostOf[s]] = key[HostOf[s]] /\ step'[s] \in {"learned", "rewriting"}
    BY <1>1, WritesWhatGrows DEF Locks, Writers
  <2>2. seen'[s] = key[HostOf[s]]
    BY <1>0, <2>1, SeesItsHost DEF Sound
  <2> QED
    BY <2>1, <2>2 DEF Knows
<1>2. CASE Unlocks(s)
  <2>1. Stored = loaded[s] /\ Stored' = loaded[s] /\ step[s] \in {"learned", "rewriting"}
    BY <1>2 DEF Stored, Unlocks, Writers
  <2>2. loaded[s][HostOf[s]] = seen[s] /\ seen[s] = key[HostOf[s]]
    BY <1>0, <2>1 DEF Knows, Sound
  <2>3. CASE Saved(s)
    BY <2>1, <2>2, <2>3, <1>0 DEF Saved, AfterSave, Goes, Knows
  <2>4. CASE HostAdded(s)
    <3>1. step'[s] = "connected" /\ loaded'[s] = loaded[s]
      BY <1>0, <2>4 DEF HostAdded, Goes
    <3> QED
      BY <1>0, <2>1, <2>2, <3>1 DEF Knows
  <2>5. Saved(s) \/ HostAdded(s)
    <3>1. step'[s] \notin {"learned", "rewriting"}
      BY <1>2 DEF Unlocks, Writers
    <3> QED
      BY <2>1, <3>1, <1>0
         DEF SessionStep, ReadRemoteKey, KnownAndUnchanged, Refused, Learn, ConnectStrictly,
             ApplyPolicy, Connect, AddHost, AddHostFails, ConnectFails, LoginFails, Persist,
             SaveFails
  <2> QED
    BY <2>3, <2>4, <2>5
<1>3. CASE Unlocked(s)
  <2>0. UNCHANGED pins /\ Stored' = Stored
    <3>1. \A w \in Writers : loaded'[w] = loaded[w]
      BY <1>0, <1>3, OnlyItself DEF Unlocked, Writers
    <3> QED
      BY <1>3, <3>1 DEF Stored, Unlocked
  <2>1. CASE ReadRemoteKey(s) \/ Refused(s) \/ ConnectFails(s) \/ LoginFails(s) \/ AddHostFails(s)
    <3>1. step'[s] \in {"met", "failed"}
      BY <1>0, <2>1 DEF ReadRemoteKey, Refused, ConnectFails, LoginFails, AddHostFails, Fails, Goes
    <3> QED
      BY <3>1 DEF Knows
  <2>2. CASE KnownAndUnchanged(s)
    <3>1. Stored = pins /\ pins[HostOf[s]] = seen[s]
      BY <2>2, ReadsItAsItIs DEF KnownAndUnchanged, Stored
    <3>2. step'[s] = "verified" /\ UNCHANGED seen
      BY <1>0, <2>2 DEF KnownAndUnchanged, Goes
    <3> QED
      BY <2>0, <3>1, <3>2 DEF Knows
  <2>3. CASE ConnectStrictly(s)
    <3>1. step[s] = "verified" /\ step'[s] \in {"in", "failed"}
      BY <1>0, <2>3 DEF ConnectStrictly, Goes, Fails
    <3>2. step'[s] = "in" => UNCHANGED seen
      BY <1>0, <2>3 DEF ConnectStrictly, Goes, Fails
    <3>3. Stored[HostOf[s]] = seen[s]
      BY <1>0, <3>1 DEF Knows
    <3> QED
      BY <2>0, <3>1, <3>2, <3>3 DEF Knows
  <2>4. CASE ApplyPolicy(s)
    <3>1. PICK view \in Pins : ReadsStore(view) /\ loaded' = [loaded EXCEPT ![s] = view]
      BY <2>4 DEF ApplyPolicy
    <3>2. loaded'[s] = pins /\ Stored = pins
      BY <1>0, <3>1, ReadsItAsItIs DEF Stored
    <3>3. step'[s] \in {"loaded", "attached"}
      BY <1>0, <2>4 DEF ApplyPolicy, Goes
    <3> QED
      BY <2>0, <3>2, <3>3 DEF Knows
  <2>5. CASE Connect(s)
    <3>1. step[s] \in {"loaded", "attached"} /\ seen'[s] = key[HostOf[s]]
      BY <1>0, <2>5 DEF Connect
    <3>2. Stored[HostOf[s]] \in {None, key[HostOf[s]]}
      BY <1>0, <2>5, <3>1 DEF Connect, Knows
    <3>3. \A g \in Hosts : loaded[s][g] # None => Stored[g] = loaded[s][g]
      BY <1>0, <3>1 DEF Knows
    <3>4. CASE mode = "tofu"
      <4>1. step'[s] = "connected" /\ loaded' = [loaded EXCEPT ![s][HostOf[s]] = key[HostOf[s]]]
        BY <1>0, <2>5, <3>4 DEF Connect, Goes
      <4>2. /\ loaded'[s][HostOf[s]] = key[HostOf[s]]
            /\ \A g \in Hosts \ {HostOf[s]} : loaded'[s][g] = loaded[s][g]
        BY <1>0, <4>1 DEF Pins
      <4> QED
        BY <1>0, <2>0, <3>2, <3>3, <4>1, <4>2 DEF Knows
    <3>5. CASE mode # "tofu"
      <4>1. step'[s] = "in" /\ loaded[s][HostOf[s]] = key[HostOf[s]]
        BY <1>0, <2>5, <3>5 DEF Connect, Goes
      <4> QED
        BY <1>0, <2>0, <3>1, <3>3, <4>1 DEF Knows
    <3> QED
      BY <3>4, <3>5
  <2>6. ReadRemoteKey(s) \/ Refused(s) \/ ConnectFails(s) \/ LoginFails(s) \/ AddHostFails(s)
          \/ KnownAndUnchanged(s) \/ ConnectStrictly(s) \/ ApplyPolicy(s) \/ Connect(s)
    <3>1. {step[s], step'[s]} \cap {"learned", "rewriting"} = {}
      BY <1>3 DEF Unlocked, Writers
    <3> QED
      BY <1>0, <3>1 DEF SessionStep, Learn, AddHost, HostAdded, Persist, Saved, SaveFails,
                        StartsWriting, Goes
  <2> QED
    BY <2>1, <2>2, <2>3, <2>4, <2>5, <2>6
<1> QED
  BY <1>0, <1>1, <1>2, <1>3, LockMoves

------------------------------------------------------------------------------
LEMMA KeysInvFromStart == KeysInit => KeysInv
<1> SUFFICES ASSUME KeysInit PROVE KeysInv
  OBVIOUS
<1>1. KeysTypeOK
  BY KeyTypesFromStart
<1>2. Writers = {} /\ \A s \in Sessions : step[s] = "idle"
  BY DEF KeysInit, Writers
<1> QED
  BY <1>1, <1>2 DEF KeysInv, OneWriter, Sound, Knows

LEMMA SessionsKeepKeysInv ==
    ASSUME KeysInv, NEW s \in Sessions, SessionStep(s)
    PROVE  KeysInv'
<1>1. KeysTypeOK /\ \A t \in Sessions : Sound(t)
  BY DEF KeysInv
<1>2. KeysTypeOK'
  BY <1>1, KeyTypesKept DEF KeysNext
<1>3. ASSUME NEW t \in Sessions \ {s}
      PROVE  /\ UNCHANGED key
             /\ step'[t] = step[t] /\ seen'[t] = seen[t] /\ loaded'[t] = loaded[t]
  BY <1>1, <1>3, OnlyItself
<1>4. \A t \in Sessions : Sound(t)'
  <2>1. Sound(s)'
    BY <1>1, SeesItsHost
  <2>2. ASSUME NEW t \in Sessions \ {s} PROVE Sound(t)'
    BY <1>1, <1>3 DEF Sound
  <2> QED
    BY <2>1, <2>2
<1>5. ASSUME ~torn', NEW t \in Sessions \ {s} PROVE Knows(t)'
  <2>1. Knows(t) /\ Grows
    BY <1>5, StoreGrows DEF KeysInv
  <2> QED
    BY <1>1, <1>3, <1>5, <2>1, KnowledgeLasts
<1>6. ASSUME ~torn' PROVE Knows(s)' /\ OneWriter'
  <2>1. OneWriter
    BY <1>6, StoreGrows DEF KeysInv
  <2>2. OneWriter'
    BY <1>1, <1>6, <2>1, LockMoves DEF OneWriter, Unlocked, Locks, Unlocks
  <2> QED
    BY <1>6, <2>2, LearnsItsHost
<1> QED
  BY <1>2, <1>4, <1>5, <1>6 DEF KeysInv

(* A device gets a new key only while no session is in touch with it.      *)
LEMMA RekeyKeepsKeysInv ==
    ASSUME KeysInv, KeysTypeOK', NEW h \in Hosts, Rekey(h)
    PROVE  KeysInv'
<1>1. /\ UNCHANGED <<step, seen, loaded, pins, torn>>
      /\ \A s \in Sessions : HostOf[s] = h => step[s] \in {"idle", "in", "failed"}
  BY DEF Rekey
<1>2. \A g \in Hosts \ {h} : key'[g] = key[g]
  BY DEF Rekey, KeysInv, KeysTypeOK
<1>3. Writers' = Writers /\ Stored' = Stored
  BY <1>1 DEF Writers, Stored
<1>4. ASSUME NEW s \in Sessions PROVE Sound(s)' /\ (~torn' => Knows(s)')
  <2>1. Sound(s) /\ (~torn => Knows(s)) /\ HostOf[s] \in Hosts
    BY HostKeysAssumption DEF KeysInv
  <2>2. CASE HostOf[s] = h
    BY <1>1, <1>3, <2>1, <2>2 DEF Sound, Knows
  <2>3. CASE HostOf[s] # h
    BY <1>1, <1>2, <1>3, <2>1, <2>3 DEF Sound, Knows
  <2> QED
    BY <2>2, <2>3
<1> QED
  BY <1>1, <1>3, <1>4 DEF KeysInv, OneWriter

LEMMA CrashKeepsKeysInv ==
    ASSUME KeysInv, KeysTypeOK', KeysCrash
    PROVE  KeysInv'
<1>1. /\ UNCHANGED key
      /\ \A s \in Sessions :
            /\ step'[s] = IF step[s] \in {"idle", "in"} THEN step[s] ELSE "failed"
            /\ seen'[s] = IF step[s] = "in" THEN seen[s] ELSE None
  BY DEF KeysCrash
<1>2. Writers' = {}
  BY <1>1 DEF Writers
<1>3. \A s \in Sessions : Sound(s)'
  BY <1>1 DEF KeysInv, Sound
<1>4. ASSUME ~torn', NEW s \in Sessions PROVE Knows(s)'
  <2>1. Writers = {} /\ ~torn /\ pins' = pins
    BY <1>4 DEF KeysCrash, Contents
  <2>2. Stored' = Stored /\ Knows(s)
    BY <1>2, <2>1 DEF Stored, KeysInv
  <2> QED
    BY <1>1, <2>2 DEF Knows
<1> QED
  BY <1>2, <1>3, <1>4 DEF KeysInv, OneWriter

LEMMA KeysInvKept == KeysInv /\ [KeysNext]_kvars => KeysInv'
<1> SUFFICES ASSUME KeysInv, [KeysNext]_kvars PROVE KeysInv'
  OBVIOUS
<1>1. CASE KeysNext
  <2>1. KeysTypeOK'
    BY <1>1, KeyTypesKept DEF KeysInv
  <2> QED
    BY <1>1, <2>1, SessionsKeepKeysInv, RekeyKeepsKeysInv, CrashKeepsKeysInv DEF KeysNext
<1>2. CASE UNCHANGED kvars
  BY <1>2 DEF kvars, KeysInv, KeysTypeOK, OneWriter, Writers, Sound, Knows, Stored
<1> QED
  BY <1>1, <1>2

(* Type correctness of the host keys, for any sessions of either collector *)
(* with any hosts.                                                         *)
THEOREM KeysAreTyped == KeysSpec => []KeysTypeOK
<1>1. KeysInv => KeysTypeOK
  BY DEF KeysInv
<1> QED
  BY <1>1, KeysInvFromStart, KeysInvKept, PTL DEF KeysSpec

(* The key that a session went on with stays pinned, and no session with   *)
(* the same host goes on with another one, whichever collectors meet which *)
(* hosts in whatever order (review #2 of collectors/hostkey.py), as long   *)
(* as the store was readable and no write of it was cut or, Paramiko's own *)
(* save inside connect() being outside the lock, overlapped.               *)
THEOREM PinsStay == KeysSpec => []TrustIsKept
<1>1. KeysInv => TrustIsKept
  BY DEF KeysInv, Knows, Stored, TrustIsKept
<1> QED
  BY <1>1, KeysInvFromStart, KeysInvKept, PTL DEF KeysSpec

------------------------------------------------------------------------------
(***************************************************************************)
(* Proofs about DeviceProfiles, for any finite set of profiles, any        *)
(* passwords and any number of faults, crashes and moves of the key, also  *)
(* when what a process finds for a key is none.                            *)
(*                                                                         *)
(* None of the three properties is inductive: a rollback puts back what    *)
(* the holder of the lock remembers, so what must match the file is        *)
(* Before(i), the credential from before the route at work; and the next   *)
(* start finds the key only because every process finds the key of the     *)
(* one before it.  SoundProfile(i) says the first of each profile,         *)
(* KeyIsFound the second of the process.                                   *)
(***************************************************************************)

(* The holder of the lock is about to do this with profile i.              *)
At(i, what) == holder.to = what /\ holder.id = i
Resting(i) == ~At(i, "save") /\ ~At(i, "unlink")

(* The credential in memory, before the route that is at work.             *)
Before(i) == IF Resting(i) THEN memory[i] ELSE holder.old

Told(i) ==
    /\ told[i] = "gone" => Resting(i) /\ memory[i] = Absent /\ disk[i] = Absent
    /\ told[i] = "nothing" => disk[i] = Absent /\ Before(i) = Absent
    /\ told[i] \in Passwords => disk[i].says = told[i]

AtWork(i) ==
    /\ At(i, "save") => memory[i] \in Credentials
    /\ At(i, "unlink") => memory[i] = Absent
    /\ At(i, "save") /\ ~moved => IsPlain(memory[i])

(* Memory is what the key makes of the file.                               *)
Matches(i) ==
    /\ Before(i) = Decrypted(disk[i], fernet)
    /\ disk[i] # Absent => ~IsPlain(disk[i]) /\ fernet # NoKey

(* Only in memory, by a key that is none.                                  *)
Ahead(i) == OnlyInMemory(i) /\ (~moved => IsPlain(Before(i)))

(* A file that could not be loaded or migrated.                            *)
LeftOut(i) == Resting(i) /\ memory[i] = Absent /\ disk[i] # Absent

Readable(c) ==
    \/ IsPlain(c)
    \/ KeyToFind \in FernetKeys /\ \E p \in Passwords : c = Encrypted(Plain(p), KeyToFind)

SoundProfile(i) ==
    /\ Told(i)
    /\ AtWork(i)
    /\ up /\ i \notin skipped => Matches(i) \/ Ahead(i)
    /\ i \in skipped => LeftOut(i)
    /\ ~moved => Readable(disk[i])

KeyIsFound ==
    /\ ~up => holder = Free /\ fernet = NoKey
    /\ ~moved /\ fernet # NoKey => fernet = KeyToFind

IInv ==
    /\ ProfilesTypeOK
    /\ KeyIsFound
    /\ ~up => /\ memory = [i \in Ids |-> Absent]
              /\ held = [i \in Ids |-> Absent]
              /\ skipped = {}
    /\ \A i \in Ids : SoundProfile(i)

------------------------------------------------------------------------------
(* Credentials.                                                            *)

LEMMA AbsentIsNone == Absent \notin Credentials /\ IsPlain(Absent)
BY ProfilesAssumption DEF Absent, Credentials, IsPlain

LEMMA PlainIsCredential ==
    ASSUME NEW p \in Passwords
    PROVE  Plain(p) \in Credentials /\ IsPlain(Plain(p)) /\ Plain(p).says = p
BY DEF Plain, Credentials, IsPlain

LEMMA PlainIsAsItSays ==
    ASSUME NEW c \in Credentials, IsPlain(c)
    PROVE  c = Plain(c.says) /\ c.says \in Passwords
BY DEF Plain, Credentials, IsPlain

LEMMA FrontOfAppend ==
    ASSUME NEW S, NEW s \in Seq(S), NEW e \in S
    PROVE  /\ Append(s, e) \in Seq(S)
           /\ Append(s, e) # <<>>
           /\ Last(Append(s, e)) = e
           /\ Front(Append(s, e)) = s
<1>1. Append(s, e) \in Seq(S) /\ Len(Append(s, e)) = Len(s) + 1 /\ Len(s) \in Nat
  OBVIOUS
<1>2. Append(s, e) # <<>> /\ Last(Append(s, e)) = e
  BY <1>1 DEF Last
<1>3. Front(Append(s, e)) = s
  <2>1. Front(Append(s, e)) \in Seq(S) /\ Len(Front(Append(s, e))) = Len(s)
    BY <1>1 DEF Front
  <2>2. \A k \in 1..Len(s) : Front(Append(s, e))[k] = s[k]
    BY <1>1 DEF Front
  <2> QED
    BY <2>1, <2>2
<1> QED
  BY <1>1, <1>2, <1>3

LEMMA EncryptedIsCredential ==
    ASSUME NEW c \in Credentials, NEW k \in FernetKeys
    PROVE  /\ Encrypted(c, k) \in Credentials
           /\ ~IsPlain(Encrypted(c, k))
           /\ Encrypted(c, k).says = c.says
           /\ Decrypted(Encrypted(c, k), k) = c
<1>1. c = [says |-> c.says, under |-> c.under] /\ c.says \in Passwords /\ c.under \in Seq(FernetKeys)
  BY DEF Credentials
<1>2. Encrypted(c, k) = [says |-> c.says, under |-> Append(c.under, k)]
  BY <1>1 DEF Encrypted
<1>3. Append(c.under, k) \in Seq(FernetKeys) /\ Append(c.under, k) # <<>>
  BY <1>1, FrontOfAppend
<1>4. Last(Append(c.under, k)) = k /\ Front(Append(c.under, k)) = c.under
  BY <1>1, FrontOfAppend
<1>5. Decrypted(Encrypted(c, k), k) = [says |-> c.says, under |-> c.under]
  BY <1>2, <1>3, <1>4 DEF Decrypted
<1> QED
  BY <1>1, <1>2, <1>3, <1>5 DEF Credentials, IsPlain

LEMMA FrontIsSequence ==
    ASSUME NEW S, NEW s \in Seq(S), s # <<>>
    PROVE  Front(s) \in Seq(S)
BY DEF Front

LEMMA DecryptedIsCredential ==
    ASSUME NEW c \in Credentials \cup {Absent}, NEW k \in FernetKeys \cup {NoKey}
    PROVE  /\ c \in Credentials =>
                Decrypted(c, k) \in Credentials /\ Decrypted(c, k).says = c.says
           /\ IsPlain(c) => Decrypted(c, k) = c
           /\ c = Absent => Decrypted(c, k) = Absent
<1>1. IsPlain(c) => Decrypted(c, k) = c
  BY DEF IsPlain, Decrypted
<1>2. c = Absent => Decrypted(c, k) = Absent
  BY <1>1, AbsentIsNone
<1>3. ASSUME c \in Credentials
      PROVE  Decrypted(c, k) \in Credentials /\ Decrypted(c, k).says = c.says
  <2>1. c = [says |-> c.says, under |-> c.under] /\ c.says \in Passwords /\ c.under \in Seq(FernetKeys)
    BY <1>3 DEF Credentials
  <2>2. c.under # <<>> => Front(c.under) \in Seq(FernetKeys)
    BY <2>1, FrontIsSequence
  <2> QED
    BY <1>3, <2>1, <2>2 DEF Decrypted, Credentials
<1> QED
  BY <1>1, <1>2, <1>3

------------------------------------------------------------------------------
(* The key.                                                                *)

LEMMA KeysAreKeys ==
    /\ NoKey \notin FernetKeys /\ BadKey \notin FernetKeys /\ EnvKey \in FernetKeys
    /\ FernetKeys \subseteq Nat /\ {NoKey, BadKey, EnvKey} \subseteq Nat
    /\ NoKey # BadKey
    /\ \A k \in Nat \ {NoKey, BadKey} : k \in FernetKeys
BY DEF NoKey, BadKey, EnvKey, FernetKeys

LEMMA FreshIsKey == ASSUME ProfilesTypeOK PROVE Fresh \in FernetKeys /\ made + 1 \in Nat
<1>1. made \in Nat
  BY DEF ProfilesTypeOK
<1> QED
  BY <1>1 DEF Fresh, FernetKeys, NoKey, BadKey

(* A key is resolved once, and it is the one that the next process finds.  *)
LEMMA ResolvingFindsKey ==
    ASSUME ProfilesTypeOK, KeyIsFound, ResolveKey, UNCHANGED <<env, backend>>
    PROVE  /\ {ring', keyfile'} \subseteq Nat
           /\ made' \in Nat
           /\ fernet' \in FernetKeys
           /\ ~KeyIsBad
           /\ fernet # NoKey => fernet' = fernet
           /\ ~moved => fernet' = KeyToFind'
           /\ ~moved /\ KeyToFind # NoKey => KeyToFind' = KeyToFind
<1> USE KeysAreKeys
<1>1. CASE fernet # NoKey
  <2>1. UNCHANGED keyVars /\ UNCHANGED <<env, backend>>
    BY <1>1 DEF ResolveKey
  <2>2. UNCHANGED KeyToFind
    BY <2>1 DEF keyVars, KeyToFind, FileTier
  <2>3. fernet \in FernetKeys /\ {ring, keyfile} \subseteq Nat /\ made \in Nat
    BY <1>1 DEF ProfilesTypeOK
  <2> QED
    BY <1>1, <2>1, <2>2, <2>3 DEF keyVars, KeyIsFound, KeyIsBad
<1>2. CASE fernet = NoKey
  <2>1. CASE FromEnvironment
    BY <1>2, <2>1 DEF FromEnvironment, ProfilesTypeOK, KeyToFind, KeyIsBad
  <2>2. CASE FromKeyring
    BY <1>2, <2>2 DEF FromKeyring, ProfilesTypeOK, KeyToFind, KeyIsBad
  <2>3. CASE IntoKeyring
    BY <1>2, <2>3, FreshIsKey DEF IntoKeyring, ProfilesTypeOK, KeyToFind, FileTier, KeyIsBad
  <2>4. CASE FromFile
    BY <1>2, <2>4 DEF FromFile, ProfilesTypeOK, KeyToFind, FileTier, KeyIsBad
  <2>5. CASE IntoFile
    BY <1>2, <2>5, FreshIsKey DEF IntoFile, ProfilesTypeOK, KeyToFind, FileTier, KeyIsBad
  <2> QED
    BY <1>2, <2>1, <2>2, <2>3, <2>4, <2>5 DEF ResolveKey
<1> QED
  BY <1>1, <1>2

(* What a step that resolves a key, or none, does to the keys.             *)
KeyStep ==
    /\ UNCHANGED <<env, backend, moved, up>>
    /\ ResolveKey \/ UNCHANGED keyVars \/ KeyFileFails

LEMMA CutFindsKey ==
    ASSUME ProfilesTypeOK, KeyFileIsCut, UNCHANGED <<env, backend>>
    PROVE  /\ {ring', keyfile'} \subseteq Nat
           /\ made' \in Nat
           /\ fernet = NoKey
           /\ KeyToFind = NoKey
<1>1. Fresh \in Nat /\ made + 1 \in Nat
  BY FreshIsKey, KeysAreKeys
<1> QED
  BY <1>1, KeysAreKeys DEF KeyFileIsCut, ProfilesTypeOK, KeyToFind, FileTier

LEMMA KeyStepFindsKey ==
    ASSUME ProfilesTypeOK, KeyIsFound, KeyStep
    PROVE  /\ {ring', keyfile'} \subseteq Nat
           /\ fernet' \in FernetKeys \cup {NoKey}
           /\ made' \in Nat
           /\ KeyIsBad => KeyIsBad'
           /\ fernet # NoKey => fernet' = fernet
           /\ ~moved' /\ fernet' # NoKey => fernet' = KeyToFind'
           /\ ~moved' /\ KeyToFind # NoKey => KeyToFind' = KeyToFind
<1>1. CASE ResolveKey
  BY <1>1, ResolvingFindsKey DEF KeyStep
<1>2. CASE UNCHANGED keyVars
  BY <1>2 DEF KeyStep, keyVars, ProfilesTypeOK, KeyIsFound, KeyToFind, FileTier, KeyIsBad
<1>3. CASE KeyFileIsCut
  <2>1. fernet' = NoKey /\ ~KeyIsBad
    BY <1>3, CutFindsKey, KeysAreKeys DEF KeyStep, KeyFileIsCut, KeyIsBad
  <2> QED
    BY <1>3, <2>1, CutFindsKey DEF KeyStep
<1> QED
  BY <1>1, <1>2, <1>3 DEF KeyStep, KeyFileFails

------------------------------------------------------------------------------
(* Types.                                                                  *)

LEMMA BoundsAreNumbers == MaxFaults \in Nat /\ MaxEnds \in Nat /\ MaxMoves \in Nat
BY ProfilesAssumption

LEMMA TypesFromStart == ProfilesInit => ProfilesTypeOK
<1> SUFFICES ASSUME ProfilesInit PROVE ProfilesTypeOK
  OBVIOUS
<1> USE KeysAreKeys
<1>1. disk \in [Ids -> Credentials \cup {Absent}]
  BY PlainIsCredential DEF ProfilesInit
<1>2. told \in [Ids -> Passwords \cup {"nothing"}]
  <2>1. \A i \in Ids : disk[i].says \in Passwords \cup {"nothing"}
    <3> SUFFICES ASSUME NEW i \in Ids PROVE disk[i].says \in Passwords \cup {"nothing"}
      OBVIOUS
    <3>1. Absent.says = "nothing"
      BY DEF Absent
    <3>2. disk[i] \in {Plain(p) : p \in Passwords} \cup {Absent}
      BY DEF ProfilesInit
    <3> QED
      BY <3>1, <3>2, PlainIsCredential
  <2> QED
    BY <2>1 DEF ProfilesInit
<1>3. /\ fernet \in FernetKeys \cup {NoKey} /\ {env, ring, keyfile} \subseteq Nat
      /\ made \in Nat
  BY DEF ProfilesInit
<1>4. memory \in [Ids -> Credentials \cup {Absent}] /\ held \in [Ids -> Credentials \cup {Absent}]
  BY DEF ProfilesInit
<1>5. faults \in 0..MaxFaults /\ ends \in 0..MaxEnds /\ moves \in 0..MaxMoves
  BY BoundsAreNumbers DEF ProfilesInit
<1> QED
  BY <1>1, <1>2, <1>3, <1>4, <1>5 DEF ProfilesInit, ProfilesTypeOK

LEMMA FaultStaysInBounds ==
    ASSUME ProfilesTypeOK, NEW n \in Nat, Fault(n) PROVE faults' \in 0..MaxFaults
<1>1. faults \in Nat /\ MaxFaults \in Nat
  BY BoundsAreNumbers DEF ProfilesTypeOK
<1> QED
  BY <1>1 DEF Fault

LEMMA HolderRemembers ==
    ASSUME ProfilesTypeOK
    PROVE  /\ holder.to \in {"save", "unlink"} => holder \in Holding
           /\ holder.to \in {"save", "unlink"} => holder.old \in Credentials \cup {Absent}
<1>1. holder \in Holding \cup {Free}
  BY DEF ProfilesTypeOK
<1> QED
  BY <1>1 DEF Holding, Free

LEMMA TypesOfRoutes ==
    ASSUME ProfilesTypeOK, KeyIsFound, NEW i \in Ids, AtWork(i), Routes(i)
    PROVE  ProfilesTypeOK'
<1>1. ASSUME NEW c \in Credentials, Enter(i, c) PROVE ProfilesTypeOK'
  <2>1. memory' \in [Ids -> Credentials \cup {Absent}]
    BY <1>1 DEF ProfilesTypeOK, Enter
  <2>2. holder' \in Holding
    BY <1>1 DEF ProfilesTypeOK, Enter, Holding
  <2> QED
    BY <1>1, <2>1, <2>2 DEF ProfilesTypeOK, Enter, world, keyVars
<1>2. ASSUME NEW p \in Passwords, Create(i, p) \/ ChangePassword(i, p) PROVE ProfilesTypeOK'
  BY <1>1, <1>2, PlainIsCredential DEF Create, ChangePassword
<1>3. CASE ChangeOther(i)
  BY <1>1, <1>3 DEF ChangeOther, ProfilesTypeOK
<1>4. CASE Save(i)
  <2>1. ResolveKey /\ UNCHANGED <<env, backend>>
    BY <1>4 DEF Save, world
  <2>2. {ring', keyfile'} \subseteq Nat /\ made' \in Nat /\ fernet' \in FernetKeys
    BY <2>1, ResolvingFindsKey
  <2>3. memory[i] \in Credentials
    BY <1>4 DEF Save, AtWork, At
  <2>4. Encrypted(memory[i], fernet') \in Credentials
    BY <2>2, <2>3, EncryptedIsCredential
  <2>5. memory[i].says \in Passwords
    BY <2>3 DEF Credentials
  <2>6. disk' \in [Ids -> Credentials \cup {Absent}]
    BY <1>4, <2>4 DEF Save, ProfilesTypeOK
  <2>7. told' \in [Ids -> Passwords \cup {"nothing", "failed", "gone", "unsure"}]
    BY <1>4, <2>5 DEF Save, ProfilesTypeOK
  <2> QED
    BY <1>4, <2>2, <2>6, <2>7 DEF Save, ProfilesTypeOK, world
<1>5. CASE ProfileSaveFails(i)
  <2>1. KeyStep
    BY <1>5 DEF ProfileSaveFails, KeyStep, world
  <2>2. /\ {ring', keyfile'} \subseteq Nat /\ made' \in Nat
        /\ fernet' \in FernetKeys \cup {NoKey}
    BY <2>1, KeyStepFindsKey
  <2>3. memory' \in [Ids -> Credentials \cup {Absent}]
    BY <1>5, HolderRemembers DEF ProfileSaveFails, ProfilesTypeOK
  <2>4. told' \in [Ids -> Passwords \cup {"nothing", "failed", "gone", "unsure"}]
    BY <1>5 DEF ProfileSaveFails, ProfilesTypeOK
  <2>5. faults' \in 0..MaxFaults
    BY <1>5, FaultStaysInBounds DEF ProfileSaveFails
  <2> QED
    BY <1>5, <2>2, <2>3, <2>4, <2>5 DEF ProfileSaveFails, ProfilesTypeOK, world
<1>6. CASE Delete(i)
  <2>1. holder' \in Holding
    BY <1>6 DEF ProfilesTypeOK, Delete, Holding
  <2> QED
    BY <1>6, <2>1 DEF ProfilesTypeOK, Delete, world, keyVars
<1>7. CASE Unlink(i)
  BY <1>7 DEF ProfilesTypeOK, Unlink, world, keyVars
<1>8. CASE UnlinkFails(i)
  <2>1. memory' \in [Ids -> Credentials \cup {Absent}]
    BY <1>8, HolderRemembers DEF UnlinkFails, ProfilesTypeOK
  <2>2. faults' \in 0..MaxFaults
    BY <1>8, FaultStaysInBounds DEF UnlinkFails
  <2> QED
    BY <1>8, <2>1, <2>2 DEF ProfilesTypeOK, UnlinkFails, world, keyVars
<1>9. CASE KeyRefused(i)
  BY <1>9 DEF ProfilesTypeOK, KeyRefused, world, keyVars
<1> QED
  BY <1>1, <1>2, <1>3, <1>4, <1>5, <1>6, <1>7, <1>8, <1>9 DEF Routes

LEMMA TypesOfBackups ==
    ASSUME ProfilesTypeOK, KeyIsFound, NEW i \in Ids, Backups(i)
    PROVE  ProfilesTypeOK'
<1>1. CASE StartBackup(i)
  BY <1>1 DEF ProfilesTypeOK, StartBackup, world, keyVars
<1>2. CASE SaveFacts(i)
  <2>1. ResolveKey /\ UNCHANGED <<env, backend>>
    BY <1>2 DEF SaveFacts, world
  <2>2. {ring', keyfile'} \subseteq Nat /\ made' \in Nat /\ fernet' \in FernetKeys
    BY <2>1, ResolvingFindsKey
  <2>3. Encrypted(memory[i], fernet') \in Credentials
    BY <1>2, <2>2, EncryptedIsCredential DEF SaveFacts, ProfilesTypeOK
  <2>4. disk' \in [Ids -> Credentials \cup {Absent}]
    BY <1>2, <2>3 DEF SaveFacts, ProfilesTypeOK
  <2> QED
    BY <1>2, <2>2, <2>4 DEF SaveFacts, ProfilesTypeOK, world
<1>3. CASE DropFacts(i)
  BY <1>3 DEF DropFacts, ProfilesTypeOK, world, keyVars
<1> QED
  BY <1>1, <1>2, <1>3 DEF Backups

LEMMA TypesOfCrash == ProfilesTypeOK /\ EndProcess => ProfilesTypeOK'
<1> SUFFICES ASSUME ProfilesTypeOK, EndProcess PROVE ProfilesTypeOK'
  OBVIOUS
<1>1. told' \in [Ids -> Passwords \cup {"nothing", "failed", "gone", "unsure"}]
  BY DEF EndProcess, ProfilesTypeOK
<1>2. memory' \in [Ids -> Credentials \cup {Absent}] /\ held' \in [Ids -> Credentials \cup {Absent}]
  BY DEF EndProcess
<1>3. ends' \in 0..MaxEnds
  BY BoundsAreNumbers DEF EndProcess, ProfilesTypeOK
<1>4. {ring', keyfile'} \subseteq Nat /\ made' \in Nat
  BY CutFindsKey DEF EndProcess, ProfilesTypeOK, world
<1> QED
  BY <1>1, <1>2, <1>3, <1>4 DEF EndProcess, ProfilesTypeOK, world

LEMMA TypesOfMove == ProfilesTypeOK /\ Move => ProfilesTypeOK'
<1> SUFFICES ASSUME ProfilesTypeOK, Move PROVE ProfilesTypeOK'
  OBVIOUS
<1>1. moves' \in 0..MaxMoves
  BY BoundsAreNumbers DEF Move, ProfilesTypeOK
<1>2. env' \in Nat /\ backend' \in {"works", "readonly", "none"}
  BY KeysAreKeys DEF Move, ProfilesTypeOK
<1>3. moved' \in BOOLEAN
  BY DEF Move, ProfilesTypeOK
<1> QED
  BY <1>1, <1>2, <1>3 DEF Move, ProfilesTypeOK, keyVars

(* What a start does, with the key that it resolves.                       *)
LEMMA StartUsesKey ==
    ASSUME ProfilesTypeOK, KeyIsFound, Start
    PROVE  /\ fernet = NoKey
           /\ UNCHANGED <<env, backend, moved>>
           /\ {ring', keyfile'} \subseteq Nat /\ made' \in Nat
           /\ fernet' \in FernetKeys \cup {NoKey}
           /\ Written # {} => fernet' # NoKey
           /\ ~moved /\ fernet' # NoKey => fernet' = KeyToFind'
           /\ ~moved /\ KeyToFind # NoKey => KeyToFind' = KeyToFind
<1>1. UNCHANGED <<env, backend, moved>> /\ fernet = NoKey
  BY DEF Start, world, KeyIsFound
<1>2. CASE Written = {}
  BY <1>1, <1>2 DEF Start, keyVars, ProfilesTypeOK, KeyToFind, FileTier
<1>3. CASE Written # {}
  <2>1. ResolveKey
    BY <1>3 DEF Start
  <2> QED
    BY <1>1, <2>1, ResolvingFindsKey, KeysAreKeys
<1> QED
  BY <1>1, <1>2, <1>3

LEMMA TypesOfStart ==
    ASSUME ProfilesTypeOK, KeyIsFound, Start
    PROVE  ProfilesTypeOK'
<1>1. PICK failing \in SUBSET Written :
        /\ Fault(Cardinality(failing))
        /\ skipped' = failing
        /\ memory' = [i \in Ids |->
                        IF i \in failing THEN Absent ELSE Decrypted(disk[i], fernet')]
        /\ disk' = [i \in Ids |->
                        IF i \in Legacy \ failing THEN Encrypted(disk[i], fernet') ELSE disk[i]]
  BY DEF Start
<1>2. /\ {ring', keyfile'} \subseteq Nat /\ made' \in Nat
      /\ fernet' \in FernetKeys \cup {NoKey}
  BY StartUsesKey
<1>3. Written \subseteq Ids /\ Legacy \subseteq Written
  BY DEF Legacy, Written
<1>4. faults' \in 0..MaxFaults
  <2>1. IsFiniteSet(failing)
    BY <1>3, ProfilesAssumption, FS_Subset
  <2>2. Cardinality(failing) \in Nat
    BY <2>1, FS_CardinalityType
  <2> QED
    BY <1>1, <2>2, FaultStaysInBounds
<1>5. \A i \in Ids : Decrypted(disk[i], fernet') \in Credentials \cup {Absent}
  BY <1>2, DecryptedIsCredential DEF ProfilesTypeOK
<1>6. \A i \in Legacy : Encrypted(disk[i], fernet') \in Credentials
  <2> SUFFICES ASSUME NEW i \in Legacy PROVE Encrypted(disk[i], fernet') \in Credentials
    OBVIOUS
  <2>1. fernet' \in FernetKeys
    BY <1>2, <1>3, StartUsesKey
  <2>2. disk[i] \in Credentials
    BY DEF Legacy, Written, ProfilesTypeOK
  <2> QED
    BY <2>1, <2>2, EncryptedIsCredential
<1>7. memory' \in [Ids -> Credentials \cup {Absent}]
  BY <1>1, <1>5
<1>8. disk' \in [Ids -> Credentials \cup {Absent}]
  BY <1>1, <1>6 DEF ProfilesTypeOK
<1> QED
  BY <1>1, <1>2, <1>3, <1>4, <1>7, <1>8 DEF Start, ProfilesTypeOK, world

LEMMA TypesOfStartWithoutKey ==
    ASSUME ProfilesTypeOK, KeyIsFound, StartWithoutKey
    PROVE  ProfilesTypeOK'
<1>1. /\ {ring', keyfile'} \subseteq Nat /\ made' \in Nat
      /\ fernet' = fernet
  BY CutFindsKey DEF StartWithoutKey, KeyFileFails, KeyFileIsCut, ProfilesTypeOK, keyVars, world
<1>2. faults' \in 0..MaxFaults
  BY FaultStaysInBounds DEF StartWithoutKey, ProfilesTypeOK
<1>3. Written \subseteq Ids
  BY DEF Written
<1> QED
  BY <1>1, <1>2, <1>3 DEF StartWithoutKey, ProfilesTypeOK, world

------------------------------------------------------------------------------
(* A profile that a step leaves alone, whatever it does to another one or  *)
(* to the key.                                                             *)
Untouched(i) ==
    /\ memory'[i] = memory[i]
    /\ disk'[i] = disk[i]
    /\ told'[i] = told[i]
    /\ Before(i)' = Before(i)
    /\ At(i, "save")' <=> At(i, "save")
    /\ At(i, "unlink")' <=> At(i, "unlink")
    /\ skipped' = skipped

LEMMA BeforeIsCredential ==
    ASSUME ProfilesTypeOK, NEW i \in Ids
    PROVE  Before(i) \in Credentials \cup {Absent}
<1>1. CASE Resting(i)
  BY <1>1 DEF Before, ProfilesTypeOK
<1>2. CASE ~Resting(i)
  BY <1>2, HolderRemembers DEF Before, Resting, At
<1> QED
  BY <1>1, <1>2

LEMMA MatchesStays ==
    ASSUME ProfilesTypeOK, KeyIsFound, KeyStep, NEW i \in Ids, Matches(i),
           disk'[i] = disk[i], Before(i)' = Before(i)
    PROVE  Matches(i)'
<1>1. CASE fernet # NoKey
  <2>1. fernet' = fernet
    BY <1>1, KeyStepFindsKey
  <2> QED
    BY <2>1 DEF Matches
<1>2. CASE fernet = NoKey
  <2>1. disk[i] = Absent
    BY <1>2 DEF Matches
  <2>2. Decrypted(Absent, fernet) = Absent /\ Decrypted(Absent, fernet') = Absent
    BY AbsentIsNone DEF Decrypted, IsPlain
  <2> QED
    BY <2>1, <2>2 DEF Matches
<1> QED
  BY <1>1, <1>2

LEMMA AheadStays ==
    ASSUME ProfilesTypeOK, KeyIsFound, KeyStep, NEW i \in Ids, Ahead(i),
           disk'[i] = disk[i], told'[i] = told[i], Before(i)' = Before(i)
    PROVE  Ahead(i)'
<1>1. KeyIsBad' /\ moved' = moved
  BY KeyStepFindsKey DEF Ahead, OnlyInMemory, KeyStep
<1> QED
  BY <1>1 DEF Ahead, OnlyInMemory, IsPlain

LEMMA ReadableStays ==
    ASSUME ProfilesTypeOK, KeyIsFound, NEW i \in Ids, Readable(disk[i]), disk'[i] = disk[i],
           KeyToFind \in FernetKeys => KeyToFind' = KeyToFind
    PROVE  Readable(disk[i])'
<1>1. CASE IsPlain(disk[i])
  BY <1>1 DEF Readable, IsPlain
<1>2. CASE ~IsPlain(disk[i])
  <2>1. KeyToFind \in FernetKeys
    BY <1>2 DEF Readable
  <2>2. PICK p \in Passwords : disk[i] = Encrypted(Plain(p), KeyToFind)
    BY <1>2 DEF Readable
  <2>3. disk'[i] = Encrypted(Plain(p), KeyToFind') /\ KeyToFind' \in FernetKeys
    BY <2>1, <2>2
  <2>4. \E q \in Passwords : disk'[i] = Encrypted(Plain(q), KeyToFind')
    BY <2>3
  <2> QED
    BY <2>3, <2>4 DEF Readable, Encrypted, Plain
<1> QED
  BY <1>1, <1>2

LEMMA UntouchedStaysSound ==
    ASSUME IInv, KeyStep, NEW i \in Ids, Untouched(i)
    PROVE  SoundProfile(i)'
<1> USE DEF IInv
<1>0. SoundProfile(i) /\ moved' = moved /\ up' = up /\ disk'[i] = disk[i]
  BY DEF KeyStep, Untouched
<1>1. Told(i)'
  BY <1>0 DEF SoundProfile, Told, Untouched, Resting
<1>2. AtWork(i)'
  BY <1>0 DEF SoundProfile, AtWork, Untouched
<1>3. up' /\ i \notin skipped' => Matches(i)' \/ Ahead(i)'
  BY <1>0, MatchesStays, AheadStays DEF SoundProfile, Untouched
<1>4. i \in skipped' => LeftOut(i)'
  BY <1>0 DEF SoundProfile, LeftOut, Untouched, Resting
<1>5. ~moved' => Readable(disk[i])'
  BY <1>0, KeyStepFindsKey, KeysAreKeys, ReadableStays DEF SoundProfile
<1> QED
  BY <1>1, <1>2, <1>3, <1>4, <1>5 DEF SoundProfile

(* Whatever a step does to i, it does not do to j.                         *)
LEMMA OthersAreUntouched ==
    ASSUME IInv, NEW i \in Ids, NEW j \in Ids, i # j, Routes(i) \/ Backups(i)
    PROVE  KeyStep /\ Untouched(j)
<1> USE DEF IInv
<1>1. KeyStep
  BY DEF Routes, Backups, Create, ChangePassword, ChangeOther, Enter, Save, ProfileSaveFails,
         KeyRefused, Delete, Unlink, UnlinkFails, StartBackup, SaveFacts, DropFacts, KeyStep, world
<1>2. UNCHANGED skipped
  BY DEF Routes, Backups, Create, ChangePassword, ChangeOther, Enter, Save, ProfileSaveFails,
         KeyRefused, Delete, Unlink, UnlinkFails, StartBackup, SaveFacts, DropFacts
<1>3. memory'[j] = memory[j]
  BY DEF Routes, Backups, Create, ChangePassword, ChangeOther, Enter, Save, ProfileSaveFails,
         KeyRefused, Delete, Unlink, UnlinkFails, StartBackup, SaveFacts, DropFacts, ProfilesTypeOK
<1>4. disk'[j] = disk[j]
  BY DEF Routes, Backups, Create, ChangePassword, ChangeOther, Enter, Save, ProfileSaveFails,
         KeyRefused, Delete, Unlink, UnlinkFails, StartBackup, SaveFacts, DropFacts, ProfilesTypeOK
<1>5. told'[j] = told[j]
  BY DEF Routes, Backups, Create, ChangePassword, ChangeOther, Enter, Save, ProfileSaveFails,
         KeyRefused, Delete, Unlink, UnlinkFails, StartBackup, SaveFacts, DropFacts, ProfilesTypeOK
<1>6. Free.to = "none"
  BY DEF Free
<1>7. (Resting(j) /\ Resting(j)') \/ UNCHANGED holder
  <2>1. ASSUME NEW c, Enter(i, c) PROVE Resting(j) /\ Resting(j)'
    BY <1>6, <2>1 DEF Enter, Resting, At
  <2>2. CASE \/ \E p \in Passwords : Create(i, p) \/ ChangePassword(i, p)
             \/ ChangeOther(i)
    BY <2>1, <2>2 DEF Create, ChangePassword, ChangeOther
  <2>3. CASE Save(i) \/ ProfileSaveFails(i) \/ KeyRefused(i) \/ Unlink(i) \/ UnlinkFails(i)
    BY <1>6, <2>3 DEF Save, ProfileSaveFails, KeyRefused, Unlink, UnlinkFails, Resting, At
  <2>4. CASE Delete(i)
    BY <1>6, <2>4 DEF Delete, Resting, At
  <2>5. CASE SaveFacts(i) \/ DropFacts(i)
    BY <1>6, <2>5 DEF SaveFacts, DropFacts, Resting, At
  <2>6. CASE StartBackup(i)
    BY <2>6 DEF StartBackup
  <2> QED
    BY <2>2, <2>3, <2>4, <2>5, <2>6 DEF Routes, Backups
<1> QED
  BY <1>1, <1>2, <1>3, <1>4, <1>5, <1>7 DEF Untouched, Before, Resting, At

------------------------------------------------------------------------------
(* Its own step.                                                           *)

(* A profile in memory that no route is at work on was read from its file. *)
LEMMA InMemoryIsFromFile ==
    ASSUME IInv, NEW i \in Ids, up, Resting(i), memory[i] # Absent, ~KeyIsBad
    PROVE  /\ i \notin skipped
           /\ memory[i] \in Credentials
           /\ memory[i] = Decrypted(disk[i], fernet)
           /\ disk[i] \in Credentials
           /\ ~IsPlain(disk[i])
           /\ fernet \in FernetKeys
           /\ memory[i].says = disk[i].says
           /\ told[i] \notin {"gone", "nothing"}
<1> USE DEF IInv
<1>1. SoundProfile(i) /\ i \notin skipped
  BY DEF SoundProfile, LeftOut
<1>2. Matches(i) /\ Before(i) = memory[i]
  BY <1>1 DEF SoundProfile, Before, Ahead, OnlyInMemory
<1>3. memory[i] \in Credentials /\ fernet \in FernetKeys \cup {NoKey} /\ disk[i] \in Credentials \cup {Absent}
  BY DEF ProfilesTypeOK
<1>4. disk[i] # Absent
  BY <1>2, <1>3, DecryptedIsCredential DEF Matches
<1>5. fernet \in FernetKeys /\ ~IsPlain(disk[i]) /\ disk[i] \in Credentials
  BY <1>2, <1>3, <1>4 DEF Matches
<1>6. memory[i].says = disk[i].says
  <2>1. memory[i] = Decrypted(disk[i], fernet)
    BY <1>2 DEF Matches
  <2>2. Decrypted(disk[i], fernet).says = disk[i].says
    BY <1>5, DecryptedIsCredential
  <2> QED
    BY <2>1, <2>2
<1>7. told[i] \notin {"gone", "nothing"}
  BY <1>1, <1>4 DEF SoundProfile, Told
<1> QED
  BY <1>1, <1>2, <1>3, <1>5, <1>6, <1>7 DEF Matches

(* With a key that is none it is there alone.                              *)
LEMMA InMemoryIsAhead ==
    ASSUME IInv, NEW i \in Ids, up, Before(i) # Absent, KeyIsBad
    PROVE  i \notin skipped /\ Ahead(i)
<1> USE DEF IInv
<1>1. SoundProfile(i) /\ fernet = NoKey
  BY DEF KeyIsBad
<1>2. i \notin skipped
  BY <1>1 DEF SoundProfile, LeftOut, Before
<1>3. ASSUME Matches(i) PROVE FALSE
  <2>1. disk[i] = Absent /\ Before(i) = Absent
    BY <1>1, <1>3, AbsentIsNone DEF Matches, Decrypted, IsPlain
  <2> QED
    BY <2>1
<1> QED
  BY <1>1, <1>2, <1>3 DEF SoundProfile

(* As long as the key did not move it is in the clear there.               *)
LEMMA InMemoryIsPlain ==
    ASSUME IInv, NEW i \in Ids, up, Resting(i), memory[i] # Absent, ~moved
    PROVE  IsPlain(memory[i])
<1> SUFFICES ASSUME ~KeyIsBad PROVE IsPlain(memory[i])
  BY InMemoryIsAhead DEF Ahead, Before
<1>1. Readable(disk[i]) /\ ~IsPlain(disk[i]) /\ fernet = KeyToFind /\ fernet \in FernetKeys
  BY InMemoryIsFromFile, KeysAreKeys DEF IInv, SoundProfile, KeyIsFound
<1>2. PICK p \in Passwords : disk[i] = Encrypted(Plain(p), fernet)
  BY <1>1 DEF Readable
<1>3. Decrypted(disk[i], fernet) = Plain(p)
  BY <1>1, <1>2, EncryptedIsCredential, PlainIsCredential
<1> QED
  BY <1>3, InMemoryIsFromFile, PlainIsCredential

LEMMA EnteringKeepsSound ==
    ASSUME IInv, NEW i \in Ids, NEW c \in Credentials, Enter(i, c), ~moved => IsPlain(c),
           told[i] # "gone", memory[i] # Absent \/ told[i] = "nothing"
    PROVE  SoundProfile(i)'
<1> USE DEF IInv
<1>1. SoundProfile(i) /\ Resting(i) /\ Before(i) = memory[i] /\ up
  BY DEF Enter, Free, Resting, At, Before
<1>2. /\ At(i, "save")' /\ ~At(i, "unlink")' /\ holder'.old = memory[i]
      /\ memory'[i] = c
      /\ UNCHANGED <<disk, told, skipped, up, fernet, moved, KeyToFind>>
  BY DEF Enter, At, ProfilesTypeOK, keyVars, world, KeyToFind, FileTier
<1>3. Before(i)' = Before(i)
  BY <1>1, <1>2 DEF Before, Resting
<1>4. i \notin skipped
  BY <1>1 DEF SoundProfile, LeftOut, Told
<1>5. Told(i)'
  BY <1>1, <1>2, <1>3 DEF SoundProfile, Told
<1>6. AtWork(i)'
  BY <1>2 DEF AtWork
<1>7. Matches(i)' \/ Ahead(i)'
  BY <1>1, <1>2, <1>3, <1>4 DEF SoundProfile, Matches, Ahead, OnlyInMemory, KeyIsBad
<1>8. ~moved' => Readable(disk[i])'
  BY <1>1, <1>2 DEF SoundProfile, Readable
<1> QED
  BY <1>2, <1>4, <1>5, <1>6, <1>7, <1>8 DEF SoundProfile

LEMMA SavingKeepsSound ==
    ASSUME IInv, NEW i \in Ids, Resting(i)', UNCHANGED <<memory, skipped, up, moved, env, backend>>,
           i \notin skipped, memory[i] \in Credentials, ResolveKey, ~moved => IsPlain(memory[i]),
           disk' = [disk EXCEPT ![i] = Encrypted(memory[i], fernet')],
           told'[i] \notin {"gone", "nothing"},
           told'[i] \in Passwords => told'[i] = memory[i].says
    PROVE  SoundProfile(i)'
<1> USE DEF IInv
<1>1. fernet' \in FernetKeys /\ (~moved => fernet' = KeyToFind')
  BY ResolvingFindsKey DEF ProfilesTypeOK
<1>2. disk'[i] = Encrypted(memory[i], fernet')
  BY DEF ProfilesTypeOK
<1>3. /\ disk'[i] \in Credentials /\ ~IsPlain(disk'[i]) /\ disk'[i].says = memory[i].says
      /\ Decrypted(disk'[i], fernet') = memory[i]
  BY <1>1, <1>2, EncryptedIsCredential
<1>4. Before(i)' = memory[i]
  BY DEF Before
<1>5. Told(i)'
  BY <1>3 DEF Told
<1>6. AtWork(i)'
  BY DEF AtWork, Resting
<1>7. Matches(i)'
  BY <1>1, <1>3, <1>4, KeysAreKeys DEF Matches
<1>8. ASSUME ~moved' PROVE Readable(disk[i])'
  <2>1. memory[i] = Plain(memory[i].says) /\ memory[i].says \in Passwords
    BY <1>8, PlainIsAsItSays
  <2>2. fernet' = KeyToFind' /\ KeyToFind' \in FernetKeys
    BY <1>1, <1>8
  <2>3. \E p \in Passwords : disk'[i] = Encrypted(Plain(p), KeyToFind')
    BY <1>2, <2>1, <2>2
  <2> QED
    BY <2>2, <2>3 DEF Readable, Encrypted, Plain
<1> QED
  BY <1>5, <1>6, <1>7, <1>8 DEF SoundProfile

LEMMA RollingBackKeepsSound ==
    ASSUME IInv, KeyStep, NEW i \in Ids, ~Resting(i), holder' = Free,
           memory' = [memory EXCEPT ![i] = holder.old], UNCHANGED <<disk, skipped>>,
           told'[i] \in {told[i], "failed"}
    PROVE  SoundProfile(i)'
<1> USE DEF IInv
<1>0. SoundProfile(i) /\ moved' = moved /\ up' = up
  BY DEF KeyStep
<1>1. Resting(i)' /\ Before(i)' = Before(i)
  BY DEF Resting, At, Free, Before, ProfilesTypeOK
<1>2. told[i] # "gone" /\ i \notin skipped
  BY <1>0 DEF SoundProfile, Told, LeftOut
<1>3. Told(i)'
  <2>1. "failed" \notin Passwords
    BY ProfilesAssumption
  <2> QED
    BY <1>0, <1>1, <1>2, <2>1 DEF SoundProfile, Told
<1>4. AtWork(i)'
  BY <1>1 DEF AtWork, Resting
<1>5. up' => Matches(i)' \/ Ahead(i)'
  <2>1. ASSUME Ahead(i) PROVE Ahead(i)'
    <3>1. told'[i] = told[i]
      BY <2>1 DEF Ahead, OnlyInMemory
    <3> QED
      BY <1>1, <2>1, <3>1, AheadStays
  <2> QED
    BY <1>0, <1>1, <1>2, <2>1, MatchesStays DEF SoundProfile
<1>6. ~moved' => Readable(disk[i])'
  BY <1>0, KeyStepFindsKey, KeysAreKeys, ReadableStays DEF SoundProfile
<1> QED
  BY <1>2, <1>3, <1>4, <1>5, <1>6 DEF SoundProfile

LEMMA ItsOwnStep ==
    ASSUME IInv, NEW i \in Ids, Routes(i) \/ Backups(i)
    PROVE  SoundProfile(i)'
<1> USE DEF IInv
<1>0. SoundProfile(i)
  OBVIOUS
<1>1. ASSUME NEW p \in Passwords, Create(i, p) PROVE SoundProfile(i)'
  BY <1>1, EnteringKeepsSound, PlainIsCredential DEF Create
<1>2. ASSUME NEW p \in Passwords, ChangePassword(i, p) PROVE SoundProfile(i)'
  <2>1. memory[i] # Absent /\ told[i] # "gone"
    BY <1>0, <1>2 DEF ChangePassword, SoundProfile, Told
  <2> QED
    BY <1>2, <2>1, EnteringKeepsSound, PlainIsCredential DEF ChangePassword
<1>3. CASE ChangeOther(i)
  <2>1. up /\ Resting(i) /\ memory[i] \in Credentials \ {Absent} /\ told[i] # "gone"
    BY <1>0, <1>3, AbsentIsNone
       DEF ChangeOther, Enter, Free, Resting, At, SoundProfile, Told, ProfilesTypeOK
  <2> QED
    BY <1>3, <2>1, InMemoryIsPlain, EnteringKeepsSound DEF ChangeOther
<1>4. CASE Save(i)
  <2>1. At(i, "save")
    BY <1>4 DEF Save, At
  <2>2. memory[i] \in Credentials /\ i \notin skipped /\ (~moved => IsPlain(memory[i]))
    BY <1>0, <2>1 DEF SoundProfile, AtWork, LeftOut, Resting
  <2>3. memory[i].says \in Passwords /\ told'[i] = memory[i].says
    BY <1>4, <2>2 DEF Save, ProfilesTypeOK, Credentials
  <2>4. Resting(i)'
    BY <1>4 DEF Save, Resting, At, Free
  <2>5. told'[i] \notin {"gone", "nothing"}
    BY <2>3, ProfilesAssumption
  <2> QED
    BY <1>4, <2>2, <2>3, <2>4, <2>5, SavingKeepsSound DEF Save, world
<1>5. CASE ProfileSaveFails(i)
  <2>1. ~Resting(i)
    BY <1>5 DEF ProfileSaveFails, Resting, At
  <2>2. KeyStep
    BY <1>5 DEF ProfileSaveFails, KeyStep, world
  <2>3. told'[i] \in {told[i], "failed"}
    BY <1>5 DEF ProfileSaveFails, ProfilesTypeOK
  <2> QED
    BY <1>5, <2>1, <2>2, <2>3, RollingBackKeepsSound DEF ProfileSaveFails
<1>6. CASE Delete(i)
  <2>1. up /\ Resting(i) /\ memory[i] # Absent
    BY <1>6 DEF Delete, Free, Resting, At
  <2>2. At(i, "unlink")' /\ ~At(i, "save")' /\ holder'.old = memory[i] /\ memory'[i] = Absent
    BY <1>6 DEF Delete, At, ProfilesTypeOK
  <2>3. Before(i)' = Before(i)
    BY <2>1, <2>2 DEF Before, Resting
  <2>4. i \notin skipped /\ told[i] \notin {"gone", "nothing"}
    BY <1>0, <2>1 DEF SoundProfile, LeftOut, Told, Before
  <2>5. Told(i)' /\ AtWork(i)'
    BY <1>0, <1>6, <2>2, <2>3, <2>4 DEF Delete, SoundProfile, Told, AtWork
  <2>6. Matches(i)' \/ Ahead(i)'
    <3>1. UNCHANGED <<disk, told, fernet, moved, KeyToFind>>
      BY <1>6 DEF Delete, keyVars, world, KeyToFind, FileTier
    <3> QED
      BY <1>0, <2>1, <2>3, <2>4, <3>1 DEF SoundProfile, Matches, Ahead, OnlyInMemory, KeyIsBad
  <2>7. ~moved' => Readable(disk[i])'
    BY <1>0, <1>6 DEF Delete, SoundProfile, Readable, keyVars, world, KeyToFind, FileTier
  <2> QED
    BY <1>6, <2>4, <2>5, <2>6, <2>7 DEF SoundProfile, Delete
<1>7. CASE Unlink(i)
  <2>1. At(i, "unlink")
    BY <1>7 DEF Unlink, At
  <2>2. memory[i] = Absent /\ i \notin skipped
    BY <1>0, <2>1 DEF SoundProfile, AtWork, LeftOut, Resting
  <2>3. Resting(i)' /\ disk'[i] = Absent /\ memory'[i] = Absent /\ told'[i] = "gone"
    BY <1>7, <2>2 DEF Unlink, Resting, At, Free, ProfilesTypeOK
  <2>4. Told(i)' /\ AtWork(i)'
    BY <2>3, ProfilesAssumption DEF Told, AtWork, Resting
  <2>5. Matches(i)'
    BY <2>3, AbsentIsNone DEF Matches, Before, Decrypted, IsPlain
  <2>6. Readable(disk[i])'
    BY <2>3, AbsentIsNone DEF Readable, IsPlain
  <2> QED
    BY <1>7, <2>2, <2>4, <2>5, <2>6 DEF SoundProfile, Unlink
<1>8. CASE UnlinkFails(i)
  <2>1. ~Resting(i)
    BY <1>8 DEF UnlinkFails, Resting, At
  <2>2. KeyStep
    BY <1>8 DEF UnlinkFails, KeyStep, world
  <2> QED
    BY <1>8, <2>1, <2>2, RollingBackKeepsSound DEF UnlinkFails
<1>9. CASE SaveFacts(i)
  <2>1. Resting(i) /\ memory[i] # Absent
    BY <1>9 DEF SaveFacts, Free, Resting, At
  <2>2. up /\ ~KeyIsBad
    BY <1>9, <2>1, ResolvingFindsKey DEF SaveFacts, world
  <2>3. /\ i \notin skipped /\ memory[i] \in Credentials /\ memory[i].says = disk[i].says
        /\ told[i] \notin {"gone", "nothing"} /\ (~moved => IsPlain(memory[i]))
    BY <2>1, <2>2, InMemoryIsFromFile, InMemoryIsPlain
  <2>4. Resting(i)' /\ told' = told
    BY <1>9 DEF SaveFacts, Resting, At, Free
  <2>5. told[i] \in Passwords => told[i] = memory[i].says
    BY <1>0, <2>3 DEF SoundProfile, Told
  <2> QED
    BY <1>9, <2>3, <2>4, <2>5, SavingKeepsSound DEF SaveFacts, world
<1>10. CASE StartBackup(i) \/ DropFacts(i)
  <2>1. KeyStep
    BY <1>10 DEF StartBackup, DropFacts, KeyStep, world
  <2>2. Untouched(i)
    BY <1>10 DEF StartBackup, DropFacts, Untouched, Before, Resting, At
  <2> QED
    BY <2>1, <2>2, UntouchedStaysSound
<1>11. CASE KeyRefused(i)
  <2>1. ~Resting(i) /\ up /\ KeyIsBad /\ fernet = NoKey /\ (holder.old = Absent => Before(i) = Absent)
    BY <1>11 DEF KeyRefused, KeyIsBad, Resting, At, Before, KeyIsFound, Free
  <2>2. /\ Resting(i)' /\ memory'[i] = memory[i] /\ Before(i)' = memory[i]
        /\ UNCHANGED <<disk, skipped, up, moved, fernet, KeyToFind>>
    BY <1>11 DEF KeyRefused, Resting, At, Free, Before, keyVars, world, KeyToFind, FileTier
  <2>3. i \notin skipped /\ disk[i] = Absent /\ told[i] # "gone"
    BY <1>0, <2>1 DEF SoundProfile, LeftOut, Told, Matches, Ahead, OnlyInMemory
  <2>4. told'[i] = "failed"
    <3>1. CASE holder.old = Absent
      BY <1>11, <3>1 DEF KeyRefused, ProfilesTypeOK
    <3>2. CASE holder.old # Absent
      <4>1. Ahead(i)
        BY <2>1, <3>2, InMemoryIsAhead DEF Before
      <4> QED
        BY <1>11, <3>2, <4>1 DEF KeyRefused, Ahead, OnlyInMemory
    <3> QED
      BY <3>1, <3>2
  <2>5. ~moved => IsPlain(memory[i])
    BY <1>0, <1>11 DEF KeyRefused, At, SoundProfile, AtWork
  <2>6. Ahead(i)'
    BY <2>1, <2>2, <2>3, <2>4, <2>5 DEF Ahead, OnlyInMemory, KeyIsBad, IsPlain
  <2>7. Told(i)' /\ AtWork(i)'
    BY <2>2, <2>3, <2>4, ProfilesAssumption DEF Told, AtWork, Resting
  <2>8. Readable(disk[i])'
    BY <2>2, <2>3, AbsentIsNone DEF Readable, IsPlain
  <2> QED
    BY <2>2, <2>3, <2>6, <2>7, <2>8 DEF SoundProfile
<1> QED
  BY <1>1, <1>2, <1>3, <1>4, <1>5, <1>6, <1>7, <1>8, <1>9, <1>10, <1>11 DEF Routes, Backups

------------------------------------------------------------------------------
(* The end of a process, and the start of the next one.                    *)

LEMMA FreeIsResting == ASSUME NEW i \in Ids PROVE holder = Free => Resting(i) /\ Before(i) = memory[i]
BY DEF Resting, At, Free, Before

LEMMA CrashKeeps ==
    ASSUME IInv, EndProcess
    PROVE  KeyIsFound' /\ \A i \in Ids : SoundProfile(i)'
<1> USE DEF IInv
<1>1. /\ holder' = Free /\ fernet' = NoKey /\ ~up' /\ skipped' = {}
      /\ \A i \in Ids : memory'[i] = Absent
      /\ UNCHANGED <<disk, moved>>
      /\ KeyToFind \in FernetKeys => KeyToFind' = KeyToFind
  <2>1. \/ UNCHANGED <<env, backend, ring, keyfile>>
        \/ KeyFileIsCut /\ UNCHANGED <<env, backend>>
    BY DEF EndProcess, world
  <2>2. KeyToFind \in FernetKeys => KeyToFind' = KeyToFind
    BY <2>1, CutFindsKey, KeysAreKeys DEF KeyToFind, FileTier
  <2> QED
    BY <2>2 DEF EndProcess, world
<1>2. KeyIsFound'
  BY <1>1 DEF KeyIsFound
<1>3. ASSUME NEW i \in Ids PROVE SoundProfile(i)'
  <2>1. SoundProfile(i)
    OBVIOUS
  <2>2. Resting(i)' /\ Before(i)' = Absent
    BY <1>1 DEF Resting, At, Free, Before
  <2>3. told'[i] \in {told[i], "unsure"}
    BY DEF EndProcess
  <2>4. Told(i)'
    <3>1. "unsure" \notin Passwords
      BY ProfilesAssumption
    <3> QED
      BY <1>1, <2>1, <2>2, <2>3, <3>1 DEF SoundProfile, Told
  <2>5. AtWork(i)'
    BY <2>2 DEF AtWork, Resting
  <2>6. ~moved' => Readable(disk[i])'
    BY <1>1, <2>1, ReadableStays DEF SoundProfile
  <2> QED
    BY <1>1, <2>4, <2>5, <2>6 DEF SoundProfile
<1> QED
  BY <1>2, <1>3

LEMMA MoveKeeps ==
    ASSUME IInv, Move
    PROVE  KeyIsFound' /\ \A i \in Ids : SoundProfile(i)'
<1> USE DEF IInv
<1>1. ~up /\ ~up' /\ holder = Free /\ fernet = NoKey /\ skipped = {}
  BY DEF Move, KeyIsFound
<1>2. UNCHANGED <<memory, disk, holder, skipped, fernet, told>>
  BY DEF Move, keyVars
<1>3. ~moved' => ~moved /\ KeyToFind' = KeyToFind
  BY DEF Move, ProfilesTypeOK
<1>4. KeyIsFound'
  BY <1>1, <1>2 DEF KeyIsFound
<1>5. ASSUME NEW i \in Ids PROVE SoundProfile(i)'
  <2>1. SoundProfile(i) /\ Resting(i) /\ Resting(i)' /\ Before(i)' = Before(i)
    BY <1>1, <1>2, FreeIsResting DEF Resting, At, Before
  <2>2. Told(i)'
    BY <1>2, <2>1 DEF SoundProfile, Told
  <2>3. AtWork(i)'
    BY <2>1 DEF AtWork, Resting
  <2>4. ~moved' => Readable(disk[i])'
    BY <1>2, <1>3, <2>1, ReadableStays DEF SoundProfile
  <2> QED
    BY <1>1, <1>2, <2>2, <2>3, <2>4 DEF SoundProfile
<1> QED
  BY <1>4, <1>5

LEMMA StartKeeps ==
    ASSUME IInv, ProfilesTypeOK', Start
    PROVE  KeyIsFound' /\ \A i \in Ids : SoundProfile(i)'
<1> USE DEF IInv
<1>1. PICK failing \in SUBSET Written :
        /\ skipped' = failing
        /\ memory' = [i \in Ids |->
                        IF i \in failing THEN Absent ELSE Decrypted(disk[i], fernet')]
        /\ disk' = [i \in Ids |->
                        IF i \in Legacy \ failing THEN Encrypted(disk[i], fernet') ELSE disk[i]]
  BY DEF Start
<1>2. ~up /\ up' /\ holder = Free /\ UNCHANGED <<holder, moved, told>>
  BY DEF Start, KeyIsFound, world
<1>3. KeyIsFound'
  BY <1>2, StartUsesKey DEF KeyIsFound
<1>4. ASSUME NEW i \in Ids PROVE SoundProfile(i)'
  <2>1. SoundProfile(i) /\ Resting(i)' /\ Before(i)' = memory'[i] /\ Before(i) = memory[i]
    BY <1>2, FreeIsResting DEF Resting, At, Free, Before
  <2>2. fernet' \in FernetKeys \cup {NoKey} /\ disk[i] \in Credentials \cup {Absent}
    BY DEF ProfilesTypeOK
  <2>3. AtWork(i)'
    BY <2>1 DEF AtWork, Resting
  <2>4. ~moved => (KeyToFind \in FernetKeys => KeyToFind' = KeyToFind)
    BY StartUsesKey, KeysAreKeys
  <2>5. CASE disk[i] = Absent
    <3>1. disk'[i] = Absent /\ memory'[i] = Absent /\ i \notin skipped'
      BY <1>1, <2>2, <2>5, DecryptedIsCredential DEF Legacy, Written
    <3>2. Told(i)'
      BY <1>2, <2>1, <2>5, <3>1 DEF SoundProfile, Told
    <3>3. Matches(i)'
      BY <2>1, <3>1, AbsentIsNone DEF Matches, Decrypted, IsPlain
    <3>4. Readable(disk[i])'
      BY <3>1, AbsentIsNone DEF Readable, IsPlain
    <3> QED
      BY <2>3, <3>1, <3>2, <3>3, <3>4 DEF SoundProfile
  <2>6. CASE disk[i] # Absent
    <3>1. disk[i] \in Credentials /\ i \in Written /\ fernet' \in FernetKeys
      BY <2>2, <2>6, StartUsesKey DEF Written
    <3>2. told[i] \notin {"gone", "nothing"}
      BY <2>1, <2>6 DEF SoundProfile, Told
    <3>3. CASE i \in failing
      <4>1. disk'[i] = disk[i] /\ memory'[i] = Absent /\ i \in skipped'
        BY <1>1, <3>3
      <4>2. Told(i)'
        BY <1>2, <2>1, <3>2, <4>1 DEF SoundProfile, Told
      <4>3. LeftOut(i)'
        BY <2>1, <2>6, <4>1 DEF LeftOut
      <4>4. ~moved' => Readable(disk[i])'
        BY <1>2, <2>1, <2>4, <4>1, ReadableStays DEF SoundProfile
      <4> QED
        BY <2>3, <4>1, <4>2, <4>3, <4>4 DEF SoundProfile
    <3>4. CASE i \in Legacy \ failing
      <4>1. /\ disk'[i] = Encrypted(disk[i], fernet') /\ memory'[i] = Decrypted(disk[i], fernet')
            /\ i \notin skipped' /\ IsPlain(disk[i])
        BY <1>1, <3>4 DEF Legacy
      <4>2. /\ memory'[i] = disk[i] /\ Decrypted(disk'[i], fernet') = disk[i]
            /\ disk'[i].says = disk[i].says /\ ~IsPlain(disk'[i])
        BY <3>1, <4>1, EncryptedIsCredential, DecryptedIsCredential
      <4>3. Told(i)'
        BY <1>2, <2>1, <3>2, <4>2 DEF SoundProfile, Told
      <4>4. Matches(i)'
        BY <2>1, <3>1, <4>2, KeysAreKeys DEF Matches
      <4>5. ASSUME ~moved' PROVE Readable(disk[i])'
        <5>1. KeyToFind' = fernet' /\ fernet' \in FernetKeys
          BY <1>2, <3>1, <4>5, KeysAreKeys, StartUsesKey
        <5>2. disk[i] = Plain(disk[i].says) /\ disk[i].says \in Passwords
          BY <3>1, <4>1, PlainIsAsItSays
        <5>3. \E p \in Passwords : disk'[i] = Encrypted(Plain(p), KeyToFind')
          BY <4>1, <5>1, <5>2
        <5> QED
          BY <5>1, <5>3 DEF Readable, Encrypted, Plain
      <4> QED
        BY <2>3, <4>1, <4>3, <4>4, <4>5 DEF SoundProfile
    <3>5. CASE i \notin Legacy \cup failing
      <4>1. /\ disk'[i] = disk[i] /\ memory'[i] = Decrypted(disk[i], fernet')
            /\ i \notin skipped' /\ ~IsPlain(disk[i])
        BY <1>1, <3>1, <3>5 DEF Legacy
      <4>2. Told(i)'
        BY <1>2, <2>1, <3>2, <4>1 DEF SoundProfile, Told
      <4>3. Matches(i)'
        BY <2>1, <3>1, <4>1, KeysAreKeys DEF Matches, IsPlain
      <4>4. ~moved' => Readable(disk[i])'
        BY <1>2, <2>1, <2>4, <4>1, ReadableStays DEF SoundProfile
      <4> QED
        BY <2>3, <4>1, <4>2, <4>3, <4>4 DEF SoundProfile
    <3> QED
      BY <3>3, <3>4, <3>5
  <2> QED
    BY <2>5, <2>6
<1> QED
  BY <1>3, <1>4

LEMMA StartWithoutKeyKeeps ==
    ASSUME IInv, StartWithoutKey
    PROVE  KeyIsFound' /\ \A i \in Ids : SoundProfile(i)'
<1> USE DEF IInv
<1>1. /\ ~up /\ up' /\ holder = Free /\ skipped' = Written /\ fernet = NoKey
      /\ UNCHANGED <<memory, disk, holder, moved, told, env, backend>>
  BY DEF StartWithoutKey, KeyIsFound, world
<1>2. fernet' = NoKey /\ (KeyToFind \in FernetKeys => KeyToFind' = KeyToFind)
  <2>1. CASE UNCHANGED keyVars
    BY <1>1, <2>1 DEF keyVars, KeyToFind, FileTier
  <2>2. CASE KeyFileIsCut
    BY <1>1, <2>2, CutFindsKey, KeysAreKeys DEF KeyFileIsCut
  <2> QED
    BY <2>1, <2>2 DEF StartWithoutKey, KeyFileFails
<1>3. KeyIsFound'
  BY <1>1, <1>2 DEF KeyIsFound
<1>4. ASSUME NEW i \in Ids PROVE SoundProfile(i)'
  <2>1. /\ SoundProfile(i) /\ Resting(i)' /\ memory[i] = Absent
        /\ Before(i)' = Absent /\ Before(i) = Absent
    BY <1>1, FreeIsResting DEF Resting, At, Before
  <2>2. Told(i)' /\ AtWork(i)'
    BY <1>1, <2>1 DEF SoundProfile, Told, AtWork, Resting
  <2>3. i \notin skipped' => Matches(i)'
    BY <1>1, <2>1, AbsentIsNone DEF Written, Matches, Decrypted, IsPlain
  <2>4. i \in skipped' => LeftOut(i)'
    BY <1>1, <2>1 DEF Written, LeftOut
  <2>5. ~moved' => Readable(disk[i])'
    BY <1>1, <1>2, <2>1, ReadableStays DEF SoundProfile
  <2> QED
    BY <2>2, <2>3, <2>4, <2>5 DEF SoundProfile
<1> QED
  BY <1>3, <1>4

------------------------------------------------------------------------------
LEMMA InvariantFromStart == ProfilesInit => IInv
<1> SUFFICES ASSUME ProfilesInit PROVE IInv
  OBVIOUS
<1>1. ProfilesTypeOK
  BY TypesFromStart
<1>2. KeyIsFound /\ ~up /\ skipped = {}
      /\ memory = [i \in Ids |-> Absent] /\ held = [i \in Ids |-> Absent]
  BY DEF ProfilesInit, KeyIsFound
<1>3. ASSUME NEW i \in Ids PROVE SoundProfile(i)
  <2>1. Resting(i) /\ Before(i) = Absent
    BY DEF ProfilesInit, Resting, At, Free, Before
  <2>2. told[i] = disk[i].says /\ disk[i] \in {Plain(p) : p \in Passwords} \cup {Absent}
    BY DEF ProfilesInit
  <2>3. Absent.says = "nothing" /\ "nothing" \notin Passwords /\ "gone" \notin Passwords
    BY ProfilesAssumption DEF Absent
  <2>4. Told(i)
    BY <2>1, <2>2, <2>3, PlainIsCredential DEF Told
  <2>5. Readable(disk[i])
    BY <2>2, PlainIsCredential, AbsentIsNone DEF Readable
  <2>6. AtWork(i)
    BY <2>1 DEF AtWork, Resting
  <2> QED
    BY <1>2, <2>4, <2>5, <2>6 DEF SoundProfile
<1> QED
  BY <1>1, <1>2, <1>3 DEF IInv

LEMMA InvariantKept == IInv /\ [ProfilesNext]_pvars => IInv'
<1> SUFFICES ASSUME IInv, [ProfilesNext]_pvars PROVE IInv'
  OBVIOUS
<1>1. ASSUME NEW i \in Ids, Routes(i) \/ Backups(i) PROVE IInv'
  <2>1. AtWork(i)
    BY DEF IInv, SoundProfile
  <2>2. ProfilesTypeOK'
    BY <1>1, <2>1, TypesOfRoutes, TypesOfBackups DEF IInv
  <2>3. KeyStep
    BY <1>1 DEF Routes, Backups, Create, ChangePassword, ChangeOther, Enter, Save, ProfileSaveFails,
                KeyRefused, Delete, Unlink, UnlinkFails, StartBackup, SaveFacts, DropFacts, KeyStep, world
  <2>4. up
    BY <1>1 DEF Routes, Backups, Create, ChangePassword, ChangeOther, Enter, Save, ProfileSaveFails,
                KeyRefused, Delete, Unlink, UnlinkFails, StartBackup, SaveFacts, DropFacts, IInv, KeyIsFound,
                Free
  <2>5. KeyIsFound'
    BY <2>3, <2>4, KeyStepFindsKey DEF IInv, KeyIsFound, KeyStep
  <2>6. ASSUME NEW j \in Ids PROVE SoundProfile(j)'
    BY <1>1, ItsOwnStep, OthersAreUntouched, UntouchedStaysSound
  <2>7. up'
    BY <2>3, <2>4 DEF KeyStep
  <2> QED
    BY <2>2, <2>5, <2>6, <2>7 DEF IInv
<1>2. CASE EndProcess
  <2>1. /\ ~up' /\ skipped' = {}
        /\ memory' = [i \in Ids |-> Absent] /\ held' = [i \in Ids |-> Absent]
    BY <1>2 DEF EndProcess
  <2> QED
    BY <1>2, <2>1, TypesOfCrash, CrashKeeps DEF IInv
<1>3. CASE Move
  <2>1. UNCHANGED <<up, skipped, memory, held>>
    BY <1>3 DEF Move
  <2> QED
    BY <1>3, <2>1, TypesOfMove, MoveKeeps DEF IInv
<1>4. CASE Start
  <2>1. ProfilesTypeOK' /\ up'
    BY <1>4, TypesOfStart DEF Start, IInv
  <2> QED
    BY <1>4, <2>1, StartKeeps DEF IInv
<1>5. CASE StartWithoutKey
  <2>1. ProfilesTypeOK' /\ up'
    BY <1>5, TypesOfStartWithoutKey DEF StartWithoutKey, IInv
  <2> QED
    BY <1>5, <2>1, StartWithoutKeyKeeps DEF IInv
<1>6. CASE UNCHANGED pvars
  <2>1. KeyStep /\ ProfilesTypeOK' /\ KeyIsFound'
    BY <1>6 DEF pvars, keyVars, world, KeyStep, IInv, ProfilesTypeOK, KeyIsFound, KeyToFind, FileTier
  <2>2. ASSUME NEW i \in Ids PROVE Untouched(i)
    BY <1>6 DEF pvars, Untouched, Before, Resting, At
  <2>3. ASSUME NEW i \in Ids PROVE SoundProfile(i)'
    BY <2>1, <2>2, UntouchedStaysSound
  <2> QED
    BY <1>6, <2>1, <2>3 DEF pvars, IInv
<1> QED
  BY <1>1, <1>2, <1>3, <1>4, <1>5, <1>6 DEF ProfilesNext

LEMMA InvariantHolds == ProfilesSpec => []IInv
BY InvariantFromStart, InvariantKept, PTL DEF ProfilesSpec

(* Type correctness, of any profiles, passwords and bounds.                *)
THEOREM ProfilesAreTyped == ProfilesSpec => []ProfilesTypeOK
<1>1. IInv => ProfilesTypeOK
  BY DEF IInv
<1> QED
  BY <1>1, InvariantHolds, PTL

(* A password that was answered with success is on disk, and the next      *)
(* start finds the key to it unless the place it is found in changed,      *)
(* through failed saves, workers that started earlier and crashes.         *)
THEOREM PasswordsStay == ProfilesSpec => []AnsweredPasswordsAreKept
<1>1. IInv => AnsweredPasswordsAreKept
  <2> SUFFICES ASSUME IInv, ~moved, NEW i \in Ids, told[i] \in Passwords
               PROVE  \/ disk[i] = Plain(told[i])
                      \/ /\ disk[i] = Encrypted(Plain(told[i]), KeyToFind)
                         /\ KeyToFind \in FernetKeys
    BY DEF AnsweredPasswordsAreKept
  <2>1. Readable(disk[i]) /\ disk[i].says = told[i]
    BY DEF IInv, SoundProfile, Told
  <2>2. disk[i] \in Credentials
    <3>1. disk[i] # Absent
      BY <2>1, ProfilesAssumption DEF Absent
    <3> QED
      BY <3>1 DEF IInv, ProfilesTypeOK
  <2>3. CASE IsPlain(disk[i])
    BY <2>1, <2>2, <2>3, PlainIsAsItSays
  <2>4. CASE ~IsPlain(disk[i])
    <3>1. KeyToFind \in FernetKeys /\ \E p \in Passwords : disk[i] = Encrypted(Plain(p), KeyToFind)
      BY <2>1, <2>4 DEF Readable
    <3>2. PICK p \in Passwords : disk[i] = Encrypted(Plain(p), KeyToFind)
      BY <3>1
    <3>3. disk[i].says = p
      BY <3>2 DEF Encrypted, Plain
    <3> QED
      BY <2>1, <3>1, <3>2, <3>3
  <2> QED
    BY <2>3, <2>4
<1> QED
  BY <1>1, InvariantHolds, PTL

(* A profile that was deleted does not come back, from a worker that still *)
(* has facts for it or from its file (review findings #10 and #47b, C3).   *)
THEOREM DeletedStay == ProfilesSpec => []DeletedStaysDeleted
<1>1. IInv => DeletedStaysDeleted
  BY DEF IInv, SoundProfile, Told, DeletedStaysDeleted
<1> QED
  BY <1>1, InvariantHolds, PTL

(* When no route is at work, memory is what the process's key makes of the *)
(* files and no plaintext is left in them; a file that could not be loaded *)
(* is not in memory.  This survives faults of every file, the key's too;   *)
(* the one exception is a profile that a ValueError of the key, which the  *)
(* routes do not roll back for, kept off the disk.                         *)
THEOREM MemoryIsOfTheFiles == ProfilesSpec => []MemoryMatchesDisk
<1>1. IInv => MemoryMatchesDisk
  <2> SUFFICES ASSUME IInv, up, holder = Free, NEW i \in Ids
               PROVE  IF i \in skipped THEN memory[i] = Absent
                      ELSE \/ /\ memory[i] = Decrypted(disk[i], fernet)
                              /\ disk[i] # Absent => ~IsPlain(disk[i])
                           \/ OnlyInMemory(i)
    BY DEF MemoryMatchesDisk
  <2>1. SoundProfile(i) /\ Before(i) = memory[i]
    BY FreeIsResting DEF IInv
  <2> QED
    BY <2>1 DEF SoundProfile, Matches, Ahead, LeftOut
<1> QED
  BY <1>1, InvariantHolds, PTL
==============================================================================
