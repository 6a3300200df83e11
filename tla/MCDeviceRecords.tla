--------------------------- MODULE MCDeviceRecords ---------------------------
(***************************************************************************)
(* What is kept on disk for each device, on small instances: its profile   *)
(* (DeviceProfiles), the pin of its host key (HostKeys) and its stored     *)
(* configurations (ConfigStore).  The three share no state and no lock, so *)
(* in every behaviour one of them moves and the other two rest where they  *)
(* started.                                                                *)
(***************************************************************************)
EXTENDS DeviceProfiles, HostKeys, ConfigStore, TLC

CONSTANTS h1, h2, netmiko, paramiko, other

VARIABLE moving

(* A Netmiko and a Paramiko worker on one host, a Paramiko worker on the   *)
(* other.                                                                  *)
MCHosts == {h1, h2}
MCSessions == {netmiko, paramiko, other}
MCHostOf == [s \in MCSessions |-> IF s = other THEN h2 ELSE h1]

(* Ids are random, no password is told from another but by being equal,    *)
(* and any request may be the one that deletes.                            *)
Symmetry == Permutations(Ids) \cup Permutations(Passwords) \cup Permutations(Deleters)

RecordsInit ==
    /\ moving \in {"profiles", "keys", "store"}
    /\ ProfilesInit
    /\ moving # "profiles" => disk = memory /\ env = NoKey /\ backend = "none" /\ ring = NoKey
    /\ KeysInit
    /\ moving # "keys" => mode = "tofu" /\ key[h1] = key[h2] /\ key[h1] = CHOOSE k \in Keys : TRUE
    /\ StoreInit

RecordsNext ==
    \/ moving = "profiles" /\ ProfilesNext /\ UNCHANGED <<kvars, cvars, moving>>
    \/ moving = "keys" /\ KeysNext /\ UNCHANGED <<pvars, cvars, moving>>
    \/ moving = "store" /\ StoreNext /\ UNCHANGED <<pvars, kvars, moving>>

RecordsSpec == RecordsInit /\ [][RecordsNext]_<<pvars, kvars, cvars, moving>>
==============================================================================
