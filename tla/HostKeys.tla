------------------------------- MODULE HostKeys -------------------------------
(***************************************************************************)
(* The pins of device host keys: netcanon/collectors/hostkey.py as the two *)
(* collectors call it (netmiko_collector.py, paramiko_collector.py).       *)
(*                                                                         *)
(* All workers share one known_hosts file.  This code reads it to change   *)
(* it and writes it back under _KNOWN_HOSTS_LOCK.  But it is written in    *)
(* place, entry by entry; Netmiko reads it without the lock; and Paramiko, *)
(* once it has loaded the file, reads and writes it again without the lock *)
(* inside connect(), when AutoAddPolicy meets an unknown host.  A host's   *)
(* key is read from the network with no lock held, and so is a Paramiko    *)
(* session's, which may have loaded the file long before it writes it.     *)
(***************************************************************************)
EXTENDS Naturals, FiniteSets

CONSTANTS Hosts,
          Sessions,   \* connections of workers to hosts
          Netmiko,    \* those of the Netmiko collector; the others are Paramiko's
          HostOf,     \* the host of each session
          Keys,       \* the host keys that devices may have
          MaxRekeys,  \* bound: devices that get a new key
          FileFails   \* reading or writing the store may raise OSError

ASSUME HostKeysAssumption ==
    /\ IsFiniteSet(Sessions)
    /\ "none" \notin Sessions \cup Keys
    /\ Netmiko \subseteq Sessions
    /\ HostOf \in [Sessions -> Hosts]
    /\ Keys # {}
    /\ MaxRekeys \in Nat
    /\ FileFails \in BOOLEAN

VARIABLES
    mode,    \* ssh_host_key_checking: tofu or reject
    key,     \* the key each device has
    pins,    \* known_hosts, when nobody is writing it
    step,    \* where a session is
    seen,    \* the key a session got from its host
    loaded,  \* the pins in a session's memory
    torn,    \* a write was cut, an error hid the file from its reader, or
             \* Paramiko's own save overlapped another use of the file
    rekeys

kvars == <<mode, key, pins, step, seen, loaded, torn, rekeys>>

None == "none"
Pins == [Hosts -> Keys \cup {None}]
NoPins == [h \in Hosts |-> None]

Steps == {"idle", "met", "loaded", "attached", "rewriting", "connected",
          "learned", "verified", "in", "failed"}

KeysTypeOK ==
    /\ mode \in {"tofu", "reject"}
    /\ key \in [Hosts -> Keys]
    /\ pins \in Pins
    /\ step \in [Sessions -> Steps]
    /\ seen \in [Sessions -> Keys \cup {None}]
    /\ loaded \in [Sessions -> Pins]
    /\ torn \in BOOLEAN
    /\ rekeys \in 0..MaxRekeys

(* Whoever runs in reject mode has written the store before.               *)
KeysInit ==
    /\ mode \in {"tofu", "reject"}
    /\ key \in [Hosts -> Keys]
    /\ pins = IF mode = "tofu" THEN NoPins ELSE key
    /\ step = [s \in Sessions |-> "idle"]
    /\ seen = [s \in Sessions |-> None]
    /\ loaded = [s \in Sessions |-> NoPins]
    /\ torn = FALSE
    /\ rekeys = 0

(* The lock is held from the read to the end of the write.                 *)
Locked == \E s \in Sessions : step[s] = "learned"
Rewriters == {s \in Sessions : step[s] = "rewriting"}
Writers == {s \in Sessions : step[s] \in {"learned", "rewriting"}}

(* What a reader may find in the file, also while it is being written or   *)
(* when a write of it is cut: some of the entries of its writers, and of   *)
(* others that it had before when writes overlap.                          *)
MixesOf(texts) == {p \in Pins : \A h \in Hosts : p[h] \in {None} \cup {q[h] : q \in texts}}
Texts == {loaded[s] : s \in Writers} \cup (IF torn THEN {pins} ELSE {})
Contents == IF Writers = {} THEN {pins} ELSE MixesOf(Texts)

FileIsThere == pins # NoPins \/ Writers # {}

Goes(s, to) == step' = [step EXCEPT ![s] = to]

(* What a session had in memory goes with it.                              *)
Forgets(s) == loaded' = [loaded EXCEPT ![s] = NoPins]
Fails(s) ==
    /\ Goes(s, "failed")
    /\ seen' = [seen EXCEPT ![s] = None]
    /\ Forgets(s)

(* Under the lock.  A file that cannot be read counts as an empty one.     *)
ReadsStore(view) ==
    /\ ~Locked
    /\ \/ view \in Contents /\ torn' = (torn \/ Rewriters # {})
       \/ FileFails /\ view = NoPins /\ torn' = TRUE

(* One's own entries laid over those of the file.                          *)
Over(own, view) == [h \in Hosts |-> IF own[h] = None THEN view[h] ELSE own[h]]

(* A write that overlapped another one leaves a mixture.                   *)
Ends(s) == IF torn THEN pins' \in {loaded[s]} \cup Contents ELSE pins' = loaded[s]

StartsWriting(s, p) ==
    /\ loaded' = [loaded EXCEPT ![s] = p]
    /\ Goes(s, "learned")

------------------------------------------------------------------------------
(* Netmiko: verify_host_key, then a strict connection.                     *)

ReadRemoteKey(s) ==
    /\ s \in Netmiko
    /\ step[s] = "idle"
    /\ seen' = [seen EXCEPT ![s] = key[HostOf[s]]]
    /\ Goes(s, "met")
    /\ UNCHANGED <<mode, key, pins, loaded, torn, rekeys>>

(* The pin is there and right, there and wrong, or missing.                *)
KnownAndUnchanged(s) ==
    /\ step[s] = "met"
    /\ \E view \in Pins : ReadsStore(view) /\ view[HostOf[s]] = seen[s]
    /\ Goes(s, "verified")
    /\ UNCHANGED <<mode, key, pins, seen, loaded, rekeys>>

Refused(s) ==
    /\ step[s] = "met"
    /\ \E view \in Pins :
        /\ ReadsStore(view)
        /\ view[HostOf[s]] \notin {seen[s], IF mode = "reject" THEN seen[s] ELSE None}
    /\ Fails(s)
    /\ UNCHANGED <<mode, key, pins, rekeys>>

Learn(s) ==
    /\ step[s] = "met"
    /\ mode = "tofu"
    /\ \E view \in Pins :
        /\ ReadsStore(view)
        /\ view[HostOf[s]] = None
        /\ StartsWriting(s, [view EXCEPT ![HostOf[s]] = seen[s]])
    /\ UNCHANGED <<mode, key, pins, seen, rekeys>>

(* ConnectHandler loads the file itself, also while another session is     *)
(* writing it, and refuses a host that it does not find there.             *)
ConnectStrictly(s) ==
    /\ step[s] = "verified"
    /\ \E view \in Contents :
         IF view[HostOf[s]] = key[HostOf[s]]
         THEN Goes(s, "in") /\ UNCHANGED <<seen, loaded>>
         ELSE Fails(s)
    /\ UNCHANGED <<mode, key, pins, torn, rekeys>>

------------------------------------------------------------------------------
(* Paramiko: the store is loaded, the connection made, the store extended. *)

(* A file that is there is also the one the client will save to.           *)
ApplyPolicy(s) ==
    /\ s \notin Netmiko
    /\ step[s] = "idle"
    /\ \E view \in Pins :
        /\ ReadsStore(view)
        /\ loaded' = [loaded EXCEPT ![s] = view]
    /\ \/ (FileIsThere \/ torn) /\ Goes(s, "attached")
       \/ ~FileIsThere /\ Goes(s, "loaded")
    /\ UNCHANGED <<mode, key, pins, seen, rekeys>>

(* The host is known and its key is the same, or it is unknown and there   *)
(* was no file.                                                            *)
Connect(s) ==
    LET h == HostOf[s] IN
    /\ \/ step[s] \in {"loaded", "attached"} /\ loaded[s][h] = key[h]
       \/ step[s] = "loaded" /\ loaded[s][h] = None /\ mode = "tofu"
    /\ seen' = [seen EXCEPT ![s] = key[h]]
    /\ IF mode = "tofu"
       THEN Goes(s, "connected") /\ loaded' = [loaded EXCEPT ![s][h] = key[h]]
       ELSE Goes(s, "in") /\ Forgets(s)
    /\ UNCHANGED <<mode, key, pins, torn, rekeys>>

(* The host is unknown and there was a file: AutoAddPolicy has the client  *)
(* load it again and save it, with no lock.                                *)
AddHost(s) ==
    LET h == HostOf[s] IN
    /\ step[s] = "attached"
    /\ loaded[s][h] = None /\ mode = "tofu"
    /\ seen' = [seen EXCEPT ![s] = key[h]]
    /\ \E view \in Contents :
         loaded' = [loaded EXCEPT ![s] = Over([@ EXCEPT ![h] = key[h]], view)]
    /\ torn' = (torn \/ Writers # {})
    /\ Goes(s, "rewriting")
    /\ UNCHANGED <<mode, key, pins, rekeys>>

HostAdded(s) ==
    /\ step[s] = "rewriting"
    /\ Goes(s, "connected")
    /\ Ends(s)
    /\ UNCHANGED <<mode, key, seen, loaded, torn, rekeys>>

(* The file could not be read, what somebody is writing in it is no key,   *)
(* or the write was cut: the connection fails with it.                     *)
AddHostFails(s) ==
    /\ \/ /\ step[s] = "attached"
          /\ loaded[s][HostOf[s]] = None /\ mode = "tofu"
          /\ FileFails \/ Writers # {}
          /\ UNCHANGED <<pins, torn>>
       \/ /\ step[s] = "rewriting"
          /\ FileFails
          /\ pins' \in Contents
          /\ torn' = TRUE
    /\ Fails(s)
    /\ UNCHANGED <<mode, key, rekeys>>

(* A wrong key, or an unknown host in reject mode.                         *)
ConnectFails(s) ==
    LET h == HostOf[s] IN
    /\ step[s] \in {"loaded", "attached"}
    /\ loaded[s][h] # key[h]
    /\ loaded[s][h] # None \/ mode = "reject"
    /\ Fails(s)
    /\ UNCHANGED <<mode, key, pins, torn, rekeys>>

(* The host is right, the credentials are not.                             *)
LoginFails(s) ==
    /\ step[s] \in {"connected", "verified"}
    /\ Fails(s)
    /\ UNCHANGED <<mode, key, pins, torn, rekeys>>

(* persist_paramiko_host_keys: the file as it is now with every key of the *)
(* session laid over it.                                                   *)
PersistOwnOnly(s) ==                              \* mutant: save_host_keys, review #2
    /\ step[s] = "connected"
    /\ \E view \in Pins : ReadsStore(view)
    /\ StartsWriting(s, loaded[s])
    /\ UNCHANGED <<mode, key, pins, seen, rekeys>>

Persist(s) ==
    /\ step[s] = "connected"
    /\ \E view \in Pins :
        /\ ReadsStore(view)
        /\ StartsWriting(s, Over(loaded[s], view))
    /\ UNCHANGED <<mode, key, pins, seen, rekeys>>

------------------------------------------------------------------------------
(* The write ends, well or with an OSError that is only logged.            *)

AfterSave(s) ==
    /\ Goes(s, IF s \in Netmiko THEN "verified" ELSE "in")
    /\ Forgets(s)

Saved(s) ==
    /\ step[s] = "learned"
    /\ Ends(s)
    /\ AfterSave(s)
    /\ UNCHANGED <<mode, key, seen, torn, rekeys>>

SaveFails(s) ==
    /\ FileFails
    /\ step[s] = "learned"
    /\ pins' \in Contents \cup {pins}
    /\ torn' = TRUE
    /\ AfterSave(s)
    /\ UNCHANGED <<mode, key, seen, rekeys>>

(* The process dies.                                                       *)
KeysCrash ==
    /\ pins' \in Contents
    /\ torn' = (torn \/ Writers # {})
    /\ step' = [s \in Sessions |-> IF step[s] \in {"idle", "in"} THEN step[s] ELSE "failed"]
    /\ seen' = [s \in Sessions |-> IF step[s] = "in" THEN seen[s] ELSE None]
    /\ loaded' = [s \in Sessions |-> NoPins]
    /\ UNCHANGED <<mode, key, rekeys>>

(* A device gets a new host key, with no session of it open.               *)
Rekey(h) ==
    /\ rekeys < MaxRekeys
    /\ rekeys' = rekeys + 1
    /\ \A s \in Sessions : HostOf[s] = h => step[s] \in {"idle", "in", "failed"}
    /\ \E k \in Keys \ {key[h]} : key' = [key EXCEPT ![h] = k]
    /\ UNCHANGED <<mode, pins, step, seen, loaded, torn>>

SessionStep(s) ==
    \/ ReadRemoteKey(s)
    \/ KnownAndUnchanged(s)
    \/ Refused(s)
    \/ Learn(s)
    \/ ConnectStrictly(s)
    \/ ApplyPolicy(s)
    \/ Connect(s)
    \/ AddHost(s)
    \/ HostAdded(s)
    \/ AddHostFails(s)
    \/ ConnectFails(s)
    \/ LoginFails(s)
    \/ Persist(s)
    \/ Saved(s)
    \/ SaveFails(s)

KeysNext ==
    \/ \E s \in Sessions : SessionStep(s)
    \/ \E h \in Hosts : Rekey(h)
    \/ KeysCrash

KeysSpec == KeysInit /\ [][KeysNext]_kvars

------------------------------------------------------------------------------
(* A key that a session went on with stays pinned, and no session with the *)
(* same host ever goes on with another one, whichever collector each used, *)
(* however first contacts with several hosts overlap (review #2), as long  *)
(* as the store was readable and no write of it was cut or overlapped by   *)
(* another use.  The last is up to Paramiko: hostkey.py locks its own      *)
(* read-merge-writes, and its client saves the file without the lock too.  *)
TrustIsKept ==
    ~torn =>
        \A s \in Sessions : step[s] = "in" =>
            /\ Writers = {} => pins[HostOf[s]] = seen[s]
            /\ \A t \in Sessions :
                 step[t] = "in" /\ HostOf[t] = HostOf[s] => seen[t] = seen[s]
==============================================================================
