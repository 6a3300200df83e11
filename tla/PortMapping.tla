----------------------------- MODULE PortMapping -----------------------------
(***************************************************************************)
(* Which port of the target each name of a source configuration ends on    *)
(* when both devices are declared: run_plan_with_models                    *)
(* (services/migration_pipeline.py) with the pairing of                    *)
(* migration/port_mapping.py and the translator of names,                  *)
(* translate_port_names (migration/canonical/port_names.py).               *)
(*                                                                         *)
(* Ports are paired by position, the operator's entries are laid over the  *)
(* pairing, and the translator sends every other name somewhere by its     *)
(* shape.  It knows nothing of the pairing, so the finished run is looked  *)
(* at, names that it put where they must not be are dropped, and it is run *)
(* once more.  What a codec makes of a name's shape is any name or none.   *)
(*                                                                         *)
(* A name is a base and a unit: <<"a", 0>> is the port a and <<"a", 1>> a  *)
(* sub-interface of it.  Left out: letter case, the two names of a         *)
(* RouterOS port, names whose port is stated apart, units that a codec     *)
(* reads as VLAN interfaces of their own, and the tags of units.           *)
(***************************************************************************)
EXTENDS Naturals, Sequences, SequencesExt, FiniteSets, Functions

CONSTANTS Order,       \* all names, in the order in which a config has them
          Sources,     \* inventories that may be declared for the source
          Targets,     \* and for the target: sequences of Ports
          Configs,     \* names a config references, and which are logical
          MaxEntries,  \* bound: entries of the operator's map
          PortLike     \* names that a codec reads as a hardware port

None == <<>>
Names == ToSet(Order)
Ports == [name : Names, rank : Nat, role : {"access", "uplink", "mgmt"}]
IsBase(n) == n[2] = 0
Bases == {n \in Names : IsBase(n)}
PortOf(n) == <<n[1], 0>>
UnitOn(port, n) == <<port[1], n[2]>>

ASSUME PortMappingAssumption ==
    /\ IsFiniteSet(Names)
    /\ \A n \in Names : n = <<n[1], n[2]>>
    /\ \A b \in Bases, n \in Names : UnitOn(b, n) \in Names
    /\ \A inventory \in Sources \cup Targets :
         /\ inventory \in Seq(Ports)
         /\ \A i \in 1..Len(inventory) : IsBase(inventory[i].name)
    /\ \A c \in Configs : c.logical \subseteq c.names /\ c.names \subseteq Names
    /\ MaxEntries \in Nat
    /\ PortLike \subseteq Names

VARIABLES
    source, target,  \* the declared inventories
    same,            \* both configs are of one codec
    config,          \* the names that the source config references
    operator,        \* the operator's port_rename_map, as it is applied
    shape,           \* what name shape makes of a name
    stage,
    map,             \* merged: the entries that the translator is given
    placed,          \* where the last run put each name, or None
    displaced,
    status           \* of the job

inputs == <<source, target, same, config, operator>>
vars == <<inputs, shape, stage, map, placed, displaced, status>>

------------------------------------------------------------------------------
(* The config: its hardware names (collect_hardware_port_names).           *)
every == config.names
Own == {source[i].name : i \in 1..Len(source)}
used == every \ (config.logical \ Own)
OnTarget == {target[i].name : i \in 1..Len(target)}

Entries ==
    UNION {[keys -> Names \cup {None}] :
             keys \in {k \in SUBSET every : Cardinality(k) <= MaxEntries}}

Init ==
    /\ source \in Sources
    /\ target \in Targets
    /\ same \in BOOLEAN
    /\ config \in Configs
    /\ operator \in Entries
    /\ \A n \in DOMAIN operator : operator[n] \in (IF IsBase(n) THEN Bases ELSE Names) \cup {None}
    /\ shape = <<>>
    /\ stage = "plan"
    /\ map = <<>>
    /\ placed = <<>>
    /\ displaced = {}
    /\ status = "running"

------------------------------------------------------------------------------
(* plan_port_mapping: by rank, role and position.                          *)

Group(inventory, i) == <<inventory[i].rank, inventory[i].role>>
Position(inventory, i) ==
    Cardinality({k \in 1..i : Group(inventory, k) = Group(inventory, i)})

IsPartnerByRole(i, j) ==                          \* mutant: members are mixed up
    /\ source[i].role = target[j].role
    /\ i = j

IsPartner(i, j) ==
    /\ Group(source, i) = Group(target, j)
    /\ Position(source, i) = Position(target, j)

Unrepeated(inventory) == IsInjective([i \in 1..Len(inventory) |-> inventory[i].name])
applied == source # <<>> /\ target # <<>> /\ Unrepeated(source) /\ Unrepeated(target)

Indices(names) == {i \in 1..Len(source) : source[i].name \in names}
Paired(i) == \E j \in 1..Len(target) : IsPartner(i, j)
Unplaced == {source[i].name : i \in {k \in Indices(used) : ~Paired(k)}}
OffInventory == used \ Own

(* A used data port without a place is dropped, a management port is left. *)
Decides(i) == Paired(i) \/ source[i].role # "mgmt"
Partner(i) == IF Paired(i) THEN target[CHOOSE j \in 1..Len(target) : IsPartner(i, j)].name
              ELSE None

rename_map ==
    [n \in {source[i].name : i \in {k \in Indices(used) : Decides(k)}} |->
        Partner(CHOOSE i \in 1..Len(source) : source[i].name = n)]

(* g over f.                                                               *)
Over(g, f) == [n \in DOMAIN f \cup DOMAIN g |-> IF n \in DOMAIN g THEN g[n] ELSE f[n]]

(* _sub_interface_followers: between configs of one codec a unit goes      *)
(* where an entry sends its port.                                          *)
Moved(n, port) == IF port = None THEN None ELSE UnitOn(port, n)
Followers ==
    LET f == Over(operator, rename_map) IN
    [n \in {m \in OffInventory : ~IsBase(m) /\ PortOf(m) \in DOMAIN f} |->
        Moved(n, f[PortOf(n)])]

Merged ==
    IF ~applied THEN operator
    ELSE Over(operator, IF same THEN Over(Followers, rename_map) ELSE rename_map)

------------------------------------------------------------------------------
(* translate_port_names: an entry, else with its port, else by shape.      *)

Follows(n, entries) ==
    /\ ~IsBase(n)
    /\ same => PortOf(n) \in DOMAIN entries

Resolve(n, entries, by) ==
    LET alone(m) == IF m \in DOMAIN entries THEN entries[m]
                    ELSE IF same THEN m ELSE by[m]
    IN  IF n \notin DOMAIN entries /\ Follows(n, entries)
        THEN Moved(n, alone(PortOf(n)))
        ELSE alone(n)

Translation(entries, by) == [n \in every |-> Resolve(n, entries, by)]

(* The names that the codecs are asked for.                                *)
Shaped(entries) ==
    IF same THEN {}
    ELSE {n \in {IF IsBase(m) THEN m ELSE PortOf(m) : m \in every \ DOMAIN entries} :
            n \notin DOMAIN entries}

Translate ==
    /\ stage = "plan"
    /\ stage' = "translated"
    /\ map' = Merged
    /\ shape' \in [Shaped(Merged) -> Bases \cup {None}]
    /\ placed' = Translation(Merged, shape')
    /\ UNCHANGED <<inputs, displaced, status>>

------------------------------------------------------------------------------
(* _undecided_clashes.                                                     *)

Landed == {n \in every : placed[n] # None}
SharesWith(n) == {m \in Landed : placed[m] = placed[n]}
Clash(n) == n \in Landed /\ Cardinality(SharesWith(n)) > 1 /\ SharesWith(n) \cap used # {}
Decided == DOMAIN map

(* Where nothing was decided one name keeps its place: a port of the       *)
(* source, else a hardware port, the first of them.                        *)
Best(names) ==
    IF names \cap Own # {} THEN names \cap Own
    ELSE IF names \cap used # {} THEN names \cap used
    ELSE names
First(names) == SelectSeq(Order, LAMBDA n : n \in names)[1]
Keeps(n) == SharesWith(n) \cap Decided = {} /\ n = First(Best(SharesWith(n)))

LosersAlone ==                                    \* mutant: only beside decided ones
    {n \in every \ Decided : Clash(n) /\ SharesWith(n) \cap Decided # {}}

Losers == {n \in every \ Decided : Clash(n) /\ ~Keeps(n)}

OnPortsInUse ==                                   \* mutant: only where it is taken
    {n \in Landed \ (used \cup Decided) :
        placed[n] \in OnTarget /\ Cardinality(SharesWith(n)) > 1}

OnPorts == {n \in Landed \ (used \cup Decided) : placed[n] \in OnTarget}

Undecided == Losers \cup OnPorts

Displace ==
    /\ stage = "translated"
    /\ applied
    /\ Undecided # {}
    /\ stage' = "checked"
    /\ displaced' = Undecided
    /\ map' = Over([n \in Undecided |-> None], map)
    /\ placed' = Translation(map', shape)
    /\ UNCHANGED <<inputs, shape, status>>

NothingToDisplace ==
    /\ stage = "translated"
    /\ applied => Undecided = {}
    /\ stage' = "checked"
    /\ UNCHANGED <<inputs, shape, map, placed, displaced, status>>

------------------------------------------------------------------------------
(* settle_plan and _mapping_message.                                       *)

(* _unlisted_landings: a logical name that was given a port's name that    *)
(* the target does not list.                                               *)
LandedOffTarget ==
    {n \in Landed \ (used \cup Decided) :
        /\ placed[n] # n
        /\ placed[n] \notin OnTarget
        /\ placed[n] \in PortLike \/ n \in PortLike}

(* Units that went with their port are no longer off the inventory:        *)
(* between configs of one codec by an entry, else read from the run.       *)
UnitsThatFollowed ==
    IF same THEN DOMAIN Followers
    ELSE {n \in OffInventory \ DOMAIN operator :
            /\ ~IsBase(n)
            /\ PortOf(n) \in DOMAIN map
            /\ placed[n] = Moved(n, map[PortOf(n)])}

unresolved ==
    ((Unplaced \cup (OffInventory \ UnitsThatFollowed)) \ DOMAIN operator)
        \cup displaced \cup LandedOffTarget

(* fused_targets over the finished run.                                    *)
fused == {placed[n] : n \in {m \in every : Clash(m)}}
Settle ==
    /\ stage = "checked"
    /\ stage' = "settled"
    /\ status' = IF applied /\ unresolved = {} /\ fused = {} THEN "completed" ELSE "partial"
    /\ UNCHANGED <<inputs, shape, map, placed, displaced>>

Next == Translate \/ Displace \/ NothingToDisplace \/ Settle

Spec == Init /\ [][Next]_vars

------------------------------------------------------------------------------
(* After the second run two names share a name of the target, one of them  *)
(* a hardware port, only where an entry of the operator did it: for one of *)
(* them, or for the port of which one is a unit.  Whatever the shape of    *)
(* the names says, and although names that were dropped took others along. *)
Asked(n) == n \in DOMAIN operator \/ PortOf(n) \in DOMAIN operator

OnlyTheOperatorFuses ==
    stage \in {"checked", "settled"} /\ applied =>
        \A n \in every : Clash(n) => \E m \in SharesWith(n) : Asked(m)

(* What the operator decided is what the last run did, and so is the       *)
(* position of every data port that the operator left alone: it ends on a  *)
(* port of the same member and role, in port order, or is dropped because  *)
(* the ports before it fill every place there is.  No look at the clashes  *)
(* ever takes a decided name away.                                         *)
DataPorts == {i \in Indices(used \ DOMAIN operator) : source[i].role # "mgmt"}
EndsOn(i, j) == placed[source[i].name] = target[j].name

DecisionsStand ==
    stage # "plan" /\ applied =>
        /\ \A n \in DOMAIN operator : placed[n] = operator[n]
        /\ \A i \in DataPorts :
            LET places == {j \in 1..Len(target) : Group(target, j) = Group(source, i)} IN
            IF placed[source[i].name] = None
            THEN Position(source, i) > Cardinality(places)
            ELSE \E j \in places :
                    /\ EndsOn(i, j)
                    /\ \A k \in DataPorts, l \in places : k > i /\ EndsOn(k, l) => l > j

(* A job that says completed can be taken as it is: every hardware name of *)
(* the config is on a place of its own, which the pairing or the operator  *)
(* gave it or its port, or went with the operator's leave.                 *)
CompletedIsRight ==
    status = "completed" =>
        /\ \A n \in used :
             /\ ~Clash(n)
             /\ n \in DOMAIN map \/ PortOf(n) \in DOMAIN map
             /\ placed[n] = None => Asked(n)
        /\ \A n \in every \ DOMAIN operator :
             placed[n] \in OnTarget => n \in used

(* "Where none was decided, one keeps the name": of names that clashed     *)
(* with nothing decided among them, one is still there after the second    *)
(* run.                                                                    *)
OneKeepsTheName ==
    [][Displace => \A n \in every :
         Clash(n) /\ SharesWith(n) \cap Decided = {} =>
             \E m \in SharesWith(n) : placed'[m] # None]_vars
==============================================================================
