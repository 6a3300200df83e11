-------------------------- MODULE PortMappingProofs --------------------------
(***************************************************************************)
(* Proofs about PortMapping, for any names, inventories, configs, maps of  *)
(* the operator and answers of the codecs.                                 *)
(*                                                                         *)
(* The properties are about the second run of the translator, but why they *)
(* hold is in the first.  The invariant keeps it: where it put each name   *)
(* (FirstPlace), and what the look at it has left standing.                *)
(***************************************************************************)
EXTENDS PortMapping, FiniteSetTheorems, TLAPS

FirstPlace(n) == Resolve(n, Merged, shape)
FirstLanded == {n \in every : FirstPlace(n) # None}
FirstShares(n) == {m \in FirstLanded : FirstPlace(m) = FirstPlace(n)}

(* What was declared and what the operator asked for.                      *)
InputsFit ==
    /\ source \in Sources
    /\ target \in Targets
    /\ config \in Configs
    /\ same \in BOOLEAN
    /\ DOMAIN operator \subseteq every

(* The map is what was merged and None for the names that were displaced.  *)
MapFits ==
    /\ displaced \subseteq every \ DOMAIN Merged
    /\ DOMAIN map = DOMAIN Merged \cup displaced
    /\ \A n \in DOMAIN Merged : map[n] = Merged[n]
    /\ \A n \in displaced : map[n] = None
    /\ \A n \in every : placed[n] = Resolve(n, map, shape)

(* Of names that shared a place of a hardware port, those with no entry    *)
(* went, or all but one of them where none had an entry.                   *)
ClashesAreSettled ==
    \A n, m \in every \ displaced :
        /\ n # m
        /\ FirstPlace(n) = FirstPlace(m)
        /\ FirstPlace(n) # None
        /\ FirstShares(n) \cap used # {}
        => n \in DOMAIN Merged

(* No logical name was left on a port of the target.                       *)
PortsAreFree ==
    \A n \in every \ (used \cup DOMAIN Merged \cup displaced) : FirstPlace(n) \notin OnTarget

LookedAt == applied => ClashesAreSettled /\ PortsAreFree

Verdict ==
    /\ stage \in {"plan", "translated", "checked", "settled"}
    /\ stage # "settled" => status = "running"
    /\ status = "completed" => applied /\ unresolved = {} /\ fused = {}

IInv ==
    /\ InputsFit
    /\ Verdict
    /\ stage \in {"plan", "translated"} => displaced = {}
    /\ stage # "plan" => MapFits
    /\ stage \in {"checked", "settled"} => LookedAt

------------------------------------------------------------------------------
(* Names.                                                                  *)

LEMMA NoneIsNoName == None \notin Names
<1>1. SUFFICES ASSUME NEW n \in Names, n = None PROVE FALSE
  OBVIOUS
<1>2. n = <<n[1], n[2]>>
  BY PortMappingAssumption
<1>3. Len(n) = 2
  BY <1>2
<1>4. Len(<<>>) = 0
  OBVIOUS
<1> QED BY <1>1, <1>3, <1>4 DEF None

(* A unit of a port is told from the units of other ports, and from ports. *)
LEMMA UnitsOfPorts ==
    ASSUME NEW n \in Names, ~IsBase(n), NEW p \in Bases
    PROVE  /\ UnitOn(p, n) \in Names /\ ~IsBase(UnitOn(p, n))
           /\ \A m \in Names, q \in Bases : UnitOn(p, n) = UnitOn(q, m) => p = q /\ n[2] = m[2]
<1>1. UnitOn(p, n) \in Names
  BY PortMappingAssumption
<1>2. UnitOn(p, n)[2] = n[2] /\ UnitOn(p, n)[1] = p[1]
  BY DEF UnitOn
<1>3. ASSUME NEW m \in Names, NEW q \in Bases, UnitOn(p, n) = UnitOn(q, m)
      PROVE  p = q /\ n[2] = m[2]
  <2>1. UnitOn(q, m)[2] = m[2] /\ UnitOn(q, m)[1] = q[1]
    BY DEF UnitOn
  <2>2. p[2] = 0 /\ q[2] = 0 /\ p \in Names /\ q \in Names
    BY DEF Bases, IsBase
  <2>3. p = <<p[1], p[2]>> /\ q = <<q[1], q[2]>>
    BY <2>2, PortMappingAssumption
  <2>4. p[1] = q[1] /\ n[2] = m[2]
    BY <1>2, <1>3, <2>1
  <2> QED BY <2>2, <2>3, <2>4
<1> QED BY <1>1, <1>2, <1>3 DEF IsBase

(* A name is told by its port and its unit.                                *)
LEMMA PortAndUnit ==
    ASSUME NEW n \in Names, NEW m \in Names, PortOf(n) = PortOf(m), n[2] = m[2]
    PROVE  n = m
<1>1. PortOf(n)[1] = n[1] /\ PortOf(m)[1] = m[1]
  BY DEF PortOf
<1>2. n = <<n[1], n[2]>> /\ m = <<m[1], m[2]>>
  BY PortMappingAssumption
<1> QED BY <1>1, <1>2

LEMMA EveryIsFinite ==
    ASSUME InputsFit
    PROVE  every \subseteq Names /\ IsFiniteSet(every)
<1>1. every \subseteq Names
  BY PortMappingAssumption DEF InputsFit, every
<1> QED BY <1>1, FS_Subset, PortMappingAssumption

------------------------------------------------------------------------------
(* Positions in an inventory.                                              *)

GroupOf(inventory, g) == {k \in 1..Len(inventory) : Group(inventory, k) = g}

(* The ports of a group are numbered in their order, without a gap.        *)
LEMMA PositionsCount ==
    ASSUME NEW inv \in Seq(Ports), NEW g
    PROVE  LET S == GroupOf(inv, g) IN
           /\ Cardinality(S) \in Nat
           /\ \A i \in S : Position(inv, i) \in 1..Cardinality(S)
           /\ \A i, k \in S : i < k => Position(inv, i) < Position(inv, k)
           /\ \A p \in 1..Cardinality(S) : \E i \in S : Position(inv, i) = p
<1> DEFINE S == GroupOf(inv, g)
           Upto(i) == {k \in S : k =< i}
           rank == [i \in S |-> Cardinality(Upto(i))]
           card == Cardinality(S)
<1>0. Len(inv) \in Nat
  OBVIOUS
<1>1. IsFiniteSet(S) /\ card \in Nat /\ S \subseteq 1..Len(inv)
  <2>1. IsFiniteSet(1..Len(inv))
    BY <1>0, FS_Interval
  <2>2. S \subseteq 1..Len(inv)
    BY DEF GroupOf
  <2> HIDE DEF S
  <2>3. IsFiniteSet(S)
    BY <2>1, <2>2, FS_Subset
  <2> QED BY <2>2, <2>3, FS_CardinalityType
<1>2. \A i \in S : Position(inv, i) = Cardinality(Upto(i))
  <2> SUFFICES ASSUME NEW i \in S PROVE Position(inv, i) = Cardinality(Upto(i))
    OBVIOUS
  <2>1. i \in 1..Len(inv) /\ Group(inv, i) = g
    BY DEF GroupOf
  <2>2. {k \in 1..i : Group(inv, k) = Group(inv, i)} = Upto(i)
    BY <1>0, <2>1 DEF GroupOf
  <2> QED BY <2>2 DEF Position
<1> HIDE DEF S
<1>3. \A i \in S :
         IsFiniteSet(Upto(i)) /\ Cardinality(Upto(i)) \in 1..card /\ Cardinality(Upto(i)) \in Nat
  <2> SUFFICES ASSUME NEW i \in S
               PROVE  /\ IsFiniteSet(Upto(i)) /\ Cardinality(Upto(i)) \in 1..card
                      /\ Cardinality(Upto(i)) \in Nat
    OBVIOUS
  <2>1. Upto(i) \subseteq S /\ i \in Upto(i)
    BY <1>0, <1>1
  <2>2. IsFiniteSet(Upto(i)) /\ Cardinality(Upto(i)) =< card /\ Cardinality(Upto(i)) \in Nat
    BY <1>1, <2>1, FS_Subset, FS_CardinalityType
  <2>3. Cardinality(Upto(i)) # 0
    BY <2>1, <2>2, FS_EmptySet
  <2> QED BY <1>1, <2>2, <2>3
<1>4. \A i, k \in S : i < k => Cardinality(Upto(i)) < Cardinality(Upto(k))
  <2> SUFFICES ASSUME NEW i \in S, NEW k \in S, i < k
               PROVE  Cardinality(Upto(i)) < Cardinality(Upto(k))
    OBVIOUS
  <2>1. i \in Nat /\ k \in Nat /\ \A n \in S : n \in Nat
    BY <1>0, <1>1
  <2>2. Upto(i) \subseteq Upto(k)
    <3>1. \A n \in S : n =< i => n =< k
      BY <2>1
    <3> QED BY <3>1
  <2>3. k \in Upto(k) /\ k \notin Upto(i)
    BY <2>1
  <2>4. /\ Cardinality(Upto(i)) =< Cardinality(Upto(k))
        /\ Cardinality(Upto(i)) = Cardinality(Upto(k)) => Upto(i) = Upto(k)
    BY <1>3, <2>2, FS_Subset
  <2>5. Cardinality(Upto(i)) \in Nat /\ Cardinality(Upto(k)) \in Nat
    BY <1>3
  <2> QED BY <2>3, <2>4, <2>5
<1>5. rank \in Injection(S, 1..card)
  <2>1. rank \in [S -> 1..card]
    BY <1>3
  <2>2. \A i, k \in S : rank[i] = rank[k] => i = k
    <3>1. \A i, k \in S : i < k \/ k < i \/ i = k
      BY <1>0, <1>1
    <3>2. \A i \in S : Cardinality(Upto(i)) \in Nat
      BY <1>3
    <3>3. \A i \in S : rank[i] = Cardinality(Upto(i))
      OBVIOUS
    <3> HIDE DEF rank, Upto
    <3> QED BY <1>4, <3>1, <3>2, <3>3
  <2> HIDE DEF rank
  <2> QED BY <2>1, <2>2 DEF Injection, IsInjective
<1>6. rank \in Surjection(S, 1..card)
  <2>1. IsFiniteSet(1..card) /\ Cardinality(1..card) = card
    BY <1>1, FS_Interval
  <2> QED BY <2>1, <1>1, <1>5, FS_Injection
<1>7. \A p \in 1..card : \E i \in S : Cardinality(Upto(i)) = p
  BY <1>6 DEF Surjection
<1>8. card \in Nat
  BY <1>1
<1> HIDE DEF Upto, rank, card
<1>9. /\ \A i \in S : Position(inv, i) \in 1..card
      /\ \A i, k \in S : i < k => Position(inv, i) < Position(inv, k)
      /\ \A p \in 1..card : \E i \in S : Position(inv, i) = p
  BY <1>2, <1>3, <1>4, <1>7 DEF card
<1> QED BY <1>8, <1>9 DEF card, S

------------------------------------------------------------------------------
(* The pairing.                                                            *)

LEMMA InventoriesFit ==
    ASSUME InputsFit
    PROVE  /\ source \in Seq(Ports) /\ \A i \in 1..Len(source) : source[i].name \in Bases
           /\ target \in Seq(Ports) /\ \A j \in 1..Len(target) : target[j].name \in Bases
<1>1. ASSUME NEW inv \in Sources \cup Targets
      PROVE  inv \in Seq(Ports) /\ \A i \in 1..Len(inv) : inv[i].name \in Bases
  <2>1. inv \in Seq(Ports) /\ \A i \in 1..Len(inv) : IsBase(inv[i].name)
    BY PortMappingAssumption
  <2>2. \A i \in 1..Len(inv) : inv[i] \in Ports
    BY <2>1
  <2>3. \A i \in 1..Len(inv) : inv[i].name \in Names
    BY <2>2 DEF Ports
  <2> QED BY <2>1, <2>3 DEF Bases
<1> QED BY <1>1 DEF InputsFit

LEMMA NamedOnce ==
    ASSUME applied
    PROVE  /\ \A i, k \in 1..Len(source) : source[i].name = source[k].name => i = k
           /\ \A i, k \in 1..Len(target) : target[i].name = target[k].name => i = k
BY DEF applied, Unrepeated, IsInjective

(* A port has one partner, and no two ports the same.                      *)
LEMMA PartnersAreApart ==
    ASSUME InputsFit, applied
    PROVE  /\ \A i \in 1..Len(source), j \in 1..Len(target) :
                  IsPartner(i, j) => Paired(i) /\ Partner(i) = target[j].name
           /\ \A i \in 1..Len(source) : Paired(i) =>
                  \E j \in 1..Len(target) : IsPartner(i, j) /\ Partner(i) = target[j].name
           /\ \A i \in 1..Len(source) : Partner(i) = None <=> ~Paired(i)
           /\ \A i, k \in 1..Len(source) :
                  Paired(i) /\ Paired(k) /\ Partner(i) = Partner(k) => i = k
           /\ \A i, k \in 1..Len(source), j, l \in 1..Len(target) :
                  IsPartner(i, j) /\ IsPartner(k, l) /\ Group(source, i) = Group(source, k) /\ i < k
                  => j < l
<1>0. /\ source \in Seq(Ports) /\ target \in Seq(Ports)
      /\ Len(source) \in Nat /\ Len(target) \in Nat
      /\ \A j \in 1..Len(target) : target[j].name \in Bases
  BY InventoriesFit
<1>1. \A j \in 1..Len(target) : target[j].name # None
  BY <1>0, NoneIsNoName DEF Bases
<1>2. ASSUME NEW inv \in Seq(Ports), NEW i \in 1..Len(inv), NEW k \in 1..Len(inv),
             Group(inv, i) = Group(inv, k)
      PROVE  /\ Position(inv, i) = Position(inv, k) => i = k
             /\ i < k <=> Position(inv, i) < Position(inv, k)
  <2> DEFINE S == GroupOf(inv, Group(inv, i))
  <2>1. i \in S /\ k \in S /\ i \in Nat /\ k \in Nat
    BY <1>2 DEF GroupOf
  <2>2. /\ \A n \in S : Position(inv, n) \in 1..Cardinality(S)
        /\ \A n, m \in S : n < m => Position(inv, n) < Position(inv, m)
        /\ Cardinality(S) \in Nat
    BY PositionsCount
  <2> HIDE DEF S
  <2>3. Position(inv, i) \in Nat /\ Position(inv, k) \in Nat
    BY <2>1, <2>2
  <2>4. i < k \/ k < i \/ i = k
    BY <2>1
  <2>5. /\ i < k => Position(inv, i) < Position(inv, k)
        /\ k < i => Position(inv, k) < Position(inv, i)
    BY <2>1, <2>2
  <2> QED BY <2>1, <2>3, <2>4, <2>5
<1>3. \A i \in 1..Len(source), j, l \in 1..Len(target) :
          IsPartner(i, j) /\ IsPartner(i, l) => j = l
  BY <1>0, <1>2 DEF IsPartner
<1>4. \A i, k \in 1..Len(source), j \in 1..Len(target) :
          IsPartner(i, j) /\ IsPartner(k, j) => i = k
  BY <1>0, <1>2 DEF IsPartner
<1>5. ASSUME NEW i \in 1..Len(source), NEW j \in 1..Len(target), IsPartner(i, j)
      PROVE  Paired(i) /\ Partner(i) = target[j].name
  <2>1. Paired(i)
    BY <1>5 DEF Paired
  <2>2. (CHOOSE l \in 1..Len(target) : IsPartner(i, l)) = j
    BY <1>3, <1>5
  <2> QED BY <2>1, <2>2 DEF Partner
<1>6. ASSUME NEW i \in 1..Len(source), Paired(i)
      PROVE  \E j \in 1..Len(target) : IsPartner(i, j) /\ Partner(i) = target[j].name
  BY <1>5, <1>6 DEF Paired
<1>7. \A i \in 1..Len(source) : Partner(i) = None <=> ~Paired(i)
  BY <1>1, <1>6 DEF Partner
<1>8. ASSUME NEW i \in 1..Len(source), NEW k \in 1..Len(source),
             Paired(i), Paired(k), Partner(i) = Partner(k)
      PROVE  i = k
  <2>1. PICK j \in 1..Len(target) : IsPartner(i, j) /\ Partner(i) = target[j].name
    BY <1>6, <1>8
  <2>2. PICK l \in 1..Len(target) : IsPartner(k, l) /\ Partner(k) = target[l].name
    BY <1>6, <1>8
  <2>3. j = l
    BY <1>8, <2>1, <2>2, NamedOnce
  <2> QED BY <1>4, <2>1, <2>2, <2>3
<1>9. ASSUME NEW i \in 1..Len(source), NEW k \in 1..Len(source),
             NEW j \in 1..Len(target), NEW l \in 1..Len(target),
             IsPartner(i, j), IsPartner(k, l), Group(source, i) = Group(source, k), i < k
      PROVE  j < l
  <2>1. Group(target, j) = Group(target, l)
    BY <1>9 DEF IsPartner
  <2>2. Position(source, i) < Position(source, k)
    BY <1>0, <1>2, <1>9
  <2>3. Position(target, j) < Position(target, l)
    BY <2>2, <1>9 DEF IsPartner
  <2> QED BY <1>0, <1>2, <2>1, <2>3
<1> QED BY <1>5, <1>6, <1>7, <1>8, <1>9

(* A port goes without a partner only when the ports before it take every  *)
(* place.                                                                  *)
LEMMA UnpairedIsBeyond ==
    ASSUME InputsFit, NEW i \in 1..Len(source), ~Paired(i)
    PROVE  Position(source, i) > Cardinality({j \in 1..Len(target) : Group(target, j) = Group(source, i)})
<1> DEFINE S == GroupOf(target, Group(source, i))
<1>1. source \in Seq(Ports) /\ target \in Seq(Ports)
  BY InventoriesFit
<1>2. Position(source, i) \in Nat \ {0}
  <2> DEFINE own == GroupOf(source, Group(source, i))
  <2>1. i \in own
    BY DEF GroupOf
  <2>2. Cardinality(own) \in Nat /\ \A n \in own : Position(source, n) \in 1..Cardinality(own)
    BY <1>1, PositionsCount
  <2> HIDE DEF own
  <2> QED BY <2>1, <2>2
<1>3. Cardinality(S) \in Nat /\ \A p \in 1..Cardinality(S) : \E j \in S : Position(target, j) = p
  BY <1>1, PositionsCount
<1>4. ASSUME Position(source, i) =< Cardinality(S) PROVE FALSE
  <2>1. PICK j \in S : Position(target, j) = Position(source, i)
    BY <1>2, <1>3, <1>4
  <2>2. j \in 1..Len(target) /\ Group(target, j) = Group(source, i)
    BY DEF GroupOf
  <2> QED BY <2>1, <2>2 DEF Paired, IsPartner
<1> QED BY <1>2, <1>3, <1>4 DEF GroupOf

------------------------------------------------------------------------------
(* The merged map.                                                         *)

(* The map of the pairing has the used ports of the source that are paired *)
(* or carry data.                                                          *)
LEMMA RenameMap ==
    ASSUME InputsFit, applied
    PROVE  /\ \A n \in DOMAIN rename_map : n \in used /\
                  \E i \in Indices(used) :
                      source[i].name = n /\ Decides(i) /\ rename_map[n] = Partner(i)
           /\ \A i \in Indices(used) : Decides(i) =>
                  source[i].name \in DOMAIN rename_map /\ rename_map[source[i].name] = Partner(i)
<1> DEFINE dom == {source[i].name : i \in {k \in Indices(used) : Decides(k)}}
           index(n) == CHOOSE i \in 1..Len(source) : source[i].name = n
<1>1. rename_map = [n \in dom |-> Partner(index(n))]
  BY DEF rename_map
<1>2. \A i \in 1..Len(source) : index(source[i].name) = i
  BY NamedOnce
<1> HIDE DEF index
<1>3. \A i \in Indices(used) : i \in 1..Len(source) /\ source[i].name \in used
  BY DEF Indices
<1>4. DOMAIN rename_map = dom /\ \A n \in dom : rename_map[n] = Partner(index(n))
  BY <1>1
<1>5. \A n \in dom : \E i \in Indices(used) : source[i].name = n /\ Decides(i)
  OBVIOUS
<1>6. \A i \in Indices(used) : Decides(i) => source[i].name \in dom
  OBVIOUS
<1> HIDE DEF dom
<1> QED BY <1>2, <1>3, <1>4, <1>5, <1>6

(* Between configs of one codec a unit that no inventory lists goes where  *)
(* its port was sent.                                                      *)
LEMMA FollowersFit ==
    ASSUME NEW n \in DOMAIN Followers
    PROVE  /\ n \in used \ Own /\ ~IsBase(n)
           /\ PortOf(n) \in DOMAIN operator => Followers[n] = Moved(n, operator[PortOf(n)])
           /\ PortOf(n) \notin DOMAIN operator =>
                  PortOf(n) \in DOMAIN rename_map /\ Followers[n] = Moved(n, rename_map[PortOf(n)])
<1> DEFINE f == Over(operator, rename_map)
<1>1. /\ DOMAIN f = DOMAIN operator \cup DOMAIN rename_map
      /\ \A k \in DOMAIN operator : f[k] = operator[k]
      /\ \A k \in DOMAIN rename_map \ DOMAIN operator : f[k] = rename_map[k]
  BY DEF Over
<1> HIDE DEF f
<1>2. Followers =
          [k \in {m \in OffInventory : ~IsBase(m) /\ PortOf(m) \in DOMAIN f} |-> Moved(k, f[PortOf(k)])]
  BY DEF Followers, f
<1>3. n \in OffInventory /\ ~IsBase(n) /\ PortOf(n) \in DOMAIN f /\ Followers[n] = Moved(n, f[PortOf(n)])
  BY <1>2
<1> QED BY <1>1, <1>3 DEF OffInventory

LEMMA MergedMap ==
    ASSUME applied
    PROVE  /\ DOMAIN operator \subseteq DOMAIN Merged
           /\ DOMAIN rename_map \subseteq DOMAIN Merged
           /\ same => DOMAIN Followers \subseteq DOMAIN Merged
           /\ \A n \in DOMAIN operator : Merged[n] = operator[n]
           /\ \A n \in DOMAIN Merged \ DOMAIN operator :
                 \/ n \in DOMAIN rename_map /\ Merged[n] = rename_map[n]
                 \/ same /\ n \in DOMAIN Followers /\ Merged[n] = Followers[n]
           /\ \A n \in DOMAIN rename_map \ (DOMAIN operator \cup DOMAIN Followers) :
                 Merged[n] = rename_map[n]
<1> DEFINE paired == IF same THEN Over(Followers, rename_map) ELSE rename_map
<1>1. /\ DOMAIN Over(Followers, rename_map) = DOMAIN Followers \cup DOMAIN rename_map
      /\ \A n \in DOMAIN Followers : Over(Followers, rename_map)[n] = Followers[n]
      /\ \A n \in DOMAIN rename_map \ DOMAIN Followers :
             Over(Followers, rename_map)[n] = rename_map[n]
  BY DEF Over
<1>2. /\ DOMAIN paired = IF same THEN DOMAIN Followers \cup DOMAIN rename_map ELSE DOMAIN rename_map
      /\ \A n \in DOMAIN paired :
            \/ n \in DOMAIN rename_map /\ paired[n] = rename_map[n]
            \/ same /\ n \in DOMAIN Followers /\ paired[n] = Followers[n]
      /\ \A n \in DOMAIN rename_map \ DOMAIN Followers : paired[n] = rename_map[n]
  BY <1>1
<1>3. Merged = Over(operator, paired)
  BY DEF Merged
<1> HIDE DEF paired
<1>4. /\ DOMAIN Merged = DOMAIN operator \cup DOMAIN paired
      /\ \A n \in DOMAIN operator : Merged[n] = operator[n]
      /\ \A n \in DOMAIN paired \ DOMAIN operator : Merged[n] = paired[n]
  BY <1>3 DEF Over
<1>5. /\ DOMAIN operator \subseteq DOMAIN Merged
      /\ DOMAIN rename_map \subseteq DOMAIN Merged
      /\ same => DOMAIN Followers \subseteq DOMAIN Merged
  BY <1>2, <1>4
<1>6. \A n \in DOMAIN Merged \ DOMAIN operator :
          \/ n \in DOMAIN rename_map /\ Merged[n] = rename_map[n]
          \/ same /\ n \in DOMAIN Followers /\ Merged[n] = Followers[n]
  BY <1>2, <1>4
<1>7. \A n \in DOMAIN rename_map \ (DOMAIN operator \cup DOMAIN Followers) :
          Merged[n] = rename_map[n]
  BY <1>2, <1>4
<1> QED BY <1>4, <1>5, <1>6, <1>7

LEMMA UsedNames == used \subseteq every
BY DEF used

(* Everything in the map is a name of the config.                          *)
LEMMA MergedNames ==
    ASSUME InputsFit
    PROVE  DOMAIN Merged \subseteq every
<1>1. CASE ~applied
  BY <1>1 DEF Merged, InputsFit
<1>2. CASE applied
  <2>1. \A n \in DOMAIN rename_map : n \in used
    BY <1>2, RenameMap
  <2>2. \A n \in DOMAIN Followers : n \in used
    BY FollowersFit
  <2>3. \A n \in DOMAIN Merged \ DOMAIN operator : n \in used
    BY <1>2, <2>1, <2>2, MergedMap
  <2> QED BY <2>3, UsedNames DEF InputsFit
<1> QED BY <1>1, <1>2

(* Where the merged map sends a name that the operator left alone: to the  *)
(* partner of its port, or to the unit of that.                            *)
LEMMA PlaceOfDecided ==
    ASSUME InputsFit, applied, NEW n \in DOMAIN Merged, ~Asked(n), Merged[n] # None
    PROVE  \E i \in 1..Len(source) :
              /\ Paired(i)
              /\ \/ source[i].name = n /\ Merged[n] = Partner(i)
                 \/ source[i].name = PortOf(n) /\ ~IsBase(n) /\ Merged[n] = UnitOn(Partner(i), n)
<1>1. n \notin DOMAIN operator /\ PortOf(n) \notin DOMAIN operator
  BY DEF Asked
<1>2. CASE n \in DOMAIN rename_map /\ Merged[n] = rename_map[n]
  <2>1. PICK i \in Indices(used) : source[i].name = n /\ rename_map[n] = Partner(i)
    BY <1>2, RenameMap
  <2>2. i \in 1..Len(source)
    BY DEF Indices
  <2>3. Paired(i)
    BY <1>2, <2>1, <2>2, PartnersAreApart
  <2> QED BY <1>2, <2>1, <2>2, <2>3
<1>3. CASE n \in DOMAIN Followers /\ Merged[n] = Followers[n]
  <2>1. ~IsBase(n) /\ PortOf(n) \in DOMAIN rename_map /\ Merged[n] = Moved(n, rename_map[PortOf(n)])
    BY <1>1, <1>3, FollowersFit
  <2>2. PICK i \in Indices(used) : source[i].name = PortOf(n) /\ rename_map[PortOf(n)] = Partner(i)
    BY <2>1, RenameMap
  <2>3. i \in 1..Len(source)
    BY DEF Indices
  <2>4. Partner(i) # None /\ Merged[n] = UnitOn(Partner(i), n)
    BY <2>1, <2>2 DEF Moved
  <2>5. Paired(i)
    BY <2>3, <2>4, PartnersAreApart
  <2> QED BY <2>1, <2>2, <2>3, <2>4, <2>5
<1> QED BY <1>1, <1>2, <1>3, MergedMap

(* No two of these share a place.                                          *)
LEMMA DecidedAreApart ==
    ASSUME InputsFit, applied,
           NEW n \in DOMAIN Merged, ~Asked(n), NEW m \in DOMAIN Merged, ~Asked(m),
           Merged[n] = Merged[m], Merged[n] # None
    PROVE  n = m
<1>0. n \in Names /\ m \in Names
  BY MergedNames, EveryIsFinite
<1>1. PICK i \in 1..Len(source) :
          /\ Paired(i)
          /\ \/ source[i].name = n /\ Merged[n] = Partner(i)
             \/ source[i].name = PortOf(n) /\ ~IsBase(n) /\ Merged[n] = UnitOn(Partner(i), n)
  BY PlaceOfDecided
<1>2. PICK k \in 1..Len(source) :
          /\ Paired(k)
          /\ \/ source[k].name = m /\ Merged[m] = Partner(k)
             \/ source[k].name = PortOf(m) /\ ~IsBase(m) /\ Merged[m] = UnitOn(Partner(k), m)
  BY PlaceOfDecided
<1>3. Partner(i) \in Bases /\ Partner(k) \in Bases
  <2>1. \A l \in 1..Len(source) : Paired(l) => Partner(l) \in Bases
    BY PartnersAreApart, InventoriesFit
  <2> QED BY <1>1, <1>2, <2>1
<1>4. IsBase(Partner(i)) /\ IsBase(Partner(k))
  BY <1>3 DEF Bases
<1>5. Partner(i) = Partner(k) => i = k
  BY <1>1, <1>2, PartnersAreApart
<1>6. CASE source[i].name = n /\ Merged[n] = Partner(i)
  <2>1. ~(~IsBase(m) /\ Merged[m] = UnitOn(Partner(k), m))
    BY <1>0, <1>3, <1>4, <1>6, UnitsOfPorts
  <2> QED BY <1>2, <1>5, <1>6, <2>1
<1>7. CASE source[i].name = PortOf(n) /\ ~IsBase(n) /\ Merged[n] = UnitOn(Partner(i), n)
  <2>1. ~IsBase(UnitOn(Partner(i), n))
    BY <1>0, <1>3, <1>7, UnitsOfPorts
  <2>2. source[k].name = PortOf(m) /\ Merged[m] = UnitOn(Partner(k), m)
    BY <1>2, <1>4, <1>7, <2>1
  <2>3. Partner(i) = Partner(k) /\ n[2] = m[2]
    <3>1. UnitOn(Partner(i), n) = UnitOn(Partner(k), m)
      BY <1>7, <2>2
    <3> QED BY <1>0, <1>3, <1>7, <3>1, UnitsOfPorts
  <2>4. PortOf(n) = PortOf(m)
    BY <1>5, <1>7, <2>2, <2>3
  <2> QED BY <1>0, <2>3, <2>4, PortAndUnit
<1> QED BY <1>1, <1>6, <1>7

------------------------------------------------------------------------------
(* The two runs.                                                           *)

(* A name with an entry goes where that sends it.                          *)
LEMMA EntriesDecide ==
    ASSUME NEW entries, NEW by, NEW n \in DOMAIN entries
    PROVE  Resolve(n, entries, by) = entries[n]
BY DEF Resolve

(* The second run leaves a name where the first one put it, or drops it.   *)
LEMMA SecondRun ==
    ASSUME MapFits, NEW n \in every
    PROVE  \/ placed[n] = None
           \/ placed[n] = FirstPlace(n) /\ n \notin displaced
<1>1. /\ placed[n] = Resolve(n, map, shape)
      /\ DOMAIN map = DOMAIN Merged \cup displaced
      /\ displaced \cap DOMAIN Merged = {}
      /\ \A m \in DOMAIN Merged : map[m] = Merged[m]
      /\ \A m \in displaced : map[m] = None
  BY DEF MapFits
<1>2. CASE n \in displaced
  BY <1>1, <1>2, EntriesDecide
<1>3. CASE n \in DOMAIN Merged
  BY <1>1, <1>3, EntriesDecide DEF FirstPlace
<1>4. CASE n \notin DOMAIN map /\ PortOf(n) \in displaced
  <2>1. CASE IsBase(n)
    BY <1>1, <1>4, <2>1 DEF Resolve, Follows, FirstPlace
  <2>2. CASE ~IsBase(n)
    BY <1>1, <1>4, <2>2 DEF Resolve, Follows, Moved
  <2> QED BY <2>1, <2>2
<1>5. CASE n \notin DOMAIN map /\ PortOf(n) \notin displaced
  <2>1. PortOf(n) \in DOMAIN map <=> PortOf(n) \in DOMAIN Merged
    BY <1>1, <1>5
  <2>2. PortOf(n) \in DOMAIN map => map[PortOf(n)] = Merged[PortOf(n)]
    BY <1>1, <2>1
  <2>3. Resolve(n, map, shape) = Resolve(n, Merged, shape)
    BY <1>1, <1>5, <2>1, <2>2 DEF Resolve, Follows
  <2> QED BY <1>1, <1>5, <2>3 DEF FirstPlace
<1> QED BY <1>1, <1>2, <1>3, <1>4, <1>5

(* What the pairing or the operator decided is what the run does.          *)
LEMMA DecidedStay ==
    ASSUME InputsFit, MapFits, NEW n \in DOMAIN Merged
    PROVE  placed[n] = Merged[n] /\ FirstPlace(n) = Merged[n]
<1>1. n \in every /\ n \in DOMAIN map /\ map[n] = Merged[n]
  BY MergedNames DEF MapFits
<1>2. placed[n] = Resolve(n, map, shape)
  BY <1>1 DEF MapFits
<1> QED BY <1>1, <1>2, EntriesDecide DEF FirstPlace

------------------------------------------------------------------------------
(* The invariant.                                                          *)

(* After the first run it is that run which is looked at.                  *)
LEMMA FirstLook ==
    ASSUME IInv, stage = "translated"
    PROVE  /\ \A n \in every : placed[n] = FirstPlace(n)
           /\ Landed = FirstLanded
           /\ \A n \in every : SharesWith(n) = FirstShares(n)
           /\ Decided = DOMAIN Merged
<1>1. MapFits /\ displaced = {} /\ InputsFit
  BY DEF IInv
<1>2. /\ DOMAIN map = DOMAIN Merged
      /\ \A m \in DOMAIN Merged : map[m] = Merged[m]
      /\ \A n \in every : placed[n] = Resolve(n, map, shape)
  BY <1>1 DEF MapFits
<1>3. \A n \in every : placed[n] = FirstPlace(n)
  BY <1>2 DEF FirstPlace, Resolve, Follows
<1>4. Landed = FirstLanded
  BY <1>3 DEF Landed, FirstLanded
<1>5. \A n \in every : SharesWith(n) = FirstShares(n)
  BY <1>3, <1>4 DEF SharesWith, FirstShares, FirstLanded
<1> QED BY <1>2, <1>3, <1>4, <1>5 DEF Decided

(* Names that share a place are more than one.                             *)
LEMMA SharedByTwo ==
    ASSUME InputsFit, NEW n \in every, NEW m \in every, n # m,
           n \in SharesWith(n), m \in SharesWith(n)
    PROVE  Cardinality(SharesWith(n)) > 1
<1>1. SharesWith(n) \subseteq every
  BY DEF SharesWith, Landed
<1>2. IsFiniteSet(SharesWith(n)) /\ Cardinality(SharesWith(n)) \in Nat
  BY <1>1, EveryIsFinite, FS_Subset, FS_CardinalityType
<1>3. Cardinality({n, m}) = 2
  <2>1. IsFiniteSet({n}) /\ Cardinality({n}) = 1
    BY FS_Singleton
  <2>2. Cardinality({n} \cup {m}) = 2
    <3>1. m \notin {n}
      OBVIOUS
    <3>2. Cardinality({n} \cup {m}) = IF m \in {n} THEN Cardinality({n}) ELSE Cardinality({n}) + 1
      BY <2>1, FS_AddElement, Zenon
    <3> QED BY <2>1, <3>1, <3>2
  <2>3. {n, m} = {n} \cup {m}
    OBVIOUS
  <2> QED BY <2>2, <2>3
<1>4. Cardinality({n, m}) =< Cardinality(SharesWith(n))
  BY <1>2, FS_Subset
<1> QED BY <1>2, <1>3, <1>4

(* Whoever is left after the look, nothing decided is fused with it.       *)
LEMMA LookSettles ==
    ASSUME IInv, stage = "translated", applied, NEW D \in SUBSET every, Undecided \subseteq D
    PROVE  /\ \A n, m \in every \ D :
                 /\ n # m
                 /\ FirstPlace(n) = FirstPlace(m)
                 /\ FirstPlace(n) # None
                 /\ FirstShares(n) \cap used # {}
                 => n \in DOMAIN Merged
           /\ \A n \in every \ (used \cup DOMAIN Merged \cup D) : FirstPlace(n) \notin OnTarget
<1>0. /\ \A n \in every : placed[n] = FirstPlace(n)
      /\ Landed = FirstLanded
      /\ \A n \in every : SharesWith(n) = FirstShares(n)
      /\ Decided = DOMAIN Merged
      /\ InputsFit
  BY FirstLook DEF IInv
<1>1. ASSUME NEW n \in every \ D, NEW m \in every \ D, n # m,
             FirstPlace(n) = FirstPlace(m), FirstPlace(n) # None,
             FirstShares(n) \cap used # {}, n \notin DOMAIN Merged
      PROVE  FALSE
  <2>1. n \in Landed /\ m \in Landed /\ placed[n] = placed[m]
    BY <1>0, <1>1 DEF FirstLanded
  <2>2. n \in SharesWith(n) /\ m \in SharesWith(n) /\ SharesWith(m) = SharesWith(n)
    BY <2>1 DEF SharesWith
  <2>3. Clash(n) /\ Clash(m)
    <3>1. Cardinality(SharesWith(n)) > 1
      BY <1>0, <1>1, <2>2, SharedByTwo
    <3>2. SharesWith(n) \cap used # {}
      BY <1>0, <1>1
    <3> QED BY <2>1, <2>2, <3>1, <3>2 DEF Clash
  <2>4. n \notin Losers /\ m \notin Losers
    BY DEF Undecided
  <2>5. Keeps(n)
    BY <1>0, <1>1, <2>3, <2>4 DEF Losers
  <2>6. SharesWith(n) \cap Decided = {} /\ n = First(Best(SharesWith(n)))
    BY <2>5 DEF Keeps
  <2>7. m \notin Decided
    BY <2>2, <2>6
  <2>8. Keeps(m)
    BY <2>3, <2>4, <2>7 DEF Losers
  <2>9. m = First(Best(SharesWith(m)))
    BY <2>8 DEF Keeps
  <2> QED BY <1>1, <2>2, <2>6, <2>9
<1>2. ASSUME NEW n \in every \ (used \cup DOMAIN Merged \cup D), FirstPlace(n) \in OnTarget
      PROVE  FALSE
  <2>1. FirstPlace(n) # None
    <3>1. \A j \in 1..Len(target) : target[j].name # None
      BY <1>0, InventoriesFit, NoneIsNoName DEF Bases
    <3> QED BY <1>2, <3>1 DEF OnTarget
  <2>2. n \in Landed \ (used \cup Decided) /\ placed[n] \in OnTarget
    BY <1>0, <1>2, <2>1 DEF FirstLanded
  <2> QED BY <2>2 DEF OnPorts, Undecided
<1> QED BY <1>1, <1>2

LEMMA InitInv == Init => IInv
<1> SUFFICES ASSUME Init PROVE IInv
  OBVIOUS
<1>1. DOMAIN operator \subseteq every
  BY DEF Init, Entries
<1>2. InputsFit
  BY <1>1 DEF Init, InputsFit
<1>3. Verdict
  BY DEF Init, Verdict
<1> QED BY <1>2, <1>3 DEF Init, IInv

(* What depends on the inputs alone stays.                                 *)
LEMMA InputsStay ==
    ASSUME UNCHANGED inputs
    PROVE  /\ InputsFit => InputsFit'
           /\ every' = every /\ used' = used /\ OnTarget' = OnTarget
           /\ applied' = applied /\ Merged' = Merged
BY DEF inputs, InputsFit, every, used, OnTarget, Own, applied, Merged, Followers, rename_map,
       Partner, Paired, IsPartner, Indices, Decides, OffInventory

LEMMA StepKeepsInv == IInv /\ [Next]_vars => IInv'
<1> SUFFICES ASSUME IInv, [Next]_vars PROVE IInv'
  OBVIOUS
<1>1. UNCHANGED inputs
  BY DEF Next, vars, Translate, Displace, NothingToDisplace, Settle
<1>2. /\ InputsFit'
      /\ every' = every /\ used' = used /\ OnTarget' = OnTarget
      /\ applied' = applied /\ Merged' = Merged
  BY <1>1, InputsStay DEF IInv
<1>3. CASE Translate
  <2>1. stage' = "translated" /\ displaced' = {} /\ map' = Merged /\ placed' = Translation(Merged, shape')
    BY <1>3 DEF Translate, IInv
  <2>2. \A n \in every : placed'[n] = Resolve(n, Merged, shape')
    BY <2>1 DEF Translation
  <2>3. \A n \in every : Resolve(n, Merged, shape') = Resolve(n, map, shape)'
    BY <1>1, <2>1 DEF Resolve, Follows, inputs
  <2>4. MapFits'
    BY <1>2, <2>1, <2>2, <2>3 DEF MapFits
  <2>5. Verdict'
    BY <1>3, <2>1 DEF Translate, Verdict, IInv
  <2> QED BY <1>2, <2>1, <2>4, <2>5 DEF IInv
<1>4. CASE Displace
  <2>0. /\ stage = "translated" /\ applied /\ stage' = "checked" /\ displaced' = Undecided
        /\ map' = Over([n \in Undecided |-> None], map)
        /\ placed' = Translation(map', shape) /\ shape' = shape /\ status' = status
    BY <1>4 DEF Displace
  <2>1. /\ DOMAIN map = DOMAIN Merged /\ \A m \in DOMAIN Merged : map[m] = Merged[m]
    BY <2>0 DEF MapFits, IInv
  <2>2. Undecided \subseteq every \ DOMAIN Merged
    BY <2>1 DEF Undecided, Losers, OnPorts, Decided, Landed
  <2>3. /\ DOMAIN map' = DOMAIN Merged \cup Undecided
        /\ \A n \in DOMAIN Merged : map'[n] = Merged[n]
        /\ \A n \in Undecided : map'[n] = None
    BY <2>0, <2>1, <2>2 DEF Over
  <2>4. \A n \in every : placed'[n] = Resolve(n, map, shape)'
    BY <1>1, <2>0 DEF Translation, Resolve, Follows, inputs
  <2>5. MapFits'
    BY <1>2, <2>0, <2>2, <2>3, <2>4 DEF MapFits
  <2>6. \A n \in every : FirstPlace(n)' = FirstPlace(n)
    BY <1>1, <1>2, <2>0 DEF FirstPlace, Resolve, Follows, inputs
  <2>7. \A n \in every : FirstShares(n)' = FirstShares(n)
    BY <1>2, <2>6 DEF FirstShares, FirstLanded
  <2>8. LookedAt'
    BY <1>2, <2>0, <2>2, <2>6, <2>7, LookSettles DEF LookedAt, ClashesAreSettled, PortsAreFree
  <2>9. Verdict'
    BY <2>0 DEF Verdict, IInv
  <2> QED BY <1>2, <2>0, <2>5, <2>8, <2>9 DEF IInv
<1>5. CASE NothingToDisplace
  <2>0. /\ stage = "translated" /\ stage' = "checked" /\ displaced = {} /\ displaced' = {}
        /\ applied => Undecided = {}
        /\ map' = map /\ placed' = placed /\ shape' = shape /\ status' = status
    BY <1>5 DEF NothingToDisplace, IInv
  <2>1. \A n \in every : Resolve(n, map, shape)' = Resolve(n, map, shape)
    BY <1>1, <2>0 DEF Resolve, Follows, inputs
  <2>2. MapFits'
    BY <1>2, <2>0, <2>1 DEF MapFits, IInv
  <2>3. \A n \in every : FirstPlace(n)' = FirstPlace(n)
    BY <1>1, <1>2, <2>0 DEF FirstPlace, Resolve, Follows, inputs
  <2>4. \A n \in every : FirstShares(n)' = FirstShares(n)
    BY <1>2, <2>3 DEF FirstShares, FirstLanded
  <2>5. LookedAt'
    BY <1>2, <2>0, <2>3, <2>4, LookSettles DEF LookedAt, ClashesAreSettled, PortsAreFree
  <2>6. Verdict'
    BY <2>0 DEF Verdict, IInv
  <2> QED BY <1>2, <2>0, <2>2, <2>5, <2>6 DEF IInv
<1>6. ASSUME UNCHANGED <<inputs, shape, map, placed, displaced>>
      PROVE  /\ MapFits => MapFits'
             /\ LookedAt => LookedAt'
             /\ unresolved' = unresolved /\ fused' = fused
  <2>1. \A n \in every : Resolve(n, map, shape)' = Resolve(n, map, shape)
    BY <1>6 DEF Resolve, Follows, inputs
  <2>2. MapFits => MapFits'
    BY <1>2, <1>6, <2>1 DEF MapFits
  <2>3. \A n \in every : FirstPlace(n)' = FirstPlace(n)
    BY <1>2, <1>6 DEF FirstPlace, Resolve, Follows, inputs
  <2>4. \A n \in every : FirstShares(n)' = FirstShares(n)
    BY <1>2, <2>3 DEF FirstShares, FirstLanded
  <2>5. LookedAt => LookedAt'
    BY <1>2, <1>6, <2>3, <2>4 DEF LookedAt, ClashesAreSettled, PortsAreFree
  <2>6. unresolved' = unresolved
    BY <1>6 DEF inputs, unresolved, Unplaced, Indices, used, every, Own, Paired, IsPartner,
                OffInventory, UnitsThatFollowed, Followers, rename_map, Partner, Decides,
                LandedOffTarget, Landed, OnTarget, Decided
  <2>7. fused' = fused
    BY <1>6 DEF inputs, fused, Clash, SharesWith, Landed, used, every, Own
  <2> QED BY <2>2, <2>5, <2>6, <2>7
<1>7. CASE Settle
  <2>0. /\ stage = "checked" /\ stage' = "settled"
        /\ UNCHANGED <<inputs, shape, map, placed, displaced>>
        /\ status' = IF applied /\ unresolved = {} /\ fused = {} THEN "completed" ELSE "partial"
    BY <1>7 DEF Settle
  <2>1. MapFits' /\ LookedAt'
    BY <1>6, <2>0 DEF IInv
  <2>2. Verdict'
    BY <1>2, <1>6, <2>0 DEF Verdict
  <2> QED BY <1>2, <2>0, <2>1, <2>2 DEF IInv
<1>8. CASE UNCHANGED vars
  <2>0. UNCHANGED <<inputs, shape, map, placed, displaced>> /\ stage' = stage /\ status' = status
    BY <1>8 DEF vars
  <2>1. (MapFits => MapFits') /\ (LookedAt => LookedAt')
    BY <1>6, <2>0
  <2>2. Verdict'
    BY <1>2, <1>6, <2>0 DEF Verdict, IInv
  <2> QED BY <1>2, <2>0, <2>1, <2>2 DEF IInv
<1> QED BY <1>3, <1>4, <1>5, <1>7, <1>8 DEF Next

(* What the first run did and what the look at it left standing.           *)
THEOREM Invariance == Spec => []IInv
BY InitInv, StepKeepsInv, PTL DEF Spec

------------------------------------------------------------------------------
(* The results.                                                            *)

(* After the second run two names share a port, or a name beside a port,   *)
(* only where an entry of the operator did it (run_plan_with_models,       *)
(* _undecided_clashes).                                                    *)
THEOREM OthersNeverFuse == Spec => []OnlyTheOperatorFuses
<1>1. ASSUME IInv, stage \in {"checked", "settled"}, applied,
             NEW n \in every, Clash(n), \A m \in SharesWith(n) : ~Asked(m)
      PROVE  FALSE
  <2>1. InputsFit /\ MapFits /\ ClashesAreSettled
    BY <1>1 DEF IInv, LookedAt
  <2>2. n \in Landed /\ Cardinality(SharesWith(n)) > 1 /\ SharesWith(n) \cap used # {}
    BY <1>1 DEF Clash
  <2>3. PICK m \in SharesWith(n) : m # n
    <3>1. ASSUME SharesWith(n) \subseteq {n} PROVE FALSE
      <4>1. IsFiniteSet({n}) /\ Cardinality({n}) = 1
        BY FS_Singleton
      <4>2. IsFiniteSet(SharesWith(n)) /\ Cardinality(SharesWith(n)) =< 1
        BY <3>1, <4>1, FS_Subset
      <4>3. Cardinality(SharesWith(n)) \in Nat
        BY <4>2, FS_CardinalityType
      <4> QED BY <2>2, <4>2, <4>3
    <3> QED BY <3>1
  <2>4. \A l \in SharesWith(n) :
            l \in every \ displaced /\ FirstPlace(l) = placed[n] /\ placed[n] # None
    <3>1. \A l \in SharesWith(n) : l \in every /\ placed[l] = placed[n] /\ placed[l] # None
      BY <2>2 DEF SharesWith, Landed
    <3> QED BY <2>1, <3>1, SecondRun
  <2>5. n \in SharesWith(n)
    BY <2>2 DEF SharesWith
  <2>6. SharesWith(n) \subseteq FirstShares(n) /\ FirstShares(m) = FirstShares(n)
    BY <2>3, <2>4, <2>5 DEF FirstShares, FirstLanded
  <2>7. FirstShares(n) \cap used # {}
    BY <2>2, <2>6
  <2>8. n \in DOMAIN Merged /\ m \in DOMAIN Merged
    BY <2>1, <2>3, <2>4, <2>5, <2>6, <2>7 DEF ClashesAreSettled
  <2>9. Merged[n] = placed[n] /\ Merged[m] = placed[n]
    BY <2>1, <2>3, <2>4, <2>5, <2>8, DecidedStay
  <2>10. ~Asked(n) /\ ~Asked(m)
    BY <1>1, <2>3, <2>5
  <2> QED BY <1>1, <2>1, <2>3, <2>4, <2>5, <2>8, <2>9, <2>10, DecidedAreApart
<1>2. IInv => OnlyTheOperatorFuses
  BY <1>1 DEF OnlyTheOperatorFuses
<1> QED BY <1>2, Invariance, PTL

(* A data port that the operator left alone goes where the pairing says.   *)
LEMMA DataPortsArePaired ==
    ASSUME InputsFit, MapFits, applied, NEW i \in DataPorts
    PROVE  /\ i \in 1..Len(source)
           /\ placed[source[i].name] = Partner(i)
<1>1. i \in Indices(used) /\ source[i].name \notin DOMAIN operator /\ source[i].role # "mgmt"
      /\ i \in 1..Len(source)
  BY DEF DataPorts, Indices
<1>2. Decides(i)
  BY <1>1 DEF Decides
<1>3. source[i].name \in DOMAIN rename_map /\ rename_map[source[i].name] = Partner(i)
  BY <1>1, <1>2, RenameMap
<1>4. source[i].name \notin DOMAIN Followers
  <2>1. source[i].name \in Own
    BY <1>1 DEF Own
  <2> QED BY <2>1, FollowersFit
<1>5. source[i].name \in DOMAIN Merged /\ Merged[source[i].name] = Partner(i)
  BY <1>1, <1>3, <1>4, MergedMap
<1> QED BY <1>1, <1>5, DecidedStay

(* What the operator decided, and the place of every port that was left to *)
(* the pairing, outlasts the look at the clashes and the second run        *)
(* (run_plan_with_models, plan_port_mapping).                              *)
THEOREM DecidedIsDone == Spec => []DecisionsStand
<1>1. ASSUME IInv, stage # "plan", applied
      PROVE  /\ \A n \in DOMAIN operator : placed[n] = operator[n]
             /\ \A i \in DataPorts :
                 LET places == {j \in 1..Len(target) : Group(target, j) = Group(source, i)} IN
                 IF placed[source[i].name] = None
                 THEN Position(source, i) > Cardinality(places)
                 ELSE \E j \in places :
                         /\ EndsOn(i, j)
                         /\ \A k \in DataPorts, l \in places : k > i /\ EndsOn(k, l) => l > j
  <2>1. InputsFit /\ MapFits
    BY <1>1 DEF IInv
  <2>2. \A n \in DOMAIN operator : placed[n] = operator[n]
    BY <1>1, <2>1, MergedMap, DecidedStay
  <2>3. ASSUME NEW i \in DataPorts, placed[source[i].name] = None
        PROVE  Position(source, i) > Cardinality({j \in 1..Len(target) : Group(target, j) = Group(source, i)})
    <3>1. i \in 1..Len(source) /\ ~Paired(i)
      BY <1>1, <2>1, <2>3, DataPortsArePaired, PartnersAreApart
    <3> QED BY <2>1, <3>1, UnpairedIsBeyond
  <2>4. ASSUME NEW i \in DataPorts, placed[source[i].name] # None
        PROVE  \E j \in {j \in 1..Len(target) : Group(target, j) = Group(source, i)} :
                  /\ EndsOn(i, j)
                  /\ \A k \in DataPorts, l \in {l \in 1..Len(target) : Group(target, l) = Group(source, i)} :
                        k > i /\ EndsOn(k, l) => l > j
    <3>1. i \in 1..Len(source) /\ Paired(i)
      BY <1>1, <2>1, <2>4, DataPortsArePaired, PartnersAreApart
    <3>2. PICK j \in 1..Len(target) : IsPartner(i, j) /\ Partner(i) = target[j].name
      BY <1>1, <2>1, <3>1, PartnersAreApart
    <3>3. EndsOn(i, j) /\ Group(target, j) = Group(source, i)
      BY <1>1, <2>1, <3>2, DataPortsArePaired DEF EndsOn, IsPartner
    <3>4. ASSUME NEW k \in DataPorts, NEW l \in 1..Len(target), Group(target, l) = Group(source, i),
                 k > i, EndsOn(k, l)
          PROVE  l > j
      <4>1. k \in 1..Len(source) /\ Partner(k) = target[l].name
        BY <1>1, <2>1, <3>4, DataPortsArePaired DEF EndsOn
      <4>2. target[l].name # None
        BY <2>1, InventoriesFit, NoneIsNoName DEF Bases
      <4>3. Paired(k)
        BY <1>1, <2>1, <4>1, <4>2, PartnersAreApart
      <4>4. PICK p \in 1..Len(target) : IsPartner(k, p) /\ Partner(k) = target[p].name
        BY <1>1, <2>1, <4>1, <4>3, PartnersAreApart
      <4>5. p = l
        BY <1>1, <4>1, <4>4, NamedOnce
      <4>6. Group(source, i) = Group(source, k)
        BY <3>4, <4>4, <4>5 DEF IsPartner
      <4>7. i < k
        BY <3>1, <3>4, <4>1
      <4>8. j < l
        BY <1>1, <2>1, <3>1, <3>2, <4>1, <4>4, <4>5, <4>6, <4>7, PartnersAreApart
      <4> QED BY <4>8
    <3> QED BY <3>3, <3>4
  <2> QED BY <2>2, <2>3, <2>4
<1>2. IInv => DecisionsStand
  BY <1>1 DEF DecisionsStand
<1> QED BY <1>2, Invariance, PTL

(* A job that says completed can be taken as it is: each hardware name is  *)
(* alone on a place that it was given, and no logical name is on a port    *)
(* (settle_plan, MappingPlan.unresolved, _units_that_followed).            *)
THEOREM CompletedCanBeTaken == Spec => []CompletedIsRight
<1>1. ASSUME IInv, status = "completed"
      PROVE  /\ \A n \in used :
                  /\ ~Clash(n)
                  /\ n \in DOMAIN map \/ PortOf(n) \in DOMAIN map
                  /\ placed[n] = None => Asked(n)
             /\ \A n \in every \ DOMAIN operator : placed[n] \in OnTarget => n \in used
  <2>1. applied /\ unresolved = {} /\ fused = {} /\ stage = "settled"
    BY <1>1 DEF IInv, Verdict
  <2>2. InputsFit /\ MapFits /\ PortsAreFree
    BY <1>1, <2>1 DEF IInv, LookedAt
  <2>3. displaced = {} /\ Unplaced \subseteq DOMAIN operator
        /\ OffInventory \subseteq UnitsThatFollowed \cup DOMAIN operator
    BY <2>1 DEF unresolved
  <2>4. /\ DOMAIN map = DOMAIN Merged
        /\ \A n \in DOMAIN Merged : map[n] = Merged[n] /\ placed[n] = Merged[n]
    BY <2>2, <2>3, DecidedStay DEF MapFits
  <2>5. \A n \in used : ~Clash(n)
    BY <2>1, UsedNames DEF fused
  <2>6. \A n \in DOMAIN operator : n \in DOMAIN Merged
    BY <2>1, MergedMap
  (* A port with no partner was given one by the operator.                 *)
  <2>7. ASSUME NEW n \in DOMAIN rename_map, n \notin DOMAIN operator
        PROVE  rename_map[n] # None
    <3>1. PICK i \in Indices(used) : source[i].name = n /\ rename_map[n] = Partner(i)
      BY <2>1, <2>2, RenameMap
    <3>2. n \notin Unplaced
      BY <2>3, <2>7
    <3>3. Paired(i) /\ i \in 1..Len(source)
      BY <3>1, <3>2 DEF Unplaced, Indices
    <3> QED BY <2>1, <2>2, <3>1, <3>3, PartnersAreApart
  <2>8. ASSUME NEW n \in DOMAIN map, map[n] = None PROVE n \in DOMAIN operator \/ PortOf(n) \in DOMAIN operator
    <3>1. CASE n \in DOMAIN rename_map /\ Merged[n] = rename_map[n]
      BY <2>4, <2>7, <2>8, <3>1
    <3>2. CASE n \in DOMAIN Followers /\ Merged[n] = Followers[n] /\ PortOf(n) \notin DOMAIN operator
      <4>1. PortOf(n) \in DOMAIN rename_map /\ Merged[n] = Moved(n, rename_map[PortOf(n)])
        BY <3>2, FollowersFit
      <4>2. rename_map[PortOf(n)] # None
        BY <2>7, <3>2, <4>1
      <4>3. UnitOn(rename_map[PortOf(n)], n) # None
        <5>1. Len(UnitOn(rename_map[PortOf(n)], n)) = 2 /\ Len(<<>>) = 0
          BY DEF UnitOn
        <5> QED BY <5>1 DEF None
      <4> QED BY <2>4, <2>8, <4>1, <4>2, <4>3 DEF Moved
    <3> QED BY <2>1, <2>4, <3>1, <3>2, MergedMap
  <2>9. ASSUME NEW n \in used
        PROVE  /\ n \in DOMAIN map \/ PortOf(n) \in DOMAIN map
               /\ placed[n] = None => Asked(n)
    <3>1. CASE n \in DOMAIN map
      BY <2>4, <2>8, <3>1 DEF Asked
    <3>2. CASE n \notin DOMAIN map /\ n \in Own
      <4>1. PICK i \in 1..Len(source) : source[i].name = n
        BY <3>2 DEF Own
      <4>2. i \in Indices(used)
        BY <2>9, <4>1 DEF Indices
      <4>3. n \notin DOMAIN rename_map /\ n \notin DOMAIN operator
        BY <2>1, <2>4, <3>2, MergedMap
      <4>4. ~Decides(i)
        BY <2>1, <2>2, <4>1, <4>2, <4>3, RenameMap
      <4>5. ~Paired(i)
        BY <4>4 DEF Decides
      <4>6. n \in Unplaced
        BY <4>1, <4>2, <4>5 DEF Unplaced
      <4> QED BY <2>3, <4>3, <4>6
    <3>3. CASE n \notin DOMAIN map /\ n \notin Own
      <4>1. n \in UnitsThatFollowed
        BY <2>3, <2>4, <2>6, <2>9, <3>3 DEF OffInventory
      <4>2. ~same
        BY <2>1, <2>4, <3>3, <4>1, MergedMap DEF UnitsThatFollowed
      <4>3. PortOf(n) \in DOMAIN map /\ placed[n] = Moved(n, map[PortOf(n)])
        BY <4>1, <4>2 DEF UnitsThatFollowed
      <4>4. UnitOn(map[PortOf(n)], n) # None
        <5>1. Len(UnitOn(map[PortOf(n)], n)) = 2 /\ Len(<<>>) = 0
          BY DEF UnitOn
        <5> QED BY <5>1 DEF None
      <4>5. placed[n] = None => map[PortOf(n)] = None
        BY <4>3, <4>4 DEF Moved
      <4>6. placed[n] = None => PortOf(n) \in DOMAIN operator \/ PortOf(PortOf(n)) \in DOMAIN operator
        BY <2>8, <4>3, <4>5
      <4>7. PortOf(PortOf(n)) = PortOf(n)
        BY DEF PortOf
      <4> QED BY <4>3, <4>6, <4>7 DEF Asked
    <3> QED BY <3>1, <3>2, <3>3
  <2>10. ASSUME NEW n \in every \ DOMAIN operator, placed[n] \in OnTarget, n \notin used
         PROVE  FALSE
    <3>1. n \notin DOMAIN Merged
      <4>1. n \notin DOMAIN rename_map /\ n \notin DOMAIN Followers
        BY <2>1, <2>2, <2>10, RenameMap, FollowersFit
      <4> QED BY <2>1, <2>10, <4>1, MergedMap
    <3>2. placed[n] # None
      <4>1. \A j \in 1..Len(target) : target[j].name # None
        BY <2>2, InventoriesFit, NoneIsNoName DEF Bases
      <4> QED BY <2>10, <4>1 DEF OnTarget
    <3>3. FirstPlace(n) = placed[n]
      BY <2>2, <2>10, <3>2, SecondRun
    <3> QED BY <2>2, <2>3, <2>10, <3>1, <3>3 DEF PortsAreFree
  <2> QED BY <2>5, <2>9, <2>10
<1>2. IInv => CompletedIsRight
  BY <1>1 DEF CompletedIsRight
<1> QED BY <1>2, Invariance, PTL
==============================================================================
