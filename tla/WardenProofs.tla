------------------------------ MODULE WardenProofs ------------------------------
(***************************************************************************)
(* Proofs about Warden, for any containers, addresses and requests.        *)
(*                                                                         *)
(* Caps: every way out of session_new gives its place back, and the        *)
(* requests that are inside it together pass a cap by no more than their   *)
(* number less one.  The caps are read in one step and passed in a later   *)
(* one, so the invariant counts, with what is there, what the requests     *)
(* that were let through will still add.                                   *)
(*                                                                         *)
(* Keepers: no container is in two hands, whatever fails in docker, nor    *)
(* in none while nothing fails, and the count that the per-address cap     *)
(* reads is the number of sessions.                                        *)
(*                                                                         *)
(* Deadlines: with a prompt docker sessions end and containers are         *)
(* recycled on time; the invariant sets ages against the reaper's sleep.   *)
(***************************************************************************)
EXTENDS Warden, FiniteSetTheorems, TLAPS

Tables == [Ips -> IpRecord \cup {None}]

(* The parts of the state that the caps are about.                         *)
Shapes ==
    /\ active \in [Boxes -> Session \cup {None}]
    /\ perIp \in Tables
    /\ mint \in [Mints -> Minting \cup {NoMint}]

PoolShape == pool \in Seq(Pooled)

(* Let through for this address, and without a session yet.                *)
Bound(ip) == {m \in Mints : mint[m].at \in {"creating", "reclaiming"} /\ mint[m].ip = ip}
CountIn(table, ip) == IF table[ip] = None THEN 0 ELSE table[ip].active
Count(ip) == CountIn(perIp, ip)

AddressIsBounded(ip) == Count(ip) + Cardinality(Bound(ip)) =< PerIpMax + Spare

IInv ==
    /\ Shapes
    /\ ReservingIsExact
    /\ UsedIsBounded
    /\ \A ip \in Ips : AddressIsBounded(ip)

------------------------------------------------------------------------------
(* Numbers and records.                                                    *)

LEMMA BoundsAreNumbers ==
    /\ MaxActive \in Nat /\ MaxActive > 0 /\ PerIpMax \in Nat /\ PerIpMax > 0
    /\ MintWindow \in Nat /\ MintWindow > 0 /\ Period \in Nat /\ PerIpTTL \in Nat
    /\ HardTTL \in Nat /\ IdleTTL \in Nat /\ HbHidden \in Nat
BY WardenAssumption

LEMMA BoundsAreFinite ==
    /\ IsFiniteSet(Boxes) /\ IsFiniteSet(Mints)
    /\ Cardinality(Mints) \in Nat
    /\ Spare = Cardinality(Mints) - 1
BY WardenAssumption, FS_CardinalityType DEF Spare

LEMMA CapsAreNumbers ==
    {AgeCap, IdleCap, BeatCap, SeenCap} \subseteq Nat \ {0}
BY BoundsAreNumbers DEF AgeCap, IdleCap, BeatCap, SeenCap

LEMMA MinIsBetween ==
    ASSUME NEW a \in Nat, NEW b \in Nat
    PROVE  Min({a, b}) \in 0..b
<1>1. \E x \in {a, b} : \A y \in {a, b} : x <= y
  OBVIOUS
<1>2. Min({a, b}) \in {a, b} /\ \A y \in {a, b} : Min({a, b}) <= y
  BY <1>1 DEF Min
<1> QED
  BY <1>2

LEMMA OlderIsInBounds ==
    ASSUME NEW n \in Nat, NEW cap \in Nat
    PROVE  Older(n, cap) \in 0..cap
BY MinIsBetween DEF Older

LEMMA NoneIsNothing ==
    /\ None \notin Session
    /\ None \notin IpRecord
    /\ NoMint \notin Minting
    /\ NoMint.at = "idle"
<1>1. \A s \in Session : DOMAIN s # {"none"}
  BY DEF Session
<1>2. \A r \in IpRecord : DOMAIN r # {"none"}
  BY DEF IpRecord
<1>3. DOMAIN None = {"none"}
  BY DEF None
<1> QED
  BY <1>1, <1>2, <1>3 DEF Minting, NoMint

LEMMA NewRecordIsRecord == NewRecord \in IpRecord /\ NewRecord.active = 0
BY BoundsAreNumbers, CapsAreNumbers DEF NewRecord, IpRecord

LEMMA RecordIsRecord ==
    ASSUME Shapes, NEW ip \in Ips
    PROVE  Record(perIp, ip) \in IpRecord /\ Record(perIp, ip).active = Count(ip)
BY NewRecordIsRecord DEF Shapes, Tables, Record, Count, CountIn

------------------------------------------------------------------------------
(* Counting requests.                                                      *)

One(b) == IF b THEN 1 ELSE 0
LetThrough(r, ip) == r.at \in {"creating", "reclaiming"} /\ r.ip = ip

LEMMA MovingOne ==
    ASSUME NEW S, IsFiniteSet(S), NEW x, NEW T, T \in {S \cup {x}, S \ {x}}
    PROVE  /\ IsFiniteSet(T) /\ Cardinality(T) \in Nat /\ Cardinality(S) \in Nat
           /\ Cardinality(T) = Cardinality(S) + One(x \in T) - One(x \in S)
<1>1. CASE T = S \cup {x}
  BY <1>1, FS_AddElement, FS_CardinalityType DEF One
<1>2. CASE T = S \ {x}
  <2>1. /\ IsFiniteSet(T) /\ Cardinality(S) \in Nat /\ Cardinality(T) \in Nat
        /\ Cardinality(T) = IF x \in S THEN Cardinality(S) - 1 ELSE Cardinality(S)
    BY <1>2, FS_RemoveElement, FS_CardinalityType
  <2>2. One(x \in T) = 0 /\ (x \in S => One(x \in S) = 1) /\ (x \notin S => One(x \in S) = 0)
    BY <1>2 DEF One
  <2> QED
    BY <2>1, <2>2
<1> QED
  BY <1>1, <1>2

(* A request that goes from one place to another is counted there.         *)
LEMMA MintMoves ==
    ASSUME NEW m \in Mints, NEW r, mint' = [mint EXCEPT ![m] = r], DOMAIN mint = Mints
    PROVE  /\ \A w \in {"creating", "reclaiming"} :
                /\ Cardinality(MintsAt(w)) \in Nat
                /\ Cardinality(MintsAt(w))' \in Nat
                /\ Cardinality(MintsAt(w))' =
                       Cardinality(MintsAt(w)) + One(r.at = w) - One(mint[m].at = w)
           /\ \A ip \in Ips :
                /\ Cardinality(Bound(ip)) \in Nat
                /\ Cardinality(Bound(ip))' \in Nat
                /\ Cardinality(Bound(ip))' =
                       Cardinality(Bound(ip)) + One(LetThrough(r, ip)) - One(LetThrough(mint[m], ip))
<1>1. mint'[m] = r /\ \A n \in Mints : n # m => mint'[n] = mint[n]
  OBVIOUS
<1>2. ASSUME NEW w \in {"creating", "reclaiming"}
      PROVE  /\ Cardinality(MintsAt(w)) \in Nat
             /\ Cardinality(MintsAt(w))' \in Nat
             /\ Cardinality(MintsAt(w))' =
                    Cardinality(MintsAt(w)) + One(r.at = w) - One(mint[m].at = w)
  <2>1. IsFiniteSet(MintsAt(w))
    BY BoundsAreFinite, FS_Subset DEF MintsAt
  <2>2. MintsAt(w)' \in {MintsAt(w) \cup {m}, MintsAt(w) \ {m}}
    BY <1>1 DEF MintsAt
  <2>3. (m \in MintsAt(w)' <=> r.at = w) /\ (m \in MintsAt(w) <=> mint[m].at = w)
    BY <1>1 DEF MintsAt
  <2> QED
    BY <2>1, <2>2, <2>3, MovingOne
<1>3. ASSUME NEW ip \in Ips
      PROVE  /\ Cardinality(Bound(ip)) \in Nat
             /\ Cardinality(Bound(ip))' \in Nat
             /\ Cardinality(Bound(ip))' =
                    Cardinality(Bound(ip)) + One(LetThrough(r, ip)) - One(LetThrough(mint[m], ip))
  <2>1. IsFiniteSet(Bound(ip))
    BY BoundsAreFinite, FS_Subset DEF Bound
  <2>2. Bound(ip)' \in {Bound(ip) \cup {m}, Bound(ip) \ {m}}
    BY <1>1 DEF Bound
  <2>3. (m \in Bound(ip)' <=> LetThrough(r, ip)) /\ (m \in Bound(ip) <=> LetThrough(mint[m], ip))
    BY <1>1 DEF Bound, LetThrough
  <2>4. One(m \in Bound(ip)') = One(LetThrough(r, ip)) /\ One(m \in Bound(ip)) = One(LetThrough(mint[m], ip))
    BY <2>3 DEF One
  <2>5. /\ Cardinality(Bound(ip)) \in Nat /\ Cardinality(Bound(ip)') \in Nat
        /\ Cardinality(Bound(ip)') =
               Cardinality(Bound(ip)) + One(m \in Bound(ip)') - One(m \in Bound(ip))
    BY <2>1, <2>2, MovingOne
  <2> QED
    BY <2>4, <2>5
<1> QED
  BY <1>2, <1>3

(* A request that is elsewhere leaves one fewer to be there.               *)
LEMMA OneIsElsewhere ==
    ASSUME NEW m \in Mints
    PROVE  /\ mint[m].at # "reclaiming" => Cardinality(MintsAt("reclaiming")) =< Spare
           /\ \A ip \in Ips :
                /\ Cardinality(Bound(ip)) \in Nat
                /\ Cardinality(Bound(ip)) =< Spare + 1
                /\ ~LetThrough(mint[m], ip) => Cardinality(Bound(ip)) =< Spare
<1>1. IsFiniteSet(Mints \ {m}) /\ Cardinality(Mints \ {m}) = Spare
  BY BoundsAreFinite, FS_RemoveElement
<1>2. ASSUME mint[m].at # "reclaiming" PROVE Cardinality(MintsAt("reclaiming")) =< Spare
  <2>1. MintsAt("reclaiming") \subseteq Mints \ {m}
    BY <1>2 DEF MintsAt
  <2> QED
    BY <1>1, <2>1, FS_Subset
<1>3. ASSUME NEW ip \in Ips
      PROVE  /\ Cardinality(Bound(ip)) \in Nat
             /\ Cardinality(Bound(ip)) =< Spare + 1
             /\ ~LetThrough(mint[m], ip) => Cardinality(Bound(ip)) =< Spare
  <2>1. Bound(ip) \subseteq Mints
    BY DEF Bound
  <2>2. Cardinality(Bound(ip)) \in Nat /\ Cardinality(Bound(ip)) =< Spare + 1
    BY <2>1, BoundsAreFinite, FS_Subset, FS_CardinalityType
  <2>3. ~LetThrough(mint[m], ip) => Bound(ip) \subseteq Mints \ {m}
    BY DEF Bound, LetThrough
  <2> QED
    BY <1>1, <2>2, <2>3, FS_Subset
<1> QED
  BY <1>2, <1>3

(* The sessions.                                                           *)
LEMMA SessionsAreFinite ==
    /\ IsFiniteSet(Sessions) /\ Cardinality(Sessions) \in Nat
    /\ IsFiniteSet(Sessions') /\ Cardinality(Sessions') \in Nat
<1>1. Sessions \subseteq Boxes /\ Sessions' \subseteq Boxes
  BY DEF Sessions
<1> QED
  BY <1>1, BoundsAreFinite, FS_Subset, FS_CardinalityType

LEMMA SessionsGrow ==
    ASSUME NEW b, Sessions' \subseteq Sessions \cup {b}
    PROVE  Cardinality(Sessions') =< Cardinality(Sessions) + 1
<1>1. /\ IsFiniteSet(Sessions \cup {b})
      /\ Cardinality(Sessions \cup {b}) =< Cardinality(Sessions) + 1
  BY SessionsAreFinite, FS_AddElement
<1>2. Cardinality(Sessions') =< Cardinality(Sessions \cup {b})
  BY <1>1, FS_Subset
<1>3. Cardinality(Sessions \cup {b}) \in Nat
  BY <1>1, FS_CardinalityType
<1> QED
  BY <1>1, <1>2, <1>3, SessionsAreFinite

LEMMA SessionsShrink ==
    /\ Sessions' \subseteq Sessions => Cardinality(Sessions') =< Cardinality(Sessions)
    /\ \A b \in Sessions : Sessions' = Sessions \ {b} =>
           Cardinality(Sessions') = Cardinality(Sessions) - 1
BY SessionsAreFinite, FS_Subset, FS_RemoveElement

------------------------------------------------------------------------------
(* What the handlers do to the table of addresses.                         *)

LEMMA TouchedCounts ==
    ASSUME Shapes, NEW ip \in Ips, NEW old \in Nat
    PROVE  /\ Touched(ip, old) \in Tables
           /\ \A q \in Ips : CountIn(Touched(ip, old), q) = Count(q)
<1> DEFINE rec == [Record(perIp, ip) EXCEPT !.seen = Min({old, SeenCap})]
<1>1. Record(perIp, ip) \in IpRecord /\ Record(perIp, ip).active = Count(ip)
  BY RecordIsRecord
<1>2. Min({old, SeenCap}) \in 0..SeenCap
  BY CapsAreNumbers, MinIsBetween
<1>3. rec \in IpRecord /\ rec.active = Count(ip)
  BY <1>1, <1>2 DEF IpRecord
<1>4. Touched(ip, old) = [perIp EXCEPT ![ip] = rec]
  BY DEF Touched
<1> HIDE DEF rec
<1>5. Touched(ip, old) \in Tables
  BY <1>3, <1>4 DEF Tables, Shapes
<1>6. ASSUME NEW q \in Ips PROVE CountIn(Touched(ip, old), q) = Count(q)
  <2>1. CASE q = ip
    BY <1>3, <1>4, <2>1, NoneIsNothing DEF CountIn, Shapes, Tables
  <2>2. CASE q # ip
    BY <1>4, <2>2 DEF CountIn, Count, Shapes, Tables
  <2> QED
    BY <2>1, <2>2
<1> QED
  BY <1>5, <1>6

LEMMA LessOneCounts ==
    ASSUME NEW table \in Tables, NEW ip \in Ips
    PROVE  /\ LessOne(table, ip) \in Tables
           /\ \A q \in Ips : CountIn(LessOne(table, ip), q) =< CountIn(table, q)
<1>0. \A q \in Ips : CountIn(table, q) \in Nat
  BY DEF CountIn, Tables, IpRecord
<1>1. CASE table[ip] = None \/ table[ip].active = 0
  BY <1>0, <1>1 DEF LessOne
<1>2. CASE ~(table[ip] = None \/ table[ip].active = 0)
  <2> DEFINE rec == [table[ip] EXCEPT !.active = @ - 1]
  <2>1. table[ip] \in IpRecord
    BY <1>2 DEF Tables
  <2>2. rec \in IpRecord /\ rec.active = table[ip].active - 1
    BY <1>2, <2>1 DEF IpRecord
  <2>3. LessOne(table, ip) = [table EXCEPT ![ip] = rec]
    BY <1>2 DEF LessOne
  <2> HIDE DEF rec
  <2>4. LessOne(table, ip) \in Tables
    BY <2>2, <2>3 DEF Tables
  <2>5. ASSUME NEW q \in Ips PROVE CountIn(LessOne(table, ip), q) =< CountIn(table, q)
    <3>1. CASE q = ip
      <4>1. LessOne(table, ip)[q] = rec /\ rec # None /\ table[q] # None
        BY <1>2, <2>2, <2>3, <3>1, NoneIsNothing DEF Tables
      <4>2. table[q].active \in Nat
        BY <2>1, <3>1 DEF IpRecord
      <4> QED
        BY <2>2, <3>1, <4>1, <4>2 DEF CountIn
    <3>2. CASE q # ip
      BY <1>0, <2>3, <3>2 DEF CountIn, Tables
    <3> QED
      BY <3>1, <3>2
  <2> QED
    BY <2>4, <2>5
<1> QED
  BY <1>1, <1>2

LEMMA ForgetCounts ==
    ASSUME NEW table \in Tables, NEW S
    PROVE  /\ Forget(table, S) \in Tables
           /\ \A q \in Ips : CountIn(Forget(table, S), q) =< CountIn(table, q)
<1>0. \A q \in Ips : CountIn(table, q) \in Nat
  BY DEF CountIn, Tables, IpRecord
<1>1. \A q \in Ips : Forget(table, S)[q] \in {None, table[q]}
  BY DEF Forget
<1>2. Forget(table, S) \in Tables
  BY DEF Forget, Tables
<1> QED
  BY <1>0, <1>1, <1>2 DEF CountIn

LEMMA KeptCounts ==
    ASSUME Shapes, NEW table \in Kept(Swept)
    PROVE  /\ table \in Tables
           /\ \A q \in Ips : CountIn(table, q) =< Count(q)
<1>1. Swept \in Tables /\ \A q \in Ips : CountIn(Swept, q) =< Count(q)
  BY ForgetCounts DEF Swept, Shapes, Count
<1>2. PICK T : table = Forget(Swept, T)
  BY DEF Kept
<1>3. table \in Tables /\ \A q \in Ips : CountIn(table, q) =< CountIn(Swept, q)
  BY <1>1, <1>2, ForgetCounts
<1>4. \A q \in Ips : CountIn(table, q) \in Nat /\ CountIn(Swept, q) \in Nat /\ Count(q) \in Nat
  BY <1>1, <1>3 DEF CountIn, Count, Shapes, Tables, IpRecord
<1> QED
  BY <1>1, <1>3, <1>4

LEMMA CreditedIsRecord ==
    ASSUME NEW r \in IpRecord, NEW old \in Nat
    PROVE  Credited(r, old) \in IpRecord /\ Credited(r, old).active = r.active + 1
<1> DEFINE seen == Min({old, SeenCap})
<1>1. /\ r.active \in Nat /\ r.minted \in [0..(MintWindow - 1) -> Nat]
      /\ seen \in 0..SeenCap
  BY CapsAreNumbers, MinIsBetween DEF IpRecord
<1> HIDE DEF seen
<1>2. Noted(r.minted, old) \in [0..(MintWindow - 1) -> Nat]
  <2>1. DOMAIN r.minted = 0..(MintWindow - 1) /\ \A i \in 0..(MintWindow - 1) : r.minted[i] \in Nat
    BY <1>1
  <2> DEFINE K == 0..(MintWindow - 1)
  <2>2. \A i \in K : (IF i = old THEN r.minted[i] + 1 ELSE r.minted[i]) \in Nat
    BY <2>1
  <2>3. Noted(r.minted, old) = [i \in K |-> IF i = old THEN r.minted[i] + 1 ELSE r.minted[i]]
    BY <2>1 DEF Noted
  <2> HIDE DEF K
  <2>4. Noted(r.minted, old) \in [K -> Nat]
    BY <2>2, <2>3
  <2> QED
    BY <2>4 DEF K
<1> DEFINE Seen == 0..SeenCap
           Times == [0..(MintWindow - 1) -> Nat]
<1>3. IpRecord = [active : Nat, seen : Seen, minted : Times]
  BY DEF IpRecord
<1>4. seen \in Seen /\ Noted(r.minted, old) \in Times
  BY <1>1, <1>2
<1> HIDE DEF Seen, Times
<1> DEFINE a == [r EXCEPT !.active = @ + 1]
           b == [a EXCEPT !.seen = seen]
           c == [b EXCEPT !.minted = Noted(r.minted, old)]
<1>5. a \in IpRecord /\ a.active = r.active + 1
  BY <1>3
<1> HIDE DEF a
<1>6. b \in IpRecord /\ b.active = r.active + 1
  BY <1>3, <1>4, <1>5
<1> HIDE DEF b
<1>7. c \in IpRecord /\ c.active = r.active + 1
  BY <1>3, <1>4, <1>6
<1>8. Credited(r, old) = c
  BY DEF Credited, seen, a, b
<1> QED
  BY <1>7, <1>8

LEMMA LandCounts ==
    ASSUME Shapes, NEW ip \in Ips, NEW old \in 0..AgeCap, NEW b, Land(b, ip, old)
    PROVE  /\ active' \in [Boxes -> Session \cup {None}]
           /\ Sessions' \subseteq Sessions \cup {b}
           /\ perIp' \in Tables
           /\ Count(ip)' = Count(ip) + 1
           /\ \A q \in Ips : q # ip => Count(q)' = Count(q)
<1>0. old \in Nat /\ AgeCap \in Nat
  BY CapsAreNumbers
<1> DEFINE rec == Credited(Record(perIp, ip), old)
           session == [ip |-> ip, age |-> old, idle |-> Min({old, IdleCap}),
                       beat |-> Min({old, BeatCap}), hidden |-> FALSE]
<1>1. Record(perIp, ip) \in IpRecord /\ Record(perIp, ip).active = Count(ip)
  BY RecordIsRecord
<1>2. /\ Min({old, IdleCap}) \in 0..IdleCap
      /\ Min({old, BeatCap}) \in 0..BeatCap
  BY <1>0, CapsAreNumbers, MinIsBetween
<1>3. rec \in IpRecord /\ rec.active = Count(ip) + 1
  BY <1>0, <1>1, CreditedIsRecord
<1>4. session \in Session
  BY <1>2 DEF Session
<1>5. active' = [active EXCEPT ![b] = session] /\ perIp' = [perIp EXCEPT ![ip] = rec]
  BY DEF Land
<1> HIDE DEF rec, session
<1>6. active' \in [Boxes -> Session \cup {None}] /\ Sessions' \subseteq Sessions \cup {b}
  BY <1>4, <1>5 DEF Shapes, Sessions
<1>7. perIp' \in Tables
  BY <1>3, <1>5 DEF Tables, Shapes
<1>8. Count(ip)' = Count(ip) + 1
  <2>1. perIp'[ip] = rec
    BY <1>5 DEF Shapes, Tables
  <2>2. rec # None
    BY <1>3, NoneIsNothing
  <2>3. Count(ip)' = perIp'[ip].active
    BY <2>1, <2>2 DEF Count, CountIn
  <2> QED
    BY <1>3, <2>1, <2>3
<1>9. \A q \in Ips : q # ip => Count(q)' = Count(q)
  BY <1>5 DEF Count, CountIn, Shapes, Tables
<1> QED
  BY <1>6, <1>7, <1>8, <1>9

(* Dropping a session.                                                     *)
LEMMA DroppedSession ==
    ASSUME Shapes, NEW b \in Sessions, active' = [active EXCEPT ![b] = None]
    PROVE  /\ active[b].ip \in Ips
           /\ active' \in [Boxes -> Session \cup {None}]
           /\ Sessions' = Sessions \ {b}
<1>1. active[b] \in Session
  BY DEF Shapes, Sessions
<1>2. active' \in [Boxes -> Session \cup {None}]
  BY DEF Shapes
<1>3. Sessions' = Sessions \ {b}
  BY DEF Shapes, Sessions
<1> QED
  BY <1>1, <1>2, <1>3 DEF Session

------------------------------------------------------------------------------
(* What keeps the invariant.                                               *)

LEMMA MintShape ==
    ASSUME Shapes, NEW m \in Mints
    PROVE  /\ mint[m] \in Minting \cup {NoMint}
           /\ mint[m].at \in {"creating", "ending", "reclaiming"} =>
                  mint[m].ip \in Ips /\ mint[m].age \in 0..AgeCap
<1>1. mint[m] \in Minting \cup {NoMint}
  BY DEF Shapes
<1>2. CASE mint[m] = NoMint
  BY <1>1, <1>2, NoneIsNothing
<1>3. CASE mint[m] \in Minting
  BY <1>1, <1>3 DEF Minting
<1> QED
  BY <1>1, <1>2, <1>3

(* A step of anyone but a request inside session_new.                      *)
LEMMA QuietKeeps ==
    ASSUME IInv, Shapes', reserving' = reserving,
           \A m \in Mints : mint'[m].at = mint[m].at /\ mint'[m].ip = mint[m].ip,
           Sessions' \subseteq Sessions,
           \A ip \in Ips : Count(ip)' =< Count(ip)
    PROVE  IInv'
<1>1. /\ MintsAt("creating")' = MintsAt("creating")
      /\ MintsAt("reclaiming")' = MintsAt("reclaiming")
  BY DEF MintsAt
<1>2. \A ip \in Ips : Bound(ip)' = Bound(ip)
  BY DEF Bound
<1>3. /\ MintsAt("reclaiming") \subseteq Mints /\ MintsAt("creating") \subseteq Mints
      /\ \A ip \in Ips : Bound(ip) \subseteq Mints
  BY DEF MintsAt, Bound
<1>4. /\ Cardinality(MintsAt("reclaiming")) \in Nat /\ Cardinality(MintsAt("creating")) \in Nat
      /\ \A ip \in Ips : Cardinality(Bound(ip)) \in Nat
  BY <1>3, BoundsAreFinite, FS_Subset, FS_CardinalityType
<1>5. ReservingIsExact'
  BY <1>1 DEF IInv, ReservingIsExact
<1>6. UsedIsBounded'
  <2>1. Cardinality(Sessions') =< Cardinality(Sessions)
    BY SessionsShrink
  <2>2. reserving \in Nat
    BY <1>4 DEF IInv, ReservingIsExact
  <2>3. Cardinality(Sessions) + reserving + Cardinality(MintsAt("reclaiming")) =< MaxActive + Spare
    BY DEF IInv, UsedIsBounded, Used
  <2>4. Cardinality(Sessions') + reserving' + Cardinality(MintsAt("reclaiming"))' =< MaxActive + Spare
    BY <1>1, <1>4, <2>1, <2>2, <2>3, SessionsAreFinite, BoundsAreNumbers, BoundsAreFinite
  <2> QED
    BY <2>4 DEF UsedIsBounded, Used, Spare
<1>7. ASSUME NEW ip \in Ips PROVE AddressIsBounded(ip)'
  <2>1. Count(ip) \in Nat /\ Count(ip)' \in Nat
    BY DEF IInv, Shapes, Count, CountIn, Tables, IpRecord
  <2>2. Count(ip) + Cardinality(Bound(ip)) =< PerIpMax + Spare
    BY DEF IInv, AddressIsBounded
  <2>3. Count(ip)' + Cardinality(Bound(ip)') =< PerIpMax + Spare
    BY <1>2, <1>4, <2>1, <2>2, BoundsAreNumbers, BoundsAreFinite
  <2> QED
    BY <2>3 DEF AddressIsBounded, Spare
<1> QED
  BY <1>5, <1>6, <1>7 DEF IInv

LetThroughAnywhere(r) == r.at \in {"creating", "reclaiming"}

(* A step of a request inside session_new: what it adds it was let through *)
(* to add, or it adds one, and the caps that it reads leave room for it.   *)
LEMMA MoveKeeps ==
    ASSUME IInv, Shapes', NEW m \in Mints, NEW r, mint' = [mint EXCEPT ![m] = r],
           reserving' = reserving + One(r.at = "creating") - One(mint[m].at = "creating"),
           \/ Cardinality(Sessions') + One(LetThroughAnywhere(r))
                  =< Cardinality(Sessions) + One(LetThroughAnywhere(mint[m]))
           \/ /\ mint[m].at # "creating" /\ mint[m].at # "reclaiming" /\ r.at # "reclaiming"
              /\ Used < MaxActive
              /\ Cardinality(Sessions') + One(r.at = "creating") =< Cardinality(Sessions) + 1,
           \A ip \in Ips :
               \/ Count(ip)' + One(LetThrough(r, ip)) =< Count(ip) + One(LetThrough(mint[m], ip))
               \/ /\ Count(ip) < PerIpMax /\ ~LetThrough(mint[m], ip)
                  /\ Count(ip)' + One(LetThrough(r, ip)) =< Count(ip) + 1
    PROVE  IInv'
<1>0. DOMAIN mint = Mints
  BY DEF IInv, Shapes
<1> DEFINE creating == Cardinality(MintsAt("creating"))
           reclaiming == Cardinality(MintsAt("reclaiming"))
<1>1. /\ creating \in Nat /\ reclaiming \in Nat /\ creating' \in Nat /\ reclaiming' \in Nat
      /\ creating' = creating + One(r.at = "creating") - One(mint[m].at = "creating")
      /\ reclaiming' = reclaiming + One(r.at = "reclaiming") - One(mint[m].at = "reclaiming")
  BY <1>0, MintMoves
<1>2. reserving = creating
  BY DEF IInv, ReservingIsExact
<1>3. One(r.at = "creating") \in Nat /\ One(mint[m].at = "creating") \in Nat
      /\ One(r.at = "reclaiming") \in Nat /\ One(mint[m].at = "reclaiming") \in Nat
  BY DEF One
<1>4. reserving' = creating'
  BY <1>1, <1>2, <1>3
<1>5. UsedIsBounded'
  <2>1. One(r.at = "creating") + One(r.at = "reclaiming") = One(LetThroughAnywhere(r))
    BY DEF One, LetThroughAnywhere
  <2>2. One(mint[m].at = "creating") + One(mint[m].at = "reclaiming") = One(LetThroughAnywhere(mint[m]))
    BY DEF One, LetThroughAnywhere
  <2>3. Cardinality(Sessions) + creating + reclaiming =< MaxActive + Spare
    BY <1>2 DEF IInv, UsedIsBounded, Used
  <2>4. mint[m].at # "reclaiming" => reclaiming =< Spare
    BY OneIsElsewhere
  <2>5. /\ One(LetThroughAnywhere(r)) \in Nat /\ One(LetThroughAnywhere(mint[m])) \in Nat
        /\ mint[m].at # "creating" => One(mint[m].at = "creating") = 0
        /\ mint[m].at # "reclaiming" => One(mint[m].at = "reclaiming") = 0
        /\ r.at # "reclaiming" => One(r.at = "reclaiming") = 0
    BY DEF One
  <2>6. Used = Cardinality(Sessions) + creating
    BY <1>2 DEF Used
  <2>7. /\ Cardinality(Sessions) \in Nat /\ Cardinality(Sessions') \in Nat
        /\ MaxActive \in Nat /\ Spare \in Int
    BY SessionsAreFinite, BoundsAreNumbers, BoundsAreFinite
  <2> HIDE DEF creating, reclaiming
  <2>8. Cardinality(Sessions') + creating' + reclaiming' =< MaxActive + Spare
    <3>1. CASE Cardinality(Sessions') + One(LetThroughAnywhere(r))
                   =< Cardinality(Sessions) + One(LetThroughAnywhere(mint[m]))
      BY <1>1, <1>3, <2>1, <2>2, <2>3, <2>5, <2>7, <3>1
    <3>2. CASE /\ mint[m].at # "creating" /\ mint[m].at # "reclaiming" /\ r.at # "reclaiming"
               /\ Used < MaxActive
               /\ Cardinality(Sessions') + One(r.at = "creating") =< Cardinality(Sessions) + 1
      BY <1>1, <1>3, <2>4, <2>5, <2>6, <2>7, <3>2
    <3> QED
      BY <3>1, <3>2
  <2>9. (Cardinality(Sessions) + reserving + reclaiming =< MaxActive + Spare)'
    BY <1>4, <2>8 DEF Spare
  <2> QED
    BY <2>9 DEF UsedIsBounded, Used, reclaiming
<1>6. ASSUME NEW ip \in Ips PROVE AddressIsBounded(ip)'
  <2> DEFINE bound == Cardinality(Bound(ip))
  <2>1. /\ bound \in Nat /\ bound' \in Nat
        /\ bound' = bound + One(LetThrough(r, ip)) - One(LetThrough(mint[m], ip))
    BY <1>0, MintMoves
  <2>2. Count(ip) \in Nat /\ Count(ip)' \in Nat
    BY DEF IInv, Shapes, Count, CountIn, Tables, IpRecord
  <2>3. Count(ip) + bound =< PerIpMax + Spare
    BY DEF IInv, AddressIsBounded
  <2>4. ~LetThrough(mint[m], ip) => bound =< Spare /\ One(LetThrough(mint[m], ip)) = 0
    BY OneIsElsewhere DEF One
  <2>5. One(LetThrough(r, ip)) \in Nat /\ One(LetThrough(mint[m], ip)) \in Nat
    BY DEF One
  <2>6. PerIpMax \in Nat /\ Spare \in Int
    BY BoundsAreNumbers, BoundsAreFinite
  <2> HIDE DEF bound
  <2>7. Count(ip)' + bound' =< PerIpMax + Spare
    <3>1. CASE Count(ip)' + One(LetThrough(r, ip)) =< Count(ip) + One(LetThrough(mint[m], ip))
      BY <2>1, <2>2, <2>3, <2>5, <2>6, <3>1
    <3>2. CASE /\ Count(ip) < PerIpMax /\ ~LetThrough(mint[m], ip)
               /\ Count(ip)' + One(LetThrough(r, ip)) =< Count(ip) + 1
      BY <2>1, <2>2, <2>4, <2>5, <2>6, <3>2
    <3> QED
      BY <3>1, <3>2
  <2>8. (Count(ip) + bound =< PerIpMax + Spare)'
    BY <2>7 DEF Spare
  <2> QED
    BY <2>8 DEF AddressIsBounded, bound
<1> QED
  BY <1>4, <1>5, <1>6 DEF IInv, ReservingIsExact

------------------------------------------------------------------------------
(* The handlers, one by one.                                               *)

(* Every session counts for an address, at most as many as before.         *)
Fewer ==
    /\ active' \in [Boxes -> Session \cup {None}]
    /\ perIp' \in Tables
    /\ Sessions' \subseteq Sessions
    /\ \A ip \in Ips : Count(ip)' =< Count(ip)

LEMMA FewerKeeps ==
    ASSUME IInv, Fewer, UNCHANGED <<reserving, mint>>
    PROVE  IInv'
<1>1. Shapes'
  BY DEF IInv, Shapes, Fewer, Tables, Session, IpRecord, Minting, AgeCap, IdleCap, BeatCap, SeenCap,
         None, NoMint
<1> QED
  BY <1>1, QuietKeeps DEF Fewer

LEMMA DropFewer ==
    ASSUME IInv, NEW b \in Sessions, Drop(b)
    PROVE  Fewer /\ Sessions' = Sessions \ {b}
<1>1. /\ active[b].ip \in Ips /\ Sessions' = Sessions \ {b}
      /\ active' \in [Boxes -> Session \cup {None}]
  BY DroppedSession DEF IInv, Drop
<1>2. /\ perIp' \in Tables
      /\ \A q \in Ips : CountIn(perIp', q) =< CountIn(perIp, q)
  BY <1>1, LessOneCounts DEF IInv, Shapes, Drop
<1> QED
  BY <1>1, <1>2 DEF Fewer, Count, CountIn

LEMMA NothingFewer ==
    ASSUME IInv, UNCHANGED <<active, perIp>>
    PROVE  Fewer
<1>1. \A ip \in Ips : Count(ip) \in Nat
  BY DEF IInv, Shapes, Count, CountIn, Tables, IpRecord
<1>2. Sessions' = Sessions /\ \A ip \in Ips : Count(ip)' = Count(ip)
  BY DEF Sessions, Count, CountIn
<1> QED
  BY <1>1, <1>2 DEF Fewer, IInv, Shapes

LEMMA ProceedFewer ==
    ASSUME IInv, NEW table \in Tables, \A q \in Ips : CountIn(table, q) =< Count(q),
           NEW expired, NEW recycle, Proceed(table, expired, recycle)
    PROVE  Fewer
<1>1. CASE \E b \in expired \cap Sessions :
             /\ active' = [active EXCEPT ![b] = None]
             /\ perIp' = LessOne(table, active[b].ip)
  <2>1. PICK b \in Sessions : /\ active' = [active EXCEPT ![b] = None]
                               /\ perIp' = LessOne(table, active[b].ip)
    BY <1>1
  <2>2. /\ active[b].ip \in Ips /\ Sessions' = Sessions \ {b}
        /\ active' \in [Boxes -> Session \cup {None}]
    BY <2>1, DroppedSession DEF IInv
  <2>3. perIp' \in Tables /\ \A q \in Ips : CountIn(perIp', q) =< CountIn(table, q)
    BY <2>1, <2>2, LessOneCounts
  <2>4. \A q \in Ips : CountIn(perIp', q) \in Nat /\ CountIn(table, q) \in Nat /\ Count(q) \in Nat
    BY <2>3 DEF IInv, Shapes, Count, CountIn, Tables, IpRecord
  <2>5. \A q \in Ips : CountIn(perIp', q) =< Count(q)
    BY <2>3, <2>4
  <2> QED
    BY <2>2, <2>3, <2>5 DEF Fewer, Count, CountIn
<1>2. CASE UNCHANGED active /\ perIp' = table
  <2>1. Sessions' = Sessions
    BY <1>2 DEF Sessions
  <2> QED
    BY <1>2, <2>1 DEF Fewer, Count, CountIn, IInv, Shapes
<1> QED
  BY <1>1, <1>2 DEF Proceed

LEMMA EndKeeps ==
    ASSUME IInv, NEW b \in Boxes, End(b) PROVE IInv'
BY DropFewer, FewerKeeps DEF End

LEMMA QuietStepKeeps ==
    ASSUME IInv, UNCHANGED <<active, perIp, reserving, mint>> PROVE IInv'
BY NothingFewer, FewerKeeps

(* The visitor's own requests change a session and add none.               *)
LEMMA VisitKeeps ==
    ASSUME IInv, NEW b \in Sessions, NEW s \in Session, active' = [active EXCEPT ![b] = s],
           UNCHANGED <<perIp, reserving, mint>>
    PROVE  IInv'
<1>1. active' \in [Boxes -> Session \cup {None}] /\ Sessions' \subseteq Sessions
  BY DEF IInv, Shapes, Sessions
<1>2. \A ip \in Ips : Count(ip) \in Nat /\ Count(ip)' = Count(ip)
  BY DEF IInv, Shapes, Count, CountIn, Tables, IpRecord
<1> QED
  BY <1>1, <1>2, FewerKeeps DEF Fewer, IInv, Shapes

LEMMA SessionFields ==
    ASSUME NEW s \in Session
    PROVE  /\ s.age \in 0..AgeCap /\ s.idle \in 0..IdleCap /\ s.beat \in 0..BeatCap
           /\ \A n \in 0..AgeCap : [s EXCEPT !.age = n] \in Session
           /\ \A n \in 0..IdleCap : [s EXCEPT !.idle = n] \in Session
           /\ \A n \in 0..BeatCap : [s EXCEPT !.beat = n] \in Session
           /\ \A h \in BOOLEAN : [s EXCEPT !.hidden = h] \in Session
<1> DEFINE A == 0..AgeCap
           I == 0..IdleCap
           B == 0..BeatCap
<1>1. Session = [ip : Ips, age : A, idle : I, beat : B, hidden : BOOLEAN]
  BY DEF Session
<1> HIDE DEF A, I, B
<1>2. s.age \in A /\ s.idle \in I /\ s.beat \in B
  BY <1>1
<1>3. \A n \in A : [s EXCEPT !.age = n] \in Session
  BY <1>1
<1>4. \A n \in I : [s EXCEPT !.idle = n] \in Session
  BY <1>1
<1>5. \A n \in B : [s EXCEPT !.beat = n] \in Session
  BY <1>1
<1>6. \A h \in BOOLEAN : [s EXCEPT !.hidden = h] \in Session
  BY <1>1
<1> QED
  BY <1>2, <1>3, <1>4, <1>5, <1>6 DEF A, I, B

LEMMA HeartbeatKeeps ==
    ASSUME IInv, NEW b \in Boxes, NEW hides \in BOOLEAN, Heartbeat(b, hides) PROVE IInv'
<1> DEFINE seen == [active[b] EXCEPT !.beat = 0]
           s == [seen EXCEPT !.hidden = hides]
<1>1. b \in Sessions /\ active[b] \in Session
  BY DEF Heartbeat, IInv, Shapes, Sessions
<1>2. s \in Session
  <2>1. 0 \in 0..BeatCap
    BY CapsAreNumbers
  <2>2. seen \in Session
    BY <1>1, <2>1, SessionFields
  <2> HIDE DEF seen
  <2> QED
    BY <2>2, SessionFields
<1>3. active' = [active EXCEPT ![b] = s] /\ UNCHANGED <<perIp, reserving, mint>>
  BY DEF Heartbeat, IInv, Shapes
<1> HIDE DEF s
<1> QED
  BY <1>1, <1>2, <1>3, VisitKeeps

LEMMA RouteKeeps ==
    ASSUME IInv, NEW b \in Boxes, NEW post \in BOOLEAN, Route(b, post) PROVE IInv'
<1> DEFINE idle == IF post THEN 0 ELSE active[b].idle
           seen == [active[b] EXCEPT !.beat = 0]
           s == [seen EXCEPT !.idle = idle]
<1>1. b \in Sessions /\ active[b] \in Session
  BY DEF Route, Routed, IInv, Shapes, Sessions
<1>2. s \in Session
  <2>1. 0 \in 0..BeatCap /\ idle \in 0..IdleCap
    BY <1>1, SessionFields, CapsAreNumbers
  <2> HIDE DEF idle
  <2>2. seen \in Session
    BY <1>1, <2>1, SessionFields
  <2> HIDE DEF seen
  <2> QED
    BY <2>1, <2>2, SessionFields
<1>3. active' = [active EXCEPT ![b] = s] /\ UNCHANGED <<perIp, reserving, mint>>
  BY DEF Route, IInv, Shapes
<1> HIDE DEF s
<1> QED
  BY <1>1, <1>2, <1>3, VisitKeeps

LEMMA WakeKeeps ==
    ASSUME IInv, Wake PROVE IInv'
<1>1. PICK table \in Kept(Swept) :
        Proceed(table, Expired, {pool[i].box : i \in {k \in 1..Len(pool) : Aged(pool[k])}})
  BY DEF Wake
<1>2. table \in Tables /\ \A q \in Ips : CountIn(table, q) =< Count(q)
  BY KeptCounts DEF IInv
<1>3. Fewer
  BY <1>1, <1>2, ProceedFewer
<1> QED
  BY <1>3, FewerKeeps DEF Wake

LEMMA ReapedKeeps ==
    ASSUME IInv, Reaped PROVE IInv'
<1>1. perIp \in Tables /\ \A q \in Ips : CountIn(perIp, q) =< Count(q)
  BY DEF IInv, Shapes, Count, CountIn, Tables, IpRecord
<1>2. Fewer
  BY <1>1, ProceedFewer DEF Reaped
<1> QED
  BY <1>2, FewerKeeps DEF Reaped

------------------------------------------------------------------------------
(* session_new.                                                            *)

NotLetThrough(m) == mint[m].at # "creating" /\ mint[m].at # "reclaiming"

LEMMA CountsAreNumbers ==
    ASSUME Shapes PROVE \A ip \in Ips : Count(ip) \in Nat
BY DEF Shapes, Count, CountIn, Tables, IpRecord

LEMMA ReservingIsNumber ==
    ASSUME IInv PROVE reserving \in Nat
<1>1. MintsAt("creating") \subseteq Mints
  BY DEF MintsAt
<1> QED
  BY <1>1, BoundsAreFinite, FS_Subset, FS_CardinalityType DEF IInv, ReservingIsExact

(* What a record of where a request stands is, and whom it counts for.     *)
LEMMA Standing ==
    ASSUME NEW ip \in Ips, NEW age \in 0..AgeCap
    PROVE  /\ [at |-> "creating", ip |-> ip, age |-> age] \in Minting
           /\ \A b \in Boxes :
                /\ [at |-> "reclaiming", ip |-> ip, age |-> age, box |-> b] \in Minting
                /\ [at |-> "ending", ip |-> ip, age |-> age, box |-> b] \in Minting
<1> DEFINE A == 0..AgeCap
<1>1. Minting = [at : {"creating"}, ip : Ips, age : A]
                \cup [at : {"ending", "reclaiming"}, ip : Ips, age : A, box : Boxes]
  BY DEF Minting
<1>2. age \in A
  OBVIOUS
<1> HIDE DEF A
<1> QED
  BY <1>1, <1>2

LEMMA MovedShape ==
    ASSUME IInv, NEW m \in Mints, NEW r \in Minting \cup {NoMint}, mint' = [mint EXCEPT ![m] = r],
           active' \in [Boxes -> Session \cup {None}], perIp' \in Tables
    PROVE  Shapes'
<1>1. mint' \in [Mints -> Minting \cup {NoMint}]
  BY DEF IInv, Shapes
<1> QED
  BY <1>1 DEF Shapes, Tables, Session, IpRecord, Minting, AgeCap, IdleCap, BeatCap, SeenCap, None, NoMint

(* Refused: the record of the address is touched, and that is all.         *)
LEMMA RefusedKeeps ==
    ASSUME IInv, NEW m \in Mints, NotLetThrough(m), NEW ip \in Ips, NEW old \in 0..AgeCap,
           perIp' = Touched(ip, old), mint' = [mint EXCEPT ![m] = NoMint],
           UNCHANGED <<active, reserving>>
    PROVE  IInv'
<1>1. old \in Nat
  BY CapsAreNumbers
<1>2. perIp' \in Tables /\ \A q \in Ips : Count(q)' = Count(q)
  BY <1>1, TouchedCounts DEF IInv, Count, CountIn
<1>3. Shapes' /\ Sessions' = Sessions
  <2>1. active \in [Boxes -> Session \cup {None}]
    BY DEF IInv, Shapes
  <2>2. Shapes'
    BY <1>2, <2>1, MovedShape
  <2> QED
    BY <2>2 DEF Sessions
<1>4. NoMint.at = "idle"
  BY NoneIsNothing
<1>5. /\ One(NoMint.at = "creating") = 0 /\ One(mint[m].at = "creating") = 0
      /\ One(LetThroughAnywhere(NoMint)) = 0 /\ One(LetThroughAnywhere(mint[m])) = 0
      /\ \A q \in Ips : One(LetThrough(NoMint, q)) = 0 /\ One(LetThrough(mint[m], q)) = 0
  BY <1>4 DEF One, LetThroughAnywhere, LetThrough, NotLetThrough
<1>6. reserving \in Nat
  BY ReservingIsNumber
<1>7. reserving' = reserving + One(NoMint.at = "creating") - One(mint[m].at = "creating")
  BY <1>5, <1>6
<1>8. Cardinality(Sessions') + One(LetThroughAnywhere(NoMint))
          =< Cardinality(Sessions) + One(LetThroughAnywhere(mint[m]))
  BY <1>3, <1>5, SessionsAreFinite
<1>9. \A q \in Ips : Count(q)' + One(LetThrough(NoMint, q)) =< Count(q) + One(LetThrough(mint[m], q))
  BY <1>2, <1>5, CountsAreNumbers DEF IInv
<1> QED
  BY <1>3, <1>7, <1>8, <1>9, MoveKeeps

LEMMA TakeWarmKeeps ==
    ASSUME IInv, NEW m \in Mints, NotLetThrough(m), NEW ip \in Ips, NEW old \in 0..AgeCap,
           TakeWarm(m, ip, old)
    PROVE  IInv'
<1>1. /\ active' \in [Boxes -> Session \cup {None}]
      /\ Sessions' \subseteq Sessions \cup {Head(pool).box}
      /\ perIp' \in Tables
      /\ Count(ip)' = Count(ip) + 1
      /\ \A q \in Ips : q # ip => Count(q)' = Count(q)
  BY LandCounts DEF IInv, TakeWarm
<1>2. mint' = [mint EXCEPT ![m] = NoMint] /\ reserving' = reserving /\ Used < MaxActive
      /\ Count(ip) < PerIpMax
  <2>1. Record(perIp, ip).active < PerIpMax
    <3>1. ~(Record(perIp, ip).active >= PerIpMax)
      BY DEF TakeWarm, TooMany
    <3> QED
      BY <3>1, RecordIsRecord, CountsAreNumbers, BoundsAreNumbers DEF IInv
  <2>2. ~(Used >= MaxActive)
    BY DEF TakeWarm, FromPool, AtCap
  <2>3. Used \in Nat
    BY SessionsAreFinite, ReservingIsNumber DEF Used
  <2> QED
    BY <2>1, <2>2, <2>3, RecordIsRecord, BoundsAreNumbers DEF IInv, TakeWarm
<1>3. Shapes'
  BY <1>1, <1>2, MovedShape
<1>4. NoMint.at = "idle"
  BY NoneIsNothing
<1>5. /\ One(NoMint.at = "creating") = 0 /\ One(mint[m].at = "creating") = 0
      /\ \A q \in Ips : /\ One(LetThrough(NoMint, q)) = 0 /\ One(LetThrough(mint[m], q)) = 0
                        /\ ~LetThrough(mint[m], q)
  BY <1>4 DEF One, LetThrough, NotLetThrough
<1>6. reserving' = reserving + One(NoMint.at = "creating") - One(mint[m].at = "creating")
  BY <1>2, <1>5, ReservingIsNumber
<1>7. Cardinality(Sessions') + One(NoMint.at = "creating") =< Cardinality(Sessions) + 1
  BY <1>1, <1>5, SessionsGrow, SessionsAreFinite
<1>8. \A q \in Ips :
          \/ Count(q)' + One(LetThrough(NoMint, q)) =< Count(q) + One(LetThrough(mint[m], q))
          \/ /\ Count(q) < PerIpMax /\ ~LetThrough(mint[m], q)
             /\ Count(q)' + One(LetThrough(NoMint, q)) =< Count(q) + 1
  BY <1>1, <1>2, <1>5, CountsAreNumbers DEF IInv
<1> QED
  BY <1>2, <1>3, <1>4, <1>6, <1>7, <1>8, MoveKeeps DEF NotLetThrough

LEMMA ReserveKeeps ==
    ASSUME IInv, PoolShape, NEW m \in Mints, NotLetThrough(m), NEW ip \in Ips, NEW old \in 0..AgeCap,
           Reserve(m, ip, old)
    PROVE  IInv'
<1> DEFINE r == [at |-> "creating", ip |-> ip, age |-> old]
<1>1. /\ mint' = [mint EXCEPT ![m] = r] /\ reserving' = reserving + 1
      /\ active' = active /\ perIp' = Touched(ip, old)
  BY DEF Reserve
<1>2. r \in Minting /\ r.at = "creating" /\ r.ip = ip
  BY Standing
<1> HIDE DEF r
<1>3. old \in Nat
  BY CapsAreNumbers
<1>4. perIp' \in Tables /\ \A q \in Ips : Count(q)' = Count(q)
  BY <1>1, <1>3, TouchedCounts DEF IInv, Count, CountIn
<1>5. Shapes' /\ Sessions' = Sessions
  <2>1. active' \in [Boxes -> Session \cup {None}]
    BY <1>1 DEF IInv, Shapes
  <2>2. Shapes'
    BY <1>1, <1>2, <1>4, <2>1, MovedShape
  <2> QED
    BY <1>1, <2>2 DEF Sessions
<1>6. Used < MaxActive /\ Count(ip) < PerIpMax
  <2>1. ~(Record(perIp, ip).active >= PerIpMax)
    BY DEF Reserve, TooMany
  <2>2. Used \in Nat
    BY SessionsAreFinite, ReservingIsNumber DEF Used
  <2>3. Len(pool) \in Nat
    BY DEF PoolShape
  <2>4. Used < MaxActive
    BY <2>2, <2>3, BoundsAreNumbers DEF Reserve, Room
  <2> QED
    BY <2>1, <2>4, RecordIsRecord, CountsAreNumbers, BoundsAreNumbers DEF IInv
<1>7. /\ One(r.at = "creating") = 1 /\ One(mint[m].at = "creating") = 0
      /\ One(LetThrough(r, ip)) = 1
      /\ \A q \in Ips : /\ q # ip => One(LetThrough(r, q)) = 0
                        /\ One(LetThrough(mint[m], q)) = 0
                        /\ ~LetThrough(mint[m], q)
  BY <1>2 DEF One, LetThrough, NotLetThrough
<1>8. reserving' = reserving + One(r.at = "creating") - One(mint[m].at = "creating")
  BY <1>1, <1>7, ReservingIsNumber
<1>9. Cardinality(Sessions') + One(r.at = "creating") =< Cardinality(Sessions) + 1
  BY <1>5, <1>7, SessionsAreFinite
<1>10. \A q \in Ips :
          \/ Count(q)' + One(LetThrough(r, q)) =< Count(q) + One(LetThrough(mint[m], q))
          \/ /\ Count(q) < PerIpMax /\ ~LetThrough(mint[m], q)
             /\ Count(q)' + One(LetThrough(r, q)) =< Count(q) + 1
  BY <1>4, <1>6, <1>7, CountsAreNumbers DEF IInv
<1>11. r.at # "reclaiming"
  BY <1>2
<1> QED
  BY <1>1, <1>5, <1>6, <1>8, <1>9, <1>10, <1>11, MoveKeeps DEF NotLetThrough

LEMMA ReclaimKeeps ==
    ASSUME IInv, NEW m \in Mints, NotLetThrough(m), NEW ip \in Ips, NEW old \in 0..AgeCap,
           Reclaim(m, ip, old)
    PROVE  IInv'
<1>1. PICK b \in Victims(old) :
        /\ active' = [active EXCEPT ![b] = None]
        /\ perIp' = LessOne(Touched(ip, old), active[b].ip)
        /\ mint' = [mint EXCEPT ![m] = [at |-> "reclaiming", ip |-> ip, age |-> old, box |-> b]]
  BY DEF Reclaim
<1>2. b \in Sessions /\ b \in Boxes
  BY DEF Victims, Ripe, Sessions
<1> DEFINE r == [at |-> "reclaiming", ip |-> ip, age |-> old, box |-> b]
<1>3. r \in Minting /\ r.at = "reclaiming" /\ r.ip = ip
  BY <1>2, Standing
<1>4. mint' = [mint EXCEPT ![m] = r] /\ reserving' = reserving
  BY <1>1 DEF Reclaim
<1> HIDE DEF r
<1>5. /\ active[b].ip \in Ips /\ active' \in [Boxes -> Session \cup {None}]
      /\ Sessions' = Sessions \ {b}
  BY <1>1, <1>2, DroppedSession DEF IInv
<1>6. perIp' \in Tables /\ \A q \in Ips : Count(q)' =< Count(q)
  <2>1. old \in Nat
    BY CapsAreNumbers
  <2>2. /\ Touched(ip, old) \in Tables
        /\ \A q \in Ips : CountIn(Touched(ip, old), q) = Count(q)
    BY <2>1, TouchedCounts DEF IInv
  <2>3. /\ perIp' \in Tables
        /\ \A q \in Ips : CountIn(perIp', q) =< CountIn(Touched(ip, old), q)
    BY <1>1, <1>5, <2>2, LessOneCounts
  <2> QED
    BY <2>2, <2>3 DEF Count, CountIn
<1>7. Shapes'
  BY <1>3, <1>4, <1>5, <1>6, MovedShape
<1>8. Used < MaxActive \/ Used >= MaxActive
  BY SessionsAreFinite, ReservingIsNumber, BoundsAreNumbers DEF Used
<1>9. Count(ip) < PerIpMax
  <2>1. ~(Record(perIp, ip).active >= PerIpMax)
    BY DEF Reclaim, TooMany
  <2> QED
    BY <2>1, RecordIsRecord, CountsAreNumbers, BoundsAreNumbers DEF IInv
<1>10. /\ One(r.at = "creating") = 0 /\ One(mint[m].at = "creating") = 0
       /\ One(LetThroughAnywhere(r)) = 1 /\ One(LetThroughAnywhere(mint[m])) = 0
       /\ One(LetThrough(r, ip)) = 1
       /\ \A q \in Ips : /\ q # ip => One(LetThrough(r, q)) = 0
                         /\ One(LetThrough(mint[m], q)) = 0
                         /\ ~LetThrough(mint[m], q)
  BY <1>3 DEF One, LetThrough, LetThroughAnywhere, NotLetThrough
<1>11. reserving' = reserving + One(r.at = "creating") - One(mint[m].at = "creating")
  BY <1>4, <1>10, ReservingIsNumber
<1>12. Cardinality(Sessions') + One(LetThroughAnywhere(r))
           =< Cardinality(Sessions) + One(LetThroughAnywhere(mint[m]))
  <2>1. Cardinality(Sessions') = Cardinality(Sessions) - 1
    BY <1>2, <1>5, SessionsShrink
  <2> QED
    BY <1>10, <2>1, SessionsAreFinite
<1>13. \A q \in Ips : Count(q) \in Nat /\ Count(q)' \in Nat
  BY <1>7, CountsAreNumbers DEF IInv, Shapes, Count, CountIn, Tables, IpRecord
<1>14. \A q \in Ips :
          \/ Count(q)' + One(LetThrough(r, q)) =< Count(q) + One(LetThrough(mint[m], q))
          \/ /\ Count(q) < PerIpMax /\ ~LetThrough(mint[m], q)
             /\ Count(q)' + One(LetThrough(r, q)) =< Count(q) + 1
  BY <1>6, <1>9, <1>10, <1>13
<1> QED
  BY <1>4, <1>7, <1>11, <1>12, <1>14, MoveKeeps

LEMMA DecideKeeps ==
    ASSUME IInv, PoolShape, NEW m \in Mints, NotLetThrough(m), NEW ip \in Ips, NEW old \in 0..AgeCap,
           Decide(m, ip, old)
    PROVE  IInv'
<1>1. CASE RateLimited(m, ip, old)
  BY <1>1, RefusedKeeps DEF RateLimited
<1>2. CASE TakeWarm(m, ip, old)
  BY <1>2, TakeWarmKeeps
<1>3. CASE Reserve(m, ip, old)
  BY <1>3, ReserveKeeps
<1>4. CASE Reclaim(m, ip, old)
  BY <1>4, ReclaimKeeps
<1>5. CASE NoCapacity(m, ip, old)
  BY <1>5, RefusedKeeps DEF NoCapacity
<1> QED
  BY <1>1, <1>2, <1>3, <1>4, <1>5 DEF Decide

LEMMA ReplaceKeeps ==
    ASSUME IInv, NEW m \in Mints, NEW ip \in Ips, NEW b \in Boxes, Replace(m, ip, b)
    PROVE  IInv'
<1> DEFINE r == [at |-> "ending", ip |-> ip, age |-> 0, box |-> b]
<1>1. r \in Minting /\ r.at = "ending"
  <2>1. 0 \in 0..AgeCap
    BY CapsAreNumbers
  <2> QED
    BY <2>1, Standing
<1>2. mint' = [mint EXCEPT ![m] = r] /\ reserving' = reserving /\ mint[m] = NoMint
  BY DEF Replace
<1> HIDE DEF r
<1>3. Fewer
  BY DropFewer DEF Replace
<1>4. Shapes'
  BY <1>1, <1>2, <1>3, MovedShape DEF Fewer
<1>5. mint[m].at = "idle"
  BY <1>2, NoneIsNothing
<1>6. /\ One(r.at = "creating") = 0 /\ One(mint[m].at = "creating") = 0
      /\ One(LetThroughAnywhere(r)) = 0 /\ One(LetThroughAnywhere(mint[m])) = 0
      /\ \A q \in Ips : One(LetThrough(r, q)) = 0 /\ One(LetThrough(mint[m], q)) = 0
  BY <1>1, <1>5 DEF One, LetThroughAnywhere, LetThrough
<1>7. reserving' = reserving + One(r.at = "creating") - One(mint[m].at = "creating")
  BY <1>2, <1>6, ReservingIsNumber
<1>8. Cardinality(Sessions') + One(LetThroughAnywhere(r))
          =< Cardinality(Sessions) + One(LetThroughAnywhere(mint[m]))
  BY <1>3, <1>6, SessionsShrink, SessionsAreFinite DEF Fewer
<1>9. \A q \in Ips : Count(q) \in Nat /\ Count(q)' \in Nat
  BY <1>3, CountsAreNumbers DEF IInv, Fewer, Count, CountIn, Tables, IpRecord
<1>10. \A q \in Ips : Count(q)' + One(LetThrough(r, q)) =< Count(q) + One(LetThrough(mint[m], q))
  BY <1>3, <1>6, <1>9 DEF Fewer
<1> QED
  BY <1>2, <1>4, <1>7, <1>8, <1>10, MoveKeeps

LEMMA ReclaimedKeeps ==
    ASSUME IInv, NEW m \in Mints, Reclaimed(m) PROVE IInv'
<1> DEFINE r == [at |-> "creating", ip |-> mint[m].ip, age |-> mint[m].age]
<1>1. mint[m].at = "reclaiming" /\ mint[m].ip \in Ips /\ mint[m].age \in 0..AgeCap
  BY MintShape DEF IInv, Reclaimed
<1>2. r \in Minting /\ r.at = "creating" /\ r.ip = mint[m].ip
  BY <1>1, Standing
<1>3. /\ mint' = [mint EXCEPT ![m] = r] /\ reserving' = reserving + 1
      /\ active' = active /\ perIp' = perIp
  BY DEF Reclaimed
<1> HIDE DEF r
<1>4. Shapes' /\ Sessions' = Sessions /\ \A q \in Ips : Count(q)' = Count(q)
  <2>1. active' \in [Boxes -> Session \cup {None}] /\ perIp' \in Tables
    BY <1>3 DEF IInv, Shapes
  <2>2. Shapes'
    BY <1>2, <1>3, <2>1, MovedShape
  <2> QED
    BY <1>3, <2>2 DEF Sessions, Count, CountIn
<1>5. /\ One(r.at = "creating") = 1 /\ One(mint[m].at = "creating") = 0
      /\ One(LetThroughAnywhere(r)) = One(LetThroughAnywhere(mint[m]))
      /\ One(LetThroughAnywhere(r)) \in Nat
      /\ \A q \in Ips : /\ One(LetThrough(r, q)) = One(LetThrough(mint[m], q))
                        /\ One(LetThrough(r, q)) \in Nat
  BY <1>1, <1>2 DEF One, LetThroughAnywhere, LetThrough
<1>6. reserving' = reserving + One(r.at = "creating") - One(mint[m].at = "creating")
  BY <1>3, <1>5, ReservingIsNumber
<1>7. Cardinality(Sessions') + One(LetThroughAnywhere(r))
          =< Cardinality(Sessions) + One(LetThroughAnywhere(mint[m]))
  BY <1>4, <1>5, SessionsAreFinite
<1>8. \A q \in Ips : Count(q)' + One(LetThrough(r, q)) =< Count(q) + One(LetThrough(mint[m], q))
  BY <1>4, <1>5, CountsAreNumbers DEF IInv
<1> QED
  BY <1>3, <1>4, <1>6, <1>7, <1>8, MoveKeeps

LEMMA CreatedKeeps ==
    ASSUME IInv, NEW m \in Mints, Created(m) PROVE IInv'
<1>1. mint[m].at = "creating" /\ mint[m].ip \in Ips /\ mint[m].age \in 0..AgeCap
  BY MintShape DEF IInv, Created
<1>0. PICK ip \in Ips, age \in 0..AgeCap :
          /\ mint[m].at = "creating" /\ mint[m].ip = ip
          /\ \E b \in Fresh : Land(b, ip, age)
  BY <1>1 DEF Created
<1>2. PICK b \in Fresh : Land(b, ip, age)
  BY <1>0
<1>3. /\ active' \in [Boxes -> Session \cup {None}]
      /\ Sessions' \subseteq Sessions \cup {b}
      /\ perIp' \in Tables
      /\ Count(ip)' = Count(ip) + 1
      /\ \A q \in Ips : q # ip => Count(q)' = Count(q)
  <2>1. Shapes
    BY DEF IInv
  <2> QED
    BY <1>0, <1>2, <2>1, LandCounts
<1>4. mint' = [mint EXCEPT ![m] = NoMint] /\ reserving' = reserving - 1
  BY DEF Created
<1>5. Shapes'
  BY <1>3, <1>4, MovedShape
<1>6. NoMint.at = "idle"
  BY NoneIsNothing
<1>7. /\ One(NoMint.at = "creating") = 0 /\ One(mint[m].at = "creating") = 1
      /\ One(LetThroughAnywhere(NoMint)) = 0 /\ One(LetThroughAnywhere(mint[m])) = 1
      /\ One(LetThrough(mint[m], ip)) = 1
      /\ \A q \in Ips : /\ One(LetThrough(NoMint, q)) = 0
                        /\ q # ip => One(LetThrough(mint[m], q)) = 0
  BY <1>0, <1>6 DEF One, LetThroughAnywhere, LetThrough
<1>8. reserving' = reserving + One(NoMint.at = "creating") - One(mint[m].at = "creating")
  BY <1>4, <1>7, ReservingIsNumber
<1>9. Cardinality(Sessions') + One(LetThroughAnywhere(NoMint))
          =< Cardinality(Sessions) + One(LetThroughAnywhere(mint[m]))
  BY <1>3, <1>7, SessionsGrow, SessionsAreFinite
<1>10. \A q \in Ips : Count(q)' + One(LetThrough(NoMint, q)) =< Count(q) + One(LetThrough(mint[m], q))
  <2>1. \A q \in Ips : Count(q) \in Nat
    BY CountsAreNumbers DEF IInv
  <2>2. Count(ip)' + One(LetThrough(NoMint, ip)) =< Count(ip) + One(LetThrough(mint[m], ip))
    BY <1>0, <1>3, <1>7, <2>1
  <2>3. ASSUME NEW q \in Ips, q # ip
        PROVE  Count(q)' + One(LetThrough(NoMint, q)) =< Count(q) + One(LetThrough(mint[m], q))
    BY <1>3, <1>7, <2>1, <2>3
  <2> QED
    BY <2>2, <2>3
<1> QED
  BY <1>4, <1>5, <1>8, <1>9, <1>10, MoveKeeps

LEMMA CreateFailsKeeps ==
    ASSUME IInv, NEW m \in Mints, CreateFails(m) PROVE IInv'
<1>1. /\ mint[m].at = "creating" /\ mint' = [mint EXCEPT ![m] = NoMint]
      /\ reserving' = reserving - 1 /\ active' = active /\ perIp' = perIp
  BY DEF CreateFails
<1>2. Shapes' /\ Sessions' = Sessions /\ \A q \in Ips : Count(q)' = Count(q)
  <2>1. active' \in [Boxes -> Session \cup {None}] /\ perIp' \in Tables
    BY <1>1 DEF IInv, Shapes
  <2>2. Shapes'
    BY <1>1, <2>1, MovedShape
  <2> QED
    BY <1>1, <2>2 DEF Sessions, Count, CountIn
<1>3. NoMint.at = "idle"
  BY NoneIsNothing
<1>4. /\ One(NoMint.at = "creating") = 0 /\ One(mint[m].at = "creating") = 1
      /\ One(LetThroughAnywhere(NoMint)) = 0 /\ One(LetThroughAnywhere(mint[m])) = 1
      /\ \A q \in Ips : One(LetThrough(NoMint, q)) = 0 /\ One(LetThrough(mint[m], q)) \in Nat
  BY <1>1, <1>3 DEF One, LetThroughAnywhere, LetThrough
<1>5. reserving' = reserving + One(NoMint.at = "creating") - One(mint[m].at = "creating")
  BY <1>1, <1>4, ReservingIsNumber
<1>6. Cardinality(Sessions') + One(LetThroughAnywhere(NoMint))
          =< Cardinality(Sessions) + One(LetThroughAnywhere(mint[m]))
  BY <1>2, <1>4, SessionsAreFinite
<1>7. \A q \in Ips : Count(q)' + One(LetThrough(NoMint, q)) =< Count(q) + One(LetThrough(mint[m], q))
  BY <1>2, <1>4, CountsAreNumbers DEF IInv
<1> QED
  BY <1>1, <1>2, <1>5, <1>6, <1>7, MoveKeeps

LEMMA NewKeeps ==
    ASSUME IInv, PoolShape, NEW m \in Mints, NEW ip \in Ips, New(m, ip) PROVE IInv'
<1>1. mint[m] = NoMint /\ Decide(m, ip, 0)
  BY DEF New
<1>2. NotLetThrough(m)
  BY <1>1, NoneIsNothing DEF NotLetThrough
<1>3. 0 \in 0..AgeCap
  BY CapsAreNumbers
<1> QED
  BY <1>1, <1>2, <1>3, DecideKeeps

LEMMA ReplacedKeeps ==
    ASSUME IInv, PoolShape, NEW m \in Mints, Replaced(m) PROVE IInv'
<1>1. /\ mint[m].at = "ending" /\ mint[m].ip \in Ips /\ mint[m].age \in 0..AgeCap
      /\ Decide(m, mint[m].ip, mint[m].age)
  BY MintShape DEF IInv, Replaced
<1>2. NotLetThrough(m)
  BY <1>1 DEF NotLetThrough
<1> QED
  BY <1>1, <1>2, DecideKeeps

------------------------------------------------------------------------------
(* The clock, the start and the crash.                                     *)

LEMMA OlderSession ==
    ASSUME NEW s \in Session
    PROVE  [s EXCEPT !.age = Older(@, AgeCap), !.idle = Older(@, IdleCap),
                     !.beat = Older(@, BeatCap)] \in Session
<1> DEFINE a == Older(s.age, AgeCap)
           i == Older(s.idle, IdleCap)
           h == Older(s.beat, BeatCap)
           s1 == [s EXCEPT !.age = a]
           s2 == [s1 EXCEPT !.idle = i]
           s3 == [s2 EXCEPT !.beat = h]
<1>1. a \in 0..AgeCap /\ i \in 0..IdleCap /\ h \in 0..BeatCap
  BY SessionFields, CapsAreNumbers, OlderIsInBounds
<1>2. s1 \in Session
  BY <1>1, SessionFields
<1>3. s1.idle = s.idle /\ s1.beat = s.beat
  BY DEF Session
<1> HIDE DEF s1
<1>4. s2 \in Session
  BY <1>1, <1>2, SessionFields
<1> HIDE DEF s2
<1>5. s3 \in Session
  BY <1>1, <1>4, SessionFields
<1> QED
  BY <1>5 DEF s1, s2, s3, a, i, h

LEMMA OlderRecord ==
    ASSUME NEW r \in IpRecord
    PROVE  LET older == [r EXCEPT !.seen = Older(@, SeenCap),
                                  !.minted = [i \in DOMAIN @ |-> IF i = 0 THEN 0 ELSE @[i - 1]]]
           IN  older \in IpRecord /\ older.active = r.active
<1> DEFINE n == Older(r.seen, SeenCap)
           log == [i \in DOMAIN r.minted |-> IF i = 0 THEN 0 ELSE r.minted[i - 1]]
           Seen == 0..SeenCap
           Times == [0..(MintWindow - 1) -> Nat]
<1>1. r.seen \in 0..SeenCap /\ r.minted \in [0..(MintWindow - 1) -> Nat]
  BY DEF IpRecord
<1>2. n \in Seen
  <2>1. r.seen \in Nat /\ SeenCap \in Nat
    BY <1>1, CapsAreNumbers
  <2> QED
    BY <2>1, OlderIsInBounds
<1>3. log \in Times
  <2> DEFINE K == 0..(MintWindow - 1)
  <2>1. \A i \in K : i # 0 => i - 1 \in K
    BY BoundsAreNumbers
  <2>2. \A i \in K : (IF i = 0 THEN 0 ELSE r.minted[i - 1]) \in Nat
    BY <1>1, <2>1
  <2>3. DOMAIN r.minted = K
    BY <1>1
  <2>4. log = [i \in K |-> IF i = 0 THEN 0 ELSE r.minted[i - 1]]
    BY <2>3
  <2> HIDE DEF K, log
  <2>5. log \in [K -> Nat]
    BY <2>2, <2>4
  <2> QED
    BY <2>5 DEF K
<1>4. IpRecord = [active : Nat, seen : Seen, minted : Times]
  BY DEF IpRecord
<1> HIDE DEF Seen, Times, n, log
<1> DEFINE a == [r EXCEPT !.seen = n]
           b == [a EXCEPT !.minted = log]
<1>5. a \in IpRecord /\ a.active = r.active
  BY <1>2, <1>4
<1> HIDE DEF a
<1>6. b \in IpRecord /\ b.active = r.active
  BY <1>3, <1>4, <1>5
<1> QED
  BY <1>6 DEF a, b, n, log

LEMMA TickSessions ==
    ASSUME Shapes, Tick
    PROVE  active' \in [Boxes -> Session \cup {None}] /\ Sessions' = Sessions
<1> USE DEF Shapes
<1> DEFINE S(b) == [active[b] EXCEPT !.age = Older(@, AgeCap), !.idle = Older(@, IdleCap),
                                     !.beat = Older(@, BeatCap)]
<1>1. \A b \in Sessions : S(b) \in Session
  BY OlderSession DEF Sessions
<1>2. active' = [b \in Boxes |-> IF b \notin Sessions THEN None ELSE S(b)]
  BY DEF Tick
<1> HIDE DEF S
<1>3. \A b \in Sessions : S(b) # None
  BY <1>1, NoneIsNothing
<1> QED
  BY <1>1, <1>2, <1>3 DEF Sessions

(* A unit of time ages the requests and moves none of them.                *)
LEMMA TickMovesNone ==
    ASSUME Shapes, Tick
    PROVE  /\ mint' \in [Mints -> Minting \cup {NoMint}]
           /\ \A m \in Mints : mint'[m].at = mint[m].at /\ mint'[m].ip = mint[m].ip
<1> USE DEF Shapes
<1> DEFINE M(m) == [mint[m] EXCEPT !.age = Older(@, AgeCap)]
<1>1. ASSUME NEW m \in Mints, mint[m] # NoMint
      PROVE  M(m) \in Minting /\ M(m).at = mint[m].at /\ M(m).ip = mint[m].ip
  <2> DEFINE A == 0..AgeCap
             n == Older(mint[m].age, AgeCap)
  <2>1. mint[m] \in Minting
    BY <1>1
  <2>2. Minting = [at : {"creating"}, ip : Ips, age : A]
                  \cup [at : {"ending", "reclaiming"}, ip : Ips, age : A, box : Boxes]
    BY DEF Minting
  <2>3. mint[m].age \in 0..AgeCap
    BY <2>1 DEF Minting
  <2>4. n \in A
    <3>1. mint[m].age \in Nat /\ AgeCap \in Nat
      BY <2>3, CapsAreNumbers
    <3> QED
      BY <3>1, OlderIsInBounds
  <2>5. M(m) = [mint[m] EXCEPT !.age = n]
    OBVIOUS
  <2> HIDE DEF A, n, M
  <2>6. CASE mint[m] \in [at : {"creating"}, ip : Ips, age : A]
    BY <2>2, <2>4, <2>5, <2>6
  <2>7. CASE mint[m] \in [at : {"ending", "reclaiming"}, ip : Ips, age : A, box : Boxes]
    BY <2>2, <2>4, <2>5, <2>7
  <2> QED
    BY <2>1, <2>2, <2>6, <2>7
<1>2. mint' = [m \in Mints |-> IF mint[m] = NoMint THEN NoMint ELSE M(m)]
  BY DEF Tick
<1> HIDE DEF M
<1> QED
  BY <1>1, <1>2

LEMMA TickKeeps ==
    ASSUME IInv, Tick PROVE IInv'
<1> USE DEF IInv, Shapes
<1>1. active' \in [Boxes -> Session \cup {None}] /\ Sessions' = Sessions
  BY TickSessions
<1>2. perIp' \in Tables /\ \A ip \in Ips : Count(ip)' = Count(ip)
  <2> DEFINE R(ip) == [perIp[ip] EXCEPT !.seen = Older(@, SeenCap),
                           !.minted = [i \in DOMAIN @ |-> IF i = 0 THEN 0 ELSE @[i - 1]]]
  <2>1. \A ip \in Ips : perIp[ip] # None => R(ip) \in IpRecord /\ R(ip).active = perIp[ip].active
    BY OlderRecord DEF Tables
  <2>2. perIp' = [ip \in Ips |-> IF perIp[ip] = None THEN None ELSE R(ip)]
    BY DEF Tick
  <2> HIDE DEF R
  <2>3. \A ip \in Ips : perIp[ip] # None => R(ip) # None
    BY <2>1, NoneIsNothing
  <2>4. perIp' \in Tables
    BY <2>1, <2>2 DEF Tables
  <2> QED
    BY <2>1, <2>2, <2>3, <2>4 DEF Count, CountIn
<1>3. /\ mint' \in [Mints -> Minting \cup {NoMint}]
      /\ \A m \in Mints : mint'[m].at = mint[m].at /\ mint'[m].ip = mint[m].ip
  BY TickMovesNone
<1>4. Shapes'
  BY <1>1, <1>2, <1>3 DEF Tables, Session, IpRecord, Minting, AgeCap, IdleCap, BeatCap, SeenCap,
         None, NoMint
<1>5. reserving' = reserving
  BY DEF Tick
<1>6. \A ip \in Ips : Count(ip)' =< Count(ip)
  BY <1>2, CountsAreNumbers
<1> QED
  BY <1>1, <1>3, <1>4, <1>5, <1>6, QuietKeeps

(* With nobody there, the caps are far.                                    *)
Nobody ==
    /\ active = [b \in Boxes |-> None]
    /\ perIp = [ip \in Ips |-> None]
    /\ reserving = 0
    /\ mint = [m \in Mints |-> NoMint]

LEMMA NobodyIsSound == ASSUME Nobody PROVE IInv
<1>1. Shapes
  BY DEF Nobody, Shapes, Tables
<1>2. Sessions = {} /\ \A ip \in Ips : Count(ip) = 0
  BY DEF Nobody, Sessions, Count, CountIn
<1>3. MintsAt("creating") = {} /\ MintsAt("reclaiming") = {} /\ \A ip \in Ips : Bound(ip) = {}
  BY NoneIsNothing DEF Nobody, MintsAt, Bound
<1>4. Spare \in Int /\ 0 =< Spare + 1
  BY BoundsAreFinite
<1>5. Cardinality({}) = 0
  BY FS_EmptySet
<1>6. ReservingIsExact
  BY <1>3, <1>5 DEF ReservingIsExact, Nobody
<1>7. UsedIsBounded
  <2>1. reserving = 0 /\ Cardinality(Sessions) = 0 /\ Cardinality(MintsAt("reclaiming")) = 0
    BY <1>2, <1>3, <1>5 DEF Nobody
  <2> QED
    BY <1>4, <2>1, BoundsAreNumbers DEF UsedIsBounded, Used
<1>8. \A ip \in Ips : AddressIsBounded(ip)
  BY <1>2, <1>3, <1>4, <1>5, BoundsAreNumbers DEF AddressIsBounded
<1> QED
  BY <1>1, <1>6, <1>7, <1>8 DEF IInv

------------------------------------------------------------------------------
(* The pool is a sequence of containers with their ages.                   *)

(* What is picked from a sequence comes from different places of it.       *)
ComesFrom(picked, seq, S) ==
    /\ \A i \in 1..Len(picked) : \E k \in S : picked[i] = seq[k]
    /\ \A i, j \in 1..Len(picked) : i # j =>
           \E k, l \in S : k # l /\ picked[i] = seq[k] /\ picked[j] = seq[l]

LEMMA PickedApart ==
    ASSUME NEW seq, Len(seq) \in Nat, NEW S, S \in SUBSET (1..Len(seq)),
           NEW picked \in Picked(seq, S)
    PROVE  Cardinality(S) \in Nat /\ ComesFrom(picked, seq, S)
<1>0. IsFiniteSet(1..Len(seq))
  BY FS_Interval
<1>1. Cardinality(S) \in Nat
  BY <1>0, FS_Subset, FS_CardinalityType
<1>2. PICK f \in InOrder(S) : picked = [i \in 1..Cardinality(S) |-> seq[f[i]]]
  BY DEF Picked
<1>3. /\ f \in [1..Cardinality(S) -> S]
      /\ \A i, j \in 1..Cardinality(S) : i < j => f[i] < f[j]
  BY <1>2 DEF InOrder
<1>4. ASSUME NEW i \in 1..Cardinality(S)
      PROVE  f[i] \in S /\ f[i] \in Int /\ picked[i] = seq[f[i]]
  <2>1. f[i] \in S
    BY <1>3
  <2>2. f[i] \in 1..Len(seq)
    BY <2>1
  <2> QED
    BY <1>2, <2>1, <2>2
<1>5. picked \in Seq({seq[f[i]] : i \in 1..Cardinality(S)})
  BY <1>1, <1>2
<1>6. Len(picked) = Cardinality(S)
  BY <1>1, <1>2, <1>5
<1>7. \A i, j \in 1..Cardinality(S) : f[i] = f[j] => i = j
  BY <1>1, <1>3, <1>4
<1>8. ASSUME NEW i \in 1..Len(picked) PROVE \E k \in S : picked[i] = seq[k]
  BY <1>4, <1>6
<1>9. ASSUME NEW i \in 1..Len(picked), NEW j \in 1..Len(picked), i # j
      PROVE  \E k, l \in S : k # l /\ picked[i] = seq[k] /\ picked[j] = seq[l]
  <2>1. /\ f[i] \in S /\ f[j] \in S /\ f[i] # f[j]
        /\ picked[i] = seq[f[i]] /\ picked[j] = seq[f[j]]
    BY <1>4, <1>6, <1>7, <1>9
  <2> QED
    BY <2>1
<1> QED
  BY <1>1, <1>8, <1>9 DEF ComesFrom

LEMMA PickedIsSequence ==
    ASSUME NEW X, NEW seq \in Seq(X), NEW S, S \subseteq 1..Len(seq), NEW picked \in Picked(seq, S)
    PROVE  picked \in Seq(X)
<1>1. Len(seq) \in Nat /\ \A i \in 1..Len(seq) : seq[i] \in X
  OBVIOUS
<1>2. Cardinality(S) \in Nat
  BY <1>1, PickedApart
<1>3. PICK f \in InOrder(S) : picked = [i \in 1..Cardinality(S) |-> seq[f[i]]]
  BY DEF Picked
<1>4. ASSUME NEW i \in 1..Cardinality(S) PROVE seq[f[i]] \in X
  <2>1. f[i] \in S
    BY <1>3 DEF InOrder
  <2>2. f[i] \in 1..Len(seq)
    BY <2>1
  <2> QED
    BY <1>1, <2>2
<1>5. [i \in 1..Cardinality(S) |-> seq[f[i]]] \in [1..Cardinality(S) -> X]
  BY <1>4
<1>6. picked \in [1..Cardinality(S) -> X]
  BY <1>3, <1>5
<1> QED
  BY <1>2, <1>6

LEMMA PoolStep ==
    ASSUME PoolShape, [Next]_vars PROVE PoolShape'
<1> USE DEF PoolShape
<1>1. 0 \in 0..PoolCap /\ PoolCap \in Nat
  <2>1. PoolMaxAge \in Nat
    BY WardenAssumption
  <2> QED
    BY <2>1 DEF PoolCap
<1>2. \A b \in Boxes : [box |-> b, age |-> 0] \in Pooled
  <2> DEFINE A == 0..PoolCap
  <2>1. Pooled = [box : Boxes, age : A] /\ 0 \in A
    BY <1>1 DEF Pooled
  <2> HIDE DEF A
  <2> QED
    BY <2>1
<1>3. CASE RefillOne
  <2>1. PICK b \in Boxes : pool' = Append(pool, [box |-> b, age |-> 0])
    BY <1>3 DEF RefillOne, Fresh
  <2> QED
    BY <1>2, <2>1 DEF Pooled, PoolCap
<1>4. ASSUME NEW m \in Mints, NEW ip, NEW old, Decide(m, ip, old) PROVE PoolShape'
  <2>1. pool' = pool \/ (pool # <<>> /\ pool' = Tail(pool))
    BY <1>4 DEF Decide, RateLimited, TakeWarm, FromPool, Reserve, Reclaim, NoCapacity
  <2>2. pool' \in Seq(Pooled)
    BY <2>1
  <2> QED
    BY <2>2 DEF Pooled, PoolCap
<1>5. CASE Wake
  <2>1. pool' \in Picked(pool, {i \in 1..Len(pool) : ~Aged(pool[i])})
    BY <1>5 DEF Wake
  <2>2. {i \in 1..Len(pool) : ~Aged(pool[i])} \subseteq 1..Len(pool)
    OBVIOUS
  <2>3. pool' \in Seq(Pooled)
    BY <2>1, <2>2, PickedIsSequence
  <2> QED
    BY <2>3 DEF Pooled, PoolCap
<1>6. CASE Tick
  <2> DEFINE E(i) == [pool[i] EXCEPT !.age = Older(@, PoolCap)]
  <2>1. ASSUME NEW i \in 1..Len(pool) PROVE E(i) \in Pooled
    <3> DEFINE A == 0..PoolCap
               n == Older(pool[i].age, PoolCap)
    <3>1. Pooled = [box : Boxes, age : A]
      BY DEF Pooled
    <3>2. pool[i] \in Pooled
      OBVIOUS
    <3>3. pool[i].age \in Nat
      BY <3>2 DEF Pooled
    <3>4. n \in A
      BY <1>1, <3>3, OlderIsInBounds
    <3>5. E(i) = [pool[i] EXCEPT !.age = n]
      OBVIOUS
    <3> HIDE DEF A, n, E
    <3> QED
      BY <3>1, <3>2, <3>4, <3>5
  <2>2. pool' = [i \in 1..Len(pool) |-> E(i)]
    BY <1>6 DEF Tick
  <2>3. Len(pool) \in Nat
    OBVIOUS
  <2> HIDE DEF E
  <2>4. pool' \in Seq(Pooled)
    BY <2>1, <2>2, <2>3
  <2> QED
    BY <2>4 DEF Pooled, PoolCap
<1>7. CASE Crash
  BY <1>7 DEF Crash
<1>8. CASE UNCHANGED pool
  BY <1>8 DEF Pooled, PoolCap
<1>9. CASE Start \/ BeginRefill \/ RefillFails \/ Reaped
  BY <1>8, <1>9 DEF Start, BeginRefill, RefillFails, Reaped
<1>10. CASE \E b \in Boxes : End(b) \/ Ended(b)
  BY <1>8, <1>10 DEF End, Ended
<1>11. CASE \E b \in Boxes, flag \in BOOLEAN : Heartbeat(b, flag) \/ Route(b, flag)
  BY <1>8, <1>11 DEF Heartbeat, Route
<1>12. CASE \E m \in Mints, ip \in Ips : New(m, ip) \/ \E b \in Boxes : Replace(m, ip, b)
  BY <1>4, <1>8, <1>12 DEF New, Replace
<1>13. CASE \E m \in Mints : Replaced(m) \/ Reclaimed(m) \/ Created(m) \/ CreateFails(m)
  BY <1>4, <1>8, <1>13 DEF Replaced, Reclaimed, Created, CreateFails
<1>14. CASE UNCHANGED vars
  BY <1>8, <1>14 DEF vars
<1> QED
  BY <1>3, <1>5, <1>6, <1>7, <1>9, <1>10, <1>11, <1>12, <1>13, <1>14 DEF Next

LEMMA PoolIsShaped == Spec => []PoolShape
<1>1. Init => PoolShape
  BY DEF Init, PoolShape
<1> QED
  BY <1>1, PoolStep, PTL DEF Spec

------------------------------------------------------------------------------
(* The invariant, and what follows from it.                                *)

LEMMA Initially == Init => IInv
BY NobodyIsSound DEF Init, Nobody

LEMMA EveryStep ==
    ASSUME IInv, PoolShape, [Next]_vars PROVE IInv'
<1>1. CASE Start \/ BeginRefill \/ RefillOne \/ RefillFails
  BY <1>1, QuietStepKeeps DEF Start, BeginRefill, RefillOne, RefillFails, AfterRefill
<1>2. CASE Crash
  <2>1. Nobody'
    BY <1>2 DEF Crash, Nobody
  <2> QED
    BY <2>1, NobodyIsSound, PTL
<1>3. CASE Tick
  BY <1>3, TickKeeps
<1>4. CASE Wake
  BY <1>4, WakeKeeps
<1>5. CASE Reaped
  BY <1>5, ReapedKeeps
<1>6. CASE \E b \in Boxes : End(b) \/ Ended(b)
  BY <1>6, EndKeeps, QuietStepKeeps DEF Ended
<1>7. CASE \E b \in Boxes, flag \in BOOLEAN : Heartbeat(b, flag) \/ Route(b, flag)
  BY <1>7, HeartbeatKeeps, RouteKeeps
<1>8. CASE \E m \in Mints, ip \in Ips : New(m, ip) \/ \E b \in Boxes : Replace(m, ip, b)
  BY <1>8, NewKeeps, ReplaceKeeps
<1>9. CASE \E m \in Mints : Replaced(m) \/ Reclaimed(m) \/ Created(m) \/ CreateFails(m)
  BY <1>9, ReplacedKeeps, ReclaimedKeeps, CreatedKeeps, CreateFailsKeeps
<1>10. CASE UNCHANGED vars
  BY <1>10, QuietStepKeeps DEF vars
<1> QED
  BY <1>1, <1>2, <1>3, <1>4, <1>5, <1>6, <1>7, <1>8, <1>9, <1>10 DEF Next

LEMMA CapsAreSound == Spec => []IInv
<1> QED
  BY Initially, EveryStep, PoolIsShaped, PTL DEF Spec

(* Every way out of session_new gives back the place that _reserving       *)
(* counts, so that the global cap neither leaks places nor lends them      *)
(* twice (app.py, the reservation in session_new).                         *)
THEOREM ReservationsAreExact == Spec => []ReservingIsExact
<1>1. IInv => ReservingIsExact
  BY DEF IInv
<1> QED
  BY <1>1, CapsAreSound, PTL

------------------------------------------------------------------------------
(* The mints of an address: those in the window, and those that requests   *)
(* already let through will add.                                           *)

Tally(table, ip) == IF table[ip] = None THEN 0 ELSE Minted(table[ip])
MintsAreBounded == \A ip \in Ips : Tally(perIp, ip) + Cardinality(Bound(ip)) =< MintMax + Spare

LEMMA MintsAreFinite ==
    ASSUME NEW rec \in IpRecord
    PROVE  IsFiniteSet(MintsOf(rec)) /\ Minted(rec) \in Nat
<1> DEFINE W == 0..(MintWindow - 1)
           row == [i \in W |-> {i} \X (1..rec.minted[i])]
           rows == {row[i] : i \in W}
<1>1. /\ DOMAIN rec.minted = W /\ \A i \in W : rec.minted[i] \in Nat
      /\ IsFiniteSet(W)
  BY BoundsAreNumbers, FS_Interval DEF IpRecord
<1>2. \A i \in W : IsFiniteSet({i} \X (1..rec.minted[i]))
  <2> SUFFICES ASSUME NEW i \in W PROVE IsFiniteSet({i} \X (1..rec.minted[i]))
    OBVIOUS
  <2>1. IsFiniteSet({i})
    BY FS_Singleton
  <2>2. rec.minted[i] \in Int
    BY <1>1
  <2>3. IsFiniteSet(1..rec.minted[i])
    BY <2>2, FS_Interval
  <2> QED
    BY <2>1, <2>3, FS_Product
<1> HIDE DEF W
<1>3. row \in Surjection(W, rows)
  BY DEF Surjection
<1>4. IsFiniteSet(rows)
  BY <1>1, <1>3, FS_Surjection
<1>5. \A T \in rows : IsFiniteSet(T)
  BY <1>2
<1>6. IsFiniteSet(UNION rows)
  BY <1>4, <1>5, FS_UNION
<1>7. MintsOf(rec) = UNION rows
  BY <1>1 DEF MintsOf
<1> QED
  BY <1>6, <1>7, FS_CardinalityType DEF Minted

(* A mint is its age and its number among those of that age.               *)
LEMMA MintIsPair ==
    ASSUME NEW rec \in IpRecord
    PROVE  \A x : x \in MintsOf(rec) <=>
              \E i \in 0..(MintWindow - 1) : \E n \in 1..rec.minted[i] : x = <<i, n>>
<1>1. DOMAIN rec.minted = 0..(MintWindow - 1)
  BY DEF IpRecord
<1> QED
  BY <1>1 DEF MintsOf

LEMMA CreditedMints ==
    ASSUME NEW rec \in IpRecord, NEW old \in Nat
    PROVE  Minted(Credited(rec, old)) =< Minted(rec) + 1
<1> DEFINE new == Credited(rec, old)
           last == <<old, rec.minted[old] + 1>>
<1>1. new \in IpRecord /\ new.minted = Noted(rec.minted, old)
  BY CreditedIsRecord DEF Credited, IpRecord
<1>2. \A i \in 0..(MintWindow - 1) :
         /\ rec.minted[i] \in Nat
         /\ new.minted[i] = IF i = old THEN rec.minted[i] + 1 ELSE rec.minted[i]
  BY <1>1 DEF Noted, IpRecord
<1> HIDE DEF new
<1>3. \A i \in 0..(MintWindow - 1) : \A n \in 1..new.minted[i] :
         n \in 1..rec.minted[i] \/ <<i, n>> = last
  BY <1>2
<1>4. MintsOf(new) \subseteq MintsOf(rec) \cup {last}
  BY <1>1, <1>3, MintIsPair
<1>5. IsFiniteSet(MintsOf(rec)) /\ IsFiniteSet(MintsOf(new))
  BY <1>1, MintsAreFinite
<1>6. /\ IsFiniteSet(MintsOf(rec) \cup {last})
      /\ Cardinality(MintsOf(rec) \cup {last}) =
            IF last \in MintsOf(rec) THEN Cardinality(MintsOf(rec)) ELSE Cardinality(MintsOf(rec)) + 1
  BY <1>5, FS_AddElement
<1>7. Cardinality(MintsOf(new)) =< Cardinality(MintsOf(rec) \cup {last})
  BY <1>4, <1>6, FS_Subset
<1>8. Cardinality(MintsOf(rec)) \in Nat /\ Cardinality(MintsOf(new)) \in Nat
  BY <1>5, FS_CardinalityType
<1> QED
  BY <1>6, <1>7, <1>8 DEF Minted, new

(* A tick makes each mint one older and drops those past the window.       *)
LEMMA OlderMints ==
    ASSUME NEW rec \in IpRecord, NEW new \in IpRecord,
           new.minted = [i \in DOMAIN rec.minted |-> IF i = 0 THEN 0 ELSE rec.minted[i - 1]]
    PROVE  Minted(new) =< Minted(rec)
<1> DEFINE f == [x \in MintsOf(new) |-> <<x[1] - 1, x[2]>>]
<1>1. \A i \in 0..(MintWindow - 1) :
         /\ rec.minted[i] \in Nat
         /\ new.minted[i] = IF i = 0 THEN 0 ELSE rec.minted[i - 1]
  BY DEF IpRecord
<1>2. \A x \in MintsOf(new) : \E i \in 1..(MintWindow - 1) : \E n \in 1..rec.minted[i - 1] :
          x = <<i, n>>
  <2> SUFFICES ASSUME NEW x \in MintsOf(new)
               PROVE  \E i \in 1..(MintWindow - 1) : \E n \in 1..rec.minted[i - 1] : x = <<i, n>>
    OBVIOUS
  <2>0. \A y : y \in MintsOf(new) <=>
             \E i \in 0..(MintWindow - 1) : \E n \in 1..new.minted[i] : y = <<i, n>>
    BY MintIsPair
  <2>1. PICK i \in 0..(MintWindow - 1) : \E n \in 1..new.minted[i] : x = <<i, n>>
    BY <2>0, Zenon
  <2>2. i # 0
    BY <1>1, <2>1
  <2> QED
    BY <1>1, <2>1, <2>2, BoundsAreNumbers
<1>3. ASSUME NEW x \in MintsOf(new)
      PROVE  /\ f[x] = <<x[1] - 1, x[2]>> /\ f[x] \in MintsOf(rec)
             /\ x[1] \in Nat /\ x = <<x[1], x[2]>>
  <2>1. PICK i \in 1..(MintWindow - 1) : \E n \in 1..rec.minted[i - 1] : x = <<i, n>>
    BY <1>2
  <2>5. PICK n \in 1..rec.minted[i - 1] : x = <<i, n>>
    BY <2>1
  <2>2. i - 1 \in 0..(MintWindow - 1) /\ i \in Nat
    BY BoundsAreNumbers
  <2>3. <<i - 1, n>> \in MintsOf(rec)
    BY <2>2, MintIsPair
  <2>4. x[1] = i /\ x[2] = n
    BY <2>5
  <2> QED
    BY <2>5, <2>2, <2>3, <2>4
<1> HIDE DEF f
<1>4. \A x, y \in MintsOf(new) : f[x] = f[y] => x = y
  <2> SUFFICES ASSUME NEW x \in MintsOf(new), NEW y \in MintsOf(new), f[x] = f[y] PROVE x = y
    OBVIOUS
  <2>1. <<x[1] - 1, x[2]>> = <<y[1] - 1, y[2]>>
    BY <1>3
  <2>2. x[1] - 1 = y[1] - 1 /\ x[2] = y[2]
    BY <2>1
  <2>3. x[1] = y[1]
    BY <1>3, <2>2
  <2> QED
    BY <1>3, <2>2, <2>3
<1>5. f \in Injection(MintsOf(new), MintsOf(rec))
  <2>1. f \in [MintsOf(new) -> MintsOf(rec)]
    BY <1>3 DEF f
  <2> QED
    BY <1>4, <2>1 DEF Injection, IsInjective
<1> QED
  BY <1>5, MintsAreFinite, FS_Injection DEF Minted

------------------------------------------------------------------------------
(* What the handlers do to the mints.                                      *)

LEMMA TallyIsNumber ==
    ASSUME NEW table \in Tables, NEW ip \in Ips
    PROVE  Tally(table, ip) \in Nat
BY MintsAreFinite DEF Tally, Tables

LEMMA RecordTally ==
    ASSUME Shapes, NEW ip \in Ips
    PROVE  Minted(Record(perIp, ip)) = Tally(perIp, ip)
<1>1. CASE perIp[ip] = None
  <2>1. \A i \in DOMAIN NewRecord.minted : NewRecord.minted[i] = 0
    BY DEF NewRecord
  <2>2. MintsOf(NewRecord) = {}
    BY <2>1 DEF MintsOf
  <2> QED
    BY <1>1, <2>2, FS_EmptySet DEF Record, Tally, Minted
<1>2. CASE perIp[ip] # None
  BY <1>2 DEF Record, Tally
<1> QED
  BY <1>1, <1>2

(* Records with the same mints have the same tally.                        *)
LEMMA SameMints ==
    ASSUME NEW r, NEW s, r.minted = s.minted
    PROVE  Minted(r) = Minted(s)
BY DEF Minted, MintsOf

LEMMA TouchedTally ==
    ASSUME Shapes, NEW ip \in Ips, NEW old \in Nat
    PROVE  \A q \in Ips : Tally(Touched(ip, old), q) = Tally(perIp, q)
<1> DEFINE rec == [Record(perIp, ip) EXCEPT !.seen = Min({old, SeenCap})]
<1>1. Record(perIp, ip) \in IpRecord /\ Touched(ip, old) \in Tables
  BY RecordIsRecord, TouchedCounts
<1>2. rec.minted = Record(perIp, ip).minted /\ "minted" \in DOMAIN rec /\ rec # None
  BY <1>1 DEF IpRecord, None
<1>3. Touched(ip, old) = [perIp EXCEPT ![ip] = rec]
  BY DEF Touched
<1> HIDE DEF rec
<1>4. Minted(rec) = Tally(perIp, ip)
  BY <1>2, RecordTally, SameMints
<1> SUFFICES ASSUME NEW q \in Ips PROVE Tally(Touched(ip, old), q) = Tally(perIp, q)
  OBVIOUS
<1>5. CASE q = ip
  BY <1>2, <1>3, <1>4, <1>5 DEF Tally, Shapes, Tables
<1>6. CASE q # ip
  BY <1>3, <1>6 DEF Tally, Shapes, Tables
<1> QED
  BY <1>5, <1>6

LEMMA LessOneTally ==
    ASSUME NEW table \in Tables, NEW ip \in Ips
    PROVE  \A q \in Ips : Tally(LessOne(table, ip), q) = Tally(table, q)
<1>1. CASE table[ip] = None \/ table[ip].active = 0
  BY <1>1 DEF LessOne
<1>2. CASE ~(table[ip] = None \/ table[ip].active = 0)
  <2> DEFINE rec == [table[ip] EXCEPT !.active = @ - 1]
  <2>1. table[ip] \in IpRecord
    BY <1>2 DEF Tables
  <2>2. rec.minted = table[ip].minted /\ rec # None
    BY <2>1 DEF IpRecord, None
  <2>3. LessOne(table, ip) = [table EXCEPT ![ip] = rec]
    BY <1>2 DEF LessOne
  <2> HIDE DEF rec
  <2>4. Minted(rec) = Minted(table[ip])
    BY <2>2, SameMints
  <2> SUFFICES ASSUME NEW q \in Ips PROVE Tally(LessOne(table, ip), q) = Tally(table, q)
    OBVIOUS
  <2>5. CASE q = ip
    BY <1>2, <2>2, <2>3, <2>4, <2>5 DEF Tally, Tables
  <2>6. CASE q # ip
    BY <2>3, <2>6 DEF Tally, Tables
  <2> QED
    BY <2>5, <2>6
<1> QED
  BY <1>1, <1>2

LEMMA ForgetTally ==
    ASSUME NEW table \in Tables, NEW S
    PROVE  \A q \in Ips : Tally(Forget(table, S), q) =< Tally(table, q)
<1>1. \A q \in Ips : Forget(table, S)[q] \in {None, table[q]}
  BY DEF Forget
<1>2. \A q \in Ips : Tally(table, q) \in Nat
  BY TallyIsNumber
<1>3. \A q \in Ips : Tally(Forget(table, S), q) \in {0, Tally(table, q)}
  BY <1>1 DEF Tally
<1> QED
  BY <1>2, <1>3

LEMMA KeptTally ==
    ASSUME Shapes, NEW table \in Kept(Swept)
    PROVE  \A q \in Ips : Tally(table, q) =< Tally(perIp, q)
<1>1. Swept \in Tables /\ \A q \in Ips : Tally(Swept, q) =< Tally(perIp, q)
  BY ForgetTally, ForgetCounts DEF Swept, Shapes
<1>2. PICK T : table = Forget(Swept, T)
  BY DEF Kept
<1>3. table \in Tables /\ \A q \in Ips : Tally(table, q) =< Tally(Swept, q)
  BY <1>1, <1>2, ForgetTally, ForgetCounts
<1>4. \A q \in Ips : Tally(table, q) \in Nat /\ Tally(Swept, q) \in Nat /\ Tally(perIp, q) \in Nat
  BY <1>1, <1>3, TallyIsNumber DEF Shapes
<1> QED
  BY <1>1, <1>3, <1>4

(* A session that starts is one mint more for its address.                 *)
LEMMA LandTally ==
    ASSUME Shapes, NEW b, NEW ip \in Ips, NEW old \in Nat, Land(b, ip, old)
    PROVE  /\ Tally(perIp', ip) =< Tally(perIp, ip) + 1
           /\ \A q \in Ips : q # ip => Tally(perIp', q) = Tally(perIp, q)
<1> DEFINE rec == Credited(Record(perIp, ip), old)
<1>1. Record(perIp, ip) \in IpRecord
  BY RecordIsRecord
<1>2. rec \in IpRecord /\ rec # None
  BY <1>1, CreditedIsRecord, NoneIsNothing
<1>3. Minted(rec) =< Tally(perIp, ip) + 1
  BY <1>1, CreditedMints, RecordTally
<1>4. perIp' = [perIp EXCEPT ![ip] = rec]
  BY DEF Land
<1> HIDE DEF rec
<1> QED
  BY <1>2, <1>3, <1>4 DEF Tally, Shapes, Tables

------------------------------------------------------------------------------
(* The steps.                                                              *)

LEMMA BoundIsFinite ==
    \A ip \in Ips : /\ IsFiniteSet(Bound(ip)) /\ Cardinality(Bound(ip)) \in Nat
                    /\ Cardinality(Bound(ip)) =< Spare + 1
BY BoundsAreFinite, FS_Subset, FS_CardinalityType DEF Bound

(* No address has more mints, and none has more requests let through.      *)
LEMMA MintsRest ==
    ASSUME MintsAreBounded, Shapes, Shapes',
           \A q \in Ips : Tally(perIp', q) =< Tally(perIp, q) /\ Bound(q)' \subseteq Bound(q)
    PROVE  MintsAreBounded'
<1> SUFFICES ASSUME NEW q \in Ips
             PROVE  Tally(perIp', q) + Cardinality(Bound(q)') =< MintMax + Spare
  BY DEF MintsAreBounded
<1>1. Tally(perIp, q) + Cardinality(Bound(q)) =< MintMax + Spare
  BY DEF MintsAreBounded
<1>2. Tally(perIp, q) \in Nat /\ Tally(perIp', q) \in Nat /\ Tally(perIp', q) =< Tally(perIp, q)
  BY TallyIsNumber DEF Shapes
<1>3. /\ Cardinality(Bound(q)) \in Nat /\ Cardinality(Bound(q)') \in Nat
      /\ Cardinality(Bound(q)') =< Cardinality(Bound(q))
  BY BoundIsFinite, FS_Subset, FS_CardinalityType
<1>4. MintMax \in Nat /\ Spare \in Int
  BY WardenAssumption, BoundsAreFinite
<1> QED
  BY <1>1, <1>2, <1>3, <1>4

(* Whose requests are let through is decided by mint alone.                *)
LEMMA BoundMoves ==
    ASSUME NEW m \in Mints, NEW r, mint' = [mint EXCEPT ![m] = r], DOMAIN mint = Mints, NEW q
    PROVE  /\ ~LetThrough(r, q) => Bound(q)' = Bound(q) \ {m}
           /\ Bound(q)' \subseteq Bound(q) \cup {m}
           /\ m \in Bound(q) <=> LetThrough(mint[m], q)
<1>1. mint'[m] = r /\ \A n \in Mints : n # m => mint'[n] = mint[n]
  OBVIOUS
<1> QED
  BY <1>1 DEF Bound, LetThrough

(* A request is let through: fewer mints than MINT_MAX are in the window,  *)
(* and no more requests than there are threads.                            *)
LEMMA LetInBounded ==
    ASSUME MintsAreBounded, Shapes, Shapes', NEW m \in Mints, NEW r, mint' = [mint EXCEPT ![m] = r],
           NEW ip \in Ips, ~TooMany(ip), r.ip = ip,
           \A q \in Ips : Tally(perIp', q) =< Tally(perIp, q)
    PROVE  MintsAreBounded'
<1>0. DOMAIN mint = Mints
  BY DEF Shapes
<1>1. ASSUME NEW q \in Ips, q # ip
      PROVE  Bound(q)' \subseteq Bound(q)
  <2>1. ~LetThrough(r, q)
    BY <1>1 DEF LetThrough
  <2>2. Bound(q)' = Bound(q) \ {m}
    BY <1>0, <2>1, BoundMoves
  <2> QED
    BY <2>2
<1>2. Tally(perIp', ip) + Cardinality(Bound(ip)') =< MintMax + Spare
  <2>1. Minted(Record(perIp, ip)) = Tally(perIp, ip) /\ ~(Minted(Record(perIp, ip)) >= MintMax)
    BY RecordTally DEF TooMany
  <2>2. Tally(perIp, ip) \in Nat /\ Tally(perIp', ip) \in Nat
    BY TallyIsNumber DEF Shapes
  <2>3. Cardinality(Bound(ip)') \in Nat /\ Cardinality(Bound(ip)') =< Spare + 1
    <3>1. Bound(ip)' \subseteq Mints
      BY DEF Bound
    <3> QED
      BY <3>1, BoundsAreFinite, FS_Subset, FS_CardinalityType
  <2>4. MintMax \in Nat /\ Spare \in Int
    BY WardenAssumption, BoundsAreFinite
  <2>5. Tally(perIp', ip) =< Tally(perIp, ip)
    OBVIOUS
  <2> QED
    BY <2>1, <2>2, <2>3, <2>4, <2>5
<1>3. ASSUME NEW q \in Ips, q # ip
      PROVE  Tally(perIp', q) + Cardinality(Bound(q)') =< MintMax + Spare
  <2>1. Tally(perIp, q) + Cardinality(Bound(q)) =< MintMax + Spare
    BY DEF MintsAreBounded
  <2>2. Tally(perIp, q) \in Nat /\ Tally(perIp', q) \in Nat /\ Tally(perIp', q) =< Tally(perIp, q)
    BY TallyIsNumber DEF Shapes
  <2>3. /\ Cardinality(Bound(q)) \in Nat /\ Cardinality(Bound(q)') \in Nat
        /\ Cardinality(Bound(q)') =< Cardinality(Bound(q))
    BY <1>1, <1>3, BoundIsFinite, FS_Subset, FS_CardinalityType
  <2>4. MintMax \in Nat /\ Spare \in Int
    BY WardenAssumption, BoundsAreFinite
  <2> QED
    BY <2>1, <2>2, <2>3, <2>4
<1> QED
  BY <1>2, <1>3 DEF MintsAreBounded

(* A request lands: its mint takes the place of the request, or there was  *)
(* room for one more when it was let through, in this very step.           *)
LEMMA LandBounded ==
    ASSUME MintsAreBounded, Shapes, Shapes', NEW m \in Mints, mint' = [mint EXCEPT ![m] = NoMint],
           NEW ip \in Ips, ~TooMany(ip) \/ LetThrough(mint[m], ip),
           Tally(perIp', ip) =< Tally(perIp, ip) + 1,
           \A q \in Ips : q # ip => Tally(perIp', q) = Tally(perIp, q)
    PROVE  MintsAreBounded'
<1>1. \A q \in Ips : Bound(q)' = Bound(q) \ {m} /\ (m \in Bound(q) <=> LetThrough(mint[m], q))
  <2>1. \A q \in Ips : ~LetThrough(NoMint, q)
    BY NoneIsNothing DEF LetThrough
  <2>2. DOMAIN mint = Mints
    BY DEF Shapes
  <2> QED
    BY <2>1, <2>2, BoundMoves
<1>2. \A q \in Ips :
         /\ IsFiniteSet(Bound(q)) /\ Cardinality(Bound(q)) \in Nat
         /\ Cardinality(Bound(q)) =< Spare + 1
         /\ Tally(perIp, q) \in Nat /\ Tally(perIp', q) \in Nat
         /\ Tally(perIp, q) + Cardinality(Bound(q)) =< MintMax + Spare
  BY BoundIsFinite, TallyIsNumber DEF MintsAreBounded, Shapes
<1>3. \A q \in Ips : /\ Cardinality(Bound(q)') \in Nat
                     /\ Cardinality(Bound(q)') =
                           IF m \in Bound(q) THEN Cardinality(Bound(q)) - 1 ELSE Cardinality(Bound(q))
  BY <1>1, <1>2, FS_RemoveElement, FS_CardinalityType
<1>4. MintMax \in Nat /\ Spare \in Int
  BY WardenAssumption, BoundsAreFinite
<1>5. ASSUME NEW q \in Ips, q # ip
      PROVE  Tally(perIp', q) + Cardinality(Bound(q)') =< MintMax + Spare
  BY <1>2, <1>3, <1>4, <1>5
<1>6. Tally(perIp', ip) + Cardinality(Bound(ip)') =< MintMax + Spare
  <2>1. CASE m \in Bound(ip)
    BY <1>2, <1>3, <1>4, <2>1
  <2>2. CASE m \notin Bound(ip)
    <3>1. Tally(perIp, ip) < MintMax
      <4>1. ~(Minted(Record(perIp, ip)) >= MintMax)
        BY <1>1, <2>2 DEF TooMany
      <4> QED
        BY <4>1, <1>2, <1>4, RecordTally
    <3>2. Cardinality(Bound(ip)) =< Spare
      <4>1. Bound(ip) \subseteq Mints \ {m}
        BY <2>2 DEF Bound
      <4>2. IsFiniteSet(Mints \ {m}) /\ Cardinality(Mints \ {m}) = Spare
        BY BoundsAreFinite, FS_RemoveElement
      <4> QED
        BY <4>1, <4>2, FS_Subset
    <3> QED
      BY <1>2, <1>3, <1>4, <2>2, <3>1, <3>2
  <2> QED
    BY <2>1, <2>2
<1> QED
  BY <1>5, <1>6 DEF MintsAreBounded

LEMMA DecideMints ==
    ASSUME MintsAreBounded, Shapes, Shapes', NEW m \in Mints, NotLetThrough(m),
           NEW ip \in Ips, NEW old \in 0..AgeCap, Decide(m, ip, old)
    PROVE  MintsAreBounded'
<1>0. old \in Nat /\ DOMAIN mint = Mints
  BY CapsAreNumbers DEF Shapes
<1>1. ASSUME mint' = [mint EXCEPT ![m] = NoMint], perIp' = Touched(ip, old)
      PROVE  MintsAreBounded'
  <2>1. \A q \in Ips : ~LetThrough(NoMint, q)
    BY NoneIsNothing DEF LetThrough
  <2>2. \A q \in Ips : Bound(q)' = Bound(q) \ {m}
    BY <1>0, <1>1, <2>1, BoundMoves
  <2>3. \A q \in Ips : Tally(perIp', q) =< Tally(perIp, q)
    BY <1>0, <1>1, TouchedTally, TallyIsNumber DEF Shapes
  <2> QED
    BY <2>2, <2>3, MintsRest
<1>2. CASE RateLimited(m, ip, old)
  BY <1>1, <1>2 DEF RateLimited
<1>3. CASE NoCapacity(m, ip, old)
  BY <1>1, <1>3 DEF NoCapacity
<1>4. CASE TakeWarm(m, ip, old)
  <2>1. Land(Head(pool).box, ip, old) /\ ~TooMany(ip) /\ mint' = [mint EXCEPT ![m] = NoMint]
    BY <1>4 DEF TakeWarm
  <2>2. /\ Tally(perIp', ip) =< Tally(perIp, ip) + 1
        /\ \A q \in Ips : q # ip => Tally(perIp', q) = Tally(perIp, q)
    BY <1>0, <2>1, LandTally
  <2> QED
    BY <2>1, <2>2, LandBounded
<1>5. CASE Reserve(m, ip, old)
  <2> DEFINE r == [at |-> "creating", ip |-> ip, age |-> old]
  <2>1. ~TooMany(ip) /\ mint' = [mint EXCEPT ![m] = r] /\ perIp' = Touched(ip, old) /\ r.ip = ip
    BY <1>5 DEF Reserve
  <2> HIDE DEF r
  <2>2. \A q \in Ips : Tally(perIp', q) =< Tally(perIp, q)
    BY <1>0, <2>1, TouchedTally, TallyIsNumber DEF Shapes
  <2> QED
    BY <2>1, <2>2, LetInBounded
<1>6. CASE Reclaim(m, ip, old)
  <2>1. PICK b \in Victims(old) :
            /\ perIp' = LessOne(Touched(ip, old), active[b].ip)
            /\ mint' = [mint EXCEPT ![m] =
                            [at |-> "reclaiming", ip |-> ip, age |-> old, box |-> b]]
    BY <1>6 DEF Reclaim
  <2> DEFINE r == [at |-> "reclaiming", ip |-> ip, age |-> old, box |-> b]
             table == Touched(ip, old)
  <2>2. ~TooMany(ip) /\ mint' = [mint EXCEPT ![m] = r] /\ r.ip = ip
    BY <1>6, <2>1 DEF Reclaim
  <2> HIDE DEF r
  <2>3. b \in Sessions /\ active[b].ip \in Ips
    BY DroppedSession DEF Victims, Ripe, Sessions, Shapes, Session
  <2>4. table \in Tables /\ \A q \in Ips : Tally(table, q) = Tally(perIp, q)
    BY <1>0, TouchedTally, TouchedCounts
  <2>5. perIp' = LessOne(table, active[b].ip)
    BY <2>1
  <2> HIDE DEF table
  <2>6. \A q \in Ips : Tally(perIp', q) = Tally(table, q)
    BY <2>3, <2>4, <2>5, LessOneTally
  <2>7. \A q \in Ips : Tally(perIp', q) =< Tally(perIp, q)
    BY <2>4, <2>6, TallyIsNumber DEF Shapes
  <2> QED
    BY <2>2, <2>7, LetInBounded
<1> QED
  BY <1>2, <1>3, <1>4, <1>5, <1>6 DEF Decide

(* Nobody's mints change, or a session is dropped and its address counts   *)
(* one session less and as many mints.                                     *)
LEMMA QuietMints ==
    ASSUME MintsAreBounded, Shapes, Shapes', UNCHANGED mint,
           \A q \in Ips : Tally(perIp', q) =< Tally(perIp, q)
    PROVE  MintsAreBounded'
<1>1. \A q \in Ips : Bound(q)' \subseteq Bound(q)
  BY DEF Bound
<1> QED
  BY <1>1, MintsRest

LEMMA SameTally ==
    ASSUME Shapes, perIp' = perIp
    PROVE  \A q \in Ips : Tally(perIp', q) =< Tally(perIp, q)
BY TallyIsNumber DEF Shapes

LEMMA DropTally ==
    ASSUME IInv, NEW b \in Sessions, Drop(b)
    PROVE  \A q \in Ips : Tally(perIp', q) =< Tally(perIp, q)
<1>1. perIp \in Tables /\ active[b].ip \in Ips /\ perIp' = LessOne(perIp, active[b].ip)
  BY DroppedSession DEF IInv, Shapes, Drop
<1>2. \A q \in Ips : Tally(perIp', q) = Tally(perIp, q)
  BY <1>1, LessOneTally
<1> QED
  BY <1>1, <1>2, TallyIsNumber

LEMMA ProceedTally ==
    ASSUME IInv, NEW table \in Tables, \A q \in Ips : Tally(table, q) =< Tally(perIp, q),
           NEW expired, NEW recycle, Proceed(table, expired, recycle)
    PROVE  \A q \in Ips : Tally(perIp', q) =< Tally(perIp, q)
<1>1. CASE \E b \in expired \cap Sessions : perIp' = LessOne(table, active[b].ip)
  <2>1. PICK b \in Sessions : perIp' = LessOne(table, active[b].ip)
    BY <1>1
  <2>2. active[b].ip \in Ips
    BY DEF IInv, Shapes, Sessions, Session
  <2>3. \A q \in Ips : Tally(perIp', q) = Tally(table, q)
    BY <2>1, <2>2, LessOneTally
  <2> QED
    BY <2>3
<1>2. CASE perIp' = table
  BY <1>2
<1> QED
  BY <1>1, <1>2 DEF Proceed

LEMMA ReplaceMints ==
    ASSUME MintsAreBounded, IInv, IInv', NEW m \in Mints, NEW ip \in Ips, NEW b \in Boxes, Replace(m, ip, b)
    PROVE  MintsAreBounded'
<1> DEFINE r == [at |-> "ending", ip |-> ip, age |-> 0, box |-> b]
<1>1. b \in Sessions /\ Drop(b) /\ mint' = [mint EXCEPT ![m] = r] /\ DOMAIN mint = Mints
  BY DEF Replace, IInv, Shapes
<1>2. \A q \in Ips : ~LetThrough(r, q)
  BY DEF LetThrough
<1> HIDE DEF r
<1>3. \A q \in Ips : Bound(q)' = Bound(q) \ {m}
  BY <1>1, <1>2, BoundMoves
<1> QED
  BY <1>1, <1>3, DropTally, MintsRest DEF IInv

LEMMA ReclaimedMints ==
    ASSUME MintsAreBounded, IInv, IInv', NEW m \in Mints, Reclaimed(m)
    PROVE  MintsAreBounded'
<1> DEFINE r == [at |-> "creating", ip |-> mint[m].ip, age |-> mint[m].age]
<1>1. /\ mint' = [mint EXCEPT ![m] = r] /\ DOMAIN mint = Mints /\ perIp' = perIp
      /\ mint[m].at = "reclaiming" /\ r.at = "creating" /\ r.ip = mint[m].ip
  BY DEF Reclaimed, IInv, Shapes
<1> HIDE DEF r
<1>2. \A q : LetThrough(r, q) => m \in Bound(q)
  BY <1>1 DEF LetThrough, Bound
<1>3. \A q \in Ips : Bound(q)' \subseteq Bound(q)
  <2> SUFFICES ASSUME NEW q \in Ips PROVE Bound(q)' \subseteq Bound(q)
    OBVIOUS
  <2>1. ~LetThrough(r, q) => Bound(q)' = Bound(q) \ {m}
    BY <1>1, BoundMoves
  <2>2. Bound(q)' \subseteq Bound(q) \cup {m}
    BY <1>1, BoundMoves
  <2> QED
    BY <1>2, <2>1, <2>2
<1> QED
  BY <1>1, <1>3, SameTally, MintsRest DEF IInv

LEMMA CreateFailsMints ==
    ASSUME MintsAreBounded, IInv, IInv', NEW m \in Mints, CreateFails(m)
    PROVE  MintsAreBounded'
<1>1. mint' = [mint EXCEPT ![m] = NoMint] /\ DOMAIN mint = Mints /\ perIp' = perIp
  BY DEF CreateFails, IInv, Shapes
<1>2. \A q \in Ips : ~LetThrough(NoMint, q)
  BY NoneIsNothing DEF LetThrough
<1>3. \A q \in Ips : Bound(q)' = Bound(q) \ {m}
  BY <1>1, <1>2, BoundMoves
<1> QED
  BY <1>1, <1>3, SameTally, MintsRest DEF IInv

LEMMA CreatedMints ==
    ASSUME MintsAreBounded, IInv, IInv', NEW m \in Mints, Created(m)
    PROVE  MintsAreBounded'
<1>1. mint[m].at = "creating" /\ mint[m].ip \in Ips /\ mint[m].age \in 0..AgeCap
  BY MintShape DEF IInv, Created
<1>2. PICK ip \in Ips, old \in Nat : ip = mint[m].ip /\ old = mint[m].age
  BY <1>1, CapsAreNumbers
<1>3. PICK b \in Fresh : Land(b, ip, old)
  BY <1>2 DEF Created
<1>4. /\ Tally(perIp', ip) =< Tally(perIp, ip) + 1
      /\ \A q \in Ips : q # ip => Tally(perIp', q) = Tally(perIp, q)
  BY <1>3, LandTally DEF IInv
<1>5. mint' = [mint EXCEPT ![m] = NoMint] /\ LetThrough(mint[m], ip)
  BY <1>1, <1>2 DEF Created, LetThrough
<1> QED
  BY <1>4, <1>5, LandBounded DEF IInv

LEMMA TickMints ==
    ASSUME MintsAreBounded, IInv, IInv', Tick
    PROVE  MintsAreBounded'
<1>1. Shapes /\ Shapes'
  BY DEF IInv
<1>2. \A q \in Ips : Tally(perIp', q) =< Tally(perIp, q)
  <2> SUFFICES ASSUME NEW q \in Ips PROVE Tally(perIp', q) =< Tally(perIp, q)
    OBVIOUS
  <2>1. perIp'[q] = IF perIp[q] = None THEN None ELSE
           [perIp[q] EXCEPT !.seen = Older(@, SeenCap),
                !.minted = [i \in DOMAIN @ |-> IF i = 0 THEN 0 ELSE @[i - 1]]]
    BY DEF Tick
  <2>2. CASE perIp[q] = None
    BY <2>1, <2>2 DEF Tally
  <2>3. CASE perIp[q] # None
    <3>1. perIp[q] \in IpRecord
      BY <1>1, <2>3 DEF Shapes, Tables
    <3> DEFINE new == [perIp[q] EXCEPT !.seen = Older(@, SeenCap),
                !.minted = [i \in DOMAIN @ |-> IF i = 0 THEN 0 ELSE @[i - 1]]]
    <3>2. new.minted = [i \in DOMAIN perIp[q].minted |-> IF i = 0 THEN 0 ELSE perIp[q].minted[i - 1]]
      BY <3>1 DEF IpRecord
    <3>3. perIp'[q] = new /\ new # None
      BY <2>1, <2>3, <3>1 DEF IpRecord, None
    <3> HIDE DEF new
    <3>4. new \in IpRecord
      BY <1>1, <3>3 DEF Shapes, Tables
    <3>5. Minted(new) =< Minted(perIp[q])
      BY <3>1, <3>2, <3>4, OlderMints
    <3> QED
      BY <2>3, <3>3, <3>5 DEF Tally
  <2> QED
    BY <2>2, <2>3
<1>3. \A m \in Mints : mint'[m].at = mint[m].at /\ mint'[m].ip = mint[m].ip
  BY <1>1, TickMovesNone
<1>4. \A q \in Ips : Bound(q)' \subseteq Bound(q)
  BY <1>3, NoneIsNothing DEF Bound
<1> QED
  BY <1>1, <1>2, <1>4, MintsRest

(* Without a record and without requests there is nothing to count.        *)
LEMMA NobodyMints ==
    ASSUME \A q \in Ips : perIp[q] = None, \A m \in Mints : mint[m] = NoMint
    PROVE  MintsAreBounded
<1> SUFFICES ASSUME NEW q \in Ips PROVE Tally(perIp, q) + Cardinality(Bound(q)) =< MintMax + Spare
  BY DEF MintsAreBounded
<1>1. Tally(perIp, q) = 0
  BY DEF Tally
<1>2. Bound(q) = {}
  BY NoneIsNothing DEF Bound
<1>3. Cardinality(Bound(q)) = 0
  BY <1>2, FS_EmptySet
<1>4. MintMax \in Nat /\ MintMax > 0 /\ Spare \in Int /\ Spare >= -1
  BY WardenAssumption, BoundsAreFinite
<1> QED
  BY <1>1, <1>3, <1>4

LEMMA MintsStep ==
    ASSUME MintsAreBounded, IInv, IInv', PoolShape, [Next]_vars
    PROVE  MintsAreBounded'
<1>0. Shapes /\ Shapes'
  BY DEF IInv
<1>1. CASE Start \/ BeginRefill \/ RefillOne \/ RefillFails \/ UNCHANGED vars
  <2>1. mint' = mint /\ perIp' = perIp
    BY <1>1 DEF Start, BeginRefill, RefillOne, RefillFails, AfterRefill, vars
  <2> QED
    BY <1>0, <2>1, SameTally, QuietMints
<1>2. CASE Crash
  <2>1. (\A q \in Ips : perIp[q] = None)' /\ (\A m \in Mints : mint[m] = NoMint)'
    BY <1>2 DEF Crash
  <2> QED
    BY <2>1, NobodyMints, PTL
<1>3. CASE Tick
  BY <1>3, TickMints
<1>4. CASE Wake
  <2>1. PICK table \in Kept(Swept) : \E aged : Proceed(table, Expired, aged)
    BY <1>4 DEF Wake
  <2>2. table \in Tables /\ \A q \in Ips : Tally(table, q) =< Tally(perIp, q)
    BY <1>0, KeptTally, KeptCounts
  <2>3. \A q \in Ips : Tally(perIp', q) =< Tally(perIp, q)
    BY <2>1, <2>2, ProceedTally
  <2>4. mint' = mint
    BY <1>4 DEF Wake
  <2> QED
    BY <1>0, <2>3, <2>4, QuietMints
<1>5. CASE Reaped
  <2>1. mint' = mint /\ Proceed(perIp, reaper.expired, reaper.recycle)
    BY <1>5 DEF Reaped
  <2>2. perIp \in Tables /\ \A q \in Ips : Tally(perIp, q) =< Tally(perIp, q)
    BY <1>0, TallyIsNumber DEF Shapes
  <2>3. \A q \in Ips : Tally(perIp', q) =< Tally(perIp, q)
    BY <2>1, <2>2, ProceedTally
  <2> QED
    BY <1>0, <2>1, <2>3, QuietMints
<1>6. ASSUME NEW b \in Boxes, End(b) PROVE MintsAreBounded'
  BY <1>0, <1>6, DropTally, QuietMints DEF End
<1>7. ASSUME NEW b \in Boxes, NEW flag \in BOOLEAN, Ended(b) \/ Heartbeat(b, flag) \/ Route(b, flag)
      PROVE  MintsAreBounded'
  <2>1. mint' = mint /\ perIp' = perIp
    BY <1>7 DEF Ended, Heartbeat, Route
  <2> QED
    BY <1>0, <2>1, SameTally, QuietMints
<1>8. ASSUME NEW m \in Mints, NEW ip \in Ips, New(m, ip) PROVE MintsAreBounded'
  <2>1. Decide(m, ip, 0) /\ NotLetThrough(m) /\ 0 \in 0..AgeCap
    BY <1>8, NoneIsNothing, CapsAreNumbers DEF New, NotLetThrough
  <2> QED
    BY <1>0, <2>1, DecideMints
<1>9. ASSUME NEW m \in Mints, NEW ip \in Ips, NEW b \in Boxes, Replace(m, ip, b) PROVE MintsAreBounded'
  BY <1>9, ReplaceMints
<1>10. ASSUME NEW m \in Mints, Replaced(m) PROVE MintsAreBounded'
  <2>1. /\ mint[m].at = "ending" /\ mint[m].ip \in Ips /\ mint[m].age \in 0..AgeCap
        /\ Decide(m, mint[m].ip, mint[m].age)
    BY <1>10, MintShape DEF IInv, Replaced
  <2>2. PICK ip \in Ips, old \in 0..AgeCap : Decide(m, ip, old)
    BY <2>1
  <2>3. NotLetThrough(m)
    BY <2>1 DEF NotLetThrough
  <2> QED
    BY <1>0, <2>2, <2>3, DecideMints
<1>11. ASSUME NEW m \in Mints, Reclaimed(m) \/ Created(m) \/ CreateFails(m) PROVE MintsAreBounded'
  BY <1>11, ReclaimedMints, CreatedMints, CreateFailsMints
<1> QED
  BY <1>1, <1>2, <1>3, <1>4, <1>5, <1>6, <1>7, <1>8, <1>9, <1>10, <1>11 DEF Next

LEMMA MintsStayBounded == Spec => []MintsAreBounded
<1>1. Init => MintsAreBounded
  BY NobodyMints DEF Init
<1> QED
  BY <1>1, MintsStep, CapsAreSound, PoolIsShaped, PTL DEF Spec

------------------------------------------------------------------------------
(* Who holds a container: the pool, a session, the task of                 *)
(* /session/{token}/end, the reaper, a request inside session_new.  The    *)
(* invariant keeps their sets apart; a step moves one container from one   *)
(* set to another, takes one that is fresh, or lets one go.                *)

Hold(r) == r.at \in {"ending", "reclaiming"}
Reaping == reaper.box \cup reaper.recycle
MintBoxes == {mint[m].box : m \in {n \in Mints : Hold(mint[n])}}

(* Hands P, S, E, R, M in a world of containers L.                         *)
Split(P, S, E, R, M, L) ==
    /\ P \subseteq L /\ S \subseteq L /\ E \subseteq L /\ R \subseteq L /\ M \subseteq L
    /\ P \cap S = {} /\ P \cap E = {} /\ P \cap R = {} /\ P \cap M = {}
    /\ S \cap E = {} /\ S \cap R = {} /\ S \cap M = {}
    /\ E \cap R = {} /\ E \cap M = {} /\ R \cap M = {}

PoolIsApart == \A i, j \in 1..Len(pool) : pool[i].box = pool[j].box => i = j
MintsAreApart ==
    \A m, n \in Mints : Hold(mint[m]) /\ Hold(mint[n]) /\ mint[m].box = mint[n].box => m = n
HandsAreApart == Split(PoolBoxes, Sessions, ending, Reaping, MintBoxes, live)
Reaps(r) == "box" \in DOMAIN r /\ "recycle" \in DOMAIN r
ReaperIsApart ==
    /\ Reaps(reaper)
    /\ reaper.box \cap reaper.recycle = {}
DownIsEmpty ==
    stage = "down" =>
        /\ pool = <<>> /\ Sessions = {} /\ ending = {} /\ Reaping = {} /\ MintBoxes = {}
        /\ refill.left = 0 /\ \A m \in Mints : mint[m].at = "idle"

Apart ==
    /\ PoolIsApart
    /\ MintsAreApart
    /\ HandsAreApart
    /\ ReaperIsApart
    /\ DownIsEmpty

(* The sessions of an address.                                             *)
At(ip) == {b \in Sessions : active[b].ip = ip}
CountsAreExact == \A ip \in Ips : Cardinality(At(ip)) = Count(ip)

Shaped == IInv /\ PoolShape

------------------------------------------------------------------------------
(* Requests and pools.                                                     *)

LEMMA MintLetsGo ==
    ASSUME MintsAreApart, NEW m \in Mints, NEW r, mint' = [mint EXCEPT ![m] = r], DOMAIN mint = Mints,
           ~Hold(r)
    PROVE  /\ MintsAreApart' /\ MintBoxes' \subseteq MintBoxes
           /\ Hold(mint[m]) => mint[m].box \in MintBoxes /\ mint[m].box \notin MintBoxes'
<1>1. mint'[m] = r /\ \A n \in Mints : n # m => mint'[n] = mint[n]
  OBVIOUS
<1>2. MintsAreApart'
  BY <1>1 DEF MintsAreApart
<1>3. \A n \in Mints : Hold(mint'[n]) => n # m /\ Hold(mint[n]) /\ mint'[n].box = mint[n].box
  BY <1>1
<1>4. MintBoxes' \subseteq MintBoxes
  BY <1>3 DEF MintBoxes
<1>5. Hold(mint[m]) => mint[m].box \in MintBoxes
  BY DEF MintBoxes
<1>6. Hold(mint[m]) => mint[m].box \notin MintBoxes'
  BY <1>3 DEF MintBoxes, MintsAreApart
<1> QED
  BY <1>2, <1>4, <1>5, <1>6

LEMMA MintTakes ==
    ASSUME MintsAreApart, NEW m \in Mints, NEW r, mint' = [mint EXCEPT ![m] = r], DOMAIN mint = Mints,
           Hold(r), r.box \notin MintBoxes
    PROVE  /\ MintsAreApart' /\ MintBoxes' \subseteq MintBoxes \cup {r.box}
           /\ Hold(mint[m]) => mint[m].box \in MintBoxes /\ mint[m].box \notin MintBoxes'
<1>1. mint'[m] = r /\ \A n \in Mints : n # m => mint'[n] = mint[n]
  OBVIOUS
<1>2. \A n \in Mints : n # m /\ Hold(mint'[n]) => Hold(mint[n]) /\ mint'[n].box = mint[n].box
                                                  /\ mint[n].box \in MintBoxes
  BY <1>1 DEF MintBoxes
<1>3. MintsAreApart'
  BY <1>1, <1>2 DEF MintsAreApart
<1>4. MintBoxes' \subseteq MintBoxes \cup {r.box}
  BY <1>1, <1>2 DEF MintBoxes
<1>5. Hold(mint[m]) => mint[m].box \in MintBoxes
  BY DEF MintBoxes
<1>6. Hold(mint[m]) => mint[m].box \notin MintBoxes'
  BY <1>1, <1>2, <1>5 DEF MintBoxes, MintsAreApart
<1> QED
  BY <1>3, <1>4, <1>5, <1>6

LEMMA PoolTakes ==
    ASSUME PoolShape, PoolIsApart, NEW b \in Boxes, b \notin PoolBoxes, NEW age \in 0..PoolCap,
           pool' = Append(pool, [box |-> b, age |-> age])
    PROVE  PoolIsApart' /\ PoolBoxes' = PoolBoxes \cup {b}
<1>1. /\ Len(pool) \in Nat /\ Len(pool') = Len(pool) + 1
      /\ \A i \in 1..Len(pool) : pool'[i] = pool[i]
      /\ pool'[Len(pool) + 1].box = b
  BY DEF PoolShape
<1>2. \A i \in 1..Len(pool) : pool[i].box # b
  BY DEF PoolBoxes
<1>3. \A i \in 1..Len(pool') : i \in 1..Len(pool) \/ i = Len(pool) + 1
  BY <1>1
<1>4. PoolIsApart'
  BY <1>1, <1>2, <1>3 DEF PoolIsApart
<1>5. PoolBoxes' = PoolBoxes \cup {b}
  BY <1>1, <1>3 DEF PoolBoxes
<1> QED
  BY <1>4, <1>5

LEMMA PoolGives ==
    ASSUME PoolShape, PoolIsApart, pool # <<>>, pool' = Tail(pool)
    PROVE  /\ PoolIsApart' /\ Head(pool).box \in PoolBoxes /\ Head(pool).box \in Boxes
           /\ PoolBoxes' \subseteq PoolBoxes \ {Head(pool).box}
<1>1. /\ Len(pool) \in Nat /\ Len(pool) >= 1 /\ Len(pool') = Len(pool) - 1
      /\ \A i \in 1..(Len(pool) - 1) : pool'[i] = pool[i + 1]
      /\ Head(pool) = pool[1] /\ pool[1] \in Pooled
  BY DEF PoolShape
<1>2. \A i \in 1..Len(pool') : i + 1 \in 1..Len(pool) /\ i + 1 # 1 /\ pool'[i] = pool[i + 1]
  BY <1>1
<1>3. 1 \in 1..Len(pool)
  BY <1>1
<1>4. PoolIsApart'
  BY <1>1, <1>2 DEF PoolIsApart
<1>5. PoolBoxes' \subseteq PoolBoxes \ {Head(pool).box}
  BY <1>1, <1>2, <1>3 DEF PoolBoxes, PoolIsApart
<1> QED
  BY <1>1, <1>3, <1>4, <1>5 DEF PoolBoxes, Pooled

(* What the reaper holds next, it held for recycling or took from a session.*)
LEMMA ProceedTakes ==
    ASSUME IInv, NEW table, NEW expired, NEW recycle, recycle \cap Sessions = {},
           Proceed(table, expired, recycle)
    PROVE  /\ Sessions' \subseteq Sessions
           /\ Reaping' \subseteq recycle \cup (Sessions \ Sessions')
           /\ ReaperIsApart'
<1>1. CASE \E b \in expired \cap Sessions :
             /\ active' = [active EXCEPT ![b] = None]
             /\ Reaps(reaper') /\ reaper'.box = {b} /\ reaper'.recycle = recycle
  <2>1. PICK b \in Sessions : /\ active' = [active EXCEPT ![b] = None]
                               /\ Reaps(reaper') /\ reaper'.box = {b} /\ reaper'.recycle = recycle
    BY <1>1
  <2>2. Sessions' = Sessions \ {b}
    BY <2>1, DroppedSession DEF IInv
  <2> QED
    BY <2>1, <2>2 DEF Reaping, ReaperIsApart
<1>2. CASE /\ UNCHANGED active
           /\ \E b \in recycle : Reaps(reaper') /\ reaper'.box = {b} /\ reaper'.recycle = recycle \ {b}
  BY <1>2 DEF Sessions, Reaping, ReaperIsApart
<1>3. CASE UNCHANGED active /\ Reaps(reaper') /\ reaper'.box = {} /\ reaper'.recycle = {}
  BY <1>3 DEF Sessions, Reaping, ReaperIsApart
<1>4. NoReaping.box = {} /\ NoReaping.recycle = {}
      /\ [NoReaping EXCEPT !.phase = "refilling", !.wait = 0].box = {}
      /\ [NoReaping EXCEPT !.phase = "refilling", !.wait = 0].recycle = {}
      /\ Reaps(NoReaping) /\ Reaps([NoReaping EXCEPT !.phase = "refilling", !.wait = 0])
  BY DEF NoReaping, Reaps
<1> DEFINE left == expired \cap Sessions
           destroys == \E b \in left :
               /\ active' = [active EXCEPT ![b] = None]
               /\ perIp' = LessOne(table, active[b].ip)
               /\ reaper' = [phase |-> "destroying", wait |-> 0, box |-> {b},
                             expired |-> left \ {b}, recycle |-> recycle]
               /\ UNCHANGED refill
           recycles == /\ \E b \in recycle :
                             reaper' = [phase |-> "recycling", wait |-> 0, box |-> {b},
                                        expired |-> {}, recycle |-> recycle \ {b}]
                       /\ UNCHANGED active
           rests == /\ reaper' \in {NoReaping,
                                    [NoReaping EXCEPT !.phase = "refilling", !.wait = 0]}
                    /\ UNCHANGED active
<1>5. destroys \/ recycles \/ rests
  BY DEF Proceed
<1>6. ASSUME destroys
      PROVE  \E b \in expired \cap Sessions :
                 /\ active' = [active EXCEPT ![b] = None]
                 /\ Reaps(reaper') /\ reaper'.box = {b} /\ reaper'.recycle = recycle
  <2>1. PICK b \in left :
          /\ active' = [active EXCEPT ![b] = None]
          /\ reaper' = [phase |-> "destroying", wait |-> 0, box |-> {b},
                        expired |-> left \ {b}, recycle |-> recycle]
    BY <1>6
  <2>2. Reaps(reaper') /\ reaper'.box = {b} /\ reaper'.recycle = recycle
    BY <2>1 DEF Reaps
  <2> QED
    BY <2>1, <2>2
<1>7. ASSUME recycles
      PROVE  /\ UNCHANGED active
             /\ \E b \in recycle : Reaps(reaper') /\ reaper'.box = {b} /\ reaper'.recycle = recycle \ {b}
  BY <1>7 DEF Reaps
<1>8. ASSUME rests
      PROVE  UNCHANGED active /\ Reaps(reaper') /\ reaper'.box = {} /\ reaper'.recycle = {}
  BY <1>4, <1>8
<1> HIDE DEF destroys, recycles, rests
<1> QED
  BY <1>1, <1>2, <1>3, <1>5, <1>6, <1>7, <1>8

------------------------------------------------------------------------------
(* The handlers, one by one.                                               *)

LEMMA NobodyMoves ==
    ASSUME Apart, UNCHANGED <<pool, active, ending, reaper, mint, live>>,
           stage' # "down" \/ UNCHANGED <<stage, refill>>
    PROVE  Apart'
<1>1. /\ PoolBoxes' = PoolBoxes /\ Sessions' = Sessions /\ Reaping' = Reaping
      /\ MintBoxes' = MintBoxes
  BY DEF PoolBoxes, Sessions, Reaping, MintBoxes
<1>2. HandsAreApart' /\ PoolIsApart' /\ MintsAreApart' /\ ReaperIsApart'
  BY <1>1 DEF Apart, HandsAreApart, PoolIsApart, MintsAreApart, ReaperIsApart
<1>3. DownIsEmpty'
  BY <1>1 DEF Apart, DownIsEmpty
<1> QED
  BY <1>2, <1>3 DEF Apart

LEMMA EndApart ==
    ASSUME Shaped, Apart, NEW b \in Boxes, End(b) PROVE Apart'
<1>1. Sessions' = Sessions \ {b} /\ b \in Sessions
  BY DropFewer DEF End, Shaped
<1>2. /\ PoolBoxes' = PoolBoxes /\ ending' = ending \cup {b} /\ Reaping' = Reaping
      /\ MintBoxes' = MintBoxes /\ live' = live
  BY DEF End, PoolBoxes, Reaping, MintBoxes
<1>3. HandsAreApart'
  BY <1>1, <1>2 DEF Apart, HandsAreApart, Split
<1>4. PoolIsApart' /\ MintsAreApart' /\ ReaperIsApart' /\ DownIsEmpty'
  BY DEF Apart, PoolIsApart, MintsAreApart, ReaperIsApart, DownIsEmpty, End
<1> QED
  BY <1>3, <1>4 DEF Apart

LEMMA EndedApart ==
    ASSUME Apart, NEW b \in Boxes, Ended(b) PROVE Apart'
<1>1. /\ PoolBoxes' = PoolBoxes /\ Sessions' = Sessions /\ Reaping' = Reaping
      /\ MintBoxes' = MintBoxes /\ ending' = ending \ {b} /\ b \in ending
      /\ live \ {b} \subseteq live'
  BY DEF Ended, Remove, PoolBoxes, Sessions, Reaping, MintBoxes
<1>2. HandsAreApart'
  BY <1>1 DEF Apart, HandsAreApart, Split
<1>3. stage # "down" /\ stage' = stage
  BY <1>1 DEF Apart, DownIsEmpty, Ended
<1>4. PoolIsApart' /\ MintsAreApart' /\ ReaperIsApart' /\ DownIsEmpty'
  BY <1>3 DEF Apart, PoolIsApart, MintsAreApart, ReaperIsApart, DownIsEmpty, Ended
<1> QED
  BY <1>2, <1>4 DEF Apart

LEMMA RefillApart ==
    ASSUME Shaped, Apart, RefillOne \/ RefillFails PROVE Apart'
<1>1. /\ Sessions' = Sessions /\ MintBoxes' = MintBoxes /\ ending' = ending /\ mint' = mint
      /\ Reaping' \subseteq Reaping /\ ReaperIsApart'
      /\ stage # "down" /\ stage' # "down"
  <2>1. reaper' \in {reaper, NoReaping} /\ UNCHANGED <<active, mint, ending>>
    BY DEF RefillOne, RefillFails, AfterRefill
  <2>2. stage # "down" /\ stage' # "down"
    BY DEF RefillOne, RefillFails, AfterRefill, Apart, DownIsEmpty
  <2> QED
    BY <2>1, <2>2 DEF Sessions, MintBoxes, Reaping, ReaperIsApart, Reaps, NoReaping, Apart
<1>2. MintsAreApart' /\ DownIsEmpty'
  BY <1>1 DEF Apart, MintsAreApart, DownIsEmpty
<1>3. CASE RefillOne
  <2>1. PICK b \in Fresh : /\ live' = live \cup {b}
                           /\ pool' = Append(pool, [box |-> b, age |-> 0])
    BY <1>3 DEF RefillOne
  <2>2. b \in Boxes /\ b \notin live /\ b \notin PoolBoxes
    BY <2>1 DEF Fresh
  <2>3. 0 \in 0..PoolCap
    BY WardenAssumption DEF PoolCap
  <2>4. PoolIsApart' /\ PoolBoxes' = PoolBoxes \cup {b}
    BY <2>1, <2>2, <2>3, PoolTakes DEF Apart, Shaped
  <2>5. HandsAreApart'
    BY <1>1, <2>1, <2>2, <2>4 DEF Apart, HandsAreApart, Split
  <2> QED
    BY <1>1, <1>2, <2>4, <2>5 DEF Apart
<1>4. CASE RefillFails
  <2>1. live \subseteq live' /\ pool' = pool /\ PoolBoxes' = PoolBoxes
    BY <1>4 DEF RefillFails, Failed, PoolBoxes
  <2>2. HandsAreApart'
    BY <1>1, <2>1 DEF Apart, HandsAreApart, Split
  <2> QED
    BY <1>1, <1>2, <2>1, <2>2 DEF Apart, PoolIsApart
<1> QED
  BY <1>3, <1>4

LEMMA WakeApart ==
    ASSUME Shaped, Apart, Wake PROVE Apart'
<1> DEFINE young == {i \in 1..Len(pool) : ~Aged(pool[i])}
           aged == {pool[i].box : i \in {k \in 1..Len(pool) : Aged(pool[k])}}
<1>1. pool' \in Picked(pool, young) /\ \E table : Proceed(table, Expired, aged)
  BY DEF Wake
<1>2. aged \subseteq PoolBoxes
  BY DEF PoolBoxes
<1>3. aged \cap Sessions = {}
  BY <1>2 DEF Apart, HandsAreApart, Split
<1>4. ComesFrom(pool', pool, young)
  <2>1. young \in SUBSET (1..Len(pool))
    OBVIOUS
  <2>2. pool' \in Picked(pool, young)
    BY <1>1
  <2>3. Len(pool) \in Nat
    BY DEF Shaped, PoolShape
  <2> HIDE DEF young
  <2> QED
    BY <2>1, <2>2, <2>3, PickedApart
<1>5. PoolIsApart'
  <2> SUFFICES ASSUME NEW i \in 1..Len(pool'), NEW j \in 1..Len(pool'), i # j
               PROVE  pool'[i].box # pool'[j].box
    BY DEF PoolIsApart
  <2>1. PICK k \in young, l \in young : k # l /\ pool'[i] = pool[k] /\ pool'[j] = pool[l]
    BY <1>4 DEF ComesFrom
  <2>2. k \in 1..Len(pool) /\ l \in 1..Len(pool)
    OBVIOUS
  <2> QED
    BY <2>1, <2>2 DEF Apart, PoolIsApart
<1>6. PoolBoxes' \subseteq PoolBoxes \ aged
  <2> SUFFICES ASSUME NEW i \in 1..Len(pool')
               PROVE  pool'[i].box \in PoolBoxes /\ pool'[i].box \notin aged
    BY DEF PoolBoxes
  <2>1. PICK k \in young : pool'[i] = pool[k]
    BY <1>4 DEF ComesFrom
  <2>2. k \in 1..Len(pool) /\ ~Aged(pool[k])
    OBVIOUS
  <2>3. \A l \in 1..Len(pool) : pool[l].box = pool[k].box => l = k
    BY <2>2 DEF Apart, PoolIsApart
  <2> QED
    BY <2>1, <2>2, <2>3 DEF PoolBoxes
<1>7. /\ Sessions' \subseteq Sessions
      /\ Reaping' \subseteq aged \cup (Sessions \ Sessions')
      /\ ReaperIsApart'
  <2> HIDE DEF aged
  <2> QED
    BY <1>1, <1>3, ProceedTakes DEF Shaped
<1> HIDE DEF young, aged
<1>8. live' = live /\ ending' = ending /\ mint' = mint /\ MintBoxes' = MintBoxes
      /\ stage' = stage /\ stage # "down"
  BY DEF Wake, MintBoxes
<1>9. HandsAreApart'
  BY <1>2, <1>6, <1>7, <1>8 DEF Apart, HandsAreApart, Split
<1>10. MintsAreApart' /\ DownIsEmpty'
  BY <1>8 DEF Apart, MintsAreApart, DownIsEmpty
<1> QED
  BY <1>5, <1>7, <1>9, <1>10 DEF Apart

LEMMA ReapedApart ==
    ASSUME Shaped, Apart, Reaped PROVE Apart'
<1>1. PICK x \in reaper.box : live \ {x} \subseteq live'
  BY DEF Reaped, Remove
<1>2. x \in Reaping /\ x \notin reaper.recycle /\ reaper.recycle \subseteq Reaping
  BY DEF Apart, ReaperIsApart, Reaping
<1>3. reaper.recycle \cap Sessions = {}
  BY <1>2 DEF Apart, HandsAreApart, Split
<1>4. /\ Sessions' \subseteq Sessions
      /\ Reaping' \subseteq reaper.recycle \cup (Sessions \ Sessions')
      /\ ReaperIsApart'
  BY <1>3, ProceedTakes DEF Shaped, Reaped
<1>5. /\ pool' = pool /\ PoolBoxes' = PoolBoxes /\ ending' = ending /\ mint' = mint
      /\ MintBoxes' = MintBoxes /\ stage' = stage
  BY DEF Reaped, PoolBoxes, MintBoxes
<1>6. HandsAreApart'
  BY <1>1, <1>2, <1>4, <1>5 DEF Apart, HandsAreApart, Split
<1>7. stage # "down"
  BY <1>2 DEF Apart, DownIsEmpty
<1>8. PoolIsApart' /\ MintsAreApart' /\ DownIsEmpty'
  BY <1>5, <1>7 DEF Apart, PoolIsApart, MintsAreApart, DownIsEmpty
<1> QED
  BY <1>4, <1>6, <1>8 DEF Apart

------------------------------------------------------------------------------
(* session_new: what is removed is what the request held.                  *)

Removes(m) == live \ {b \in live : Hold(mint[m]) /\ b = mint[m].box} \subseteq live'
OthersRest == UNCHANGED <<stage, ending, reaper>> /\ stage # "down"

LEMMA OthersRestApart ==
    ASSUME Apart, OthersRest
    PROVE  /\ Reaping' = Reaping /\ ending' = ending
           /\ ReaperIsApart' /\ DownIsEmpty'
BY DEF Apart, OthersRest, Reaping, ReaperIsApart, DownIsEmpty

(* The request goes on without a container, and nothing else moves.        *)
LEMMA GoesOnApart ==
    ASSUME Shaped, Apart, OthersRest, NEW m \in Mints, Removes(m),
           NEW r, ~Hold(r), mint' = [mint EXCEPT ![m] = r], UNCHANGED <<pool, active>>
    PROVE  Apart'
<1>0. DOMAIN mint = Mints
  BY DEF Shaped, IInv, Shapes
<1>1. /\ MintsAreApart' /\ MintBoxes' \subseteq MintBoxes
      /\ Hold(mint[m]) => mint[m].box \in MintBoxes /\ mint[m].box \notin MintBoxes'
  BY <1>0, MintLetsGo DEF Apart
<1>2. PoolIsApart' /\ PoolBoxes' = PoolBoxes /\ Sessions' = Sessions
  BY DEF Apart, PoolIsApart, PoolBoxes, Sessions
<1>3. /\ Reaping' = Reaping /\ ending' = ending /\ ReaperIsApart' /\ DownIsEmpty'
  BY OthersRestApart
<1>4. HandsAreApart'
  BY <1>1, <1>2, <1>3 DEF Apart, HandsAreApart, Split, Removes
<1> QED
  BY <1>1, <1>2, <1>3, <1>4 DEF Apart

LEMMA TakeWarmApart ==
    ASSUME Shaped, Apart, OthersRest, NEW m \in Mints, Removes(m),
           NEW ip \in Ips, NEW old \in 0..AgeCap, TakeWarm(m, ip, old)
    PROVE  Apart'
<1>0. DOMAIN mint = Mints /\ Shapes
  BY DEF Shaped, IInv, Shapes
<1> DEFINE b == Head(pool).box
<1>1. /\ MintsAreApart' /\ MintBoxes' \subseteq MintBoxes
      /\ Hold(mint[m]) => mint[m].box \in MintBoxes /\ mint[m].box \notin MintBoxes'
  <2>1. ~Hold(NoMint)
    BY NoneIsNothing DEF Hold
  <2>2. mint' = [mint EXCEPT ![m] = NoMint]
    BY DEF TakeWarm
  <2> QED
    BY <1>0, <2>1, <2>2, MintLetsGo DEF Apart
<1>2. /\ PoolIsApart' /\ b \in PoolBoxes /\ PoolBoxes' \subseteq PoolBoxes \ {b}
  <2>1. pool # <<>> /\ pool' = Tail(pool)
    BY DEF TakeWarm, FromPool
  <2> QED
    BY <2>1, PoolGives DEF Apart, Shaped
<1>3. Sessions' \subseteq Sessions \cup {b}
  <2>1. Land(b, ip, old)
    BY DEF TakeWarm
  <2> QED
    BY <1>0, <2>1, LandCounts
<1>4. /\ Reaping' = Reaping /\ ending' = ending /\ ReaperIsApart' /\ DownIsEmpty'
  BY OthersRestApart
<1> HIDE DEF b
<1>5. HandsAreApart'
  BY <1>1, <1>2, <1>3, <1>4 DEF Apart, HandsAreApart, Split, Removes
<1> QED
  BY <1>1, <1>2, <1>4, <1>5 DEF Apart

(* A session goes, its container is held by the request that waits.        *)
LEMMA WaitsApart ==
    ASSUME Shaped, Apart, OthersRest, NEW m \in Mints, Removes(m), NEW b \in Sessions, NEW r,
           Hold(r), r.box = b, mint' = [mint EXCEPT ![m] = r],
           active' = [active EXCEPT ![b] = None], UNCHANGED pool
    PROVE  Apart'
<1>0. DOMAIN mint = Mints
  BY DEF Shaped, IInv, Shapes
<1>1. /\ MintsAreApart' /\ MintBoxes' \subseteq MintBoxes \cup {b}
      /\ Hold(mint[m]) => mint[m].box \in MintBoxes /\ mint[m].box \notin MintBoxes'
  <2>1. b \notin MintBoxes
    BY DEF Apart, HandsAreApart, Split
  <2> QED
    BY <1>0, <2>1, MintTakes DEF Apart
<1>2. PoolIsApart' /\ PoolBoxes' = PoolBoxes
  BY DEF Apart, PoolIsApart, PoolBoxes
<1>3. Sessions' = Sessions \ {b}
  BY DroppedSession DEF Shaped, IInv
<1>4. /\ Reaping' = Reaping /\ ending' = ending /\ ReaperIsApart' /\ DownIsEmpty'
  BY OthersRestApart
<1>5. HandsAreApart'
  BY <1>1, <1>2, <1>3, <1>4 DEF Apart, HandsAreApart, Split, Removes
<1> QED
  BY <1>1, <1>2, <1>4, <1>5 DEF Apart

LEMMA DecideApart ==
    ASSUME Shaped, Apart, OthersRest, NEW m \in Mints, Removes(m),
           NEW ip \in Ips, NEW old \in 0..AgeCap, Decide(m, ip, old)
    PROVE  Apart'
<1>1. ~Hold(NoMint) /\ ~Hold([at |-> "creating", ip |-> ip, age |-> old])
  BY NoneIsNothing DEF Hold
<1>2. CASE RateLimited(m, ip, old) \/ NoCapacity(m, ip, old)
  BY <1>1, <1>2, GoesOnApart DEF RateLimited, NoCapacity
<1>3. CASE TakeWarm(m, ip, old)
  BY <1>3, TakeWarmApart
<1>4. CASE Reserve(m, ip, old)
  BY <1>1, <1>4, GoesOnApart DEF Reserve
<1>5. CASE Reclaim(m, ip, old)
  <2>1. PICK b \in Victims(old) :
          /\ active' = [active EXCEPT ![b] = None]
          /\ mint' = [mint EXCEPT ![m] = [at |-> "reclaiming", ip |-> ip, age |-> old, box |-> b]]
    BY <1>5 DEF Reclaim
  <2> DEFINE r == [at |-> "reclaiming", ip |-> ip, age |-> old, box |-> b]
  <2>2. b \in Sessions /\ Hold(r) /\ r.box = b /\ mint' = [mint EXCEPT ![m] = r] /\ pool' = pool
    BY <1>5, <2>1 DEF Victims, Ripe, Hold, Reclaim
  <2> HIDE DEF r
  <2> QED
    BY <2>1, <2>2, WaitsApart
<1> QED
  BY <1>2, <1>3, <1>4, <1>5 DEF Decide

LEMMA NewApart ==
    ASSUME Shaped, Apart, NEW m \in Mints, NEW ip \in Ips, New(m, ip) PROVE Apart'
<1>1. OthersRest /\ Removes(m) /\ Decide(m, ip, 0)
  BY DEF New, OthersRest, Removes
<1>2. 0 \in 0..AgeCap
  BY CapsAreNumbers
<1> QED
  BY <1>1, <1>2, DecideApart

LEMMA ReplaceApart ==
    ASSUME Shaped, Apart, NEW m \in Mints, NEW ip \in Ips, NEW b \in Boxes, Replace(m, ip, b)
    PROVE  Apart'
<1> DEFINE r == [at |-> "ending", ip |-> ip, age |-> 0, box |-> b]
<1>1. /\ OthersRest /\ Removes(m) /\ b \in Sessions /\ Hold(r) /\ r.box = b
      /\ mint' = [mint EXCEPT ![m] = r] /\ active' = [active EXCEPT ![b] = None] /\ pool' = pool
  BY DEF Replace, OthersRest, Removes, Drop, Hold
<1> HIDE DEF r
<1> QED
  BY <1>1, WaitsApart

(* A request that waits is one of a process that runs.                     *)
LEMMA WaitingIsUp ==
    ASSUME Apart, NEW m \in Mints, mint[m].at # "idle"
    PROVE  stage # "down"
BY DEF Apart, DownIsEmpty

LEMMA ReplacedApart ==
    ASSUME Shaped, Apart, NEW m \in Mints, Replaced(m) PROVE Apart'
<1>1. /\ mint[m].ip \in Ips /\ mint[m].age \in 0..AgeCap
      /\ mint[m].at = "ending" /\ Decide(m, mint[m].ip, mint[m].age)
  BY MintShape DEF Shaped, IInv, Replaced
<1>2. OthersRest /\ Removes(m)
  BY <1>1, WaitingIsUp DEF Replaced, OthersRest, Removes, Remove, Hold
<1> QED
  BY <1>1, <1>2, DecideApart

LEMMA ReclaimedApart ==
    ASSUME Shaped, Apart, NEW m \in Mints, Reclaimed(m) PROVE Apart'
<1> DEFINE r == [at |-> "creating", ip |-> mint[m].ip, age |-> mint[m].age]
<1>1. ~Hold(r) /\ mint' = [mint EXCEPT ![m] = r] /\ UNCHANGED <<pool, active>>
  BY DEF Reclaimed, Hold
<1>2. OthersRest /\ Removes(m)
  BY WaitingIsUp DEF Reclaimed, OthersRest, Removes, Remove, Hold
<1> HIDE DEF r
<1> QED
  BY <1>1, <1>2, GoesOnApart

LEMMA CreateFailsApart ==
    ASSUME Shaped, Apart, NEW m \in Mints, CreateFails(m) PROVE Apart'
<1>1. ~Hold(NoMint) /\ mint' = [mint EXCEPT ![m] = NoMint] /\ UNCHANGED <<pool, active>>
  BY NoneIsNothing DEF CreateFails, Hold
<1>2. OthersRest /\ Removes(m)
  BY WaitingIsUp DEF CreateFails, Failed, OthersRest, Removes
<1> QED
  BY <1>1, <1>2, GoesOnApart

LEMMA CreatedApart ==
    ASSUME Shaped, Apart, NEW m \in Mints, Created(m) PROVE Apart'
<1>0. DOMAIN mint = Mints /\ Shapes
  BY DEF Shaped, IInv, Shapes
<1>1. PICK ip \in Ips, age \in 0..AgeCap :
        /\ mint[m].at = "creating"
        /\ \E b \in Fresh : live' = live \cup {b} /\ Land(b, ip, age)
  BY <1>0, MintShape DEF Created
<1>2. PICK b \in Fresh : live' = live \cup {b} /\ Land(b, ip, age)
  BY <1>1
<1>3. b \notin live /\ Sessions' \subseteq Sessions \cup {b}
  BY <1>0, <1>2, LandCounts DEF Fresh
<1>4. MintsAreApart' /\ MintBoxes' \subseteq MintBoxes
  <2>1. ~Hold(NoMint) /\ mint' = [mint EXCEPT ![m] = NoMint]
    BY NoneIsNothing DEF Created, Hold
  <2> QED
    BY <1>0, <2>1, MintLetsGo DEF Apart
<1>5. PoolIsApart' /\ PoolBoxes' = PoolBoxes
  BY DEF Created, Apart, PoolIsApart, PoolBoxes
<1>6. /\ Reaping' = Reaping /\ ending' = ending /\ ReaperIsApart' /\ DownIsEmpty'
  <2>1. OthersRest
    BY <1>1, WaitingIsUp DEF Created, OthersRest
  <2> QED
    BY <2>1, OthersRestApart
<1>7. HandsAreApart'
  BY <1>2, <1>3, <1>4, <1>5, <1>6 DEF Apart, HandsAreApart, Split
<1> QED
  BY <1>4, <1>5, <1>6, <1>7 DEF Apart

------------------------------------------------------------------------------
(* The visitor, the clock, the start and the crash.                        *)

LEMMA VisitApart ==
    ASSUME Shaped, Apart, NEW b \in Boxes, NEW flag, Heartbeat(b, flag) \/ Route(b, flag)
    PROVE  Apart'
<1>1. /\ b \in Sessions /\ \A c \in Boxes : c # b => active'[c] = active[c]
      /\ stage # "down" /\ UNCHANGED <<stage, live, pool, mint, reaper, ending>>
  BY DEF Heartbeat, Route, Routed, Shaped, IInv, Shapes
<1>2. Sessions' \subseteq Sessions
  BY <1>1 DEF Sessions
<1>3. /\ PoolBoxes' = PoolBoxes /\ Reaping' = Reaping /\ MintBoxes' = MintBoxes
      /\ PoolIsApart' /\ MintsAreApart' /\ ReaperIsApart' /\ DownIsEmpty'
  BY <1>1 DEF PoolBoxes, Reaping, MintBoxes, Apart, PoolIsApart, MintsAreApart, ReaperIsApart,
              DownIsEmpty
<1>4. HandsAreApart'
  BY <1>1, <1>2, <1>3 DEF Apart, HandsAreApart, Split
<1> QED
  BY <1>3, <1>4 DEF Apart

LEMMA TickHands ==
    ASSUME Shaped, Apart, Tick
    PROVE  /\ PoolIsApart' /\ PoolBoxes' = PoolBoxes
           /\ MintsAreApart' /\ MintBoxes' = MintBoxes
           /\ ReaperIsApart' /\ Reaping' = Reaping
<1>1. PoolIsApart' /\ PoolBoxes' = PoolBoxes
  <2>1. Len(pool) \in Nat /\ \A i \in 1..Len(pool) : pool[i] \in Pooled
    BY DEF Shaped, PoolShape
  <2> DEFINE E(i) == [pool[i] EXCEPT !.age = Older(@, PoolCap)]
  <2>2. \A i \in 1..Len(pool) : E(i).box = pool[i].box
    BY <2>1 DEF Pooled
  <2>3. pool' = [i \in 1..Len(pool) |-> E(i)]
    BY DEF Tick
  <2> HIDE DEF E
  <2>4. pool' \in Seq({E(i) : i \in 1..Len(pool)})
    BY <2>1, <2>3
  <2>5. Len(pool') = Len(pool)
    BY <2>1, <2>3, <2>4
  <2>6. \A i \in 1..Len(pool) : pool'[i].box = pool[i].box
    BY <2>2, <2>3
  <2> QED
    BY <2>5, <2>6 DEF Apart, PoolIsApart, PoolBoxes
<1>2. MintsAreApart' /\ MintBoxes' = MintBoxes
  <2> DEFINE M(m) == [mint[m] EXCEPT !.age = Older(@, AgeCap)]
  <2>1. ASSUME NEW m \in Mints, mint[m] # NoMint
        PROVE  M(m).at = mint[m].at /\ (Hold(mint[m]) => M(m).box = mint[m].box)
    <3>1. mint[m] \in Minting
      BY <2>1 DEF Shaped, IInv, Shapes
    <3> QED
      BY <3>1 DEF Minting, Hold
  <2>2. mint' = [m \in Mints |-> IF mint[m] = NoMint THEN NoMint ELSE M(m)]
    BY DEF Tick
  <2> HIDE DEF M
  <2>3. ASSUME NEW m \in Mints
        PROVE  /\ Hold(mint'[m]) <=> Hold(mint[m])
               /\ Hold(mint[m]) => mint'[m].box = mint[m].box
    <3>1. CASE mint[m] = NoMint
      BY <2>2, <3>1
    <3>2. CASE mint[m] # NoMint
      BY <2>1, <2>2, <3>2 DEF Hold
    <3> QED
      BY <3>1, <3>2
  <2>4. MintsAreApart'
    BY <2>3 DEF Apart, MintsAreApart
  <2>5. MintBoxes' = MintBoxes
    <3> DEFINE holders == {n \in Mints : Hold(mint[n])}
               holdersNext == {n \in Mints : Hold(mint'[n])}
    <3>1. holders = holdersNext /\ \A n \in holders : mint'[n].box = mint[n].box
      BY <2>3
    <3>2. MintBoxes = {mint[n].box : n \in holders} /\ MintBoxes' = {mint'[n].box : n \in holdersNext}
      BY DEF MintBoxes
    <3> HIDE DEF holders, holdersNext
    <3> QED
      BY <3>1, <3>2
  <2> QED
    BY <2>4, <2>5
<1>3. Reaping' = Reaping /\ ReaperIsApart'
  <2>1. reaper'.box = reaper.box /\ reaper'.recycle = reaper.recycle
    BY DEF Tick, Apart, ReaperIsApart, Reaps
  <2> QED
    BY <2>1 DEF Reaping, Apart, ReaperIsApart, Tick, Reaps
<1> QED
  BY <1>1, <1>2, <1>3

LEMMA TickApart ==
    ASSUME Shaped, Apart, Tick PROVE Apart'
<1>1. /\ stage # "down" /\ UNCHANGED <<stage, live, ending>>
  BY DEF Tick
<1>2. Sessions' \subseteq Sessions
  BY DEF Tick, Sessions
<1>3. /\ PoolBoxes' = PoolBoxes /\ MintBoxes' = MintBoxes /\ Reaping' = Reaping
      /\ PoolIsApart' /\ MintsAreApart' /\ ReaperIsApart'
  BY TickHands
<1>4. HandsAreApart'
  BY <1>1, <1>2, <1>3 DEF Apart, HandsAreApart, Split
<1>5. DownIsEmpty'
  BY <1>1 DEF DownIsEmpty
<1> QED
  BY <1>3, <1>4, <1>5 DEF Apart

(* Nobody holds anything.                                                  *)
EmptyHands ==
    /\ pool = <<>> /\ Sessions = {} /\ ending = {} /\ Reaping = {} /\ MintBoxes = {}
    /\ refill.left = 0 /\ \A m \in Mints : mint[m].at = "idle"

LEMMA EmptyHandsAreApart == ASSUME EmptyHands, Reaps(reaper) PROVE Apart
<1>1. Len(pool) = 0
  BY DEF EmptyHands
<1>2. PoolBoxes = {} /\ PoolIsApart
  BY <1>1 DEF PoolBoxes, PoolIsApart
<1> QED
  BY <1>2 DEF EmptyHands, Apart, MintsAreApart, Hold, HandsAreApart, Split, ReaperIsApart, Reaping,
              DownIsEmpty

LEMMA NobodyHolds ==
    ASSUME pool = <<>>, active = [b \in Boxes |-> None], mint = [m \in Mints |-> NoMint],
           refill = NoRefill, reaper = NoReaping, ending = {}
    PROVE  Apart
<1>1. /\ Sessions = {} /\ Reaping = {} /\ Reaps(reaper)
      /\ refill.left = 0 /\ \A m \in Mints : mint[m].at = "idle"
  BY NoneIsNothing DEF Sessions, Reaping, Reaps, NoReaping, NoRefill
<1>2. MintBoxes = {}
  BY <1>1 DEF MintBoxes, Hold
<1> QED
  BY <1>1, <1>2, EmptyHandsAreApart DEF EmptyHands

LEMMA StartApart ==
    ASSUME Apart, Start PROVE Apart'
<1>1. EmptyHands /\ stage' # "down"
  BY DEF Start, Apart, DownIsEmpty, EmptyHands
<1>2. UNCHANGED <<pool, active, mint, reaper, ending>>
  BY DEF Start
<1>3. /\ pool' = <<>> /\ Sessions' = {} /\ ending' = {} /\ Reaping' = {} /\ MintBoxes' = {}
      /\ PoolBoxes' = {}
  <2>1. Len(<<>>) = 0
    OBVIOUS
  <2>2. PoolBoxes = {}
    BY <1>1, <2>1 DEF EmptyHands, PoolBoxes
  <2>3. PoolBoxes' = PoolBoxes
    BY <1>2 DEF PoolBoxes
  <2> QED
    BY <1>1, <1>2, <2>2, <2>3 DEF EmptyHands, Sessions, Reaping, MintBoxes
<1>4. HandsAreApart'
  BY <1>3 DEF HandsAreApart, Split
<1> QED
  BY <1>1, <1>2, <1>4 DEF Apart, PoolIsApart, MintsAreApart, ReaperIsApart, DownIsEmpty

LEMMA ApartStep ==
    ASSUME Shaped, Apart, [Next]_vars PROVE Apart'
<1>1. CASE Start
  BY <1>1, StartApart
<1>2. CASE Crash
  <2>1. (/\ pool = <<>> /\ active = [b \in Boxes |-> None] /\ mint = [m \in Mints |-> NoMint]
         /\ refill = NoRefill /\ reaper = NoReaping /\ ending = {})'
    BY <1>2 DEF Crash, NoRefill, NoReaping
  <2> QED
    BY <2>1, NobodyHolds, PTL
<1>3. CASE Tick
  BY <1>3, TickApart
<1>4. CASE BeginRefill
  BY <1>4, NobodyMoves DEF BeginRefill
<1>5. CASE RefillOne \/ RefillFails
  BY <1>5, RefillApart
<1>6. CASE Wake
  BY <1>6, WakeApart
<1>7. CASE Reaped
  BY <1>7, ReapedApart
<1>8. CASE \E b \in Boxes : End(b) \/ Ended(b)
  BY <1>8, EndApart, EndedApart
<1>9. CASE \E b \in Boxes, flag \in BOOLEAN : Heartbeat(b, flag) \/ Route(b, flag)
  BY <1>9, VisitApart
<1>10. CASE \E m \in Mints, ip \in Ips : New(m, ip) \/ \E b \in Boxes : Replace(m, ip, b)
  BY <1>10, NewApart, ReplaceApart
<1>11. CASE \E m \in Mints : Replaced(m) \/ Reclaimed(m) \/ Created(m) \/ CreateFails(m)
  BY <1>11, ReplacedApart, ReclaimedApart, CreatedApart, CreateFailsApart
<1>12. CASE UNCHANGED vars
  BY <1>12, NobodyMoves DEF vars
<1> QED
  BY <1>1, <1>2, <1>3, <1>4, <1>5, <1>6, <1>7, <1>8, <1>9, <1>10, <1>11, <1>12 DEF Next

LEMMA HandsStayApart == Spec => [](Shaped /\ Apart)
<1>1. Init => Apart
  BY NobodyHolds DEF Init
<1> QED
  BY <1>1, ApartStep, CapsAreSound, PoolIsShaped, PTL DEF Spec, Shaped

(* No container is in two hands, and whoever holds one holds a container   *)
(* that exists: none backs two sessions, stays in the pool that it was     *)
(* assigned from, or is removed twice (session_new, _refill_pool,          *)
(* _reaper_tick, _destroy), also when docker fails and after a crash.      *)
THEOREM ContainersHaveOneKeeper == Spec => []OneKeeper
<1>1. Shaped /\ Apart => OneKeeper
  <2> SUFFICES ASSUME Shaped, Apart, NEW b \in Boxes
               PROVE  Cardinality(Keepers(b)) =< 1 /\ (Keepers(b) # {} => b \in live)
    BY DEF OneKeeper
  <2>1. ASSUME NEW x \in Keepers(b)
        PROVE  \/ b \in PoolBoxes /\ \E i \in 1..Len(pool) : pool[i].box = b /\ x = <<"pool", i>>
               \/ b \in Sessions /\ x = <<"session", 0>>
               \/ b \in ending /\ x = <<"end", 0>>
               \/ b \in MintBoxes /\ \E m \in Mints :
                      Hold(mint[m]) /\ mint[m].box = b /\ x = <<"mint", m>>
               \/ b \in Reaping /\ x = <<"reaper", 0>>
    BY <2>1 DEF Keepers, PoolBoxes, MintBoxes, MintsAt, Hold, Reaping
  <2>2. \A x, y \in Keepers(b) : x = y
    BY <2>1 DEF Apart, HandsAreApart, Split, PoolIsApart, MintsAreApart
  <2>3. Keepers(b) # {} => b \in live
    BY <2>1 DEF Apart, HandsAreApart, Split
  <2>4. Cardinality(Keepers(b)) =< 1
    <3>1. CASE Keepers(b) = {}
      BY <3>1, FS_EmptySet
    <3>2. CASE Keepers(b) # {}
      <4>1. PICK x : x \in Keepers(b)
        BY <3>2
      <4>2. Keepers(b) = {x}
        BY <2>2, <4>1
      <4>3. Cardinality({x}) = 1
        BY FS_Singleton
      <4> QED
        BY <4>2, <4>3
    <3> QED
      BY <3>1, <3>2
  <2> QED
    BY <2>3, <2>4
<1> QED
  BY <1>1, HandsStayApart, PTL

------------------------------------------------------------------------------
(* While docker does not fail, a container that exists is in somebody's    *)
(* hands: whatever a step lets go of, it removes or passes on.             *)

Held == PoolBoxes \cup Sessions \cup ending \cup Reaping \cup MintBoxes
AllAreHeld == stage # "down" => live \subseteq Held

(* The reaper holds one container at a time, and nothing when it sleeps or *)
(* waits for a refill of its own.                                          *)
ReaperHolds ==
    /\ {"phase", "box", "recycle"} \subseteq DOMAIN reaper /\ "by" \in DOMAIN refill
    /\ reaper.phase \in {"asleep", "refilling"} => Reaping = {}
    /\ \A b, c \in reaper.box : b = c
    /\ refill.by = "reaper" => reaper.phase = "refilling"

(* What the request's removal takes away.                                  *)
Freed(m) == {b \in {mint[m].box} : Hold(mint[m])}

(* The other half of Apart's steps: what a hand does not let go it keeps.  *)
LEMMA MintKeepsOthers ==
    ASSUME NEW m \in Mints, NEW r, mint' = [mint EXCEPT ![m] = r], DOMAIN mint = Mints
    PROVE  /\ MintBoxes \ Freed(m) \subseteq MintBoxes'
           /\ Hold(r) => r.box \in MintBoxes'
<1>1. mint'[m] = r /\ \A n \in Mints : n # m => mint'[n] = mint[n]
  OBVIOUS
<1>2. Hold(r) => r.box \in MintBoxes'
  BY <1>1 DEF MintBoxes
<1>3. ASSUME NEW b \in MintBoxes, b \notin Freed(m) PROVE b \in MintBoxes'
  <2>1. PICK n \in Mints : Hold(mint[n]) /\ b = mint[n].box
    BY DEF MintBoxes
  <2>2. n # m
    BY <1>3, <2>1 DEF Freed
  <2> QED
    BY <1>1, <2>1, <2>2 DEF MintBoxes
<1> QED
  BY <1>2, <1>3

LEMMA LandedIsSession ==
    ASSUME Shapes, NEW b \in Boxes, NEW ip, NEW old, Land(b, ip, old)
    PROVE  Sessions \cup {b} \subseteq Sessions'
<1> DEFINE s == [ip |-> ip, age |-> old, idle |-> Min({old, IdleCap}),
                 beat |-> Min({old, BeatCap}), hidden |-> FALSE]
<1>1. s # None
  BY DEF None
<1>2. active' = [active EXCEPT ![b] = s]
  BY DEF Land
<1> HIDE DEF s
<1> QED
  BY <1>1, <1>2 DEF Shapes, Sessions

LEMMA PoolKeepsOthers ==
    ASSUME PoolShape, pool # <<>>, pool' = Tail(pool)
    PROVE  PoolBoxes \ {Head(pool).box} \subseteq PoolBoxes'
<1>1. /\ Len(pool) \in Nat /\ Len(pool) >= 1 /\ Len(pool') = Len(pool) - 1
      /\ \A i \in 1..(Len(pool) - 1) : pool'[i] = pool[i + 1]
      /\ Head(pool) = pool[1]
  BY DEF PoolShape
<1>2. ASSUME NEW i \in 1..Len(pool), pool[i].box # Head(pool).box PROVE pool[i].box \in PoolBoxes'
  <2>1. i # 1
    BY <1>1, <1>2
  <2>2. i - 1 \in 1..Len(pool') /\ pool'[i - 1] = pool[i]
    BY <1>1, <2>1
  <2> QED
    BY <2>2 DEF PoolBoxes
<1> QED
  BY <1>2 DEF PoolBoxes

(* Nothing is left out of what is picked.                                  *)
LEMMA PickedIsAll ==
    ASSUME NEW seq, Len(seq) \in Nat, NEW S, S \in SUBSET (1..Len(seq)),
           NEW picked \in Picked(seq, S)
    PROVE  \A k \in S : \E i \in 1..Len(picked) : picked[i] = seq[k]
<1>0. IsFiniteSet(1..Len(seq))
  BY FS_Interval
<1>1. IsFiniteSet(S) /\ Cardinality(S) \in Nat
  BY <1>0, FS_Subset, FS_CardinalityType
<1> DEFINE D == 1..Cardinality(S)
<1>2. PICK f \in InOrder(S) : picked = [i \in D |-> seq[f[i]]]
  BY DEF Picked
<1>3. f \in [D -> S] /\ \A i, j \in D : i < j => f[i] < f[j]
  BY <1>2 DEF InOrder
<1>4. ASSUME NEW i \in D PROVE f[i] \in Int
  <2>1. f[i] \in S
    BY <1>3
  <2>2. f[i] \in 1..Len(seq)
    BY <2>1
  <2> QED
    BY <2>2
<1>5. \A i, j \in D : f[i] = f[j] => i = j
  BY <1>1, <1>3, <1>4
<1>6. IsFiniteSet(D) /\ Cardinality(D) = Cardinality(S)
  BY <1>1, FS_Interval
<1>7. picked \in Seq({seq[f[i]] : i \in D}) /\ Len(picked) = Cardinality(S)
  <2>1. picked \in Seq({seq[f[i]] : i \in D})
    BY <1>1, <1>2
  <2> QED
    BY <1>1, <1>2, <2>1
<1> HIDE DEF D
<1>8. f \in Injection(D, S)
  BY <1>3, <1>5 DEF Injection, IsInjective
<1>9. f \in Surjection(D, S)
  BY <1>1, <1>6, <1>8, FS_Injection
<1>10. \A k \in S : \E i \in D : f[i] = k
  BY <1>9 DEF Surjection
<1> QED
  BY <1>2, <1>7, <1>10 DEF D

LEMMA ProceedKeeps ==
    ASSUME IInv, NEW table, NEW expired, NEW recycle, recycle \cap Sessions = {},
           Proceed(table, expired, recycle)
    PROVE  recycle \cup (Sessions \ Sessions') \subseteq Reaping'
<1> DEFINE left == expired \cap Sessions
<1>1. CASE \E b \in left :
               /\ active' = [active EXCEPT ![b] = None]
               /\ reaper' = [phase |-> "destroying", wait |-> 0, box |-> {b},
                             expired |-> left \ {b}, recycle |-> recycle]
  <2>1. PICK b \in left :
               /\ active' = [active EXCEPT ![b] = None]
               /\ reaper' = [phase |-> "destroying", wait |-> 0, box |-> {b},
                             expired |-> left \ {b}, recycle |-> recycle]
    BY <1>1
  <2>2. Sessions' = Sessions \ {b} /\ reaper'.box = {b} /\ reaper'.recycle = recycle
    BY <2>1, DroppedSession DEF IInv
  <2> QED
    BY <2>2 DEF Reaping
<1>2. CASE /\ UNCHANGED active
           /\ \E b \in recycle :
                  reaper' = [phase |-> "recycling", wait |-> 0, box |-> {b},
                             expired |-> {}, recycle |-> recycle \ {b}]
  <2>1. PICK b \in recycle : reaper'.box = {b} /\ reaper'.recycle = recycle \ {b}
    BY <1>2
  <2> QED
    BY <1>2, <2>1 DEF Reaping, Sessions
<1>3. CASE UNCHANGED active /\ recycle = {}
  BY <1>3 DEF Sessions
<1> QED
  BY <1>1, <1>2, <1>3 DEF Proceed

------------------------------------------------------------------------------
(* The handlers again.                                                     *)

LEMMA SameHands ==
    ASSUME AllAreHeld, UNCHANGED <<pool, active, ending, reaper, mint, live>>,
           stage # "down" \/ UNCHANGED stage
    PROVE  AllAreHeld'
<1>1. /\ PoolBoxes' = PoolBoxes /\ Sessions' = Sessions /\ Reaping' = Reaping
      /\ MintBoxes' = MintBoxes
  BY DEF PoolBoxes, Sessions, Reaping, MintBoxes
<1> QED
  BY <1>1 DEF AllAreHeld, Held

LEMMA EndHeld ==
    ASSUME Shaped, AllAreHeld, NEW b \in Boxes, End(b) PROVE AllAreHeld'
<1>1. Sessions' = Sessions \ {b} /\ b \in Sessions
  BY DropFewer DEF End, Shaped
<1>2. /\ PoolBoxes' = PoolBoxes /\ ending' = ending \cup {b} /\ Reaping' = Reaping
      /\ MintBoxes' = MintBoxes /\ live' = live /\ stage' = stage
  BY DEF End, PoolBoxes, Reaping, MintBoxes
<1> QED
  BY <1>1, <1>2 DEF AllAreHeld, Held

LEMMA EndedHeld ==
    ASSUME ~DockerMayFail, AllAreHeld, NEW b \in Boxes, Ended(b) PROVE AllAreHeld'
<1>1. /\ PoolBoxes' = PoolBoxes /\ Sessions' = Sessions /\ Reaping' = Reaping
      /\ MintBoxes' = MintBoxes /\ ending' = ending \ {b} /\ live' = live \ {b} /\ stage' = stage
  BY DEF Ended, Remove, PoolBoxes, Sessions, Reaping, MintBoxes
<1> QED
  BY <1>1 DEF AllAreHeld, Held

LEMMA RefillHeld ==
    ASSUME Shaped, Apart, AllAreHeld, ReaperHolds, RefillOne PROVE AllAreHeld'
<1>1. UNCHANGED <<active, mint, ending>>
  BY DEF RefillOne, AfterRefill
<1>2. PICK b \in Fresh : live' = live \cup {b} /\ pool' = Append(pool, [box |-> b, age |-> 0])
  BY DEF RefillOne
<1>3. b \in Boxes /\ b \notin PoolBoxes
  BY <1>2 DEF Fresh
<1>4. 0 \in 0..PoolCap
  BY WardenAssumption DEF PoolCap
<1>5. PoolBoxes' = PoolBoxes \cup {b}
  BY <1>2, <1>3, <1>4, PoolTakes DEF Apart, Shaped
<1>6. stage # "down"
  BY DEF RefillOne, Apart, DownIsEmpty
<1>7. Reaping \subseteq Reaping'
  <2>1. reaper' = reaper \/ refill.by = "reaper"
    BY DEF RefillOne, AfterRefill
  <2> QED
    BY <2>1 DEF ReaperHolds, Reaping
<1>8. Sessions' = Sessions /\ MintBoxes' = MintBoxes
  BY <1>1 DEF Sessions, MintBoxes
<1> QED
  BY <1>1, <1>2, <1>5, <1>6, <1>7, <1>8 DEF AllAreHeld, Held

LEMMA WakeHeld ==
    ASSUME Shaped, Apart, AllAreHeld, ReaperHolds, Wake PROVE AllAreHeld'
<1> DEFINE young == {i \in 1..Len(pool) : ~Aged(pool[i])}
           aged == {pool[i].box : i \in {k \in 1..Len(pool) : Aged(pool[k])}}
<1>1. pool' \in Picked(pool, young) /\ \E table : Proceed(table, Expired, aged)
  BY DEF Wake
<1>2. aged \cap Sessions = {}
  BY DEF Apart, HandsAreApart, Split, PoolBoxes
<1>3. PoolBoxes \ aged \subseteq PoolBoxes'
  <2>1. young \in SUBSET (1..Len(pool)) /\ Len(pool) \in Nat
    BY DEF Shaped, PoolShape
  <2>2. \A k \in young : \E i \in 1..Len(pool') : pool'[i] = pool[k]
    <3> HIDE DEF young
    <3> QED
      BY <1>1, <2>1, PickedIsAll
  <2>3. ASSUME NEW k \in 1..Len(pool), pool[k].box \notin aged PROVE pool[k].box \in PoolBoxes'
    <3>1. k \in young
      BY <2>3
    <3>2. PICK i \in 1..Len(pool') : pool'[i] = pool[k]
      BY <2>2, <3>1
    <3> QED
      BY <3>2 DEF PoolBoxes
  <2> HIDE DEF young, aged
  <2> QED
    BY <2>3 DEF PoolBoxes
<1> HIDE DEF young, aged
<1>4. aged \cup (Sessions \ Sessions') \subseteq Reaping'
  BY <1>1, <1>2, ProceedKeeps DEF Shaped
<1>5. /\ live' = live /\ ending' = ending /\ MintBoxes' = MintBoxes /\ stage' = stage
      /\ Reaping = {}
  <2>1. UNCHANGED <<live, ending, mint, stage>>
    BY DEF Wake
  <2>2. reaper.phase = "asleep"
    BY DEF Wake
  <2> QED
    BY <2>1, <2>2 DEF MintBoxes, ReaperHolds
<1> QED
  BY <1>3, <1>4, <1>5 DEF AllAreHeld, Held

LEMMA ReapedHeld ==
    ASSUME ~DockerMayFail, Shaped, Apart, AllAreHeld, ReaperHolds, Reaped PROVE AllAreHeld'
<1>1. PICK x \in reaper.box : live' = live \ {x}
  BY DEF Reaped, Remove
<1>2. reaper.recycle \cap Sessions = {}
  BY DEF Apart, HandsAreApart, Split, Reaping
<1>3. reaper.recycle \cup (Sessions \ Sessions') \subseteq Reaping'
  BY <1>2, ProceedKeeps DEF Shaped, Reaped
<1>4. /\ PoolBoxes' = PoolBoxes /\ ending' = ending /\ MintBoxes' = MintBoxes /\ stage' = stage
  BY DEF Reaped, PoolBoxes, MintBoxes
<1>5. reaper.box = {x}
  BY DEF ReaperHolds
<1> QED
  BY <1>1, <1>3, <1>4, <1>5 DEF AllAreHeld, Held, Reaping

LEMMA VisitHeld ==
    ASSUME Shaped, AllAreHeld, NEW b \in Boxes, NEW flag, Heartbeat(b, flag) \/ Route(b, flag)
    PROVE  AllAreHeld'
<1> DEFINE seen == [active[b] EXCEPT !.beat = 0, !.hidden = flag]
           routed == [active[b] EXCEPT !.beat = 0, !.idle = IF flag THEN 0 ELSE @]
<1>1. b \in Sessions /\ (active' = [active EXCEPT ![b] = seen] \/ active' = [active EXCEPT ![b] = routed])
  BY DEF Heartbeat, Route, Routed
<1>2. seen # None /\ routed # None
  <2>1. active[b] \in Session
    BY <1>1 DEF Shaped, IInv, Shapes, Sessions
  <2>2. "beat" \in DOMAIN seen /\ "beat" \in DOMAIN routed /\ "beat" \notin DOMAIN None
    BY <2>1 DEF Session, None
  <2> QED
    BY <2>2
<1> HIDE DEF seen, routed
<1>3. Sessions \subseteq Sessions'
  BY <1>1, <1>2 DEF Sessions, Shaped, IInv, Shapes
<1>4. UNCHANGED <<live, pool, mint, reaper, ending>> /\ stage # "down"
  BY DEF Heartbeat, Route
<1>5. PoolBoxes' = PoolBoxes /\ Reaping' = Reaping /\ MintBoxes' = MintBoxes
  BY <1>4 DEF PoolBoxes, Reaping, MintBoxes
<1> QED
  BY <1>3, <1>4, <1>5 DEF AllAreHeld, Held

LEMMA TickHeld ==
    ASSUME Shaped, Apart, AllAreHeld, Tick PROVE AllAreHeld'
<1>1. Sessions' = Sessions
  BY TickSessions DEF Shaped, IInv
<1>2. PoolBoxes' = PoolBoxes /\ MintBoxes' = MintBoxes /\ Reaping' = Reaping
  BY TickHands
<1>3. UNCHANGED <<stage, live, ending>>
  BY DEF Tick
<1> QED
  BY <1>1, <1>2, <1>3 DEF AllAreHeld, Held

LEMMA StartHeld ==
    ASSUME ~DockerMayFail, Start PROVE AllAreHeld'
BY DEF Start, AllAreHeld

(* session_new.                                                            *)

LEMMA GoesOnHeld ==
    ASSUME Shaped, AllAreHeld, OthersRest, NEW m \in Mints, live' \subseteq live \ Freed(m),
           NEW r, mint' = [mint EXCEPT ![m] = r], UNCHANGED <<pool, active>>
    PROVE  AllAreHeld'
<1>1. MintBoxes \ Freed(m) \subseteq MintBoxes'
  BY MintKeepsOthers DEF Shaped, IInv, Shapes
<1>2. PoolBoxes' = PoolBoxes /\ Sessions' = Sessions /\ Reaping' = Reaping
      /\ ending' = ending /\ stage # "down"
  BY DEF PoolBoxes, Sessions, Reaping, OthersRest
<1> QED
  BY <1>1, <1>2 DEF AllAreHeld, Held

LEMMA TakeWarmHeld ==
    ASSUME Shaped, Apart, AllAreHeld, OthersRest, NEW m \in Mints, live' \subseteq live \ Freed(m),
           NEW ip, NEW old, TakeWarm(m, ip, old)
    PROVE  AllAreHeld'
<1> DEFINE b == Head(pool).box
<1>1. pool # <<>> /\ pool' = Tail(pool) /\ Land(b, ip, old) /\ mint' = [mint EXCEPT ![m] = NoMint]
  BY DEF TakeWarm, FromPool
<1>2. b \in Boxes /\ PoolBoxes \ {b} \subseteq PoolBoxes'
  BY <1>1, PoolGives, PoolKeepsOthers DEF Shaped, Apart
<1> HIDE DEF b
<1>3. Sessions \cup {b} \subseteq Sessions'
  BY <1>1, <1>2, LandedIsSession DEF Shaped, IInv
<1>4. MintBoxes \ Freed(m) \subseteq MintBoxes'
  BY <1>1, MintKeepsOthers DEF Shaped, IInv, Shapes
<1>5. Reaping' = Reaping /\ ending' = ending /\ stage # "down"
  BY DEF Reaping, OthersRest
<1> QED
  BY <1>2, <1>3, <1>4, <1>5 DEF AllAreHeld, Held

LEMMA WaitsHeld ==
    ASSUME Shaped, AllAreHeld, OthersRest, NEW m \in Mints, live' \subseteq live \ Freed(m),
           NEW b \in Sessions, NEW r, Hold(r), r.box = b, mint' = [mint EXCEPT ![m] = r],
           active' = [active EXCEPT ![b] = None], UNCHANGED pool
    PROVE  AllAreHeld'
<1>1. MintBoxes \ Freed(m) \subseteq MintBoxes' /\ b \in MintBoxes'
  BY MintKeepsOthers DEF Shaped, IInv, Shapes
<1>2. Sessions' = Sessions \ {b}
  BY DroppedSession DEF Shaped, IInv
<1>3. PoolBoxes' = PoolBoxes /\ Reaping' = Reaping /\ ending' = ending /\ stage # "down"
  BY DEF PoolBoxes, Reaping, OthersRest
<1> QED
  BY <1>1, <1>2, <1>3 DEF AllAreHeld, Held

LEMMA DecideHeld ==
    ASSUME Shaped, Apart, AllAreHeld, OthersRest, NEW m \in Mints, live' \subseteq live \ Freed(m),
           NEW ip, NEW old, Decide(m, ip, old)
    PROVE  AllAreHeld'
<1>1. CASE RateLimited(m, ip, old) \/ NoCapacity(m, ip, old) \/ Reserve(m, ip, old)
  BY <1>1, GoesOnHeld DEF RateLimited, NoCapacity, Reserve
<1>2. CASE TakeWarm(m, ip, old)
  BY <1>2, TakeWarmHeld
<1>3. CASE Reclaim(m, ip, old)
  <2>1. PICK b \in Victims(old) :
          /\ active' = [active EXCEPT ![b] = None]
          /\ mint' = [mint EXCEPT ![m] = [at |-> "reclaiming", ip |-> ip, age |-> old, box |-> b]]
    BY <1>3 DEF Reclaim
  <2> DEFINE r == [at |-> "reclaiming", ip |-> ip, age |-> old, box |-> b]
  <2>2. b \in Sessions /\ Hold(r) /\ r.box = b /\ mint' = [mint EXCEPT ![m] = r] /\ pool' = pool
    BY <1>3, <2>1 DEF Victims, Ripe, Hold, Reclaim
  <2> HIDE DEF r
  <2> QED
    BY <2>1, <2>2, WaitsHeld
<1> QED
  BY <1>1, <1>2, <1>3 DEF Decide

LEMMA NewHeld ==
    ASSUME Shaped, Apart, AllAreHeld, NEW m \in Mints, NEW ip \in Ips, New(m, ip) PROVE AllAreHeld'
<1>1. OthersRest /\ live' \subseteq live \ Freed(m) /\ Decide(m, ip, 0)
  BY NoneIsNothing DEF New, OthersRest, Freed, Hold
<1> QED
  BY <1>1, DecideHeld

LEMMA ReplaceHeld ==
    ASSUME Shaped, AllAreHeld, NEW m \in Mints, NEW ip \in Ips, NEW b \in Boxes, Replace(m, ip, b)
    PROVE  AllAreHeld'
<1> DEFINE r == [at |-> "ending", ip |-> ip, age |-> 0, box |-> b]
<1>1. /\ OthersRest /\ b \in Sessions /\ Hold(r) /\ r.box = b
      /\ mint' = [mint EXCEPT ![m] = r] /\ active' = [active EXCEPT ![b] = None] /\ pool' = pool
  BY DEF Replace, OthersRest, Drop, Hold
<1>2. live' \subseteq live \ Freed(m)
  BY NoneIsNothing DEF Replace, Freed, Hold
<1> HIDE DEF r
<1> QED
  BY <1>1, <1>2, WaitsHeld

LEMMA ReplacedHeld ==
    ASSUME ~DockerMayFail, Shaped, Apart, AllAreHeld, NEW m \in Mints, Replaced(m) PROVE AllAreHeld'
<1>1. mint[m].at = "ending" /\ Decide(m, mint[m].ip, mint[m].age)
  BY DEF Replaced
<1>2. OthersRest /\ live' \subseteq live \ Freed(m)
  BY <1>1, WaitingIsUp DEF Replaced, OthersRest, Remove, Freed
<1> QED
  BY <1>1, <1>2, DecideHeld

LEMMA ReclaimedHeld ==
    ASSUME ~DockerMayFail, Shaped, Apart, AllAreHeld, NEW m \in Mints, Reclaimed(m) PROVE AllAreHeld'
<1>1. \E r : mint' = [mint EXCEPT ![m] = r] /\ UNCHANGED <<pool, active>>
  BY DEF Reclaimed
<1>2. OthersRest /\ live' \subseteq live \ Freed(m)
  BY WaitingIsUp DEF Reclaimed, OthersRest, Remove, Freed
<1> QED
  BY <1>1, <1>2, GoesOnHeld

LEMMA CreatedHeld ==
    ASSUME Shaped, Apart, AllAreHeld, NEW m \in Mints, Created(m) PROVE AllAreHeld'
<1>1. PICK b \in Fresh : live' = live \cup {b} /\ Land(b, mint[m].ip, mint[m].age)
  BY DEF Created
<1>2. Sessions \cup {b} \subseteq Sessions'
  BY <1>1, LandedIsSession DEF Fresh, Shaped, IInv
<1>3. MintBoxes \subseteq MintBoxes'
  <2>1. MintBoxes \ Freed(m) \subseteq MintBoxes'
    BY MintKeepsOthers DEF Created, Shaped, IInv, Shapes
  <2>2. Freed(m) = {}
    BY DEF Created, Freed, Hold
  <2> QED
    BY <2>1, <2>2
<1>4. UNCHANGED <<pool, reaper, ending, stage>>
  BY DEF Created
<1>5. PoolBoxes' = PoolBoxes /\ Reaping' = Reaping
  BY <1>4 DEF PoolBoxes, Reaping
<1> QED
  BY <1>1, <1>2, <1>3, <1>4, <1>5 DEF AllAreHeld, Held

(* The reaper's own step.                                                  *)

LEMMA NextRefillBy ==
    ASSUME NEW who, "by" \in DOMAIN refill
    PROVE  /\ "by" \in DOMAIN NextRefill(who)
           /\ NextRefill(who).by \in {refill.by, who}
BY DEF NextRefill

LEMMA ProceedHolds ==
    ASSUME ReaperHolds, refill.by # "reaper", NEW table, NEW expired, NEW recycle,
           Proceed(table, expired, recycle)
    PROVE  ReaperHolds'
<1> DEFINE left == expired \cap Sessions
           waits == [NoReaping EXCEPT !.phase = "refilling", !.wait = 0]
<1>1. CASE /\ UNCHANGED refill
           /\ \E b \in left :
               reaper' = [phase |-> "destroying", wait |-> 0, box |-> {b},
                          expired |-> left \ {b}, recycle |-> recycle]
  BY <1>1 DEF ReaperHolds
<1>2. CASE /\ UNCHANGED refill
           /\ \E b \in recycle :
                  reaper' = [phase |-> "recycling", wait |-> 0, box |-> {b},
                             expired |-> {}, recycle |-> recycle \ {b}]
  BY <1>2 DEF ReaperHolds
<1>3. CASE /\ refill' = NextRefill("reaper")
           /\ reaper' = IF refill' = refill THEN NoReaping ELSE waits
  <2>1. "by" \in DOMAIN refill'
    BY <1>3, NextRefillBy DEF ReaperHolds
  <2>2. /\ NoReaping.box = {} /\ NoReaping.recycle = {} /\ waits.box = {} /\ waits.recycle = {}
        /\ {"phase", "box", "recycle"} \subseteq DOMAIN NoReaping
        /\ {"phase", "box", "recycle"} \subseteq DOMAIN waits
        /\ waits.phase = "refilling" /\ NoReaping.phase = "asleep"
    BY DEF NoReaping
  <2> HIDE DEF waits
  <2> QED
    BY <1>3, <2>1, <2>2 DEF ReaperHolds, Reaping
<1> QED
  BY <1>1, <1>2, <1>3 DEF Proceed

LEMMA ReaperStep ==
    ASSUME ReaperHolds, [Next]_vars PROVE ReaperHolds'
<1>1. CASE UNCHANGED <<reaper, refill>>
  BY <1>1 DEF ReaperHolds, Reaping
<1>2. CASE Start
  BY <1>2 DEF Start, ReaperHolds, Reaping
<1>3. CASE Crash
  BY <1>3 DEF Crash, ReaperHolds, Reaping, NoReaping, NoRefill
<1>4. CASE Tick
  <2>1. refill' = refill /\ reaper' \in {reaper, [reaper EXCEPT !.wait = @ - 1]}
    BY <1>4 DEF Tick
  <2>2. {"phase", "box", "recycle"} \subseteq DOMAIN reaper
    BY DEF ReaperHolds
  <2>3. /\ {"phase", "box", "recycle"} \subseteq DOMAIN reaper'
        /\ reaper'.phase = reaper.phase /\ reaper'.box = reaper.box
        /\ reaper'.recycle = reaper.recycle
    BY <2>1, <2>2
  <2> QED
    BY <2>1, <2>3 DEF ReaperHolds, Reaping
<1>5. CASE BeginRefill
  BY <1>5, NextRefillBy DEF BeginRefill, ReaperHolds, Reaping
<1>6. CASE AfterRefill
  BY <1>6 DEF AfterRefill, ReaperHolds, Reaping, NoReaping, NoRefill
<1>7. CASE Wake
  <2>1. refill.by # "reaper"
    BY <1>7 DEF Wake, ReaperHolds
  <2> QED
    BY <1>7, <2>1, ProceedHolds DEF Wake
<1>8. CASE Reaped
  <2>1. refill.by # "reaper"
    BY <1>8 DEF Reaped, ReaperHolds, Reaping
  <2> QED
    BY <1>8, <2>1, ProceedHolds DEF Reaped
<1>9. ASSUME NEW b \in Boxes, NEW flag, End(b) \/ Ended(b) \/ Heartbeat(b, flag) \/ Route(b, flag)
      PROVE  UNCHANGED <<reaper, refill>>
  BY <1>9 DEF End, Ended, Heartbeat, Route
<1>10. ASSUME NEW m \in Mints, NEW ip \in Ips, NEW b \in Boxes,
              \/ New(m, ip) \/ Replace(m, ip, b) \/ Replaced(m) \/ Reclaimed(m) \/ Created(m)
              \/ CreateFails(m)
       PROVE  UNCHANGED <<reaper, refill>>
  BY <1>10 DEF New, Replace, Replaced, Reclaimed, Created, CreateFails
<1> QED
  BY <1>1, <1>2, <1>3, <1>4, <1>5, <1>6, <1>7, <1>8, <1>9, <1>10
     DEF Next, vars, RefillOne, RefillFails, New, Replaced, Reclaimed, Created, CreateFails

LEMMA HeldStep ==
    ASSUME ~DockerMayFail, Shaped, Apart, ReaperHolds, AllAreHeld, [Next]_vars PROVE AllAreHeld'
<1>1. CASE Start
  BY <1>1, StartHeld
<1>2. CASE Crash
  BY <1>2 DEF Crash, AllAreHeld
<1>3. CASE Tick
  BY <1>3, TickHeld
<1>4. CASE BeginRefill
  BY <1>4, SameHands DEF BeginRefill
<1>5. CASE RefillOne \/ RefillFails
  BY <1>5, RefillHeld DEF RefillFails
<1>6. CASE Wake
  BY <1>6, WakeHeld
<1>7. CASE Reaped
  BY <1>7, ReapedHeld
<1>8. CASE \E b \in Boxes : End(b) \/ Ended(b)
  BY <1>8, EndHeld, EndedHeld
<1>9. CASE \E b \in Boxes, flag \in BOOLEAN : Heartbeat(b, flag) \/ Route(b, flag)
  BY <1>9, VisitHeld
<1>10. CASE \E m \in Mints, ip \in Ips : New(m, ip) \/ \E b \in Boxes : Replace(m, ip, b)
  BY <1>10, NewHeld, ReplaceHeld
<1>11. CASE \E m \in Mints : Replaced(m) \/ Reclaimed(m) \/ Created(m) \/ CreateFails(m)
  BY <1>11, ReplacedHeld, ReclaimedHeld, CreatedHeld DEF CreateFails
<1>12. CASE UNCHANGED vars
  BY <1>12, SameHands DEF vars
<1> QED
  BY <1>1, <1>2, <1>3, <1>4, <1>5, <1>6, <1>7, <1>8, <1>9, <1>10, <1>11, <1>12 DEF Next

LEMMA HeldHasKeeper ==
    ASSUME NEW b \in Held PROVE Keepers(b) # {}
<1>1. CASE b \in PoolBoxes
  <2>1. PICK i \in 1..Len(pool) : pool[i].box = b
    BY <1>1 DEF PoolBoxes
  <2>2. <<"pool", i>> \in Keepers(b)
    BY <2>1 DEF Keepers
  <2> QED
    BY <2>2
<1>2. CASE b \in Sessions
  <2>1. <<"session", 0>> \in Keepers(b)
    BY <1>2 DEF Keepers
  <2> QED
    BY <2>1
<1>3. CASE b \in ending
  <2>1. <<"end", 0>> \in Keepers(b)
    BY <1>3 DEF Keepers
  <2> QED
    BY <2>1
<1>4. CASE b \in Reaping
  <2>1. <<"reaper", 0>> \in Keepers(b)
    BY <1>4 DEF Keepers, Reaping
  <2> QED
    BY <2>1
<1>5. CASE b \in MintBoxes
  <2>1. PICK m \in Mints : Hold(mint[m]) /\ mint[m].box = b
    BY <1>5 DEF MintBoxes
  <2>2. <<"mint", m>> \in Keepers(b)
    BY <2>1 DEF Keepers, MintsAt, Hold
  <2> QED
    BY <2>2
<1> QED
  BY <1>1, <1>2, <1>3, <1>4, <1>5 DEF Held

(* While docker does not fail, every container there is belongs to the     *)
(* pool, to a session or to a task that is about to remove it, at every    *)
(* moment of every handler and from the start after a crash on: the demo   *)
(* leaves nothing behind (session_new, _refill_pool, _reaper_tick,         *)
(* _destroy, _lifespan).                                                   *)
THEOREM NobodyIsForgotten == ASSUME ~DockerMayFail PROVE Spec => []NoOrphans
<1>1. Init => AllAreHeld /\ ReaperHolds
  BY DEF Init, AllAreHeld, ReaperHolds, Reaping, NoReaping, NoRefill
<1>2. Shaped /\ AllAreHeld => NoOrphans
  BY HeldHasKeeper DEF NoOrphans, AllAreHeld
<1>3. ReaperHolds /\ [Next]_vars => ReaperHolds'
  BY ReaperStep
<1>4. Shaped /\ Apart /\ ReaperHolds /\ AllAreHeld /\ [Next]_vars => AllAreHeld'
  BY HeldStep
<1> QED
  BY <1>1, <1>2, <1>3, <1>4, HandsStayApart, PTL DEF Spec

------------------------------------------------------------------------------
(* The counts of the addresses.                                            *)

LEMMA AtIsFinite ==
    ASSUME NEW ip
    PROVE  IsFiniteSet(At(ip)) /\ Cardinality(At(ip)) \in Nat
<1>1. At(ip) \subseteq Boxes
  BY DEF At, Sessions
<1> QED
  BY <1>1, BoundsAreFinite, FS_Subset, FS_CardinalityType

LEMMA LessOneExact ==
    ASSUME NEW table \in Tables, NEW ip \in Ips, CountIn(table, ip) > 0
    PROVE  /\ LessOne(table, ip) \in Tables
           /\ CountIn(LessOne(table, ip), ip) = CountIn(table, ip) - 1
           /\ \A q \in Ips : q # ip => CountIn(LessOne(table, ip), q) = CountIn(table, q)
<1> DEFINE rec == [table[ip] EXCEPT !.active = @ - 1]
<1>1. table[ip] # None /\ table[ip].active > 0 /\ table[ip] \in IpRecord
  BY DEF CountIn, Tables
<1>2. rec \in IpRecord /\ rec.active = table[ip].active - 1
  BY <1>1 DEF IpRecord
<1>3. LessOne(table, ip) = [table EXCEPT ![ip] = rec]
  <2>1. table[ip].active # 0
    BY <1>1 DEF IpRecord
  <2> QED
    BY <1>1, <2>1 DEF LessOne
<1> HIDE DEF rec
<1>4. LessOne(table, ip) \in Tables
  BY <1>2, <1>3 DEF Tables
<1>5. LessOne(table, ip)[ip] = rec /\ rec # None
  BY <1>2, <1>3, NoneIsNothing DEF Tables
<1>6. \A q \in Ips : q # ip => LessOne(table, ip)[q] = table[q]
  BY <1>3 DEF Tables
<1> QED
  BY <1>1, <1>2, <1>4, <1>5, <1>6 DEF CountIn

(* Sessions and counts as they were.                                       *)
LEMMA SameExact ==
    ASSUME CountsAreExact, Sessions' = Sessions, \A b \in Sessions : active'[b].ip = active[b].ip,
           \A ip \in Ips : Count(ip)' = Count(ip)
    PROVE  CountsAreExact'
<1>1. \A ip \in Ips : At(ip)' = At(ip)
  BY DEF At
<1> QED
  BY <1>1 DEF CountsAreExact

(* A session goes, and one is taken from the count of its address.         *)
LEMMA DropExact ==
    ASSUME Shaped, CountsAreExact, NEW b \in Sessions, NEW table \in Tables,
           \A q \in Ips : CountIn(table, q) = Count(q),
           active' = [active EXCEPT ![b] = None], perIp' = LessOne(table, active[b].ip)
    PROVE  CountsAreExact'
<1>1. PICK home \in Ips : home = active[b].ip
  BY DroppedSession DEF Shaped, IInv
<1>2. Sessions' = Sessions \ {b} /\ \A c \in Sessions' : active'[c] = active[c]
  <2>1. Sessions' = Sessions \ {b}
    BY DroppedSession DEF Shaped, IInv
  <2> QED
    BY <2>1 DEF Shaped, IInv, Shapes, Sessions
<1>3. At(home)' = At(home) \ {b} /\ b \in At(home)
  BY <1>1, <1>2 DEF At
<1>4. \A q \in Ips : q # home => At(q)' = At(q)
  BY <1>1, <1>2 DEF At
<1>5. Cardinality(At(home)') = Cardinality(At(home)) - 1 /\ Cardinality(At(home)) > 0
  <2>1. Cardinality(At(home)') = Cardinality(At(home)) - 1
    BY <1>3, AtIsFinite, FS_RemoveElement
  <2>2. IsFiniteSet(At(home)') /\ Cardinality(At(home)') \in Nat
    BY <1>3, AtIsFinite, FS_Subset, FS_CardinalityType
  <2> QED
    BY <2>1, <2>2, AtIsFinite
<1>6. CountIn(table, home) > 0
  BY <1>5 DEF CountsAreExact
<1>7. /\ CountIn(perIp', home) = CountIn(table, home) - 1
      /\ \A q \in Ips : q # home => CountIn(perIp', q) = CountIn(table, q)
  BY <1>1, <1>6, LessOneExact
<1>8. \A q \in Ips : Count(q)' = CountIn(perIp', q)
  BY DEF Count, CountIn
<1>9. Cardinality(At(home)') = Count(home)'
  BY <1>5, <1>7, <1>8 DEF CountsAreExact
<1>10. \A q \in Ips : q # home => Cardinality(At(q)') = Count(q)'
  BY <1>4, <1>7, <1>8 DEF CountsAreExact
<1> QED
  BY <1>9, <1>10 DEF CountsAreExact

LEMMA LandExact ==
    ASSUME Shaped, CountsAreExact, NEW b \in Boxes, b \notin Sessions,
           NEW ip \in Ips, NEW old \in 0..AgeCap, Land(b, ip, old)
    PROVE  CountsAreExact'
<1> DEFINE s == [ip |-> ip, age |-> old, idle |-> Min({old, IdleCap}),
                 beat |-> Min({old, BeatCap}), hidden |-> FALSE]
<1>1. /\ active' = [active EXCEPT ![b] = s] /\ s.ip = ip
      /\ active' \in [Boxes -> Session \cup {None}]
      /\ Count(ip)' = Count(ip) + 1
      /\ \A q \in Ips : q # ip => Count(q)' = Count(q)
  BY LandCounts DEF Shaped, IInv, Land
<1> HIDE DEF s
<1>2. /\ active'[b] = s /\ s # None
      /\ \A c \in Boxes : c # b => active'[c] = active[c]
  <2>1. active'[b] = s /\ \A c \in Boxes : c # b => active'[c] = active[c]
    BY <1>1 DEF Shaped, IInv, Shapes
  <2>2. s # None
    BY DEF s, None
  <2> QED
    BY <2>1, <2>2
<1>3. Sessions' = Sessions \cup {b}
  BY <1>2 DEF Sessions
<1>4. At(ip)' = At(ip) \cup {b} /\ b \notin At(ip)
  BY <1>1, <1>2, <1>3 DEF At, Sessions
<1>5. \A q \in Ips : q # ip => At(q)' = At(q)
  BY <1>1, <1>2, <1>3 DEF At, Sessions
<1>6. Cardinality(At(ip)') = Cardinality(At(ip)) + 1
  BY <1>4, AtIsFinite, FS_AddElement
<1> QED
  BY <1>1, <1>5, <1>6 DEF CountsAreExact

(* The sweep forgets no address that has sessions.                         *)
LEMMA ForgetExact ==
    ASSUME NEW table \in Tables, NEW S, \A q \in S : q \in Ips => CountIn(table, q) = 0
    PROVE  Forget(table, S) \in Tables /\ \A q \in Ips : CountIn(Forget(table, S), q) = CountIn(table, q)
<1>1. \A q \in Ips : Forget(table, S)[q] = IF q \in S THEN None ELSE table[q]
  BY DEF Forget
<1> QED
  BY <1>1, ForgetCounts DEF CountIn

LEMMA KeptExact ==
    ASSUME Shaped, NEW table \in Kept(Swept)
    PROVE  table \in Tables /\ \A q \in Ips : CountIn(table, q) = Count(q)
<1>1. Swept \in Tables /\ \A q \in Ips : CountIn(Swept, q) = Count(q)
  <2> DEFINE S == {ip \in Known(perIp) : perIp[ip].seen > PerIpTTL /\ perIp[ip].active = 0}
  <2>1. \A q \in S : CountIn(perIp, q) = 0
    BY DEF Known, CountIn
  <2>2. perIp \in Tables
    BY DEF Shaped, IInv, Shapes
  <2> HIDE DEF S
  <2>3. Forget(perIp, S) \in Tables /\ \A q \in Ips : CountIn(Forget(perIp, S), q) = CountIn(perIp, q)
    BY <2>1, <2>2, ForgetExact
  <2> QED
    BY <2>3 DEF Swept, S, Count
<1>2. PICK T \in SUBSET {ip \in Known(Swept) : Swept[ip].active = 0} : table = Forget(Swept, T)
  BY DEF Kept
<1>3. \A q \in T : CountIn(Swept, q) = 0
  BY <1>2 DEF CountIn
<1>4. table \in Tables /\ \A q \in Ips : CountIn(table, q) = CountIn(Swept, q)
  BY <1>1, <1>2, <1>3, ForgetExact
<1> QED
  BY <1>1, <1>4

LEMMA ProceedExact ==
    ASSUME Shaped, CountsAreExact, NEW table \in Tables, \A q \in Ips : CountIn(table, q) = Count(q),
           NEW expired, NEW recycle, Proceed(table, expired, recycle)
    PROVE  CountsAreExact'
<1>1. CASE \E b \in expired \cap Sessions :
             /\ active' = [active EXCEPT ![b] = None]
             /\ perIp' = LessOne(table, active[b].ip)
  BY <1>1, DropExact
<1>2. CASE UNCHANGED active /\ perIp' = table
  <2>1. Sessions' = Sessions /\ \A ip \in Ips : Count(ip)' = Count(ip)
    BY <1>2 DEF Sessions, Count, CountIn
  <2> QED
    BY <1>2, <2>1, SameExact
<1> QED
  BY <1>1, <1>2 DEF Proceed

LEMMA QuietExact ==
    ASSUME CountsAreExact, UNCHANGED <<active, perIp>> PROVE CountsAreExact'
BY SameExact DEF Sessions, Count, CountIn

LEMMA TouchedExact ==
    ASSUME Shaped, NEW ip \in Ips, NEW old \in 0..AgeCap
    PROVE  Touched(ip, old) \in Tables /\ \A q \in Ips : CountIn(Touched(ip, old), q) = Count(q)
<1>1. old \in Nat
  BY CapsAreNumbers
<1> QED
  BY <1>1, TouchedCounts DEF Shaped, IInv

LEMMA DecideExact ==
    ASSUME Shaped, Apart, CountsAreExact, NEW m \in Mints, NEW ip \in Ips, NEW old \in 0..AgeCap,
           Decide(m, ip, old)
    PROVE  CountsAreExact'
<1>1. CASE RateLimited(m, ip, old) \/ Reserve(m, ip, old) \/ NoCapacity(m, ip, old)
  <2>1. active' = active /\ perIp' = Touched(ip, old)
    BY <1>1 DEF RateLimited, Reserve, NoCapacity
  <2>2. Sessions' = Sessions /\ \A q \in Ips : Count(q)' = Count(q)
    BY <2>1, TouchedExact DEF Sessions, Count, CountIn
  <2> QED
    BY <2>1, <2>2, SameExact
<1>2. CASE TakeWarm(m, ip, old)
  <2>1. pool # <<>> /\ pool' = Tail(pool) /\ Land(Head(pool).box, ip, old)
    BY <1>2 DEF TakeWarm, FromPool
  <2>2. Head(pool).box \in Boxes /\ Head(pool).box \notin Sessions
    BY <2>1, PoolGives DEF Shaped, Apart, HandsAreApart, Split
  <2> QED
    BY <2>1, <2>2, LandExact
<1>3. CASE Reclaim(m, ip, old)
  <2>1. PICK b \in Victims(old) :
          /\ active' = [active EXCEPT ![b] = None]
          /\ perIp' = LessOne(Touched(ip, old), active[b].ip)
    BY <1>3 DEF Reclaim
  <2>2. b \in Sessions
    BY DEF Victims, Ripe
  <2> QED
    BY <2>1, <2>2, TouchedExact, DropExact
<1> QED
  BY <1>1, <1>2, <1>3 DEF Decide

LEMMA DroppedExact ==
    ASSUME Shaped, CountsAreExact, NEW b \in Sessions, Drop(b) PROVE CountsAreExact'
<1>1. perIp \in Tables /\ \A q \in Ips : CountIn(perIp, q) = Count(q)
  BY DEF Shaped, IInv, Shapes, Count
<1> QED
  BY <1>1, DropExact DEF Drop

LEMMA VisitExact ==
    ASSUME Shaped, CountsAreExact, NEW b \in Boxes, NEW flag \in BOOLEAN,
           Heartbeat(b, flag) \/ Route(b, flag)
    PROVE  CountsAreExact'
<1>1. /\ b \in Sessions /\ perIp' = perIp /\ \A c \in Boxes : c # b => active'[c] = active[c]
      /\ active'[b] \in {[active[b] EXCEPT !.beat = 0, !.hidden = flag],
                         [active[b] EXCEPT !.beat = 0, !.idle = IF flag THEN 0 ELSE @]}
  BY DEF Heartbeat, Route, Routed, Shaped, IInv, Shapes
<1>2. active[b] \in Session
  BY <1>1 DEF Shaped, IInv, Shapes, Sessions
<1>3. active'[b].ip = active[b].ip /\ DOMAIN active'[b] = DOMAIN active[b]
  BY <1>1, <1>2 DEF Session
<1>4. active'[b] # None
  <2>1. DOMAIN active[b] # DOMAIN None
    BY <1>2 DEF Session, None
  <2> QED
    BY <1>3, <2>1
<1>5. Sessions' = Sessions
  BY <1>1, <1>4 DEF Sessions
<1> QED
  BY <1>1, <1>3, <1>5, SameExact DEF Count, CountIn, Sessions

LEMMA TickExact ==
    ASSUME Shaped, CountsAreExact, Tick PROVE CountsAreExact'
<1>1. Sessions' = Sessions /\ \A b \in Sessions : active'[b].ip = active[b].ip
  <2> DEFINE S(b) == [active[b] EXCEPT !.age = Older(@, AgeCap), !.idle = Older(@, IdleCap),
                                       !.beat = Older(@, BeatCap)]
  <2>1. \A b \in Sessions : active[b] \in Session
    BY DEF Sessions, Shaped, IInv, Shapes
  <2>2. \A b \in Sessions : S(b) \in Session /\ S(b).ip = active[b].ip
    <3>1. \A b \in Sessions : S(b) \in Session
      BY <2>1, OlderSession
    <3>2. \A b \in Sessions : S(b).ip = active[b].ip
      BY <2>1 DEF Session
    <3> QED
      BY <3>1, <3>2
  <2>3. active' = [b \in Boxes |-> IF b \notin Sessions THEN None ELSE S(b)]
    BY DEF Tick
  <2> HIDE DEF S
  <2>4. \A b \in Sessions : S(b) # None
    BY <2>2, NoneIsNothing
  <2> QED
    BY <2>2, <2>3, <2>4 DEF Sessions
<1>2. \A ip \in Ips : Count(ip)' = Count(ip)
  <2> DEFINE R(ip) == [perIp[ip] EXCEPT !.seen = Older(@, SeenCap),
                           !.minted = [i \in DOMAIN @ |-> IF i = 0 THEN 0 ELSE @[i - 1]]]
  <2>1. \A ip \in Ips : perIp[ip] # None => R(ip) \in IpRecord /\ R(ip).active = perIp[ip].active
    BY OlderRecord DEF Shaped, IInv, Shapes, Tables
  <2>2. perIp' = [ip \in Ips |-> IF perIp[ip] = None THEN None ELSE R(ip)]
    BY DEF Tick
  <2> HIDE DEF R
  <2>3. \A ip \in Ips : perIp[ip] # None => R(ip) # None
    BY <2>1, NoneIsNothing
  <2> QED
    BY <2>1, <2>2, <2>3 DEF Count, CountIn
<1> QED
  BY <1>1, <1>2, SameExact

LEMMA NobodyCounts ==
    ASSUME active = [b \in Boxes |-> None], perIp = [ip \in Ips |-> None]
    PROVE  CountsAreExact
<1>1. \A ip \in Ips : At(ip) = {} /\ Count(ip) = 0
  BY DEF At, Sessions, Count, CountIn
<1> QED
  BY <1>1, FS_EmptySet DEF CountsAreExact

LEMMA ExactStep ==
    ASSUME Shaped, Apart, CountsAreExact, [Next]_vars PROVE CountsAreExact'
<1>1. CASE Start \/ BeginRefill \/ RefillOne \/ RefillFails
  BY <1>1, QuietExact DEF Start, BeginRefill, RefillOne, RefillFails, AfterRefill
<1>2. CASE Crash
  <2>1. (active = [b \in Boxes |-> None] /\ perIp = [ip \in Ips |-> None])'
    BY <1>2 DEF Crash, None
  <2> QED
    BY <2>1, NobodyCounts, PTL
<1>3. CASE Tick
  BY <1>3, TickExact
<1>4. CASE Wake
  <2>1. PICK table \in Kept(Swept) :
          Proceed(table, Expired, {pool[i].box : i \in {k \in 1..Len(pool) : Aged(pool[k])}})
    BY <1>4 DEF Wake
  <2> QED
    BY <2>1, KeptExact, ProceedExact
<1>5. CASE Reaped
  <2>1. perIp \in Tables /\ \A q \in Ips : CountIn(perIp, q) = Count(q)
    BY DEF Shaped, IInv, Shapes, Count
  <2> QED
    BY <1>5, <2>1, ProceedExact DEF Reaped
<1>6. CASE \E b \in Boxes : End(b) \/ Ended(b)
  BY <1>6, DroppedExact, QuietExact DEF End, Ended
<1>7. CASE \E b \in Boxes, flag \in BOOLEAN : Heartbeat(b, flag) \/ Route(b, flag)
  BY <1>7, VisitExact
<1>8. ASSUME NEW m \in Mints, NEW ip \in Ips, New(m, ip) PROVE CountsAreExact'
  <2>1. 0 \in 0..AgeCap /\ Decide(m, ip, 0)
    BY <1>8, CapsAreNumbers DEF New
  <2> QED
    BY <2>1, DecideExact
<1>9. ASSUME NEW m \in Mints, NEW ip \in Ips, NEW b \in Boxes, Replace(m, ip, b)
      PROVE  CountsAreExact'
  BY <1>9, DroppedExact DEF Replace
<1>10. ASSUME NEW m \in Mints, Replaced(m) PROVE CountsAreExact'
  <2>1. mint[m].ip \in Ips /\ mint[m].age \in 0..AgeCap /\ Decide(m, mint[m].ip, mint[m].age)
    BY <1>10, MintShape DEF Shaped, IInv, Replaced
  <2> QED
    BY <2>1, DecideExact
<1>11. ASSUME NEW m \in Mints, Created(m) PROVE CountsAreExact'
  <2>1. mint[m].ip \in Ips /\ mint[m].age \in 0..AgeCap
    BY <1>11, MintShape DEF Shaped, IInv, Created
  <2>2. PICK b \in Fresh : Land(b, mint[m].ip, mint[m].age)
    BY <1>11 DEF Created
  <2>3. b \in Boxes /\ b \notin Sessions
    BY <2>2 DEF Fresh
  <2> QED
    BY <2>1, <2>2, <2>3, LandExact
<1>12. ASSUME NEW m \in Mints, Reclaimed(m) \/ CreateFails(m) PROVE CountsAreExact'
  BY <1>12, QuietExact DEF Reclaimed, CreateFails
<1>13. CASE UNCHANGED vars
  BY <1>13, QuietExact DEF vars
<1> QED
  BY <1>1, <1>2, <1>3, <1>4, <1>5, <1>6, <1>7, <1>8, <1>9, <1>10, <1>11, <1>12, <1>13 DEF Next

(* The count that the per-address cap reads is the number of sessions of   *)
(* the address, whatever order they start, end, expire and are forgotten   *)
(* in (Session, _IpState, _destroy, _reaper_tick).                         *)
THEOREM AddressesAreCounted == Spec => []PerIpIsExact
<1>1. Init => CountsAreExact
  BY NobodyCounts DEF Init
<1>2. Spec => []CountsAreExact
  BY <1>1, ExactStep, HandsStayApart, PTL DEF Spec
<1>3. CountsAreExact => PerIpIsExact
  BY DEF CountsAreExact, PerIpIsExact, At, Count, CountIn
<1> QED
  BY <1>2, <1>3, PTL

------------------------------------------------------------------------------
(* The types of the rest of the state.  The pool and what its refill still *)
(* has to create fit in POOL_SIZE together: one refill runs at a time.     *)

PoolFits == Len(pool) + refill.left =< PoolSize

RefillType ==
    /\ Len(pool) \in 0..PoolSize
    /\ refill \in [by : {"nobody", "startup", "spawned", "reaper"}, left : 0..PoolSize]
    /\ (refill.by = "nobody") <=> (refill.left = 0)
    /\ PoolFits

ReaperRecord == [phase : {"asleep", "destroying", "recycling", "refilling"},
                 wait : 0..Period, box : SUBSET Boxes,
                 expired : SUBSET Boxes, recycle : SUBSET Boxes]
ReaperType == reaper \in ReaperRecord

RestType ==
    /\ stage \in {"down", "filling", "serving"}
    /\ live \subseteq Boxes /\ ending \subseteq Boxes
    /\ due \in 0..MaxDue
    /\ idleTtl \in {IdleTTL, IdleTight}
    /\ crashes \in 0..MaxCrashes

Typed == RefillType /\ ReaperType /\ RestType

LEMMA UsedIsNumber ==
    ASSUME IInv PROVE Used \in Nat /\ reserving \in Nat
<1>1. Sessions \subseteq Boxes /\ MintsAt("creating") \subseteq Mints
  BY DEF Sessions, MintsAt
<1>2. Cardinality(Sessions) \in Nat /\ Cardinality(MintsAt("creating")) \in Nat
  BY <1>1, BoundsAreFinite, FS_Subset, FS_CardinalityType
<1> QED
  BY <1>2 DEF Used, IInv, ReservingIsExact

LEMMA LeastOfTwo ==
    ASSUME NEW a \in Int, NEW b \in Int
    PROVE  /\ Min({a, b}) \in {a, b} /\ Min({a, b}) =< a /\ Min({a, b}) =< b
           /\ Max({a, b}) \in {a, b} /\ Max({a, b}) >= a /\ Max({a, b}) >= b
<1>1. \E x \in {a, b} : \A y \in {a, b} : x =< y
  OBVIOUS
<1>2. \E x \in {a, b} : \A y \in {a, b} : x >= y
  OBVIOUS
<1>3. Min({a, b}) \in {a, b} /\ \A y \in {a, b} : Min({a, b}) =< y
  BY <1>1 DEF Min
<1>4. Max({a, b}) \in {a, b} /\ \A y \in {a, b} : Max({a, b}) >= y
  BY <1>2 DEF Max
<1> QED
  BY <1>3, <1>4

LEMMA NeedFits ==
    ASSUME IInv, Len(pool) \in 0..PoolSize
    PROVE  /\ Need \in 0..(PoolSize - Len(pool))
           /\ PoolSize > Len(pool) /\ Room > 0 => Need > 0
<1>1. PoolSize \in Nat /\ MaxActive \in Nat
  BY WardenAssumption
<1> DEFINE space == PoolSize - Len(pool)
           some == Min({space, Room})
<1>2. space \in Int /\ Room \in Int /\ space >= 0
  BY <1>1, UsedIsNumber DEF Room
<1>3. some \in {space, Room} /\ some =< space
  BY <1>2, LeastOfTwo
<1>4. Need = Max({0, some})
  BY DEF Need
<1> HIDE DEF some, space
<1>5. some \in Int
  BY <1>2, <1>3
<1>6. Max({0, some}) \in {0, some} /\ Max({0, some}) >= 0 /\ Max({0, some}) >= some
  <2>1. 0 \in Int
    OBVIOUS
  <2> QED
    BY <1>5, <2>1, LeastOfTwo
<1>7. Need \in 0..space
  BY <1>2, <1>3, <1>4, <1>5, <1>6
<1>8. space > 0 /\ Room > 0 => Need > 0
  BY <1>2, <1>3, <1>4, <1>5, <1>6
<1> QED
  BY <1>1, <1>7, <1>8 DEF space

LEMMA NextRefillFits ==
    ASSUME IInv, RefillType, NEW who \in {"spawned", "reaper", "startup"}, refill' = NextRefill(who),
           Len(pool') \in 0..Len(pool)
    PROVE  RefillType'
<1>1. PoolSize \in Nat
  BY WardenAssumption
<1>2. CASE refill.by = "nobody" /\ Need > 0
  <2>1. refill' = [by |-> who, left |-> Need] /\ Need \in 0..(PoolSize - Len(pool))
    BY <1>2, NeedFits DEF NextRefill, RefillType
  <2> QED
    BY <1>1, <1>2, <2>1 DEF RefillType, PoolFits
<1>3. CASE ~(refill.by = "nobody" /\ Need > 0)
  BY <1>1, <1>3 DEF NextRefill, RefillType, PoolFits
<1> QED
  BY <1>2, <1>3

LEMMA AfterRefillFits ==
    ASSUME RefillType, AfterRefill, refill.left > 0,
           Len(pool') \in {Len(pool), Len(pool) + 1}
    PROVE  RefillType'
<1>1. PoolSize \in Nat /\ PoolSize > 0
  BY WardenAssumption
<1>2. CASE refill.left = 1
  BY <1>1, <1>2 DEF AfterRefill, RefillType, PoolFits, NoRefill
<1>3. CASE refill.left # 1
  <2>1. refill' = [refill EXCEPT !.left = @ - 1]
    BY <1>3 DEF AfterRefill
  <2> QED
    BY <1>1, <1>3, <2>1 DEF RefillType, PoolFits
<1> QED
  BY <1>2, <1>3

LEMMA PickedFewer ==
    ASSUME NEW seq, Len(seq) \in Nat, NEW S, S \in SUBSET (1..Len(seq)),
           NEW picked \in Picked(seq, S)
    PROVE  Len(picked) \in 0..Len(seq)
<1>1. IsFiniteSet(1..Len(seq)) /\ Cardinality(1..Len(seq)) = Len(seq)
  BY FS_Interval
<1>2. Cardinality(S) \in Nat /\ Cardinality(S) =< Len(seq)
  BY <1>1, FS_Subset, FS_CardinalityType
<1>3. PICK f \in [1..Cardinality(S) -> S] : picked = [i \in 1..Cardinality(S) |-> seq[f[i]]]
  BY DEF Picked, InOrder
<1>4. picked \in Seq({seq[f[i]] : i \in 1..Cardinality(S)})
  BY <1>2, <1>3
<1>5. Len(picked) = Cardinality(S)
  BY <1>2, <1>3, <1>4
<1> QED
  BY <1>2, <1>5

(* Only a creation of the refill makes the pool longer.                    *)
LEMMA PoolGetsShorter ==
    ASSUME PoolShape, [Next]_vars, ~RefillOne
    PROVE  Len(pool') \in 0..Len(pool)
<1>1. Len(pool) \in Nat
  BY DEF PoolShape
<1>2. CASE UNCHANGED pool
  BY <1>1, <1>2
<1>3. ASSUME pool # <<>>, pool' = Tail(pool) PROVE Len(pool') \in 0..Len(pool)
  BY <1>1, <1>3 DEF PoolShape
<1>4. ASSUME NEW m \in Mints, NEW ip, NEW old, Decide(m, ip, old)
      PROVE  Len(pool') \in 0..Len(pool)
  <2>1. pool' = pool \/ (pool # <<>> /\ pool' = Tail(pool))
    BY <1>4 DEF Decide, RateLimited, TakeWarm, FromPool, Reserve, Reclaim, NoCapacity
  <2> QED
    BY <1>2, <1>3, <2>1
<1>5. CASE Wake
  <2> DEFINE young == {i \in 1..Len(pool) : ~Aged(pool[i])}
  <2>1. pool' \in Picked(pool, young) /\ young \in SUBSET (1..Len(pool))
    BY <1>5 DEF Wake
  <2> HIDE DEF young
  <2> QED
    BY <1>1, <2>1, PickedFewer
<1>6. CASE Tick
  <2> DEFINE E(i) == [pool[i] EXCEPT !.age = Older(@, PoolCap)]
  <2>1. pool' = [i \in 1..Len(pool) |-> E(i)]
    BY <1>6 DEF Tick
  <2> HIDE DEF E
  <2>2. pool' \in Seq({E(i) : i \in 1..Len(pool)})
    BY <1>1, <2>1
  <2> QED
    BY <1>1, <2>1, <2>2
<1>7. CASE Crash
  <2>1. Len(pool') = 0
    BY <1>7 DEF Crash
  <2> QED
    BY <1>1, <2>1
<1>8. CASE Start \/ BeginRefill \/ RefillFails \/ Reaped
  BY <1>2, <1>8 DEF Start, BeginRefill, RefillFails, Reaped
<1>9. CASE \E b \in Boxes : End(b) \/ Ended(b)
  BY <1>2, <1>9 DEF End, Ended
<1>10. CASE \E b \in Boxes, flag \in BOOLEAN : Heartbeat(b, flag) \/ Route(b, flag)
  BY <1>2, <1>10 DEF Heartbeat, Route
<1>11. CASE \E m \in Mints, ip \in Ips : New(m, ip) \/ \E b \in Boxes : Replace(m, ip, b)
  BY <1>2, <1>4, <1>11 DEF New, Replace
<1>12. CASE \E m \in Mints : Replaced(m) \/ Reclaimed(m) \/ Created(m) \/ CreateFails(m)
  BY <1>2, <1>4, <1>12 DEF Replaced, Reclaimed, Created, CreateFails
<1>13. CASE UNCHANGED vars
  BY <1>2, <1>13 DEF vars
<1> QED
  BY <1>5, <1>6, <1>7, <1>8, <1>9, <1>10, <1>11, <1>12, <1>13 DEF Next

LEMMA RefillStep ==
    ASSUME IInv, PoolShape, Apart, RefillType, [Next]_vars PROVE RefillType'
<1>0. PoolSize \in Nat /\ PoolSize > 0
  BY WardenAssumption
<1>1. CASE RefillOne
  <2>1. Len(pool') = Len(pool) + 1
    BY <1>1 DEF RefillOne, PoolShape
  <2> QED
    BY <1>1, <2>1, AfterRefillFits DEF RefillOne
<1>2. CASE RefillFails
  BY <1>2, AfterRefillFits DEF RefillFails
<1> SUFFICES ASSUME ~RefillOne, ~RefillFails PROVE RefillType'
  BY <1>1, <1>2
<1>3. Len(pool') \in 0..Len(pool)
  BY PoolGetsShorter
<1>4. CASE UNCHANGED refill
  BY <1>0, <1>3, <1>4 DEF RefillType, PoolFits
<1>5. ASSUME NEW table, NEW expired, NEW recycle, Proceed(table, expired, recycle)
      PROVE  RefillType'
  <2>1. UNCHANGED refill \/ refill' = NextRefill("reaper")
    BY <1>5 DEF Proceed
  <2> QED
    BY <1>3, <1>4, <2>1, NextRefillFits
<1>6. CASE Start
  <2>1. refill' = [by |-> "startup", left |-> Need] /\ pool' = pool
    BY <1>6 DEF Start
  <2>2. Need \in 0..(PoolSize - Len(pool)) /\ Need > 0
    <3>1. pool = <<>> /\ Sessions = {} /\ \A m \in Mints : mint[m].at = "idle"
      BY <1>6 DEF Apart, DownIsEmpty, Start
    <3>2. MintsAt("creating") = {}
      BY <3>1 DEF MintsAt
    <3>3. Len(pool) = 0 /\ Used = 0
      BY <3>1, <3>2, FS_EmptySet DEF Used, IInv, ReservingIsExact
    <3>4. Room > 0 /\ PoolSize > Len(pool)
      BY <1>0, <3>3, BoundsAreNumbers DEF Room
    <3> QED
      BY <3>4, NeedFits DEF RefillType
  <2> QED
    BY <1>0, <2>1, <2>2 DEF RefillType, PoolFits
<1>7. CASE Crash
  <2>1. pool' = <<>> /\ refill' = [by |-> "nobody", left |-> 0]
    BY <1>7 DEF Crash, NoRefill
  <2>2. Len(pool') = 0
    BY <2>1
  <2> QED
    BY <1>0, <2>1, <2>2 DEF RefillType, PoolFits
<1>8. CASE BeginRefill
  BY <1>3, <1>8, NextRefillFits DEF BeginRefill
<1>9. CASE Wake \/ Reaped
  BY <1>5, <1>9 DEF Wake, Reaped
<1>10. CASE Tick
  BY <1>4, <1>10 DEF Tick
<1>11. CASE \E b \in Boxes : End(b) \/ Ended(b)
  BY <1>4, <1>11 DEF End, Ended
<1>12. CASE \E b \in Boxes, flag \in BOOLEAN : Heartbeat(b, flag) \/ Route(b, flag)
  BY <1>4, <1>12 DEF Heartbeat, Route
<1>13. CASE \E m \in Mints, ip \in Ips : New(m, ip) \/ \E b \in Boxes : Replace(m, ip, b)
  BY <1>4, <1>13 DEF New, Replace
<1>14. CASE \E m \in Mints : Replaced(m) \/ Reclaimed(m) \/ Created(m) \/ CreateFails(m)
  BY <1>4, <1>14 DEF Replaced, Reclaimed, Created, CreateFails
<1>15. CASE UNCHANGED vars
  BY <1>4, <1>15 DEF vars
<1> QED
  BY <1>6, <1>7, <1>8, <1>9, <1>10, <1>11, <1>12, <1>13, <1>14, <1>15 DEF Next

LEMMA NoReapingType ==
    NoReaping \in ReaperRecord /\ [NoReaping EXCEPT !.phase = "refilling", !.wait = 0] \in ReaperRecord
<1>1. 0 \in 0..Period /\ Period \in 0..Period
  BY BoundsAreNumbers
<1>2. NoReaping \in ReaperRecord
  BY <1>1 DEF NoReaping, ReaperRecord
<1> QED
  BY <1>1, <1>2 DEF ReaperRecord

LEMMA ProceedType ==
    ASSUME NEW table, NEW expired, NEW recycle \in SUBSET Boxes, Proceed(table, expired, recycle)
    PROVE  ReaperType'
<1> DEFINE left == expired \cap Sessions
<1>1. left \in SUBSET Boxes /\ 0 \in 0..Period
  BY BoundsAreNumbers DEF Sessions
<1>2. CASE \E b \in left :
               reaper' = [phase |-> "destroying", wait |-> 0, box |-> {b},
                          expired |-> left \ {b}, recycle |-> recycle]
  BY <1>1, <1>2 DEF ReaperType, ReaperRecord
<1>3. CASE \E b \in recycle :
               reaper' = [phase |-> "recycling", wait |-> 0, box |-> {b},
                          expired |-> {}, recycle |-> recycle \ {b}]
  BY <1>1, <1>3 DEF ReaperType, ReaperRecord
<1>4. CASE reaper' \in {NoReaping, [NoReaping EXCEPT !.phase = "refilling", !.wait = 0]}
  BY <1>4, NoReapingType DEF ReaperType
<1> HIDE DEF left
<1> QED
  BY <1>2, <1>3, <1>4 DEF Proceed, left

LEMMA AgedAreBoxes ==
    ASSUME PoolShape
    PROVE  {pool[i].box : i \in {k \in 1..Len(pool) : Aged(pool[k])}} \in SUBSET Boxes
<1>1. \A i \in 1..Len(pool) : pool[i] \in Pooled
  BY DEF PoolShape
<1> QED
  BY <1>1 DEF Pooled

LEMMA ReaperTypeStep ==
    ASSUME PoolShape, ReaperType, [Next]_vars PROVE ReaperType'
<1>1. CASE UNCHANGED reaper
  BY <1>1 DEF ReaperType
<1>2. CASE reaper' = NoReaping
  BY <1>2, NoReapingType DEF ReaperType
<1>3. CASE Start \/ Crash \/ BeginRefill
  BY <1>1, <1>2, <1>3 DEF Start, Crash, BeginRefill
<1>4. CASE Tick
  <2>1. CASE stage = "serving" /\ reaper.phase = "asleep"
    <3>1. reaper' = [reaper EXCEPT !.wait = @ - 1] /\ reaper.wait # 0
      BY <1>4, <2>1 DEF Tick
    <3>2. reaper.wait - 1 \in 0..Period
      BY <3>1, BoundsAreNumbers DEF ReaperType, ReaperRecord
    <3> QED
      BY <3>1, <3>2 DEF ReaperType, ReaperRecord
  <2>2. CASE ~(stage = "serving" /\ reaper.phase = "asleep")
    BY <1>1, <1>4, <2>2 DEF Tick
  <2> QED
    BY <2>1, <2>2
<1>5. CASE RefillOne \/ RefillFails
  BY <1>1, <1>2, <1>5 DEF RefillOne, RefillFails, AfterRefill
<1>6. CASE Wake
  BY <1>6, AgedAreBoxes, ProceedType DEF Wake
<1>7. CASE Reaped
  <2>1. reaper.recycle \in SUBSET Boxes
    BY DEF ReaperType, ReaperRecord
  <2> QED
    BY <1>7, <2>1, ProceedType DEF Reaped
<1>8. CASE \E b \in Boxes : End(b) \/ Ended(b)
  BY <1>1, <1>8 DEF End, Ended
<1>9. CASE \E b \in Boxes, flag \in BOOLEAN : Heartbeat(b, flag) \/ Route(b, flag)
  BY <1>1, <1>9 DEF Heartbeat, Route
<1>10. CASE \E m \in Mints, ip \in Ips : New(m, ip) \/ \E b \in Boxes : Replace(m, ip, b)
  BY <1>1, <1>10 DEF New, Replace
<1>11. CASE \E m \in Mints : Replaced(m) \/ Reclaimed(m) \/ Created(m) \/ CreateFails(m)
  BY <1>1, <1>11 DEF Replaced, Reclaimed, Created, CreateFails
<1>12. CASE UNCHANGED vars
  BY <1>1, <1>12 DEF vars
<1> QED
  BY <1>3, <1>4, <1>5, <1>6, <1>7, <1>8, <1>9, <1>10, <1>11, <1>12 DEF Next

LEMMA DueType ==
    ASSUME due \in 0..MaxDue
    PROVE  /\ \A m \in Mints : \A ip, old : Decide(m, ip, old) => due' \in 0..MaxDue
           /\ \A b, ip, old : Land(b, ip, old) => due' \in 0..MaxDue
<1>1. MaxDue \in Nat
  BY WardenAssumption
<1>2. \A b, ip, old : Land(b, ip, old) => due' \in 0..MaxDue
  BY <1>1 DEF Land
<1> QED
  BY <1>2 DEF Decide, RateLimited, TakeWarm, Reserve, Reclaim, NoCapacity

LEMMA RemoveType ==
    ASSUME live \subseteq Boxes, NEW b, Remove(b) PROVE live' \subseteq Boxes
BY DEF Remove

LEMMA RestStep ==
    ASSUME RestType, [Next]_vars PROVE RestType'
<1> USE DEF RestType
<1>0. MaxDue \in Nat /\ MaxCrashes \in Nat
  BY WardenAssumption
<1>1. CASE UNCHANGED <<stage, live, ending, due, idleTtl, crashes>>
  BY <1>1
<1>2. CASE Start
  BY <1>2 DEF Start
<1>3. CASE Crash
  BY <1>0, <1>3 DEF Crash, Fresh
<1>4. CASE Tick
  BY <1>1, <1>4 DEF Tick
<1>5. CASE BeginRefill
  BY <1>0, <1>5 DEF BeginRefill
<1>6. CASE RefillOne \/ RefillFails
  BY <1>6 DEF RefillOne, RefillFails, AfterRefill, Failed, Fresh
<1>7. CASE Wake
  BY <1>7 DEF Wake, NextIdleTtl
<1>8. CASE Reaped
  BY <1>8, RemoveType DEF Reaped
<1>9. CASE \E b \in Boxes : End(b) \/ Ended(b)
  BY <1>9, RemoveType DEF End, Ended
<1>10. CASE \E b \in Boxes, flag \in BOOLEAN : Heartbeat(b, flag) \/ Route(b, flag)
  BY <1>10 DEF Heartbeat, Route
<1>11. CASE \E m \in Mints, ip \in Ips : New(m, ip) \/ \E b \in Boxes : Replace(m, ip, b)
  BY <1>11, DueType DEF New, Replace
<1>12. CASE \E m \in Mints : Replaced(m)
  BY <1>12, DueType, RemoveType DEF Replaced
<1>13. CASE \E m \in Mints : Reclaimed(m) \/ Created(m) \/ CreateFails(m)
  BY <1>13, DueType, RemoveType DEF Reclaimed, Created, CreateFails, Failed, Fresh
<1>14. CASE UNCHANGED vars
  BY <1>1, <1>14 DEF vars
<1> QED
  BY <1>2, <1>3, <1>4, <1>5, <1>6, <1>7, <1>8, <1>9, <1>10, <1>11, <1>12, <1>13, <1>14 DEF Next

LEMMA StateIsTyped == Spec => []Typed
<1>1. Init => Typed
  <2> SUFFICES ASSUME Init PROVE Typed
    OBVIOUS
  <2>1. Len(<<>>) = 0 /\ PoolSize \in Nat /\ MaxDue \in Nat /\ MaxCrashes \in Nat /\ Period \in Nat
    BY WardenAssumption
  <2>2. RefillType
    BY <2>1 DEF Init, RefillType, PoolFits, NoRefill
  <2>3. ReaperType
    BY NoReapingType DEF Init, ReaperType
  <2>4. RestType
    BY <2>1 DEF Init, RestType
  <2> QED
    BY <2>2, <2>3, <2>4 DEF Typed
<1>2. Shaped /\ Apart /\ Typed /\ [Next]_vars => Typed'
  BY RefillStep, ReaperTypeStep, RestStep DEF Shaped, Typed
<1> QED
  BY <1>1, <1>2, HandsStayApart, PTL DEF Spec

(* Every variable has its type; in particular the pool never outgrows      *)
(* POOL_SIZE, whichever of startup, reaper and spawned tasks refill it.    *)
THEOREM TypeCorrect == Spec => []TypeOK
<1>1. Shaped /\ Typed => TypeOK
  <2> SUFFICES ASSUME Shaped, Typed PROVE TypeOK
    OBVIOUS
  <2>1. reserving \in Nat
    BY UsedIsNumber DEF Shaped
  <2>2. PoolSize \in Nat
    BY WardenAssumption
  <2> QED
    BY <2>1, <2>2 DEF Shaped, IInv, Shapes, PoolShape, Tables, Typed, RefillType, ReaperType,
                      ReaperRecord, RestType, TypeOK
<1> QED
  BY <1>1, StateIsTyped, HandsStayApart, PTL

(* Sessions, places held and victims being removed together never pass     *)
(* MAX_ACTIVE by more than the requests inside session_new less one; the   *)
(* sessions of an address never pass PER_IP_MAX_CONCURRENT by more, nor    *)
(* its mints within the window PER_IP_MINT_MAX: all three caps are read    *)
(* before an await and used after it.  With the pool and a refill in       *)
(* flight it is a pool more.                                               *)
THEOREM OvershootsAreBounded == Spec => []OvershootIsBounded
<1>1. IInv /\ MintsAreBounded /\ PoolShape /\ Typed => OvershootIsBounded
  <2>1. ASSUME IInv, NEW ip \in Ips, perIp[ip] # None
        PROVE  perIp[ip].active =< PerIpMax + Spare
    <3>1. Count(ip) = perIp[ip].active /\ Count(ip) \in Nat
      BY <2>1, CountsAreNumbers DEF IInv, Count, CountIn
    <3>2. Cardinality(Bound(ip)) \in Nat
      BY BoundIsFinite
    <3>3. Count(ip) + Cardinality(Bound(ip)) =< PerIpMax + Spare
      BY <2>1 DEF IInv, AddressIsBounded
    <3> QED
      BY <3>1, <3>2, <3>3, BoundsAreNumbers, BoundsAreFinite
  <2>2. ASSUME IInv, MintsAreBounded, NEW ip \in Ips, perIp[ip] # None
        PROVE  Minted(perIp[ip]) =< MintMax + Spare
    <3>1. Tally(perIp, ip) = Minted(perIp[ip]) /\ Tally(perIp, ip) \in Nat
      BY <2>2, TallyIsNumber DEF IInv, Shapes, Tally
    <3>2. Cardinality(Bound(ip)) \in Nat
      BY BoundIsFinite
    <3>3. Tally(perIp, ip) + Cardinality(Bound(ip)) =< MintMax + Spare
      BY <2>2 DEF MintsAreBounded
    <3> QED
      BY <3>1, <3>2, <3>3, WardenAssumption, BoundsAreFinite
  <2>3. ASSUME IInv, PoolShape, Typed PROVE InstancesAreBounded
    <3>1. Len(pool) + refill.left =< PoolSize /\ Len(pool) \in Nat /\ refill.left \in Nat
      <4>1. pool \in Seq(Pooled)
        BY <2>3 DEF PoolShape
      <4>2. Len(pool) \in Nat
        BY <4>1
      <4> QED
        BY <2>3, <4>2, WardenAssumption DEF Typed, RefillType, PoolFits
    <3>2. Used + Cardinality(MintsAt("reclaiming")) =< MaxActive + Spare
      BY <2>3 DEF IInv, UsedIsBounded
    <3>3. Used \in Nat /\ Cardinality(MintsAt("reclaiming")) \in Nat
      <4>1. MintsAt("reclaiming") \subseteq Mints
        BY DEF MintsAt
      <4> QED
        BY <2>3, <4>1, UsedIsNumber, BoundsAreFinite, FS_Subset, FS_CardinalityType
    <3>4. MaxActive \in Nat /\ PoolSize \in Nat /\ Spare \in Int
      BY BoundsAreNumbers, BoundsAreFinite, WardenAssumption
    <3> QED
      BY <3>1, <3>2, <3>3, <3>4, SMT DEF InstancesAreBounded
  <2> QED
    BY <2>1, <2>2, <2>3 DEF OvershootIsBounded, AddressesAreBounded, MintedIsBounded, IInv
<1> QED
  BY <1>1, CapsAreSound, MintsStayBounded, PoolIsShaped, StateIsTyped, PTL

------------------------------------------------------------------------------
(* Deadlines, when docker is prompt: time passes only while the reaper     *)
(* sleeps and nothing is awaited, so an age grows by what the reaper's     *)
(* sleep gets shorter.                                                     *)

OffIsEmpty ==
    stage # "serving" =>
        Sessions = {} /\ reaper = NoReaping /\ \A m \in Mints : mint[m] = NoMint
FillingIsBusy == stage = "filling" => refill.by = "startup"
AwakeIsBusy ==
    /\ reaper.phase \in {"destroying", "recycling"} => reaper.box # {}
    /\ reaper.phase = "refilling" => refill.by = "reaper" /\ reaper.expired = {}
RequestsAreNew == \A m \in Mints : mint[m] # NoMint => mint[m].age = 0

(* At rest, a session may reach its deadline and a period more before the  *)
(* reaper wakes; when it is at work, what is past the deadline is next.    *)
Overdue(b) == active[b].age > HardTTL
OnTime ==
    \A b \in Sessions :
        IF reaper.phase = "asleep" THEN active[b].age + reaper.wait =< HardTTL + Period
        ELSE active[b].age =< HardTTL + Period /\ (Overdue(b) => b \in reaper.expired)

Rest == IF reaper.phase = "asleep" THEN reaper.wait ELSE Period
Young == \A i \in 1..Len(pool) : pool[i].age + Rest =< PoolMaxAge

Busy == OffIsEmpty /\ FillingIsBusy /\ AwakeIsBusy

LEMMA ReaperStates ==
    ASSUME ReaperType
    PROVE  /\ reaper.phase \in {"asleep", "destroying", "recycling", "refilling"}
           /\ reaper.wait \in 0..Period /\ reaper.wait \in Nat
           /\ Rest \in 0..Period
BY BoundsAreNumbers DEF ReaperType, ReaperRecord, Rest

LEMMA NoReapingStates ==
    /\ NoReaping.phase = "asleep" /\ NoReaping.wait = Period /\ NoReaping.box = {}
    /\ [NoReaping EXCEPT !.phase = "refilling", !.wait = 0].phase = "refilling"
    /\ [NoReaping EXCEPT !.phase = "refilling", !.wait = 0].expired = {}
BY DEF NoReaping

LEMMA ProceedBusy ==
    ASSUME RefillType, refill.by # "reaper", NEW table, NEW expired, NEW recycle,
           Proceed(table, expired, recycle)
    PROVE  AwakeIsBusy'
<1> DEFINE left == expired \cap Sessions
           waits == [NoReaping EXCEPT !.phase = "refilling", !.wait = 0]
<1>1. CASE \E b \in left :
               reaper' = [phase |-> "destroying", wait |-> 0, box |-> {b},
                          expired |-> left \ {b}, recycle |-> recycle]
  BY <1>1 DEF AwakeIsBusy
<1>2. CASE \E b \in recycle :
                  reaper' = [phase |-> "recycling", wait |-> 0, box |-> {b},
                             expired |-> {}, recycle |-> recycle \ {b}]
  BY <1>2 DEF AwakeIsBusy
<1>3. CASE /\ refill' = NextRefill("reaper")
           /\ reaper' = IF refill' = refill THEN NoReaping ELSE waits
  <2>1. refill' # refill => refill'.by = "reaper"
    BY <1>3 DEF NextRefill
  <2>2. /\ NoReaping.phase = "asleep" /\ waits.phase = "refilling" /\ waits.expired = {}
    BY NoReapingStates
  <2> HIDE DEF waits
  <2> QED
    BY <1>3, <2>1, <2>2 DEF AwakeIsBusy
<1> QED
  BY <1>1, <1>2, <1>3 DEF Proceed

LEMMA AwakeStep ==
    ASSUME Typed, ReaperHolds, Busy, [Next]_vars PROVE AwakeIsBusy'
<1>0. RefillType /\ ReaperType /\ AwakeIsBusy /\ OffIsEmpty
  BY DEF Typed, Busy
<1>1. CASE UNCHANGED <<reaper, refill>>
  BY <1>0, <1>1 DEF AwakeIsBusy
<1>2. CASE reaper' = NoReaping
  BY <1>0, <1>2, NoReapingStates DEF AwakeIsBusy
<1>3. CASE Start
  <2>1. reaper' = NoReaping
    BY <1>0, <1>3 DEF Start, OffIsEmpty
  <2> QED
    BY <1>2, <2>1
<1>4. CASE Crash
  BY <1>2, <1>4 DEF Crash
<1>5. CASE Tick
  <2>1. refill' = refill /\ reaper' \in {reaper, [reaper EXCEPT !.wait = @ - 1]}
    BY <1>5 DEF Tick
  <2>2. reaper'.phase = reaper.phase /\ reaper'.box = reaper.box /\ reaper'.expired = reaper.expired
    BY <1>0, <2>1 DEF ReaperType, ReaperRecord
  <2> QED
    BY <1>0, <2>1, <2>2 DEF AwakeIsBusy
<1>6. CASE BeginRefill
  <2>1. reaper' = reaper /\ refill' = NextRefill("spawned")
    BY <1>6 DEF BeginRefill
  <2>2. refill.by = "reaper" => refill' = refill
    BY <2>1 DEF NextRefill
  <2> QED
    BY <1>0, <2>1, <2>2 DEF AwakeIsBusy
<1>7. CASE AfterRefill
  <2>1. CASE refill.left = 1 /\ refill.by = "reaper"
    BY <1>2, <1>7, <2>1 DEF AfterRefill
  <2>2. CASE refill.left = 1 /\ refill.by # "reaper"
    BY <1>0, <1>7, <2>2 DEF AfterRefill, AwakeIsBusy
  <2>3. CASE refill.left # 1
    <3>1. reaper' = reaper /\ refill' = [refill EXCEPT !.left = @ - 1]
      BY <1>7, <2>3 DEF AfterRefill
    <3>2. refill'.by = refill.by
      BY <1>0, <3>1 DEF RefillType
    <3> QED
      BY <1>0, <3>1, <3>2 DEF AwakeIsBusy
  <2> QED
    BY <2>1, <2>2, <2>3
<1>8. CASE Wake \/ Reaped
  <2>1. refill.by # "reaper"
    BY <1>8 DEF Wake, Reaped, ReaperHolds, Reaping
  <2> QED
    BY <1>0, <1>8, <2>1, ProceedBusy DEF Wake, Reaped
<1>9. ASSUME NEW b \in Boxes, NEW flag, End(b) \/ Ended(b) \/ Heartbeat(b, flag) \/ Route(b, flag)
      PROVE  UNCHANGED <<reaper, refill>>
  BY <1>9 DEF End, Ended, Heartbeat, Route
<1>10. ASSUME NEW m \in Mints, NEW ip \in Ips, NEW b \in Boxes,
              \/ New(m, ip) \/ Replace(m, ip, b) \/ Replaced(m) \/ Reclaimed(m) \/ Created(m)
              \/ CreateFails(m)
       PROVE  UNCHANGED <<reaper, refill>>
  BY <1>10 DEF New, Replace, Replaced, Reclaimed, Created, CreateFails
<1> QED
  BY <1>1, <1>3, <1>4, <1>5, <1>6, <1>7, <1>8, <1>9, <1>10
     DEF Next, vars, RefillOne, RefillFails, New, Replaced, Reclaimed, Created, CreateFails

(* A process that is down or starting has no sessions and no requests, and *)
(* the one that starts is refilling.                                       *)
LEMMA OffStep ==
    ASSUME Shaped, Apart, Typed, Busy, [Next]_vars PROVE OffIsEmpty'
<1>0. OffIsEmpty /\ RefillType /\ Shapes
  BY DEF Busy, Typed, Shaped, IInv
<1>1. CASE stage = "serving" /\ stage' = "serving"
  BY <1>1 DEF OffIsEmpty
<1>2. CASE UNCHANGED <<stage, active, reaper, mint>>
  BY <1>0, <1>2 DEF OffIsEmpty, Sessions
<1>3. CASE Start
  BY <1>0, <1>3 DEF Start, OffIsEmpty, Sessions
<1>4. CASE Crash
  BY <1>4 DEF Crash, OffIsEmpty, Sessions
<1>5. CASE Tick /\ stage # "serving"
  <2>1. stage' = stage /\ reaper' = reaper /\ Sessions' = Sessions
    BY <1>0, <1>5, TickSessions DEF Tick
  <2>2. mint' = [m \in Mints |-> IF mint[m] = NoMint THEN NoMint ELSE
           [mint[m] EXCEPT !.age = Older(@, AgeCap)]]
    BY <1>5 DEF Tick
  <2> QED
    BY <1>0, <1>5, <2>1, <2>2 DEF OffIsEmpty
<1>6. CASE AfterRefill /\ stage # "serving"
  <2>1. UNCHANGED <<active, mint>> /\ stage' \in {stage, "serving"} /\ reaper' \in {reaper, NoReaping}
    BY <1>6 DEF AfterRefill
  <2> QED
    BY <1>0, <1>6, <2>1 DEF OffIsEmpty, Sessions
<1>7. ASSUME NEW m \in Mints, Replaced(m) \/ Reclaimed(m) \/ Created(m) \/ CreateFails(m)
      PROVE  stage = "serving" /\ stage' = "serving"
  <2>1. mint[m].at # "idle" /\ stage' = stage
    BY <1>7 DEF Replaced, Reclaimed, Created, CreateFails
  <2>2. mint[m] # NoMint
    BY <2>1, NoneIsNothing
  <2> QED
    BY <1>0, <2>1, <2>2 DEF OffIsEmpty
<1>8. ASSUME Reaped PROVE stage = "serving" /\ stage' = "serving"
  <2>1. stage' = stage /\ reaper # NoReaping
    BY <1>8, NoReapingStates DEF Reaped
  <2> QED
    BY <1>0, <2>1 DEF OffIsEmpty
<1>9. ASSUME NEW b \in Boxes, Ended(b) PROVE UNCHANGED <<stage, active, reaper, mint>>
  BY <1>9 DEF Ended
<1>10. ASSUME NEW b \in Boxes, NEW flag, End(b) \/ Heartbeat(b, flag) \/ Route(b, flag)
       PROVE  stage = "serving" /\ stage' = "serving"
  BY <1>10 DEF End, Heartbeat, Route
<1>11. ASSUME NEW m \in Mints, NEW ip \in Ips, NEW b \in Boxes, New(m, ip) \/ Replace(m, ip, b)
       PROVE  stage = "serving" /\ stage' = "serving"
  BY <1>11 DEF New, Replace
<1>12. ASSUME NEW m \in Mints, NEW ip \in Ips, New(m, ip) PROVE stage = "serving" /\ stage' = "serving"
  BY <1>12 DEF New
<1>13. ASSUME Wake \/ BeginRefill PROVE stage = "serving" /\ stage' = "serving"
  BY <1>13 DEF Wake, BeginRefill
<1>14. ASSUME Tick \/ RefillOne \/ RefillFails, stage = "serving" PROVE stage' = "serving"
  BY <1>14 DEF Tick, RefillOne, RefillFails, AfterRefill
<1>15. RefillOne \/ RefillFails => AfterRefill
  BY DEF RefillOne, RefillFails
<1>16. CASE UNCHANGED vars
  BY <1>2, <1>16 DEF vars
<1> QED
  BY <1>1, <1>2, <1>3, <1>4, <1>5, <1>6, <1>7, <1>8, <1>9, <1>10, <1>11, <1>12, <1>13, <1>14,
     <1>15, <1>16 DEF Next

LEMMA FillingStep ==
    ASSUME Typed, Busy, [Next]_vars PROVE FillingIsBusy'
<1>0. FillingIsBusy /\ OffIsEmpty /\ RefillType
  BY DEF Busy, Typed
<1>1. CASE UNCHANGED <<stage, refill>>
  BY <1>0, <1>1 DEF FillingIsBusy
<1>2. CASE stage' # "filling"
  BY <1>2 DEF FillingIsBusy
<1>3. CASE Start
  BY <1>3 DEF Start, FillingIsBusy
<1>4. CASE Crash
  BY <1>2, <1>4 DEF Crash
<1>5. CASE AfterRefill
  <2>1. CASE refill.left = 1
    BY <1>0, <1>5, <2>1 DEF AfterRefill, FillingIsBusy
  <2>2. CASE refill.left # 1
    <3>1. stage' = stage /\ refill' = [refill EXCEPT !.left = @ - 1]
      BY <1>5, <2>2 DEF AfterRefill
    <3>2. refill'.by = refill.by
      BY <1>0, <3>1 DEF RefillType
    <3> QED
      BY <1>0, <3>1, <3>2 DEF FillingIsBusy
  <2> QED
    BY <2>1, <2>2
<1>6. ASSUME Reaped PROVE stage' # "filling"
  <2>1. stage' = stage /\ reaper # NoReaping
    BY <1>6, NoReapingStates DEF Reaped
  <2> QED
    BY <1>0, <2>1 DEF OffIsEmpty
<1>7. ASSUME Wake \/ BeginRefill PROVE stage' # "filling"
  BY <1>7 DEF Wake, BeginRefill
<1>8. ASSUME Tick PROVE UNCHANGED <<stage, refill>>
  BY <1>8 DEF Tick
<1>9. ASSUME NEW b \in Boxes, NEW flag, End(b) \/ Ended(b) \/ Heartbeat(b, flag) \/ Route(b, flag)
      PROVE  UNCHANGED <<stage, refill>>
  BY <1>9 DEF End, Ended, Heartbeat, Route
<1>10. ASSUME NEW m \in Mints, Replaced(m) \/ Reclaimed(m) \/ Created(m) \/ CreateFails(m)
       PROVE  UNCHANGED <<stage, refill>>
  BY <1>10 DEF Replaced, Reclaimed, Created, CreateFails
<1>11. ASSUME NEW m \in Mints, NEW ip \in Ips,
              New(m, ip) \/ \E b \in Boxes : Replace(m, ip, b)
       PROVE  UNCHANGED <<stage, refill>>
  BY <1>11 DEF New, Replace
<1> QED
  BY <1>1, <1>3, <1>4, <1>5, <1>6, <1>7, <1>8, <1>9, <1>10, <1>11, <1>2
     DEF Next, vars, RefillOne, RefillFails

LEMMA WardenIsBusy == Spec => [](Shaped /\ Apart /\ Typed /\ ReaperHolds /\ Busy)
<1>1. Init => Busy /\ ReaperHolds
  <2> SUFFICES ASSUME Init PROVE Busy /\ ReaperHolds
    OBVIOUS
  <2>1. Sessions = {} /\ stage = "down" /\ reaper = NoReaping /\ mint = [m \in Mints |-> NoMint]
        /\ refill = NoRefill
    BY DEF Init, Sessions
  <2>2. Busy
    BY <2>1, NoReapingStates DEF Busy, OffIsEmpty, FillingIsBusy, AwakeIsBusy
  <2>3. ReaperHolds
    BY <2>1 DEF ReaperHolds, Reaping, NoReaping, NoRefill
  <2> QED
    BY <2>2, <2>3
<1>2. ReaperHolds /\ [Next]_vars => ReaperHolds'
  BY ReaperStep
<1>3. Shaped /\ Apart /\ Typed /\ ReaperHolds /\ Busy /\ [Next]_vars => Busy'
  BY OffStep, FillingStep, AwakeStep DEF Busy
<1> QED
  BY <1>1, <1>2, <1>3, HandsStayApart, StateIsTyped, PTL DEF Spec

(* A prompt docker: nothing is awaited while time passes.                  *)
Settled == Shaped /\ Apart /\ Typed /\ ReaperHolds /\ Busy

LEMMA TickIsIdle ==
    ASSUME ~DockerIsSlow, Settled, Tick
    PROVE  /\ \A m \in Mints : mint[m] = NoMint
           /\ stage = "serving" /\ reaper.phase = "asleep" /\ reaper.wait > 0
<1>1. DockerCalls = 0 /\ stage # "down"
  BY DEF Tick
<1>2. MintsAt("creating") \subseteq Mints /\ Awaited \subseteq Boxes
  <2>1. ASSUME NEW m \in MintsAt("ending") \cup MintsAt("reclaiming") PROVE mint[m].box \in Boxes
    <3>1. m \in Mints /\ mint[m].at \in {"ending", "reclaiming"}
      BY DEF MintsAt
    <3>2. mint[m] # NoMint
      BY <3>1, NoneIsNothing
    <3>3. mint[m] \in Minting
      BY <3>1, <3>2 DEF Settled, Shaped, IInv, Shapes
    <3> QED
      BY <3>1, <3>3 DEF Minting
  <2>2. ending \subseteq Boxes /\ reaper.box \subseteq Boxes
    BY DEF Settled, Typed, RestType, ReaperType, ReaperRecord
  <2> QED
    BY <2>1, <2>2 DEF Awaited, MintsAt
<1>3. /\ IsFiniteSet(MintsAt("creating")) /\ Cardinality(MintsAt("creating")) \in Nat
      /\ IsFiniteSet(Awaited) /\ Cardinality(Awaited) \in Nat
  BY <1>2, BoundsAreFinite, FS_Subset, FS_CardinalityType
<1>4. refill.left \in Nat
  BY DEF Settled, Typed, RefillType
<1>5. Cardinality(MintsAt("creating")) = 0 /\ refill.left = 0 /\ Cardinality(Awaited) = 0
  <2>1. \A i, j, k \in Nat : i + j + k = 0 => i = 0 /\ j = 0 /\ k = 0
    OBVIOUS
  <2> QED
    BY <1>1, <1>3, <1>4, <2>1, Zenon DEF DockerCalls
<1>6. MintsAt("creating") = {} /\ Awaited = {}
  BY <1>3, <1>5, FS_EmptySet
<1>7. ASSUME NEW m \in Mints, mint[m] # NoMint PROVE FALSE
  <2>1. mint[m] \in Minting
    BY <1>7 DEF Settled, Shaped, IInv, Shapes
  <2>2. mint[m].at \in {"creating", "ending", "reclaiming"}
    BY <2>1 DEF Minting
  <2> QED
    BY <1>6, <2>2 DEF MintsAt, Awaited
<1>8. refill.by = "nobody" /\ reaper.box = {}
  BY <1>5, <1>6 DEF Settled, Typed, RefillType, Awaited
<1>9. stage = "serving"
  BY <1>1, <1>8 DEF Settled, Busy, FillingIsBusy, Typed, RestType
<1>10. reaper.phase = "asleep"
  BY <1>8, ReaperStates DEF Settled, Busy, AwakeIsBusy, Typed
<1>11. reaper.wait # 0
  BY <1>9, <1>10 DEF Tick
<1>12. reaper.wait > 0
  BY <1>11, ReaperStates DEF Settled, Typed
<1> QED
  BY <1>7, <1>9, <1>10, <1>12

(* What a request decides it decides with its own age.                     *)
LEMMA DecideAges ==
    ASSUME Shapes, NEW m \in Mints, NEW ip, NEW old, Decide(m, ip, old)
    PROVE  /\ \A n \in Mints : n # m => mint'[n] = mint[n]
           /\ mint'[m] # NoMint => mint'[m].age = old
BY DEF Shapes, Decide, RateLimited, TakeWarm, Reserve, Reclaim, NoCapacity

LEMMA RequestsStep ==
    ASSUME ~DockerIsSlow, Settled, RequestsAreNew, [Next]_vars PROVE RequestsAreNew'
<1>0. Shapes
  BY DEF Settled, Shaped, IInv
<1>1. CASE UNCHANGED mint
  BY <1>1 DEF RequestsAreNew
<1>2. CASE Start \/ BeginRefill \/ RefillOne \/ RefillFails \/ Wake \/ Reaped
  BY <1>1, <1>2 DEF Start, BeginRefill, RefillOne, RefillFails, AfterRefill, Wake, Reaped
<1>3. CASE Crash
  BY <1>3 DEF Crash, RequestsAreNew
<1>4. CASE Tick
  <2>1. \A m \in Mints : mint[m] = NoMint
    BY <1>4, TickIsIdle
  <2>2. mint' = [m \in Mints |-> IF mint[m] = NoMint THEN NoMint ELSE
           [mint[m] EXCEPT !.age = Older(@, AgeCap)]]
    BY <1>4 DEF Tick
  <2> QED
    BY <2>1, <2>2 DEF RequestsAreNew
<1>5. CASE \E b \in Boxes : End(b) \/ Ended(b)
  BY <1>1, <1>5 DEF End, Ended
<1>6. CASE \E b \in Boxes, flag \in BOOLEAN : Heartbeat(b, flag) \/ Route(b, flag)
  BY <1>1, <1>6 DEF Heartbeat, Route
<1>7. ASSUME NEW m \in Mints, NEW ip \in Ips, New(m, ip) PROVE RequestsAreNew'
  BY <1>0, <1>7, DecideAges DEF New, RequestsAreNew
<1>8. ASSUME NEW m \in Mints, NEW ip \in Ips, NEW b \in Boxes, Replace(m, ip, b)
      PROVE  RequestsAreNew'
  BY <1>0, <1>8 DEF Shapes, Replace, RequestsAreNew
<1>9. ASSUME NEW m \in Mints, Replaced(m) PROVE RequestsAreNew'
  <2>1. mint[m] # NoMint
    BY <1>9, NoneIsNothing DEF Replaced
  <2>2. mint[m].age = 0 /\ Decide(m, mint[m].ip, mint[m].age)
    BY <1>9, <2>1 DEF RequestsAreNew, Replaced
  <2> QED
    BY <1>0, <2>2, DecideAges DEF RequestsAreNew
<1>10. ASSUME NEW m \in Mints, Reclaimed(m) PROVE RequestsAreNew'
  <2>1. mint[m] # NoMint
    BY <1>10, NoneIsNothing DEF Reclaimed
  <2>2. mint' = [mint EXCEPT ![m] = [at |-> "creating", ip |-> mint[m].ip, age |-> mint[m].age]]
    BY <1>10 DEF Reclaimed
  <2> QED
    BY <1>0, <2>1, <2>2 DEF Shapes, RequestsAreNew
<1>11. ASSUME NEW m \in Mints, Created(m) \/ CreateFails(m) PROVE RequestsAreNew'
  <2>1. mint' = [mint EXCEPT ![m] = NoMint]
    BY <1>11 DEF Created, CreateFails
  <2> QED
    BY <1>0, <2>1 DEF Shapes, RequestsAreNew
<1>12. CASE UNCHANGED vars
  BY <1>1, <1>12 DEF vars
<1> QED
  BY <1>2, <1>3, <1>4, <1>5, <1>6, <1>7, <1>8, <1>9, <1>10, <1>11, <1>12 DEF Next

(* Sessions leave, or arrive with the age of their request.                *)
LEMMA QuietOnTime ==
    ASSUME ReaperType, OnTime, reaper' = reaper,
           \A b \in Sessions' : \/ b \in Sessions /\ active'[b].age = active[b].age
                                \/ active'[b].age = 0
    PROVE  OnTime'
<1>1. /\ HardTTL \in Nat /\ Period \in Nat /\ reaper.wait \in Nat /\ reaper.wait =< Period
  BY BoundsAreNumbers, ReaperStates
<1> SUFFICES ASSUME NEW b \in Sessions'
             PROVE  (IF reaper.phase = "asleep" THEN active[b].age + reaper.wait =< HardTTL + Period
                     ELSE active[b].age =< HardTTL + Period /\ (Overdue(b) => b \in reaper.expired))'
  BY DEF OnTime
<1>2. CASE b \in Sessions /\ active'[b].age = active[b].age
  BY <1>2 DEF OnTime, Overdue
<1>3. CASE active'[b].age = 0
  BY <1>1, <1>3 DEF Overdue
<1> QED
  BY <1>2, <1>3

LEMMA LandsNew ==
    ASSUME Shapes, NEW b \in Boxes, NEW ip, Land(b, ip, 0)
    PROVE  \A c \in Sessions' : \/ c \in Sessions /\ active'[c].age = active[c].age
                                \/ active'[c].age = 0
<1> DEFINE s == [ip |-> ip, age |-> 0, idle |-> Min({0, IdleCap}),
                 beat |-> Min({0, BeatCap}), hidden |-> FALSE]
<1>1. s.age = 0 /\ active' = [active EXCEPT ![b] = s]
  BY DEF Land
<1> HIDE DEF s
<1> QED
  BY <1>1 DEF Shapes, Sessions

LEMMA LeavesQuietly ==
    ASSUME Shapes, active' = active \/ \E b : active' = [active EXCEPT ![b] = None]
    PROVE  \A c \in Sessions' : c \in Sessions /\ active'[c].age = active[c].age
BY DEF Shapes, Sessions

LEMMA DecideOnTime ==
    ASSUME Shaped, Apart, NEW m \in Mints, NEW ip, Decide(m, ip, 0)
    PROVE  \A c \in Sessions' : \/ c \in Sessions /\ active'[c].age = active[c].age
                                \/ active'[c].age = 0
<1>0. Shapes
  BY DEF Shaped, IInv
<1>1. CASE TakeWarm(m, ip, 0)
  <2>1. pool # <<>> /\ pool' = Tail(pool) /\ Land(Head(pool).box, ip, 0)
    BY <1>1 DEF TakeWarm, FromPool
  <2>2. Head(pool).box \in Boxes
    BY <2>1, PoolGives DEF Shaped, Apart
  <2> QED
    BY <1>0, <2>1, <2>2, LandsNew
<1>2. CASE ~TakeWarm(m, ip, 0)
  <2>1. active' = active \/ \E b : active' = [active EXCEPT ![b] = None]
    BY <1>2 DEF Decide, RateLimited, Reserve, Reclaim, NoCapacity
  <2> QED
    BY <1>0, <2>1, LeavesQuietly
<1> QED
  BY <1>1, <1>2

LEMMA TickSession ==
    ASSUME Shapes, Tick, NEW b \in Sessions
    PROVE  /\ active[b].age \in Nat /\ active'[b].age \in Nat
           /\ active'[b].age =< active[b].age + 1
<1>1. active[b] \in Session /\ active[b].age \in Nat /\ active[b].age \in 0..AgeCap
  BY DEF Shapes, Sessions, Session
<1>2. AgeCap \in Nat
  BY CapsAreNumbers
<1>3. b \in Boxes /\ active'[b] = [active[b] EXCEPT !.age = Older(@, AgeCap), !.idle = Older(@, IdleCap),
                                    !.beat = Older(@, BeatCap)]
  BY DEF Tick, Sessions
<1>4. active'[b].age = Older(active[b].age, AgeCap)
  BY <1>1, <1>3 DEF Session
<1>5. active[b].age + 1 \in Int /\ AgeCap \in Int
  BY <1>1, <1>2
<1>6. Older(active[b].age, AgeCap) =< active[b].age + 1
  BY <1>5, LeastOfTwo DEF Older
<1>7. Older(active[b].age, AgeCap) \in 0..AgeCap
  BY <1>1, <1>2, OlderIsInBounds
<1> QED
  BY <1>1, <1>4, <1>6, <1>7

LEMMA ProceedOnTime ==
    ASSUME Shapes, \A b \in Sessions : active[b].age =< HardTTL + Period,
           NEW table, NEW expired, \A b \in Sessions : Overdue(b) => b \in expired,
           NEW recycle, Proceed(table, expired, recycle)
    PROVE  OnTime'
<1> DEFINE left == expired \cap Sessions
           waits == [NoReaping EXCEPT !.phase = "refilling", !.wait = 0]
<1>0. \A b \in Sessions : active[b].age \in Nat
  BY DEF Shapes, Sessions, Session
<1>1. CASE \E b \in left :
               /\ active' = [active EXCEPT ![b] = None]
               /\ reaper' = [phase |-> "destroying", wait |-> 0, box |-> {b},
                             expired |-> left \ {b}, recycle |-> recycle]
  <2>1. PICK b \in left :
               /\ active' = [active EXCEPT ![b] = None]
               /\ reaper' = [phase |-> "destroying", wait |-> 0, box |-> {b},
                             expired |-> left \ {b}, recycle |-> recycle]
    BY <1>1
  <2>2. Sessions' = Sessions \ {b}
    BY <2>1, DroppedSession
  <2>3. \A c \in Sessions' : active'[c] = active[c]
    BY <2>1, <2>2 DEF Shapes, Sessions
  <2>4. reaper'.phase = "destroying" /\ reaper'.expired = left \ {b}
    BY <2>1
  <2> QED
    BY <2>2, <2>3, <2>4 DEF OnTime, Overdue
<1>2. CASE UNCHANGED active /\ left = {}
  <2>1. Sessions' = Sessions /\ \A b \in Sessions : active'[b].age =< HardTTL
    BY <1>0, <1>2, BoundsAreNumbers DEF Sessions, Overdue
  <2>2. HardTTL \in Nat /\ Period \in Nat
    BY BoundsAreNumbers
  <2>3. reaper'.phase # "asleep" \/ (reaper'.phase = "asleep" /\ reaper'.wait = Period)
    <3>1. \/ \E b \in recycle :
                  reaper' = [phase |-> "recycling", wait |-> 0, box |-> {b},
                             expired |-> {}, recycle |-> recycle \ {b}]
          \/ reaper' \in {NoReaping, waits}
          \/ \E b \in left : TRUE
      BY DEF Proceed
    <3>2. /\ NoReaping.phase = "asleep" /\ NoReaping.wait = Period
          /\ waits.phase = "refilling"
      BY NoReapingStates
    <3> HIDE DEF waits
    <3> QED
      BY <1>2, <3>1, <3>2
  <2>4. \A b \in Sessions : active'[b].age \in Nat
    BY <1>0, <1>2
  <2> QED
    BY <2>1, <2>2, <2>3, <2>4 DEF OnTime, Overdue
<1> QED
  BY <1>1, <1>2 DEF Proceed

LEMMA OnTimeStep ==
    ASSUME ~DockerIsSlow, Settled, RequestsAreNew, OnTime, [Next]_vars PROVE OnTime'
<1>0. Shapes /\ ReaperType /\ RefillType /\ HardTTL \in Nat /\ Period \in Nat
  BY BoundsAreNumbers DEF Settled, Shaped, IInv, Typed
<1>1. CASE UNCHANGED <<active, reaper>>
  BY <1>1 DEF OnTime, Sessions, Overdue
<1>2. CASE Start \/ BeginRefill
  BY <1>1, <1>2 DEF Start, BeginRefill
<1>3. CASE Crash
  BY <1>3 DEF Crash, OnTime, Sessions
<1>4. CASE Tick
  <2>1. reaper.phase = "asleep" /\ reaper.wait > 0 /\ stage = "serving"
    BY <1>4, TickIsIdle
  <2>2. reaper' = [reaper EXCEPT !.wait = @ - 1]
    BY <1>4, <2>1 DEF Tick
  <2>3. reaper'.phase = "asleep" /\ reaper'.wait = reaper.wait - 1 /\ reaper.wait \in Nat
    BY <1>0, <2>1, <2>2, ReaperStates DEF ReaperType, ReaperRecord
  <2>4. Sessions' = Sessions
    BY <1>0, <1>4, TickSessions
  <2>5. \A b \in Sessions : /\ active[b].age \in Nat /\ active'[b].age \in Nat
                            /\ active'[b].age =< active[b].age + 1
    BY <1>0, <1>4, TickSession
  <2>6. \A b \in Sessions : active[b].age + reaper.wait =< HardTTL + Period
    BY <2>1 DEF OnTime
  <2>7. \A b \in Sessions : active'[b].age + reaper'.wait =< HardTTL + Period
    BY <1>0, <2>3, <2>5, <2>6
  <2> QED
    BY <2>3, <2>4, <2>7 DEF OnTime
<1>5. CASE AfterRefill
  <2>1. UNCHANGED active /\ (reaper' = reaper \/ (refill.by = "reaper" /\ reaper' = NoReaping))
    BY <1>5 DEF AfterRefill
  <2>2. CASE refill.by = "reaper" /\ reaper' = NoReaping
    <3>1. reaper.phase = "refilling" /\ reaper.expired = {}
      BY <2>2 DEF Settled, ReaperHolds, Busy, AwakeIsBusy
    <3>2. \A b \in Sessions : active[b].age \in Nat /\ active[b].age =< HardTTL
      BY <1>0, <3>1 DEF OnTime, Overdue, Shapes, Sessions, Session
    <3>3. Sessions' = Sessions /\ reaper'.phase = "asleep" /\ reaper'.wait = Period
      BY <2>1, <2>2, NoReapingStates DEF Sessions
    <3> QED
      BY <1>0, <2>1, <3>2, <3>3 DEF OnTime
  <2> QED
    BY <1>1, <2>1, <2>2
<1>6. CASE Wake
  <2>1. reaper.phase = "asleep" /\ reaper.wait = 0
    BY <1>6 DEF Wake
  <2>2. \A b \in Sessions : active[b].age \in Nat /\ active[b].age =< HardTTL + Period
    BY <1>0, <2>1 DEF OnTime, Shapes, Sessions, Session
  <2>3. \A b \in Sessions : Overdue(b) => b \in Expired
    BY DEF Overdue, Expired
  <2> QED
    BY <1>0, <1>6, <2>2, <2>3, ProceedOnTime DEF Wake
<1>7. CASE Reaped
  <2>1. reaper.phase # "asleep" /\ Proceed(perIp, reaper.expired, reaper.recycle)
    BY <1>7 DEF Reaped, Settled, ReaperHolds, Reaping
  <2>2. \A b \in Sessions : /\ active[b].age =< HardTTL + Period
                            /\ Overdue(b) => b \in reaper.expired
    BY <2>1 DEF OnTime
  <2> QED
    BY <1>0, <2>1, <2>2, ProceedOnTime
<1>8. ASSUME reaper' = reaper, active' = active \/ \E b : active' = [active EXCEPT ![b] = None]
      PROVE  OnTime'
  <2>1. \A c \in Sessions' : c \in Sessions /\ active'[c].age = active[c].age
    BY <1>0, <1>8, LeavesQuietly
  <2> QED
    BY <1>0, <1>8, <2>1, QuietOnTime
<1>9. ASSUME NEW b \in Boxes, End(b) \/ Ended(b) PROVE OnTime'
  BY <1>8, <1>9 DEF End, Ended, Drop
<1>10. ASSUME NEW b \in Boxes, NEW flag \in BOOLEAN, Heartbeat(b, flag) \/ Route(b, flag)
       PROVE  OnTime'
  <2> DEFINE seen == [active[b] EXCEPT !.beat = 0, !.hidden = flag]
             routed == [active[b] EXCEPT !.beat = 0, !.idle = IF flag THEN 0 ELSE @]
  <2>1. /\ b \in Sessions /\ reaper' = reaper
        /\ active' = [active EXCEPT ![b] = seen] \/ active' = [active EXCEPT ![b] = routed]
    BY <1>10 DEF Heartbeat, Route, Routed
  <2>2. seen.age = active[b].age /\ routed.age = active[b].age
    <3>1. active[b] \in Session
      BY <1>0, <2>1 DEF Shapes, Sessions
    <3> QED
      BY <3>1 DEF Session
  <2> HIDE DEF seen, routed
  <2>3. \A c \in Sessions' : c \in Sessions /\ active'[c].age = active[c].age
    BY <1>0, <2>1, <2>2 DEF Shapes, Sessions
  <2> QED
    BY <1>0, <2>1, <2>3, QuietOnTime
<1>11. ASSUME NEW m \in Mints, NEW ip, Decide(m, ip, 0), reaper' = reaper PROVE OnTime'
  <2>1. \A c \in Sessions' : \/ c \in Sessions /\ active'[c].age = active[c].age
                             \/ active'[c].age = 0
    BY <1>11, DecideOnTime DEF Settled
  <2> QED
    BY <1>0, <1>11, <2>1, QuietOnTime
<1>12. ASSUME NEW m \in Mints, NEW ip \in Ips, New(m, ip) PROVE OnTime'
  BY <1>11, <1>12 DEF New
<1>13. ASSUME NEW m \in Mints, NEW ip \in Ips, NEW b \in Boxes, Replace(m, ip, b) PROVE OnTime'
  BY <1>8, <1>13 DEF Replace, Drop
<1>14. ASSUME NEW m \in Mints, Replaced(m) PROVE OnTime'
  <2>1. mint[m] # NoMint
    BY <1>14, NoneIsNothing DEF Replaced
  <2>2. Decide(m, mint[m].ip, 0) /\ reaper' = reaper
    BY <1>14, <2>1 DEF RequestsAreNew, Replaced
  <2> QED
    BY <1>11, <2>2
<1>15. ASSUME NEW m \in Mints, Created(m) PROVE OnTime'
  <2>1. mint[m] # NoMint
    BY <1>15, NoneIsNothing DEF Created
  <2>2. PICK b \in Fresh : Land(b, mint[m].ip, 0)
    BY <1>15, <2>1 DEF RequestsAreNew, Created
  <2>3. \A c \in Sessions' : \/ c \in Sessions /\ active'[c].age = active[c].age
                             \/ active'[c].age = 0
    BY <1>0, <2>2, LandsNew DEF Fresh
  <2> QED
    BY <1>0, <1>15, <2>3, QuietOnTime DEF Created
<1>16. ASSUME NEW m \in Mints, Reclaimed(m) \/ CreateFails(m) PROVE OnTime'
  BY <1>1, <1>16 DEF Reclaimed, CreateFails
<1>17. CASE UNCHANGED vars
  BY <1>1, <1>17 DEF vars
<1> QED
  BY <1>2, <1>3, <1>4, <1>5, <1>6, <1>7, <1>9, <1>10, <1>12, <1>13, <1>14, <1>15, <1>16, <1>17
     DEF Next, RefillOne, RefillFails

(* The pool: an entry is at most as old as the last waking left it and as  *)
(* the reaper has slept since.                                             *)
LEMMA PoolEntries ==
    ASSUME PoolShape
    PROVE  Len(pool) \in Nat /\ \A i \in 1..Len(pool) : pool[i].age \in Nat
<1>1. \A i \in 1..Len(pool) : pool[i] \in Pooled
  BY DEF PoolShape
<1> QED
  BY <1>1 DEF PoolShape, Pooled

LEMMA ProceedRests ==
    ASSUME ReaperType, NEW table, NEW expired, NEW recycle, Proceed(table, expired, recycle)
    PROVE  Rest' = Period
<1> DEFINE waits == [NoReaping EXCEPT !.phase = "refilling", !.wait = 0]
<1>1. \/ \E b : reaper' = [phase |-> "destroying", wait |-> 0, box |-> {b},
                           expired |-> (expired \cap Sessions) \ {b}, recycle |-> recycle]
      \/ \E b : reaper' = [phase |-> "recycling", wait |-> 0, box |-> {b},
                           expired |-> {}, recycle |-> recycle \ {b}]
      \/ reaper' \in {NoReaping, waits}
  BY DEF Proceed
<1>2. /\ NoReaping.phase = "asleep" /\ NoReaping.wait = Period
      /\ waits.phase = "refilling"
  BY NoReapingStates
<1> HIDE DEF waits
<1> QED
  BY <1>1, <1>2 DEF Rest

LEMMA YoungStep ==
    ASSUME ~DockerIsSlow, Settled, Young, [Next]_vars PROVE Young'
<1>0. /\ PoolShape /\ ReaperType /\ RefillType
      /\ Len(pool) \in Nat /\ \A i \in 1..Len(pool) : pool[i].age \in Nat
      /\ PoolMaxAge \in Nat /\ Period \in Nat /\ Period =< PoolMaxAge
      /\ Rest \in 0..Period
  BY PoolEntries, ReaperStates, WardenAssumption DEF Settled, Shaped, Typed
<1>1. ASSUME Rest' = Rest, pool' = pool PROVE Young'
  BY <1>1 DEF Young
<1>2. ASSUME Rest' = Rest, pool # <<>>, pool' = Tail(pool) PROVE Young'
  <2>1. Len(pool') = Len(pool) - 1 /\ \A i \in 1..(Len(pool) - 1) : pool'[i] = pool[i + 1]
    BY <1>0, <1>2 DEF PoolShape
  <2>2. \A i \in 1..Len(pool') : i + 1 \in 1..Len(pool) /\ pool'[i] = pool[i + 1]
    BY <1>0, <2>1
  <2> QED
    BY <1>2, <2>2 DEF Young
<1>3. CASE Start \/ BeginRefill
  BY <1>1, <1>3 DEF Start, BeginRefill, Rest
<1>4. CASE Crash
  <2>1. Len(pool') = 0
    BY <1>4 DEF Crash
  <2> QED
    BY <2>1 DEF Young
<1>5. CASE Tick
  <2>1. reaper.phase = "asleep" /\ reaper.wait > 0 /\ stage = "serving"
    BY <1>5, TickIsIdle
  <2>2. reaper' = [reaper EXCEPT !.wait = @ - 1]
    BY <1>5, <2>1 DEF Tick
  <2>3. Rest' = Rest - 1
    BY <1>0, <2>1, <2>2, ReaperStates DEF ReaperType, ReaperRecord, Rest
  <2> DEFINE E(i) == [pool[i] EXCEPT !.age = Older(@, PoolCap)]
  <2>4. ASSUME NEW i \in 1..Len(pool) PROVE E(i).age \in Nat /\ E(i).age =< pool[i].age + 1
    <3>1. pool[i] \in Pooled /\ pool[i].age \in Nat /\ pool[i].age + 1 \in Int
      BY <1>0 DEF PoolShape
    <3>2. PoolCap \in Nat /\ PoolCap \in Int
      BY <1>0 DEF PoolCap
    <3>3. E(i).age = Older(pool[i].age, PoolCap)
      BY <3>1 DEF Pooled
    <3>4. Older(pool[i].age, PoolCap) =< pool[i].age + 1
      BY <3>1, <3>2, LeastOfTwo DEF Older
    <3>5. Older(pool[i].age, PoolCap) \in 0..PoolCap
      BY <3>1, <3>2, OlderIsInBounds
    <3> QED
      BY <3>2, <3>3, <3>4, <3>5
  <2>5. pool' = [i \in 1..Len(pool) |-> E(i)]
    BY <1>5 DEF Tick
  <2> HIDE DEF E
  <2>6. pool' \in Seq({E(i) : i \in 1..Len(pool)})
    BY <1>0, <2>5
  <2>7. Len(pool') = Len(pool) /\ \A i \in 1..Len(pool) : pool'[i] = E(i)
    BY <1>0, <2>5, <2>6
  <2>8. \A i \in 1..Len(pool) : E(i).age + (Rest - 1) =< PoolMaxAge
    <3> SUFFICES ASSUME NEW i \in 1..Len(pool) PROVE E(i).age + (Rest - 1) =< PoolMaxAge
      OBVIOUS
    <3>1. pool[i].age + Rest =< PoolMaxAge
      BY DEF Young
    <3> QED
      BY <1>0, <2>4, <3>1
  <2> QED
    BY <2>3, <2>7, <2>8 DEF Young
<1>6. ASSUME AfterRefill PROVE Rest' = Rest
  <2>1. reaper' = reaper \/ (refill.by = "reaper" /\ reaper' = NoReaping)
    BY <1>6 DEF AfterRefill
  <2>2. CASE refill.by = "reaper" /\ reaper' = NoReaping
    <3>1. reaper.phase = "refilling"
      BY <2>2 DEF Settled, ReaperHolds
    <3> QED
      BY <2>2, <3>1, NoReapingStates DEF Rest
  <2> QED
    BY <2>1, <2>2 DEF Rest
<1>7. CASE RefillOne
  <2>1. PICK b \in Fresh : pool' = Append(pool, [box |-> b, age |-> 0])
    BY <1>7 DEF RefillOne
  <2>2. Len(pool') = Len(pool) + 1 /\ \A i \in 1..Len(pool) : pool'[i] = pool[i]
    BY <1>0, <2>1 DEF PoolShape
  <2>3. pool'[Len(pool) + 1].age = 0
    BY <1>0, <2>1 DEF PoolShape
  <2>4. Rest' = Rest
    BY <1>6, <1>7 DEF RefillOne
  <2>5. \A i \in 1..Len(pool') : i \in 1..Len(pool) \/ i = Len(pool) + 1
    BY <1>0, <2>2
  <2>6. 0 + Rest =< PoolMaxAge
    BY <1>0
  <2> QED
    BY <2>2, <2>3, <2>4, <2>5, <2>6 DEF Young
<1>8. CASE RefillFails
  BY <1>1, <1>6, <1>8 DEF RefillFails
<1>9. CASE Wake
  <2> DEFINE young == {i \in 1..Len(pool) : ~Aged(pool[i])}
  <2>1. pool' \in Picked(pool, young) /\ young \in SUBSET (1..Len(pool))
    BY <1>9 DEF Wake
  <2>2. Rest' = Period
    BY <1>0, <1>9, ProceedRests DEF Wake
  <2>3. \A k \in young : pool[k].age =< PoolMaxAge - Period /\ pool[k].age \in Nat
    BY <1>0 DEF Aged, RecycleAge
  <2> HIDE DEF young
  <2>4. \A i \in 1..Len(pool') : \E k \in young : pool'[i] = pool[k]
    <3>1. Len(pool) \in Nat /\ pool' \in Picked(pool, young) /\ young \in SUBSET (1..Len(pool))
      BY <1>0, <2>1
    <3>2. ComesFrom(pool', pool, young)
      BY <3>1, PickedApart
    <3> QED
      BY <3>2 DEF ComesFrom
  <2>5. \A i \in 1..Len(pool') : pool'[i].age =< PoolMaxAge - Period /\ pool'[i].age \in Nat
    BY <2>3, <2>4
  <2> QED
    BY <1>0, <2>2, <2>5 DEF Young
<1>10. CASE Reaped
  <2>1. reaper.phase # "asleep" /\ pool' = pool
    BY <1>10 DEF Reaped, Settled, ReaperHolds, Reaping
  <2>2. Rest = Period /\ Rest' = Period
    BY <1>0, <1>10, <2>1, ProceedRests DEF Reaped, Rest
  <2> QED
    BY <1>1, <2>1, <2>2
<1>11. ASSUME NEW b \in Boxes, End(b) \/ Ended(b) PROVE Young'
  BY <1>1, <1>11 DEF End, Ended, Rest
<1>12. ASSUME NEW b \in Boxes, NEW flag, Heartbeat(b, flag) \/ Route(b, flag) PROVE Young'
  BY <1>1, <1>12 DEF Heartbeat, Route, Rest
<1>13. ASSUME NEW m \in Mints, NEW ip, NEW old, Decide(m, ip, old), reaper' = reaper PROVE Young'
  <2>1. pool' = pool \/ (pool # <<>> /\ pool' = Tail(pool))
    BY <1>13 DEF Decide, RateLimited, TakeWarm, FromPool, Reserve, Reclaim, NoCapacity
  <2>2. Rest' = Rest
    BY <1>13 DEF Rest
  <2> QED
    BY <1>1, <1>2, <2>1, <2>2
<1>14. ASSUME NEW m \in Mints, NEW ip \in Ips, New(m, ip) \/ \E b \in Boxes : Replace(m, ip, b)
       PROVE  Young'
  BY <1>1, <1>13, <1>14 DEF New, Replace, Rest
<1>15. ASSUME NEW m \in Mints, Replaced(m) \/ Reclaimed(m) \/ Created(m) \/ CreateFails(m)
       PROVE  Young'
  BY <1>1, <1>13, <1>15 DEF Replaced, Reclaimed, Created, CreateFails, Rest
<1>16. CASE UNCHANGED vars
  BY <1>1, <1>16 DEF vars, Rest
<1> QED
  BY <1>3, <1>4, <1>5, <1>7, <1>8, <1>9, <1>10, <1>11, <1>12, <1>14, <1>15, <1>16 DEF Next

(* With a prompt docker a session is gone one REAPER_PERIOD after its hard *)
(* deadline, whatever its visitor does: no heartbeat, request or later     *)
(* waking of the reaper lets one pass (_reaper_tick).                      *)
THEOREM SessionsEnd == ASSUME ~DockerIsSlow PROVE Spec => []SessionsEndOnTime
<1>1. Init => RequestsAreNew /\ OnTime
  BY DEF Init, RequestsAreNew, OnTime, Sessions
<1>2. Settled /\ RequestsAreNew /\ OnTime /\ [Next]_vars => OnTime'
  BY OnTimeStep
<1>3. Settled /\ RequestsAreNew /\ [Next]_vars => RequestsAreNew'
  BY RequestsStep
<1>4. Settled /\ OnTime => SessionsEndOnTime
  <2> SUFFICES ASSUME Settled, OnTime, NEW b \in Sessions PROVE active[b].age =< HardTTL + Period
    BY DEF SessionsEndOnTime
  <2>1. active[b].age \in Nat
    BY DEF Settled, Shaped, IInv, Shapes, Sessions, Session
  <2> QED
    BY <2>1, ReaperStates, BoundsAreNumbers DEF OnTime, Settled, Typed
<1> QED
  BY <1>1, <1>2, <1>3, <1>4, WardenIsBusy, PTL DEF Spec, Settled

(* With a prompt docker no request is handed a container older than        *)
(* POOL_MAX_AGE: the reaper recycles one period early, and that is enough  *)
(* (_reaper_tick, constants.py).                                           *)
THEOREM AssignedAreYoung == ASSUME ~DockerIsSlow PROVE Spec => []AssignableIsYoung
<1>1. Init => Young
  <2>1. Len(<<>>) = 0
    OBVIOUS
  <2> QED
    BY <2>1 DEF Init, Young
<1>2. Settled /\ Young /\ [Next]_vars => Young'
  BY YoungStep
<1>3. Settled /\ Young => AssignableIsYoung
  <2> SUFFICES ASSUME Settled, Young, pool # <<>> PROVE Head(pool).age =< PoolMaxAge
    BY DEF AssignableIsYoung, FromPool
  <2>1. 1 \in 1..Len(pool) /\ Head(pool) = pool[1]
    BY DEF Settled, Shaped, PoolShape
  <2>2. pool[1].age \in Nat /\ pool[1].age + Rest =< PoolMaxAge
    BY <2>1, PoolEntries DEF Young, Settled, Shaped
  <2>3. Rest \in Nat /\ PoolMaxAge \in Nat
    BY ReaperStates, WardenAssumption, BoundsAreNumbers DEF Settled, Typed
  <2> QED
    BY <2>1, <2>2, <2>3
<1> QED
  BY <1>1, <1>2, <1>3, WardenIsBusy, PTL DEF Spec, Settled

==============================================================================
