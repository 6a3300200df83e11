--------------------------- MODULE JobRegistryProofs ---------------------------
(***************************************************************************)
(* What module JobRegistry says of the job cache, for every number of      *)
(* jobs, polls, routes and crashes and every size of the cache.  The size  *)
(* must not be zero where a theorem says so: with max_memory_jobs = 0 the  *)
(* registry keeps nothing and a live job is in no cache.                   *)
(***************************************************************************)
EXTENDS JobRegistry, FiniteSetTheorems, TLAPS

Statuses == {"none", "pending", "running", "ended", "lost"}
Working == {"pending", "running"}
Live(j) == [id |-> j, obj |-> "live"]
Checked == {j \in Jobs : route[j] = "checked"}
Manual == {j \in Jobs \ Scheduled : InFlight(j)}

(***************************************************************************)
(* The inductive invariant: how a job's object, its creating thread, its   *)
(* file and its entry in the cache go together.                            *)
(***************************************************************************)

(* A job exists from the moment its thread has made it; its file, from the *)
(* moment that thread is through; only its end writes the final one.       *)
JobShape ==
    \A j \in Jobs :
        /\ status[j] = "none" <=> route[j] \in {"idle", "checked"}
        /\ route[j] = "made" => status[j] = "pending"
        /\ route[j] = "cut" => status[j] = "lost"
        /\ disk[j] # "none" => route[j] = "over"
        /\ disk[j] = "ended" => status[j] \in {"ended", "lost"}
        /\ route[j] = "over" /\ j \notin unsaved => disk[j] # "none"

(* Each job is born once.                                                  *)
BornOnce ==
    /\ \A i, k \in 1..Len(born) : born[i] = born[k] => i = k
    /\ \A i \in 1..Len(born) : status[born[i]] # "none"

(* An entry is the object of a job of this process, or a copy of what the  *)
(* file still says: of a job that has ended, or of one that a crash cut.   *)
EntryShape(entry) ==
    /\ entry.obj = "live" => status[entry.id] \in {"pending", "running", "ended"}
    /\ entry.obj = "ended" => disk[entry.id] = "ended"
    /\ entry.obj = "pending" =>
           disk[entry.id] = "pending" /\ status[entry.id] = "lost" /\ crashes > 0

CacheShape == \A entry \in InCache : EntryShape(entry)

ReadingShape == \A p \in Polls : reading[p].obj = "ended" => disk[reading[p].id] = "ended"

(* What the cache is for.                                                  *)
KeepsLive == MaxMemory > 0 => \A j \in Jobs : InFlight(j) => Live(j) \in InCache

(* Requests past the check and jobs in flight share the bound.             *)
Admitted ==
    MaxMemory > 0 => Cardinality(Manual) + Cardinality(Checked) =< MaxPending + Routes - 1

Shape == JobShape /\ BornOnce /\ CacheShape /\ ReadingShape
IInv == TypeOK /\ Shape /\ KeepsLive /\ Admitted

------------------------------------------------------------------------------
(* Picking places of a sequence.                                           *)

(* The places of a finite set of numbers, counted from below: each has its *)
(* number and each number its place.                                       *)
LEMMA NthIsBijection ==
    ASSUME NEW len \in Nat, NEW S, S \subseteq 1..len
    PROVE  /\ IsFiniteSet(S) /\ Cardinality(S) \in Nat
           /\ \A n \in 1..Cardinality(S) : Nth(S, n) \in S
           /\ \A n, m \in 1..Cardinality(S) : Nth(S, n) = Nth(S, m) => n = m
           /\ \A i \in S : \E n \in 1..Cardinality(S) : Nth(S, n) = i
<1> DEFINE Upto(i) == {k \in S : k =< i}
           rank == [i \in S |-> Cardinality(Upto(i))]
           card == Cardinality(S)
<1>1. IsFiniteSet(S) /\ card \in Nat /\ \A i \in S : i \in Nat
  <2>1. IsFiniteSet(1..len)
    BY FS_Interval
  <2>2. IsFiniteSet(S)
    BY <2>1, FS_Subset
  <2> QED BY <2>2, FS_CardinalityType
<1>2. \A i \in S : IsFiniteSet(Upto(i)) /\ Cardinality(Upto(i)) \in 1..card
  <2> SUFFICES ASSUME NEW i \in S
               PROVE  IsFiniteSet(Upto(i)) /\ Cardinality(Upto(i)) \in 1..card
    OBVIOUS
  <2>1. Upto(i) \subseteq S /\ i \in Upto(i)
    OBVIOUS
  <2>2. IsFiniteSet(Upto(i)) /\ Cardinality(Upto(i)) =< card /\ Cardinality(Upto(i)) \in Nat
    BY <1>1, <2>1, FS_Subset, FS_CardinalityType
  <2>3. Cardinality(Upto(i)) # 0
    BY <2>1, <2>2, FS_EmptySet
  <2> QED BY <1>1, <2>2, <2>3
<1>3. \A i, k \in S : rank[i] = rank[k] => i = k
  <2>1. ASSUME NEW i \in S, NEW k \in S, i < k
        PROVE  rank[i] # rank[k]
    <3>1. i \in Nat /\ k \in Nat /\ k =< k /\ ~(k =< i)
      BY <1>1, <2>1
    <3>2. \A n \in Nat : n =< i => n =< k
      BY <2>1, <3>1
    <3>3. Upto(i) \subseteq Upto(k) /\ k \in Upto(k) /\ k \notin Upto(i)
      BY <1>1, <3>1, <3>2
    <3>4. Cardinality(Upto(i)) # Cardinality(Upto(k))
      BY <3>3, <1>2, FS_Subset
    <3> QED BY <3>4
  <2> QED BY <2>1
<1>4. rank \in Injection(S, 1..card)
  <2>1. rank \in [S -> 1..card]
    BY <1>2
  <2> HIDE DEF rank
  <2> QED BY <2>1, <1>3 DEF Injection, IsInjective
<1>5. rank \in Surjection(S, 1..card)
  <2>1. IsFiniteSet(1..card) /\ Cardinality(1..card) = card
    BY <1>1, FS_Interval
  <2> QED BY <2>1, <1>4, FS_Injection
<1>6. \A n \in 1..card : Nth(S, n) \in S /\ rank[Nth(S, n)] = n
  <2> SUFFICES ASSUME NEW n \in 1..card
               PROVE  Nth(S, n) \in S /\ rank[Nth(S, n)] = n
    OBVIOUS
  <2>1. \E i \in S : Cardinality({k \in S : k =< i}) = n
    BY <1>5 DEF Surjection
  <2>2. Nth(S, n) \in S /\ Cardinality({k \in S : k =< Nth(S, n)}) = n
    BY <2>1 DEF Nth
  <2> QED BY <2>2
<1>7. \A i \in S : \E n \in 1..card : Nth(S, n) = i
  BY <1>2, <1>3, <1>6
<1> QED BY <1>1, <1>6, <1>7

(* What is picked from a sequence: nothing else, all of it, nothing twice. *)
LEMMA PickedPlaces ==
    ASSUME NEW X, NEW seq \in Seq(X), NEW S \in SUBSET (1..Len(seq))
    PROVE  /\ Picked(seq, S) \in Seq(X)
           /\ \A n \in 1..Len(Picked(seq, S)) :
                  Nth(S, n) \in S /\ Picked(seq, S)[n] = seq[Nth(S, n)]
           /\ \A n, m \in 1..Len(Picked(seq, S)) : Nth(S, n) = Nth(S, m) => n = m
           /\ \A i \in S : \E n \in 1..Len(Picked(seq, S)) : Picked(seq, S)[n] = seq[i]
<1> DEFINE card == Cardinality(S)
<1>1. Len(seq) \in Nat
  OBVIOUS
<1>2. /\ card \in Nat
      /\ \A n \in 1..card : Nth(S, n) \in S
      /\ \A n, m \in 1..card : Nth(S, n) = Nth(S, m) => n = m
      /\ \A i \in S : \E n \in 1..card : Nth(S, n) = i
  BY <1>1, NthIsBijection
<1>3. Picked(seq, S) = [n \in 1..card |-> seq[Nth(S, n)]]
  BY DEF Picked
<1>4. \A n \in 1..card : seq[Nth(S, n)] \in X
  <2>1. \A i \in 1..Len(seq) : seq[i] \in X
    OBVIOUS
  <2>2. \A n \in 1..card : Nth(S, n) \in 1..Len(seq)
    BY <1>2
  <2> QED BY <2>1, <2>2
<1> HIDE DEF card
<1>5. Picked(seq, S) \in Seq(X) /\ Len(Picked(seq, S)) = card
  BY <1>2, <1>3, <1>4
<1> QED BY <1>2, <1>3, <1>5

------------------------------------------------------------------------------
(* The cache.                                                              *)

Members(c) == {c[i] : i \in 1..Len(c)}
Unique(c) == \A i, k \in 1..Len(c) : c[i].id = c[k].id => i = k

LEMMA PickedUnique ==
    ASSUME NEW c \in Seq(Entries), Unique(c), NEW S, S \subseteq 1..Len(c)
    PROVE  /\ Picked(c, S) \in Seq(Entries)
           /\ Unique(Picked(c, S))
           /\ Members(Picked(c, S)) = {c[i] : i \in S}
<1> DEFINE d == Picked(c, S)
<1>1. /\ d \in Seq(Entries)
      /\ \A n \in 1..Len(d) : Nth(S, n) \in S /\ d[n] = c[Nth(S, n)]
      /\ \A n, m \in 1..Len(d) : Nth(S, n) = Nth(S, m) => n = m
      /\ \A i \in S : \E n \in 1..Len(d) : d[n] = c[i]
  <2>1. S \in SUBSET (1..Len(c))
    OBVIOUS
  <2> QED BY <2>1, PickedPlaces
<1> HIDE DEF d
<1>2. Unique(d)
  <2> SUFFICES ASSUME NEW i \in 1..Len(d), NEW k \in 1..Len(d), d[i].id = d[k].id
               PROVE  i = k
    BY DEF Unique
  <2>1. d[i] = c[Nth(S, i)] /\ d[k] = c[Nth(S, k)]
    BY <1>1
  <2>2. Nth(S, i) \in 1..Len(c) /\ Nth(S, k) \in 1..Len(c)
    BY <1>1
  <2>3. Nth(S, i) = Nth(S, k)
    BY <2>1, <2>2 DEF Unique
  <2> QED BY <1>1, <2>3
<1>3. Members(d) = {c[i] : i \in S}
  <2>1. \A n \in 1..Len(d) : d[n] \in {c[i] : i \in S}
    BY <1>1
  <2>2. \A i \in S : c[i] \in Members(d)
    BY <1>1 DEF Members
  <2> QED BY <2>1, <2>2 DEF Members
<1> QED BY <1>1, <1>2, <1>3 DEF d

LEMMA AppendUnique ==
    ASSUME NEW c \in Seq(Entries), Unique(c), NEW entry \in Entries,
           \A e \in Members(c) : e.id # entry.id
    PROVE  /\ Append(c, entry) \in Seq(Entries)
           /\ Unique(Append(c, entry))
           /\ Members(Append(c, entry)) = Members(c) \cup {entry}
<1> DEFINE d == Append(c, entry)
<1>1. /\ d \in Seq(Entries) /\ Len(d) = Len(c) + 1 /\ Len(c) \in Nat
      /\ d[Len(d)] = entry
      /\ \A i \in 1..Len(c) : d[i] = c[i]
  OBVIOUS
<1> HIDE DEF d
<1>2. \A i \in 1..Len(d) : i \in 1..Len(c) \/ i = Len(d)
  BY <1>1
<1>3. \A i \in 1..Len(c) : c[i].id # entry.id
  BY DEF Members
<1>4. Unique(d)
  BY <1>1, <1>2, <1>3 DEF Unique
<1>5. Members(d) = Members(c) \cup {entry}
  BY <1>1, <1>2 DEF Members
<1> QED BY <1>1, <1>4, <1>5 DEF d

LEMMA WithoutUnique ==
    ASSUME NEW c \in Seq(Entries), Unique(c), NEW j
    PROVE  /\ Without(c, j) \in Seq(Entries)
           /\ Unique(Without(c, j))
           /\ Members(Without(c, j)) = {e \in Members(c) : e.id # j}
<1> DEFINE S == {i \in 1..Len(c) : c[i].id # j}
<1>1. /\ Picked(c, S) \in Seq(Entries) /\ Unique(Picked(c, S))
      /\ Members(Picked(c, S)) = {c[i] : i \in S}
  BY PickedUnique
<1>2. {c[i] : i \in S} = {e \in Members(c) : e.id # j}
  BY DEF Members
<1> QED BY <1>1, <1>2 DEF Without

(* Eviction takes nothing that has not ended.                              *)
LEMMA EvictUnique ==
    ASSUME NEW c \in Seq(Entries), Unique(c)
    PROVE  /\ Evict(c) \in Seq(Entries)
           /\ Unique(Evict(c))
           /\ Members(Evict(c)) \subseteq Members(c)
           /\ \A e \in Members(c) : ~IsEnded(e) => e \in Members(Evict(c))
<1> DEFINE ended == {i \in 1..Len(c) : IsEnded(c[i])}
           S == {i \in 1..Len(c) :
                   i \in ended => Cardinality({k \in ended : k =< i}) > Len(c) - MaxMemory}
<1>1. Evict(c) = Picked(c, S)
  BY DEF Evict
<1>2. S \subseteq 1..Len(c) /\ \A i \in 1..Len(c) : ~IsEnded(c[i]) => i \in S
  OBVIOUS
<1> HIDE DEF S
<1>3. /\ Picked(c, S) \in Seq(Entries) /\ Unique(Picked(c, S))
      /\ Members(Picked(c, S)) = {c[i] : i \in S}
  BY <1>2, PickedUnique
<1>4. {c[i] : i \in S} \subseteq Members(c)
  BY <1>2 DEF Members
<1>5. \A e \in Members(c) : ~IsEnded(e) => e \in {c[i] : i \in S}
  BY <1>2 DEF Members
<1> QED BY <1>1, <1>3, <1>4, <1>5

(* __setitem__ adds no other entry than its own, and loses none of another *)
(* job that has not ended.                                                 *)
LEMMA PutUnique ==
    ASSUME cache \in Seq(Entries), Unique(cache), NEW entry \in Entries, Put(entry)
    PROVE  /\ cache' \in Seq(Entries)
           /\ Unique(cache')
           /\ Members(cache') \subseteq Members(cache) \cup {entry}
           /\ MaxMemory # 0 =>
                /\ \A e \in Members(cache) :
                       e.id # entry.id /\ ~IsEnded(e) => e \in Members(cache')
                /\ ~IsEnded(entry) => entry \in Members(cache')
<1>1. CASE MaxMemory = 0
  BY <1>1 DEF Put
<1>2. CASE MaxMemory # 0 /\ Resident(entry.id)
  <2> DEFINE c == Without(cache, entry.id)
  <2>1. /\ c \in Seq(Entries) /\ Unique(c)
        /\ Members(c) = {e \in Members(cache) : e.id # entry.id}
    BY WithoutUnique
  <2>2. cache' = Append(c, entry)
    BY <1>2 DEF Put
  <2> HIDE DEF c
  <2>3. /\ Append(c, entry) \in Seq(Entries) /\ Unique(Append(c, entry))
        /\ Members(Append(c, entry)) = Members(c) \cup {entry}
    BY <2>1, AppendUnique
  <2> QED BY <2>1, <2>2, <2>3
<1>3. CASE MaxMemory # 0 /\ ~Resident(entry.id)
  <2> DEFINE c == Append(cache, entry)
  <2>1. \A e \in Members(cache) : e.id # entry.id
    BY <1>3 DEF Resident, Members
  <2>2. c \in Seq(Entries) /\ Unique(c) /\ Members(c) = Members(cache) \cup {entry}
    BY <2>1, AppendUnique
  <2>3. cache' = Evict(c)
    BY <1>3 DEF Put
  <2> HIDE DEF c
  <2>4. /\ Evict(c) \in Seq(Entries) /\ Unique(Evict(c))
        /\ Members(Evict(c)) \subseteq Members(c)
        /\ \A e \in Members(c) : ~IsEnded(e) => e \in Members(Evict(c))
    BY <2>2, EvictUnique
  <2> QED BY <2>2, <2>3, <2>4
<1> QED BY <1>1, <1>2, <1>3

------------------------------------------------------------------------------
(* Types.                                                                  *)

LEMMA InitInv == Init => IInv
<1> SUFFICES ASSUME Init PROVE IInv
  OBVIOUS
<1> USE RegistryAssumption
<1>1. TypeOK
  BY DEF Init, TypeOK
<1>2. Shape
  BY DEF Init, Shape, JobShape, BornOnce, CacheShape, InCache, ReadingShape, Nothing
<1>3. KeepsLive
  BY DEF Init, KeepsLive, InFlight
<1>4. Admitted
  <2>1. Manual = {} /\ Checked = {}
    BY DEF Init, Manual, Checked, InFlight
  <2>2. Cardinality(Manual) = 0 /\ Cardinality(Checked) = 0
    BY <2>1, FS_EmptySet
  <2> QED BY <2>2 DEF Admitted
<1> QED BY <1>1, <1>2, <1>3, <1>4 DEF IInv

(* Put, from the point of view of the invariant.                           *)
LEMMA PutType ==
    ASSUME TypeOK, NEW entry \in Entries, Put(entry)
    PROVE  /\ cache' \in Seq(Entries)
           /\ \A i, k \in 1..Len(cache') : cache'[i].id = cache'[k].id => i = k
           /\ \A i \in 1..Len(cache') : cache'[i] = entry \/ \E k \in 1..Len(cache) : cache'[i] = cache[k]
<1>1. cache \in Seq(Entries) /\ Unique(cache)
  BY DEF TypeOK, Unique
<1>2. /\ cache' \in Seq(Entries) /\ Unique(cache')
      /\ Members(cache') \subseteq Members(cache) \cup {entry}
  BY <1>1, PutUnique
<1> QED BY <1>2 DEF Unique, Members

LEMMA PutKeeps ==
    ASSUME TypeOK, NEW entry \in Entries, Put(entry), MaxMemory > 0
    PROVE  /\ \A e \in InCache : e.id # entry.id /\ ~IsEnded(e) => e \in InCache'
           /\ ~IsEnded(entry) => entry \in InCache'
<1>1. cache \in Seq(Entries) /\ Unique(cache) /\ MaxMemory # 0
  BY RegistryAssumption DEF TypeOK, Unique
<1>2. /\ \A e \in Members(cache) :
             e.id # entry.id /\ ~IsEnded(e) => e \in Members(cache')
      /\ ~IsEnded(entry) => entry \in Members(cache')
  BY <1>1, PutUnique
<1>3. InCache = Members(cache) /\ InCache' = Members(cache')
  BY DEF InCache, Members
<1> QED BY <1>2, <1>3

(* A hit moves its entry to the end and leaves the others as they are.     *)
LEMMA PollHitsType ==
    ASSUME TypeOK, NEW j \in Jobs, NEW p \in Polls, PollHits(p, j)
    PROVE  /\ cache' \in Seq(Entries)
           /\ \A i, k \in 1..Len(cache') : cache'[i].id = cache'[k].id => i = k
           /\ InCache' = InCache
<1>1. cache \in Seq(Entries) /\ Unique(cache)
  BY DEF TypeOK, Unique
<1>2. PICK i \in 1..Len(cache) : cache[i].id = j /\ cache' = Append(Without(cache, j), cache[i])
  BY DEF PollHits
<1>3. cache[i] \in Entries
  BY <1>1
<1> DEFINE c == Without(cache, j)
<1>4. c \in Seq(Entries) /\ Unique(c) /\ Members(c) = {e \in Members(cache) : e.id # j}
  BY <1>1, WithoutUnique
<1>5. cache' = Append(c, cache[i])
  BY <1>2
<1> HIDE DEF c
<1>6. /\ cache' \in Seq(Entries) /\ Unique(cache')
      /\ Members(cache') = Members(c) \cup {cache[i]}
  BY <1>2, <1>3, <1>4, <1>5, AppendUnique
<1>7. Members(cache') = Members(cache)
  <2>1. \A e \in Members(cache) : e.id = j => e = cache[i]
    BY <1>1, <1>2 DEF Members, Unique
  <2>2. cache[i] \in Members(cache)
    BY <1>2 DEF Members
  <2> QED BY <1>4, <1>6, <2>1, <2>2
<1>8. InCache = Members(cache) /\ InCache' = Members(cache')
  BY DEF InCache, Members
<1> QED BY <1>6, <1>7, <1>8 DEF Unique

(* A warm start loads each job with a file at most once.                   *)
LEMMA NewestOnce ==
    ASSUME TypeOK, BornOnce
    PROVE  /\ Newest \in Seq(Jobs)
           /\ \A i, k \in 1..Len(Newest) : Newest[i] = Newest[k] => i = k
           /\ \A i \in 1..Len(Newest) : disk[Newest[i]] # "none"
<1> DEFINE S == {i \in 1..Len(born) : disk[born[i]] # "none"}
           on == OnDisk
<1>1. S \in SUBSET (1..Len(born)) /\ born \in Seq(Jobs) /\ MaxMemory \in Nat
  BY RegistryAssumption DEF TypeOK
<1>2. on = Picked(born, S) /\ \A i \in S : disk[born[i]] # "none"
  BY DEF OnDisk
<1> HIDE DEF S, on
<1>3. /\ on \in Seq(Jobs)
      /\ \A n \in 1..Len(on) : Nth(S, n) \in S /\ on[n] = born[Nth(S, n)]
      /\ \A n, m \in 1..Len(on) : Nth(S, n) = Nth(S, m) => n = m
  BY <1>1, <1>2, PickedPlaces
<1>4. \A n, m \in 1..Len(on) : on[n] = on[m] => n = m
  BY <1>1, <1>3 DEF BornOnce
<1>5. \A n \in 1..Len(on) : disk[on[n]] # "none"
  BY <1>2, <1>3
<1>6. CASE Len(on) =< MaxMemory
  <2>1. Newest = on
    BY <1>6 DEF Newest, on
  <2> QED BY <2>1, <1>3, <1>4, <1>5
<1>7. CASE ~(Len(on) =< MaxMemory)
  <2> DEFINE first == Len(on) - MaxMemory + 1
  <2>1. Newest = SubSeq(on, first, Len(on))
    BY <1>7 DEF Newest, on
  <2>2. Len(on) \in Nat /\ first \in 1..(Len(on) + 1)
    BY <1>1, <1>3, <1>7
  <2> HIDE DEF first
  <2>3. /\ Newest \in Seq(Jobs) /\ Len(Newest) = Len(on) - first + 1
        /\ \A i \in 1..Len(Newest) : Newest[i] = on[first + i - 1]
    BY <2>1, <2>2, <1>3
  <2>4. \A i \in 1..Len(Newest) : first + i - 1 \in 1..Len(on)
    BY <2>2, <2>3
  <2>5. ASSUME NEW i \in 1..Len(Newest), NEW k \in 1..Len(Newest), Newest[i] = Newest[k]
        PROVE  i = k
    <3>1. on[first + i - 1] = on[first + k - 1]
      BY <2>3, <2>5
    <3>2. first + i - 1 = first + k - 1
      BY <3>1, <2>4, <1>4
    <3> QED BY <3>2, <2>2, <2>3
  <2>6. \A i \in 1..Len(Newest) : disk[Newest[i]] # "none"
    BY <2>3, <2>4, <1>5
  <2> QED BY <2>3, <2>5, <2>6
<1> QED BY <1>6, <1>7

LEMMA TypeStep ==
    ASSUME TypeOK, BornOnce, Next
    PROVE  TypeOK'
<1> USE RegistryAssumption
<1>1. ASSUME NEW j \in Jobs, CheckIntake(j) PROVE TypeOK'
  BY <1>1 DEF CheckIntake, TypeOK
<1>2. ASSUME NEW j \in Jobs, Refuse(j) PROVE TypeOK'
  BY <1>2 DEF Refuse, TypeOK
<1>3. ASSUME NEW j \in Jobs, Create(j) PROVE TypeOK'
  <2>1. Live(j) \in Entries
    BY DEF Live, Entries
  <2>2. /\ cache' \in Seq(Entries)
        /\ \A i, k \in 1..Len(cache') : cache'[i].id = cache'[k].id => i = k
    BY <1>3, <2>1, PutType DEF Create, Live
  <2>3. born' \in Seq(Jobs)
    BY <1>3 DEF Create, TypeOK
  <2> QED BY <1>3, <2>2, <2>3 DEF Create, TypeOK
<1>4. ASSUME NEW j \in Jobs, SaveAndSubmit(j) PROVE TypeOK'
  BY <1>4 DEF SaveAndSubmit, Saved, TypeOK
<1>5. ASSUME NEW j \in Jobs, RunBegins(j) PROVE TypeOK'
  BY <1>5 DEF RunBegins, TypeOK
<1>6. ASSUME NEW j \in Jobs, RunEnds(j) PROVE TypeOK'
  BY <1>6 DEF RunEnds, TypeOK
<1>7. ASSUME NEW j \in Jobs, SaveEnd(j) PROVE TypeOK'
  BY <1>7 DEF SaveEnd, Saved, TypeOK
<1>8. ASSUME NEW j \in Jobs, NEW p \in Polls, PollHits(p, j) PROVE TypeOK'
  <2>1. /\ cache' \in Seq(Entries)
        /\ \A i, k \in 1..Len(cache') : cache'[i].id = cache'[k].id => i = k
    BY <1>8, PollHitsType
  <2> QED BY <1>8, <2>1 DEF PollHits, TypeOK
<1>9. ASSUME NEW j \in Jobs, NEW p \in Polls, PollMisses(p, j) PROVE TypeOK'
  <2>1. [id |-> j, obj |-> disk[j]] \in Entries
    BY <1>9 DEF PollMisses, Entries, TypeOK
  <2> QED BY <1>9, <2>1 DEF PollMisses, TypeOK
<1>10. ASSUME NEW j \in Jobs, NEW p \in Polls, PollFindsNothing(p, j) PROVE TypeOK'
  BY <1>10 DEF PollFindsNothing, TypeOK, vars
<1>11. ASSUME NEW p \in Polls, PollEnds(p) PROVE TypeOK'
  <2>1. reading[p] \in Entries /\ reading' \in [Polls -> Entries \cup {Nothing}]
    BY <1>11 DEF PollEnds, TypeOK
  <2>2. /\ cache' \in Seq(Entries)
        /\ \A i, k \in 1..Len(cache') : cache'[i].id = cache'[k].id => i = k
    <3>1. CASE reading[p].obj = "ended"
      BY <1>11, <2>1, <3>1, PutType DEF PollEnds
    <3>2. CASE reading[p].obj # "ended"
      BY <1>11, <3>2 DEF PollEnds, TypeOK
    <3> QED BY <3>1, <3>2
  <2> QED BY <1>11, <2>1, <2>2 DEF PollEnds, TypeOK
<1>12. CASE Crash
  <2>1. /\ Newest \in Seq(Jobs)
        /\ \A i, k \in 1..Len(Newest) : Newest[i] = Newest[k] => i = k
        /\ \A i \in 1..Len(Newest) : disk[Newest[i]] # "none"
    BY NewestOnce
  <2>2. cache' = [i \in 1..Len(Newest) |-> [id |-> Newest[i], obj |-> disk[Newest[i]]]]
    BY <1>12 DEF Crash
  <2>3. \A i \in 1..Len(Newest) : [id |-> Newest[i], obj |-> disk[Newest[i]]] \in Entries
    BY <2>1 DEF Entries, TypeOK
  <2>4. cache' \in Seq(Entries) /\ Len(cache') = Len(Newest)
    BY <2>1, <2>2, <2>3
  <2>5. \A i, k \in 1..Len(cache') : cache'[i].id = cache'[k].id => i = k
    BY <2>1, <2>2, <2>4
  <2>6. /\ status' \in [Jobs -> Statuses]
        /\ route' \in [Jobs -> {"idle", "checked", "made", "over", "cut"}]
    BY <1>12 DEF Crash, TypeOK, Statuses
  <2>7. reading' \in [Polls -> Entries \cup {Nothing}] /\ crashes' \in 0..MaxCrashes
    BY <1>12 DEF Crash, TypeOK
  <2> QED BY <1>12, <2>4, <2>5, <2>6, <2>7 DEF Crash, TypeOK, Statuses
<1> QED BY <1>1, <1>2, <1>3, <1>4, <1>5, <1>6, <1>7, <1>8, <1>9, <1>10, <1>11, <1>12 DEF Next

------------------------------------------------------------------------------
(* How the parts of the state move together.                               *)

LEMMA JobShapeStep ==
    ASSUME TypeOK, JobShape, Next
    PROVE  JobShape'
<1> USE DEF TypeOK, JobShape
<1>1. ASSUME NEW j \in Jobs, CheckIntake(j) PROVE JobShape'
  BY <1>1 DEF CheckIntake
<1>2. ASSUME NEW j \in Jobs, Refuse(j) PROVE JobShape'
  BY <1>2 DEF Refuse
<1>3. ASSUME NEW j \in Jobs, Create(j) PROVE JobShape'
  BY <1>3 DEF Create
<1>4. ASSUME NEW j \in Jobs, SaveAndSubmit(j) PROVE JobShape'
  BY <1>4 DEF SaveAndSubmit, Saved
<1>5. ASSUME NEW j \in Jobs, RunBegins(j) PROVE JobShape'
  BY <1>5 DEF RunBegins
<1>6. ASSUME NEW j \in Jobs, RunEnds(j) PROVE JobShape'
  BY <1>6 DEF RunEnds
<1>7. ASSUME NEW j \in Jobs, SaveEnd(j) PROVE JobShape'
  BY <1>7 DEF SaveEnd, Saved
<1>8. ASSUME NEW j \in Jobs, NEW p \in Polls, PollHits(p, j) PROVE JobShape'
  BY <1>8 DEF PollHits
<1>9. ASSUME NEW j \in Jobs, NEW p \in Polls, PollMisses(p, j) PROVE JobShape'
  BY <1>9 DEF PollMisses
<1>10. ASSUME NEW j \in Jobs, NEW p \in Polls, PollFindsNothing(p, j) PROVE JobShape'
  BY <1>10 DEF PollFindsNothing, vars
<1>11. ASSUME NEW p \in Polls, PollEnds(p) PROVE JobShape'
  BY <1>11 DEF PollEnds
<1>12. CASE Crash
  BY <1>12 DEF Crash
<1> QED BY <1>1, <1>2, <1>3, <1>4, <1>5, <1>6, <1>7, <1>8, <1>9, <1>10, <1>11, <1>12 DEF Next

LEMMA BornStep ==
    ASSUME TypeOK, JobShape, BornOnce, Next
    PROVE  BornOnce'
<1>1. CASE UNCHANGED born /\ \A j \in Jobs : status[j] # "none" => status'[j] # "none"
  BY <1>1 DEF TypeOK, BornOnce
<1>2. ASSUME NEW j \in Jobs, Create(j) PROVE BornOnce'
  <2>1. /\ born \in Seq(Jobs) /\ born' = Append(born, j)
        /\ status[j] = "none" /\ status' = [status EXCEPT ![j] = "pending"]
    BY <1>2 DEF Create, JobShape, TypeOK
  <2>2. /\ Len(born') = Len(born) + 1 /\ Len(born) \in Nat /\ born'[Len(born')] = j
        /\ \A i \in 1..Len(born) : born'[i] = born[i] /\ born[i] \in Jobs
    BY <2>1
  <2>3. \A i \in 1..Len(born') : i \in 1..Len(born) \/ i = Len(born')
    BY <2>2
  <2>4. \A i \in 1..Len(born) : born[i] # j
    BY <2>1 DEF BornOnce
  <2>5. \A i, k \in 1..Len(born') : born'[i] = born'[k] => i = k
    BY <2>2, <2>3, <2>4 DEF BornOnce
  <2>6. \A i \in 1..Len(born') : status'[born'[i]] # "none"
    BY <2>1, <2>2, <2>3, <2>4 DEF BornOnce, TypeOK
  <2> QED BY <2>5, <2>6 DEF BornOnce
<1>3. ASSUME NEW j \in Jobs,
             \/ CheckIntake(j) \/ Refuse(j) \/ SaveAndSubmit(j)
             \/ RunBegins(j) \/ RunEnds(j) \/ SaveEnd(j)
      PROVE  UNCHANGED born /\ \A k \in Jobs : status[k] # "none" => status'[k] # "none"
  BY <1>3 DEF CheckIntake, Refuse, SaveAndSubmit, RunBegins, RunEnds, SaveEnd, TypeOK
<1>4. ASSUME NEW p \in Polls,
             \/ PollEnds(p)
             \/ \E j \in Jobs : PollHits(p, j) \/ PollMisses(p, j) \/ PollFindsNothing(p, j)
      PROVE  UNCHANGED born /\ \A k \in Jobs : status[k] # "none" => status'[k] # "none"
  BY <1>4 DEF PollEnds, PollHits, PollMisses, PollFindsNothing, vars
<1>5. CASE Crash
  BY <1>1, <1>5 DEF Crash, TypeOK
<1> QED BY <1>1, <1>2, <1>3, <1>4, <1>5 DEF Next

(* What an entry says stays true of it, as long as the process lives.      *)
LEMMA EntryStays ==
    ASSUME TypeOK, JobShape, Next, crashes' = crashes, NEW entry \in Entries, EntryShape(entry)
    PROVE  EntryShape(entry)'
<1> DEFINE id == entry.id
<1>1. id \in Jobs
  BY DEF Entries
<1> USE DEF TypeOK, EntryShape
<1>2. ASSUME NEW j \in Jobs,
             \/ CheckIntake(j) \/ Refuse(j) \/ RunBegins(j) \/ RunEnds(j)
      PROVE  EntryShape(entry)'
  BY <1>1, <1>2 DEF CheckIntake, Refuse, RunBegins, RunEnds
<1>3. ASSUME NEW j \in Jobs, Create(j) PROVE EntryShape(entry)'
  BY <1>1, <1>3 DEF Create, JobShape
<1>4. ASSUME NEW j \in Jobs, SaveAndSubmit(j) PROVE EntryShape(entry)'
  BY <1>1, <1>4 DEF SaveAndSubmit, Saved, JobShape
<1>5. ASSUME NEW j \in Jobs, SaveEnd(j) PROVE EntryShape(entry)'
  BY <1>1, <1>5 DEF SaveEnd, Saved, JobShape
<1>6. ASSUME NEW p \in Polls,
             \/ PollEnds(p)
             \/ \E j \in Jobs : PollHits(p, j) \/ PollMisses(p, j) \/ PollFindsNothing(p, j)
      PROVE  EntryShape(entry)'
  BY <1>6 DEF PollEnds, PollHits, PollMisses, PollFindsNothing, vars
<1>7. CASE Crash
  BY <1>7 DEF Crash
<1> QED BY <1>2, <1>3, <1>4, <1>5, <1>6, <1>7 DEF Next

LEMMA ReadingStep ==
    ASSUME TypeOK, JobShape, ReadingShape, Next
    PROVE  ReadingShape'
<1> USE DEF TypeOK, ReadingShape
<1>1. ASSUME NEW j \in Jobs,
             \/ CheckIntake(j) \/ Refuse(j) \/ RunBegins(j) \/ RunEnds(j) \/ Create(j)
      PROVE  ReadingShape'
  BY <1>1 DEF CheckIntake, Refuse, RunBegins, RunEnds, Create
<1>2. ASSUME NEW j \in Jobs, SaveAndSubmit(j) PROVE ReadingShape'
  <2> SUFFICES ASSUME NEW p \in Polls, reading[p].obj = "ended"
               PROVE  disk'[reading[p].id] = "ended"
    BY <1>2 DEF SaveAndSubmit
  <2>1. reading[p] \in Entries /\ reading[p].id \in Jobs /\ disk[reading[p].id] = "ended"
    BY DEF Entries, Nothing
  <2>2. reading[p].id # j
    BY <1>2, <2>1 DEF SaveAndSubmit, JobShape
  <2> QED BY <1>2, <2>1, <2>2 DEF SaveAndSubmit, Saved
<1>3. ASSUME NEW j \in Jobs, SaveEnd(j) PROVE ReadingShape'
  <2> SUFFICES ASSUME NEW p \in Polls, reading[p].obj = "ended"
               PROVE  disk'[reading[p].id] = "ended"
    BY <1>3 DEF SaveEnd
  <2>1. reading[p] \in Entries /\ reading[p].id \in Jobs
    BY DEF Entries, Nothing
  <2> QED BY <1>3, <2>1 DEF SaveEnd, Saved
<1>4. ASSUME NEW j \in Jobs, NEW p \in Polls, PollMisses(p, j) PROVE ReadingShape'
  <2> SUFFICES ASSUME NEW q \in Polls, reading'[q].obj = "ended"
               PROVE  disk[reading'[q].id] = "ended"
    BY <1>4 DEF PollMisses
  <2> QED BY <1>4 DEF PollMisses
<1>5. ASSUME NEW p \in Polls, PollEnds(p) PROVE ReadingShape'
  <2> SUFFICES ASSUME NEW q \in Polls, reading'[q].obj = "ended"
               PROVE  disk[reading'[q].id] = "ended"
    BY <1>5 DEF PollEnds
  <2> QED BY <1>5 DEF PollEnds, Nothing
<1>6. ASSUME NEW p \in Polls, \E j \in Jobs : PollHits(p, j) \/ PollFindsNothing(p, j)
      PROVE  ReadingShape'
  BY <1>6 DEF PollHits, PollFindsNothing, vars
<1>7. CASE Crash
  BY <1>7 DEF Crash, Nothing
<1> QED BY <1>1, <1>2, <1>3, <1>4, <1>5, <1>6, <1>7 DEF Next

LEMMA CacheStep ==
    ASSUME TypeOK, JobShape, BornOnce, CacheShape, ReadingShape, Next
    PROVE  CacheShape'
<1>1. InCache \subseteq Entries
  BY DEF InCache, TypeOK
<1>2. CASE crashes' = crashes /\ InCache' \subseteq InCache
  BY <1>1, <1>2, EntryStays DEF CacheShape
<1>3. ASSUME NEW entry \in Entries, Put(entry), crashes' = crashes, EntryShape(entry)'
      PROVE  CacheShape'
  <2>1. InCache' \subseteq InCache \cup {entry}
    BY <1>3, PutType DEF InCache
  <2> QED BY <1>1, <1>3, <2>1, EntryStays DEF CacheShape
<1>4. ASSUME NEW j \in Jobs, Create(j) PROVE CacheShape'
  <2>1. Live(j) \in Entries /\ Put(Live(j)) /\ crashes' = crashes
    BY <1>4 DEF Create, Live, Entries
  <2>2. EntryShape(Live(j))'
    BY <1>4 DEF Create, Live, EntryShape, TypeOK
  <2> QED BY <1>3, <2>1, <2>2
<1>5. ASSUME NEW p \in Polls, PollEnds(p) PROVE CacheShape'
  <2>1. CASE reading[p].obj = "ended"
    <3>1. PICK entry \in Entries : entry = reading[p]
      BY <2>1 DEF TypeOK, Nothing
    <3>2. Put(entry) /\ crashes' = crashes
      BY <1>5, <2>1, <3>1 DEF PollEnds
    <3>3. disk'[entry.id] = "ended" /\ entry.obj = "ended"
      BY <1>5, <2>1, <3>1 DEF PollEnds, ReadingShape
    <3>4. EntryShape(entry)'
      BY <3>3 DEF EntryShape
    <3> QED BY <1>3, <3>2, <3>4
  <2>2. CASE reading[p].obj # "ended"
    BY <1>2, <1>5, <2>2 DEF PollEnds, InCache
  <2> QED BY <2>1, <2>2
<1>6. ASSUME NEW j \in Jobs, NEW p \in Polls, PollHits(p, j) PROVE CacheShape'
  BY <1>2, <1>6, PollHitsType DEF PollHits
<1>7. ASSUME NEW j \in Jobs,
             \/ CheckIntake(j) \/ Refuse(j) \/ SaveAndSubmit(j)
             \/ RunBegins(j) \/ RunEnds(j) \/ SaveEnd(j)
      PROVE  CacheShape'
  BY <1>2, <1>7 DEF CheckIntake, Refuse, SaveAndSubmit, RunBegins, RunEnds, SaveEnd, InCache
<1>8. ASSUME NEW p \in Polls, NEW j \in Jobs, PollMisses(p, j) \/ PollFindsNothing(p, j)
      PROVE  CacheShape'
  BY <1>2, <1>8 DEF PollMisses, PollFindsNothing, vars, InCache
<1>9. CASE Crash
  <2>1. /\ Newest \in Seq(Jobs)
        /\ \A i \in 1..Len(Newest) : disk[Newest[i]] # "none"
    BY NewestOnce
  <2>2. cache' = [i \in 1..Len(Newest) |-> [id |-> Newest[i], obj |-> disk[Newest[i]]]]
    BY <1>9 DEF Crash
  <2>3. /\ status' = [j \in Jobs |-> IF status[j] = "none" THEN "none" ELSE "lost"]
        /\ crashes' = crashes + 1 /\ disk' = disk
    BY <1>9 DEF Crash
  <2>4. Len(cache') = Len(Newest)
    BY <2>1, <2>2
  <2>5. ASSUME NEW entry \in InCache' PROVE EntryShape(entry)'
    <3>1. PICK i \in 1..Len(cache') : entry = cache'[i]
      BY DEF InCache
    <3>2. /\ Newest[i] \in Jobs /\ disk[Newest[i]] \in {"pending", "ended"}
          /\ entry = [id |-> Newest[i], obj |-> disk[Newest[i]]]
      BY <2>1, <2>2, <2>4, <3>1 DEF TypeOK
    <3>3. status'[Newest[i]] = "lost"
      BY <2>3, <3>2 DEF JobShape
    <3>4. crashes' > 0
      BY <2>3 DEF TypeOK
    <3> QED BY <2>3, <3>2, <3>3, <3>4 DEF EntryShape
  <2> QED BY <2>5 DEF CacheShape
<1> QED BY <1>4, <1>5, <1>6, <1>7, <1>8, <1>9 DEF Next

LEMMA ShapeStep ==
    ASSUME TypeOK, Shape, Next
    PROVE  Shape'
BY JobShapeStep, BornStep, CacheStep, ReadingStep DEF Shape

(* A job in flight keeps its entry: it is new, or it is not the one that   *)
(* is put, and it has not ended.                                           *)
LEMMA KeepsLiveStep ==
    ASSUME TypeOK, Shape, KeepsLive, Next
    PROVE  KeepsLive'
<1> SUFFICES ASSUME MaxMemory > 0, NEW j \in Jobs, InFlight(j)' PROVE Live(j) \in InCache'
  BY DEF KeepsLive
<1> USE DEF TypeOK
<1>1. CASE InFlight(j) /\ InCache \subseteq InCache'
  BY <1>1 DEF KeepsLive
<1>2. ASSUME InFlight(j), NEW entry \in Entries, Put(entry), entry.id # j
      PROVE  Live(j) \in InCache'
  <2>1. Live(j) \in InCache /\ ~IsEnded(Live(j)) /\ entry.id # Live(j).id
    BY <1>2 DEF KeepsLive, Live, IsEnded, StatusOf, InFlight
  <2> QED BY <1>2, <2>1, PutKeeps
<1>3. ASSUME NEW k \in Jobs, Create(k) PROVE Live(j) \in InCache'
  <2>1. Live(k) \in Entries /\ Put(Live(k)) /\ status[k] = "none"
    BY <1>3 DEF Create, Live, Entries, Shape, JobShape
  <2>2. CASE j = k
    <3>1. ~IsEnded(Live(k))
      BY <2>1 DEF Live, IsEnded, StatusOf
    <3> QED BY <2>1, <2>2, <3>1, PutKeeps
  <2>3. CASE j # k
    <3>1. InFlight(j) /\ Live(k).id # j
      BY <1>3, <2>3 DEF Create, InFlight, Live
    <3> QED BY <1>2, <2>1, <3>1
  <2> QED BY <2>2, <2>3
<1>4. ASSUME NEW p \in Polls, PollEnds(p) PROVE Live(j) \in InCache'
  <2>1. InFlight(j)
    BY <1>4 DEF PollEnds, InFlight
  <2>2. CASE reading[p].obj = "ended"
    <3>1. reading[p] \in Entries /\ Put(reading[p]) /\ reading[p].id \in Jobs
      BY <1>4, <2>2 DEF PollEnds, Entries
    <3>2. status[reading[p].id] \in {"ended", "lost"}
      BY <2>2, <3>1 DEF Shape, ReadingShape, JobShape
    <3>3. reading[p].id # j
      BY <2>1, <3>2 DEF InFlight
    <3> QED BY <1>2, <2>1, <3>1, <3>3
  <2>3. CASE reading[p].obj # "ended"
    BY <1>1, <1>4, <2>1, <2>3 DEF PollEnds, InCache
  <2> QED BY <2>2, <2>3
<1>5. ASSUME NEW k \in Jobs, NEW p \in Polls, PollHits(p, k) PROVE Live(j) \in InCache'
  BY <1>1, <1>5, PollHitsType DEF PollHits, InFlight
<1>6. ASSUME NEW k \in Jobs,
             \/ CheckIntake(k) \/ Refuse(k) \/ SaveAndSubmit(k)
             \/ RunBegins(k) \/ RunEnds(k) \/ SaveEnd(k)
      PROVE  Live(j) \in InCache'
  BY <1>1, <1>6 DEF CheckIntake, Refuse, SaveAndSubmit, RunBegins, RunEnds, SaveEnd,
                    InCache, InFlight
<1>7. ASSUME NEW k \in Jobs, NEW p \in Polls, PollMisses(p, k) \/ PollFindsNothing(p, k)
      PROVE  Live(j) \in InCache'
  <2>1. status' = status /\ cache' = cache
    BY <1>7 DEF PollMisses, PollFindsNothing, vars
  <2> QED BY <1>1, <2>1 DEF InCache, InFlight
<1>8. ~Crash
  BY DEF Crash, InFlight
<1> QED BY <1>3, <1>4, <1>5, <1>6, <1>7, <1>8 DEF Next

------------------------------------------------------------------------------
(* Counting.                                                               *)

LEMMA OneMore ==
    ASSUME NEW S, IsFiniteSet(S), NEW x
    PROVE  Cardinality(S \cup {x}) \in Nat /\ Cardinality(S \cup {x}) =< Cardinality(S) + 1
<1>1. /\ IsFiniteSet(S \cup {x})
      /\ Cardinality(S \cup {x}) = IF x \in S THEN Cardinality(S) ELSE Cardinality(S) + 1
  BY FS_AddElement
<1>2. Cardinality(S) \in Nat /\ Cardinality(S \cup {x}) \in Nat
  BY <1>1, FS_CardinalityType
<1> QED BY <1>1, <1>2

LEMMA OneLess ==
    ASSUME NEW S, IsFiniteSet(S), NEW x \in S
    PROVE  Cardinality(S \ {x}) \in Nat /\ Cardinality(S \ {x}) = Cardinality(S) - 1
<1>1. IsFiniteSet(S \ {x}) /\ Cardinality(S \ {x}) = Cardinality(S) - 1
  BY FS_RemoveElement
<1> QED BY <1>1, FS_CardinalityType

Flying == {j \in Jobs : InFlight(j)}

(* active_job_count never counts too few: each job in flight has an entry  *)
(* of its own.  Until a restart it counts nothing else.                    *)
LEMMA ActiveCountCovers ==
    ASSUME TypeOK, Shape, KeepsLive, MaxMemory > 0
    PROVE  /\ IsFiniteSet(Flying) /\ Cardinality(Flying) \in Nat
           /\ ActiveCount \in Nat
           /\ Cardinality(Flying) =< ActiveCount
           /\ crashes = 0 => Cardinality(Flying) = ActiveCount
<1> DEFINE T == {i \in 1..Len(cache) : ~IsEnded(cache[i])}
           f == [j \in Flying |-> CHOOSE i \in T : cache[i] = Live(j)]
<1>1. IsFiniteSet(T) /\ Cardinality(T) \in Nat
  <2>1. IsFiniteSet(1..Len(cache)) /\ T \subseteq 1..Len(cache)
    BY FS_Interval DEF TypeOK
  <2>2. IsFiniteSet(T)
    BY <2>1, FS_Subset
  <2> QED BY <2>2, FS_CardinalityType
<1>2. ASSUME NEW j \in Flying PROVE \E i \in T : cache[i] = Live(j)
  <2>1. InFlight(j) /\ j \in Jobs
    BY DEF Flying
  <2>2. PICK i \in 1..Len(cache) : cache[i] = Live(j)
    BY <2>1 DEF KeepsLive, InCache
  <2>3. ~IsEnded(Live(j))
    BY <2>1 DEF Live, IsEnded, StatusOf, InFlight
  <2> QED BY <2>2, <2>3
<1> HIDE DEF T
<1>3. \A j \in Flying : f[j] \in T /\ cache[f[j]] = Live(j)
  BY <1>2
<1>4. f \in [Flying -> T]
  BY <1>3
<1> HIDE DEF f
<1>5. \A j, k \in Flying : f[j] = f[k] => j = k
  <2> SUFFICES ASSUME NEW j \in Flying, NEW k \in Flying, f[j] = f[k] PROVE j = k
    OBVIOUS
  <2>1. cache[f[j]] = Live(j) /\ cache[f[k]] = Live(k)
    BY <1>3
  <2>2. Live(j) = Live(k)
    BY <2>1
  <2> QED BY <2>2 DEF Live
<1>6. f \in Injection(Flying, T)
  BY <1>4, <1>5 DEF Injection, IsInjective
<1>7. /\ IsFiniteSet(Flying) /\ Cardinality(Flying) =< Cardinality(T)
      /\ Cardinality(Flying) = Cardinality(T) <=> f \in Surjection(Flying, T)
  BY <1>1, <1>6, FS_Injection
<1>8. ASSUME crashes = 0 PROVE f \in Surjection(Flying, T)
  <2>1. ASSUME NEW i \in T PROVE \E j \in Flying : f[j] = i
    <3>1. /\ i \in 1..Len(cache) /\ ~IsEnded(cache[i])
          /\ cache[i] \in Entries /\ EntryShape(cache[i])
      BY DEF T, TypeOK, Shape, CacheShape, InCache
    <3>2. cache[i].obj = "live" /\ cache[i].id \in Jobs
      BY <1>8, <3>1 DEF EntryShape, Entries, IsEnded, StatusOf
    <3>3. status[cache[i].id] \in {"pending", "running"}
      BY <3>1, <3>2 DEF EntryShape, IsEnded, StatusOf
    <3>4. cache[i].id \in Flying
      BY <3>2, <3>3 DEF Flying, InFlight
    <3>5. cache[f[cache[i].id]].id = cache[i].id /\ f[cache[i].id] \in 1..Len(cache)
      <4> DEFINE k == cache[i].id
      <4>1. f[k] \in T /\ cache[f[k]] = Live(k)
        BY <1>3, <3>4
      <4>2. cache[f[k]].id = k
        BY <4>1 DEF Live
      <4> QED BY <4>1, <4>2 DEF T
    <3>6. f[cache[i].id] = i
      BY <3>1, <3>5 DEF TypeOK
    <3> QED BY <3>4, <3>6
  <2> QED BY <1>4, <2>1 DEF Surjection
<1>9. ActiveCount = Cardinality(T)
  BY DEF ActiveCount, T
<1>10. Cardinality(Flying) \in Nat
  BY <1>7, FS_CardinalityType
<1> QED BY <1>1, <1>7, <1>8, <1>9, <1>10

LEMMA AdmittedFinite ==
    /\ IsFiniteSet(Manual) /\ Cardinality(Manual) \in Nat
    /\ IsFiniteSet(Checked) /\ Cardinality(Checked) \in Nat
<1>1. IsFiniteSet(Jobs) /\ Manual \subseteq Jobs /\ Checked \subseteq Jobs
  BY RegistryAssumption DEF Manual, Checked
<1>2. IsFiniteSet(Manual) /\ IsFiniteSet(Checked)
  BY <1>1, FS_Subset
<1> QED BY <1>2, FS_CardinalityType

LEMMA AdmittedShrinks ==
    ASSUME Admitted, Manual' \subseteq Manual, Checked' \subseteq Checked
    PROVE  Admitted'
<1>1. Cardinality(Manual') =< Cardinality(Manual) /\ Cardinality(Manual') \in Nat
  BY AdmittedFinite, FS_Subset, FS_CardinalityType
<1>2. Cardinality(Checked') =< Cardinality(Checked) /\ Cardinality(Checked') \in Nat
  BY AdmittedFinite, FS_Subset, FS_CardinalityType
<1> QED BY <1>1, <1>2, AdmittedFinite, RegistryAssumption DEF Admitted

LEMMA AdmittedStep ==
    ASSUME TypeOK, Shape, KeepsLive, Admitted, Next
    PROVE  Admitted'
<1> USE DEF TypeOK
<1>1. ASSUME NEW j \in Jobs, CheckIntake(j) PROVE Admitted'
  <2> SUFFICES ASSUME MaxMemory > 0
               PROVE  Cardinality(Manual') + Cardinality(Checked')
                          =< MaxPending + Routes - 1
    BY DEF Admitted
  <2>1. Manual' = Manual /\ Checked' = Checked \cup {j}
    BY <1>1 DEF CheckIntake, Manual, Checked, InFlight
  <2>2. ActiveCount < MaxPending /\ Cardinality(Checked) < Routes
    BY <1>1 DEF CheckIntake, Checked
  <2>3. Cardinality(Manual) =< ActiveCount /\ ActiveCount \in Nat
    <3>1. Manual \subseteq Flying
      BY DEF Manual, Flying
    <3>2. /\ IsFiniteSet(Flying) /\ Cardinality(Flying) \in Nat
          /\ ActiveCount \in Nat /\ Cardinality(Flying) =< ActiveCount
      BY ActiveCountCovers
    <3>3. Cardinality(Manual) =< Cardinality(Flying)
      BY <3>1, <3>2, FS_Subset
    <3> QED BY <3>2, <3>3, AdmittedFinite
  <2>4. Cardinality(Checked') =< Cardinality(Checked) + 1 /\ Cardinality(Checked') \in Nat
    BY <2>1, AdmittedFinite, OneMore
  <2>5. Routes \in Nat /\ MaxPending \in Nat
    BY RegistryAssumption
  <2> QED BY <2>1, <2>2, <2>3, <2>4, <2>5, AdmittedFinite
<1>2. ASSUME NEW j \in Jobs, Create(j) PROVE Admitted'
  <2>1. CASE j \in Scheduled
    <3>1. Manual' \subseteq Manual /\ Checked' \subseteq Checked
      BY <1>2, <2>1 DEF Create, Manual, Checked, InFlight
    <3> QED BY <3>1, AdmittedShrinks
  <2>2. CASE j \notin Scheduled
    <3>1. Manual' = Manual \cup {j} /\ Checked' = Checked \ {j} /\ j \in Checked
      BY <1>2, <2>2 DEF Create, Manual, Checked, InFlight
    <3>2. Cardinality(Manual') =< Cardinality(Manual) + 1 /\ Cardinality(Manual') \in Nat
      BY <3>1, AdmittedFinite, OneMore
    <3>3. Cardinality(Checked') = Cardinality(Checked) - 1 /\ Cardinality(Checked') \in Int
      BY <3>1, AdmittedFinite, OneLess
    <3> QED BY <3>2, <3>3, AdmittedFinite, RegistryAssumption DEF Admitted
  <2> QED BY <2>1, <2>2
<1>3. ASSUME NEW j \in Jobs,
             \/ Refuse(j) \/ SaveAndSubmit(j) \/ RunBegins(j) \/ RunEnds(j) \/ SaveEnd(j)
      PROVE  Admitted'
  <2>1. Manual' \subseteq Manual /\ Checked' \subseteq Checked
    BY <1>3 DEF Refuse, SaveAndSubmit, RunBegins, RunEnds, SaveEnd, Manual, Checked, InFlight
  <2> QED BY <2>1, AdmittedShrinks
<1>4. ASSUME NEW p \in Polls,
             \/ PollEnds(p)
             \/ \E j \in Jobs : PollHits(p, j) \/ PollMisses(p, j) \/ PollFindsNothing(p, j)
      PROVE  Admitted'
  <2>1. status' = status /\ route' = route
    BY <1>4 DEF PollEnds, PollHits, PollMisses, PollFindsNothing, vars
  <2>2. Manual' \subseteq Manual /\ Checked' \subseteq Checked
    BY <2>1 DEF Manual, Checked, InFlight
  <2> QED BY <2>2, AdmittedShrinks
<1>5. CASE Crash
  <2>1. Manual' \subseteq Manual
    BY <1>5 DEF Crash, Manual, InFlight
  <2>2. Checked' \subseteq Checked
    BY <1>5 DEF Crash, Checked, Shape, JobShape
  <2> QED BY <2>1, <2>2, AdmittedShrinks
<1> QED BY <1>1, <1>2, <1>3, <1>4, <1>5 DEF Next

------------------------------------------------------------------------------
(* The results.                                                            *)

(* The inductive invariant.  For a cache that holds something it says that *)
(* a job in flight is always in it.                                        *)
THEOREM Invariance == Spec => []IInv
<1>1. ASSUME IInv, [Next]_vars PROVE IInv'
  <2>1. CASE Next
    <3>1. TypeOK /\ Shape /\ KeepsLive /\ Admitted
      BY <1>1 DEF IInv
    <3>2. TypeOK' /\ Shape'
      BY <2>1, <3>1, TypeStep, ShapeStep DEF Shape
    <3> QED BY <2>1, <3>1, <3>2, KeepsLiveStep, AdmittedStep DEF IInv
  <2>2. CASE UNCHANGED vars
    <3>1. TypeOK' /\ Shape'
      BY <1>1, <2>2 DEF IInv, vars, TypeOK, Shape, JobShape, BornOnce, CacheShape, EntryShape,
                        InCache, ReadingShape
    <3>2. KeepsLive' /\ Admitted'
      BY <1>1, <2>2 DEF IInv, vars, KeepsLive, InCache, InFlight, Admitted, Manual, Checked
    <3> QED BY <3>1, <3>2 DEF IInv
  <2> QED BY <1>1, <2>1, <2>2
<1> QED BY <1>1, InitInv, PTL DEF Spec

(* The types of the registry, its files and its polls; each job has one    *)
(* entry at most.                                                          *)
THEOREM TypeCorrect == Spec => []TypeOK
BY Invariance, PTL DEF IInv

(* A job in flight is never evicted, and no copy of its file takes its     *)
(* place, however many polls read how many files back.                     *)
THEOREM LiveStayResident ==
    ASSUME MaxMemory > 0
    PROVE  Spec => []LiveJobsAreResident
<1>1. IInv => LiveJobsAreResident
  BY DEF IInv, KeepsLive, LiveJobsAreResident, Live
<1> QED BY <1>1, Invariance, PTL

(* What the entry of a job answers, when it has one.                       *)
LEMMA AnswerIsEntry ==
    ASSUME TypeOK, NEW entry \in InCache
    PROVE  Resident(entry.id) /\ Answer(entry.id) = StatusOf(entry)
<1>1. PICK i \in 1..Len(cache) : entry = cache[i]
  BY DEF InCache
<1>2. Resident(entry.id)
  BY <1>1 DEF Resident
<1>3. \A e \in InCache : e.id = entry.id => e = entry
  BY <1>1 DEF InCache, TypeOK
<1>4. (CHOOSE e \in InCache : e.id = entry.id) = entry
  BY <1>3
<1> QED BY <1>2, <1>4 DEF Answer

(* Polls are told the truth: of a job in flight what its object says, of a *)
(* job whose end is on disk that it has ended.                             *)
THEOREM TruthfulPolls ==
    ASSUME MaxMemory > 0
    PROVE  Spec => []PollsAreTrue
<1>1. ASSUME IInv, NEW j \in Jobs
      PROVE  /\ InFlight(j) => Answer(j) = status[j]
             /\ disk[j] = "ended" => Answer(j) = "ended"
  <2>1. ASSUME InFlight(j) PROVE Answer(j) = status[j]
    <3>1. Live(j) \in InCache
      BY <1>1, <2>1 DEF IInv, KeepsLive
    <3> QED BY <1>1, <3>1, AnswerIsEntry DEF IInv, Live, StatusOf
  <2>2. ASSUME disk[j] = "ended", Resident(j) PROVE Answer(j) = "ended"
    <3>1. PICK entry \in InCache : entry.id = j
      BY <2>2 DEF Resident, InCache
    <3>2. entry \in Entries /\ EntryShape(entry)
      BY <1>1 DEF IInv, TypeOK, Shape, CacheShape, InCache
    <3>3. StatusOf(entry) = "ended"
      BY <1>1, <2>2, <3>1, <3>2 DEF IInv, Shape, JobShape, EntryShape, StatusOf, Entries
    <3> QED BY <1>1, <3>1, <3>3, AnswerIsEntry DEF IInv
  <2>3. ASSUME disk[j] = "ended", ~Resident(j) PROVE Answer(j) = "ended"
    BY <2>3 DEF Answer
  <2> QED BY <2>1, <2>2, <2>3
<1>2. IInv => PollsAreTrue
  BY <1>1 DEF PollsAreTrue
<1> QED BY <1>2, Invariance, PTL

(* A job whose creation was answered is never a 404, unless its own first  *)
(* save failed; also for a cache that holds nothing.                       *)
THEOREM AnsweredAreKnown == Spec => []AnsweredJobsAreKnown
<1>1. ASSUME IInv, NEW j \in Jobs \ unsaved, route[j] = "over" PROVE Answer(j) # "none"
  <2>1. CASE Resident(j)
    <3>1. PICK entry \in InCache : entry.id = j
      BY <2>1 DEF Resident, InCache
    <3>2. entry \in Entries /\ EntryShape(entry)
      BY <1>1 DEF IInv, TypeOK, Shape, CacheShape, InCache
    <3>3. StatusOf(entry) # "none"
      BY <3>2 DEF EntryShape, StatusOf, Entries
    <3> QED BY <1>1, <3>1, <3>3, AnswerIsEntry DEF IInv
  <2>2. CASE ~Resident(j)
    BY <1>1, <2>2 DEF IInv, Shape, JobShape, Answer
  <2> QED BY <2>1, <2>2
<1>2. IInv => AnsweredJobsAreKnown
  BY <1>1 DEF AnsweredJobsAreKnown
<1> QED BY <1>2, Invariance, PTL

(* Until a restart active_job_count is the number of jobs in flight.       *)
THEOREM ExactCount ==
    ASSUME MaxMemory > 0
    PROVE  Spec => []CountIsExactUntilRestart
<1>1. ASSUME IInv PROVE CountIsExactUntilRestart
  <2>1. crashes = 0 => Cardinality(Flying) = ActiveCount
    BY <1>1, ActiveCountCovers DEF IInv
  <2> QED BY <2>1 DEF CountIsExactUntilRestart, CountIsExact, Flying
<1> QED BY <1>1, Invariance, PTL

(* Requests that are counted before they are added overshoot the cap by    *)
(* the others that are inside the route with them, and by no more.         *)
THEOREM BoundedIntake ==
    ASSUME MaxMemory > 0
    PROVE  Spec => []IntakeIsBounded
<1>1. ASSUME IInv PROVE IntakeIsBounded
  <2>1. Cardinality(Manual) + Cardinality(Checked) =< MaxPending + Routes - 1
    BY <1>1 DEF IInv, Admitted
  <2>2. Cardinality(Manual) =< MaxPending + Routes - 1
    BY <2>1, AdmittedFinite, RegistryAssumption
  <2> QED BY <2>2 DEF IntakeIsBounded, Manual
<1> QED BY <1>1, Invariance, PTL

================================================================================
