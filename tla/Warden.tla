--------------------------------- MODULE Warden ---------------------------------
(***************************************************************************)
(* The warden of the public demo (demo/warden/app.py, constants.py): it    *)
(* keeps a pool of warm containers, hands one to each visitor's session,   *)
(* and destroys sessions on request, on their TTLs, on a silent heartbeat  *)
(* and, at the cap, to make room.                                          *)
(*                                                                         *)
(* One process, one event loop.  The asyncio lock is held only in sections *)
(* that never await, so it is never contended and taking it does not yield:*)
(* a handler runs from one await to the next in one step.  The awaits are  *)
(* the docker calls (asyncio.to_thread) - they are where requests, the     *)
(* refill and the reaper interleave.                                       *)
(*                                                                         *)
(* A session's token is its container here: a container backs one session  *)
(* at most and a token never returns.  Times are ages in units of a tick.  *)
(***************************************************************************)
EXTENDS Integers, FiniteSets, Sequences, FiniteSetsExt

CONSTANTS Boxes,          \* bound: containers that exist or are named at once
          Ips,            \* source addresses
          Mints,          \* bound: requests inside session_new at once
          MaxActive,      \* MAX_ACTIVE
          PoolSize,       \* POOL_SIZE
          PerIpMax,       \* PER_IP_MAX_CONCURRENT
          MintMax,        \* PER_IP_MINT_MAX
          MintWindow,     \* PER_IP_MINT_WINDOW
          PerIpTTL,       \* PER_IP_TTL
          MaxIpRecords,   \* MAX_IP_RECORDS
          HardTTL, IdleTTL, IdleTight, HbVisible, HbHidden,
          ReclaimMinAge,  \* RECLAIM_MIN_AGE
          PoolMaxAge,     \* POOL_MAX_AGE
          Period,         \* REAPER_PERIOD
          MaxDue,         \* bound: refill tasks spawned and not begun
          MaxCrashes,     \* bound: crashes of the warden
          DockerIsSlow,   \* time may pass during a docker call
          DockerMayFail   \* a docker call may fail

ASSUME WardenAssumption ==
    /\ IsFiniteSet(Boxes) /\ IsFiniteSet(Ips) /\ IsFiniteSet(Mints)
    /\ {MaxActive, PoolSize, PerIpMax, MintMax, MintWindow, MaxIpRecords,
        HardTTL, IdleTTL, IdleTight, HbVisible, HbHidden, PoolMaxAge,
        Period, MaxDue} \subseteq Nat \ {0}
    /\ {PerIpTTL, ReclaimMinAge, MaxCrashes} \subseteq Nat
    /\ Period =< PoolMaxAge
    /\ {DockerIsSlow, DockerMayFail} \subseteq BOOLEAN

VARIABLES
    stage,      \* the process: down, filling (startup) or serving
    live,       \* the containers that docker has
    pool,       \* _pool: [box, age], in the order they will be handed out
    active,     \* _active: a session, or None, for each container
    perIp,      \* _per_ip: a record, or None, for each address
    reserving,  \* _reserving
    mint,       \* the requests inside session_new
    refill,     \* _refilling: who runs it ("nobody") and creations left
    due,        \* refill tasks spawned and not begun
    reaper,     \* the reaper: phase, ticks to sleep, what it found to remove
    ending,     \* containers whose removal /session/{token}/end awaits
    idleTtl,    \* _idle_ttl
    crashes

vars == <<stage, live, pool, active, perIp, reserving, mint, refill, due,
          reaper, ending, idleTtl, crashes>>

None == [none |-> TRUE]

AgeCap == HardTTL + Period + 1
IdleCap == IdleTTL + 1
BeatCap == HbHidden + 1
PoolCap == PoolMaxAge + 1
SeenCap == PerIpTTL + 1

Session == [ip : Ips, age : 0..AgeCap, idle : 0..IdleCap,
            beat : 0..BeatCap, hidden : BOOLEAN]
IpRecord == [active : Nat, seen : 0..SeenCap, minted : [0..(MintWindow - 1) -> Nat]]
Pooled == [box : Boxes, age : 0..PoolCap]
NoMint == [at |-> "idle"]
Minting ==
    [at : {"creating"}, ip : Ips, age : 0..AgeCap]
    \cup [at : {"ending", "reclaiming"}, ip : Ips, age : 0..AgeCap, box : Boxes]

TypeOK ==
    /\ stage \in {"down", "filling", "serving"}
    /\ live \subseteq Boxes
    /\ pool \in Seq(Pooled) /\ Len(pool) =< PoolSize
    /\ active \in [Boxes -> Session \cup {None}]
    /\ perIp \in [Ips -> IpRecord \cup {None}]
    /\ reserving \in Nat
    /\ mint \in [Mints -> Minting \cup {NoMint}]
    /\ refill \in [by : {"nobody", "startup", "spawned", "reaper"}, left : 0..PoolSize]
    /\ (refill.by = "nobody") <=> (refill.left = 0)
    /\ due \in 0..MaxDue
    /\ reaper \in [phase : {"asleep", "destroying", "recycling", "refilling"},
                   wait : 0..Period, box : SUBSET Boxes,
                   expired : SUBSET Boxes, recycle : SUBSET Boxes]
    /\ ending \subseteq Boxes
    /\ idleTtl \in {IdleTTL, IdleTight}
    /\ crashes \in 0..MaxCrashes

------------------------------------------------------------------------------
(* What there is, and who answers for it.                                  *)

Sessions == {b \in Boxes : active[b] # None}
Used == Cardinality(Sessions) + reserving
PoolBoxes == {pool[i].box : i \in 1..Len(pool)}
MintsAt(where) == {m \in Mints : mint[m].at = where}
Awaited == {mint[m].box : m \in MintsAt("ending") \cup MintsAt("reclaiming")}
               \cup ending \cup reaper.box
Fresh == Boxes \ (live \cup Sessions \cup PoolBoxes \cup Awaited
                       \cup reaper.expired \cup reaper.recycle)
Creations == Cardinality(MintsAt("creating")) + Min({refill.left, 1})
DockerCalls == Cardinality(MintsAt("creating")) + refill.left + Cardinality(Awaited)

NoReaping == [phase |-> "asleep", wait |-> Period,
              box |-> {}, expired |-> {}, recycle |-> {}]
NoRefill == [by |-> "nobody", left |-> 0]
NewRecord == [active |-> 0, seen |-> 0, minted |-> [i \in 0..(MintWindow - 1) |-> 0]]

(* Before a start: no process, and whatever an earlier one has left.       *)
Init ==
    /\ stage = "down"
    /\ live \in {{}} \cup {{b} : b \in Boxes}
    /\ pool = <<>>
    /\ active = [b \in Boxes |-> None]
    /\ perIp = [ip \in Ips |-> None]
    /\ reserving = 0
    /\ mint = [m \in Mints |-> NoMint]
    /\ refill = NoRefill
    /\ due = 0
    /\ reaper = NoReaping
    /\ ending = {}
    /\ idleTtl = IdleTTL
    /\ crashes = 0

------------------------------------------------------------------------------
(* Destroying.  _destroy takes the session out of the map and the count of *)
(* its address in one step, then awaits the removal of the container.      *)

(* rec.active goes down, if it can, in a table that still has the record.  *)
LessOne(table, ip) ==
    IF table[ip] = None \/ table[ip].active = 0 THEN table
    ELSE [table EXCEPT ![ip].active = @ - 1]

Drop(b) ==
    /\ active' = [active EXCEPT ![b] = None]
    /\ perIp' = LessOne(perIp, active[b].ip)

(* _docker_remove: an error is logged and otherwise ignored.               *)
Remove(b) == live' \in {live \ {b}} \cup (IF DockerMayFail THEN {live} ELSE {})

(* POST /session/{token}/end.                                              *)
End(b) ==
    /\ stage = "serving"
    /\ b \in Sessions
    /\ Drop(b)
    /\ ending' = ending \cup {b}
    /\ UNCHANGED <<stage, live, pool, reserving, mint, refill, due, reaper, idleTtl, crashes>>

Ended(b) ==
    /\ b \in ending
    /\ Remove(b)
    /\ ending' = ending \ {b}
    /\ UNCHANGED <<stage, pool, active, perIp, reserving, mint, refill, due, reaper,
                   idleTtl, crashes>>

------------------------------------------------------------------------------
(* _refill_pool, begun at startup, by the reaper, or by a task of its own. *)

Room == MaxActive - (Len(pool) + Used)
Need == Max({0, Min({PoolSize - Len(pool), Room})})

NextRefill(who) ==
    IF refill.by = "nobody" /\ Need > 0 THEN [by |-> who, left |-> Need] ELSE refill

BeginRefill ==
    /\ stage = "serving"
    /\ due > 0
    /\ due' = due - 1
    /\ refill' = NextRefill("spawned")
    /\ UNCHANGED <<stage, live, pool, active, perIp, reserving, mint, reaper, ending,
                   idleTtl, crashes>>

(* What follows when the last creation has been tried: the process that    *)
(* was starting serves, the reaper that waited goes to sleep.              *)
AfterRefill ==
    LET done == refill.left = 1 IN
    /\ refill' = IF done THEN NoRefill ELSE [refill EXCEPT !.left = @ - 1]
    /\ stage' = IF done /\ refill.by = "startup" THEN "serving" ELSE stage
    /\ reaper' = IF done /\ refill.by = "reaper" THEN NoReaping ELSE reaper
    /\ UNCHANGED <<active, perIp, reserving, mint, due, ending, idleTtl, crashes>>

RefillOne ==
    /\ refill.left > 0
    /\ \E b \in Fresh :
           /\ live' = live \cup {b}
           /\ pool' = Append(pool, [box |-> b, age |-> 0])
    /\ AfterRefill

(* The create fails; the container may have been made but not started.     *)
Failed == \/ live' = live
          \/ \E b \in Fresh : live' = live \cup {b}

RefillFails ==
    /\ DockerMayFail
    /\ refill.left > 0
    /\ Failed
    /\ UNCHANGED pool
    /\ AfterRefill

------------------------------------------------------------------------------
(* POST /session/new.                                                      *)

Record(table, ip) == IF table[ip] = None THEN NewRecord ELSE table[ip]
MintsOf(rec) == UNION {{i} \X (1..rec.minted[i]) : i \in DOMAIN rec.minted}
Minted(rec) == Cardinality(MintsOf(rec))
Touched(ip, old) ==
    [perIp EXCEPT ![ip] = [Record(perIp, ip) EXCEPT !.seen = Min({old, SeenCap})]]

(* One session and one mint more, for a request that began at age old.     *)
Noted(minted, old) == [i \in DOMAIN minted |-> IF i = old THEN minted[i] + 1 ELSE minted[i]]
Credited(rec, old) ==
    [rec EXCEPT !.active = @ + 1, !.seen = Min({old, SeenCap}),
                !.minted = Noted(rec.minted, old)]

(* _active[token] = Session(...): as old as the request that asked for it. *)
Land(b, ip, old) ==
    /\ due < MaxDue
    /\ active' = [active EXCEPT ![b] =
           [ip |-> ip, age |-> old, idle |-> Min({old, IdleCap}),
            beat |-> Min({old, BeatCap}), hidden |-> FALSE]]
    /\ perIp' = [perIp EXCEPT ![ip] = Credited(Record(perIp, ip), old)]
    /\ due' = due + 1

TooMany(ip) == LET rec == Record(perIp, ip) IN
    Minted(rec) >= MintMax \/ rec.active >= PerIpMax
AtCap == Used >= MaxActive
FromPool == ~AtCap /\ pool # <<>>

(* Longest-idle sessions past the floor, as _reclaim_one finds them with   *)
(* the clock reading of the request.                                       *)
Ripe(old) == {b \in Sessions : active[b].age - old > ReclaimMinAge}
Victims(old) == {b \in Ripe(old) : \A c \in Ripe(old) : active[c].idle =< active[b].idle}

RateLimited(m, ip, old) ==
    /\ TooMany(ip)
    /\ perIp' = Touched(ip, old)
    /\ mint' = [mint EXCEPT ![m] = NoMint]
    /\ UNCHANGED <<pool, active, reserving, due>>

TakeWithoutPop(m, ip, old) ==                     \* mutant: pool[0], not pop(0)
    /\ ~TooMany(ip) /\ FromPool
    /\ Land(Head(pool).box, ip, old)
    /\ mint' = [mint EXCEPT ![m] = NoMint]
    /\ UNCHANGED <<pool, reserving>>

(* From the pool the session lands in the same step: nothing is awaited.   *)
TakeWarm(m, ip, old) ==
    /\ ~TooMany(ip) /\ FromPool
    /\ Land(Head(pool).box, ip, old)
    /\ pool' = Tail(pool)
    /\ mint' = [mint EXCEPT ![m] = NoMint]
    /\ UNCHANGED reserving

ReserveAnyway(m, ip, old) ==                      \* mutant: an empty pool is room enough
    /\ ~TooMany(ip) /\ ~FromPool
    /\ reserving' = reserving + 1
    /\ perIp' = Touched(ip, old)
    /\ mint' = [mint EXCEPT ![m] = [at |-> "creating", ip |-> ip, age |-> old]]
    /\ UNCHANGED <<pool, active, due>>

Reserve(m, ip, old) ==
    /\ ~TooMany(ip) /\ ~FromPool /\ Room > 0
    /\ reserving' = reserving + 1
    /\ perIp' = Touched(ip, old)
    /\ mint' = [mint EXCEPT ![m] = [at |-> "creating", ip |-> ip, age |-> old]]
    /\ UNCHANGED <<pool, active, due>>

Reclaim(m, ip, old) ==
    /\ ~TooMany(ip) /\ ~FromPool /\ Room =< 0
    /\ \E b \in Victims(old) :
           /\ active' = [active EXCEPT ![b] = None]
           /\ perIp' = LessOne(Touched(ip, old), active[b].ip)
           /\ mint' = [mint EXCEPT ![m] =
                  [at |-> "reclaiming", ip |-> ip, age |-> old, box |-> b]]
    /\ UNCHANGED <<pool, reserving, due>>

NoCapacity(m, ip, old) ==
    /\ ~TooMany(ip) /\ ~FromPool /\ Room =< 0 /\ Ripe(old) = {}
    /\ perIp' = Touched(ip, old)
    /\ mint' = [mint EXCEPT ![m] = NoMint]
    /\ UNCHANGED <<pool, active, reserving, due>>

Decide(m, ip, old) ==
    \/ RateLimited(m, ip, old)
    \/ TakeWarm(m, ip, old)
    \/ Reserve(m, ip, old)
    \/ Reclaim(m, ip, old)
    \/ NoCapacity(m, ip, old)

New(m, ip) ==
    /\ stage = "serving"
    /\ mint[m] = NoMint
    /\ Decide(m, ip, 0)
    /\ UNCHANGED <<stage, live, refill, reaper, ending, idleTtl, crashes>>

(* The browser has a live session: that is destroyed first.                *)
Replace(m, ip, b) ==
    /\ stage = "serving"
    /\ mint[m] = NoMint
    /\ b \in Sessions
    /\ Drop(b)
    /\ mint' = [mint EXCEPT ![m] = [at |-> "ending", ip |-> ip, age |-> 0, box |-> b]]
    /\ UNCHANGED <<stage, live, pool, reserving, refill, due, reaper, ending,
                   idleTtl, crashes>>

Replaced(m) ==
    /\ mint[m].at = "ending"
    /\ Remove(mint[m].box)
    /\ Decide(m, mint[m].ip, mint[m].age)
    /\ UNCHANGED <<stage, refill, reaper, ending, idleTtl, crashes>>

(* The victim's container is gone: its place is taken, whoever may have    *)
(* taken it during the removal.                                            *)
Reclaimed(m) ==
    /\ mint[m].at = "reclaiming"
    /\ Remove(mint[m].box)
    /\ reserving' = reserving + 1
    /\ mint' = [mint EXCEPT ![m] =
           [at |-> "creating", ip |-> mint[m].ip, age |-> mint[m].age]]
    /\ UNCHANGED <<stage, pool, active, perIp, refill, due, reaper, ending,
                   idleTtl, crashes>>

Created(m) ==
    /\ mint[m].at = "creating"
    /\ \E b \in Fresh :
           /\ live' = live \cup {b}
           /\ Land(b, mint[m].ip, mint[m].age)
    /\ reserving' = reserving - 1
    /\ mint' = [mint EXCEPT ![m] = NoMint]
    /\ UNCHANGED <<stage, pool, refill, reaper, ending, idleTtl, crashes>>

CreateFailsUnreleased(m) ==                       \* mutant: the place is not given back
    /\ DockerMayFail
    /\ mint[m].at = "creating"
    /\ Failed
    /\ mint' = [mint EXCEPT ![m] = NoMint]
    /\ UNCHANGED <<stage, pool, active, perIp, reserving, refill, due, reaper, ending,
                   idleTtl, crashes>>

CreateFails(m) ==
    /\ DockerMayFail
    /\ mint[m].at = "creating"
    /\ Failed
    /\ reserving' = reserving - 1
    /\ mint' = [mint EXCEPT ![m] = NoMint]
    /\ UNCHANGED <<stage, pool, active, perIp, refill, due, reaper, ending, idleTtl, crashes>>

------------------------------------------------------------------------------
(* The visitor at work.                                                    *)

(* POST /session/{token}/hb.                                               *)
Heartbeat(b, hides) ==
    /\ stage = "serving"
    /\ b \in Sessions
    /\ active' = [active EXCEPT ![b].beat = 0, ![b].hidden = hides]
    /\ UNCHANGED <<stage, live, pool, perIp, reserving, mint, refill, due, reaper, ending,
                   idleTtl, crashes>>

(* _routed and _refresh_activity, for an allowed route: any request is a   *)
(* heartbeat, a POST is activity too.  Past the deadline it is refused.    *)
Routed(b) == b \in Sessions /\ active[b].age =< HardTTL

Route(b, post) ==
    /\ stage = "serving"
    /\ Routed(b)
    /\ active' = [active EXCEPT ![b].beat = 0, ![b].idle = IF post THEN 0 ELSE @]
    /\ UNCHANGED <<stage, live, pool, perIp, reserving, mint, refill, due, reaper, ending,
                   idleTtl, crashes>>

------------------------------------------------------------------------------
(* The reaper.                                                             *)

(* _adjust_idle_ttl, with OCCUPANCY_TIGHTEN 0.8 and OCCUPANCY_LOOSEN 0.7.  *)
NextIdleTtl ==
    LET n == 10 * Cardinality(Sessions) IN
    IF n > 8 * MaxActive THEN IdleTight
    ELSE IF n < 7 * MaxActive THEN IdleTTL ELSE idleTtl

(* _stale_threshold.                                                       *)
StaleAfter(session) == IF session.hidden THEN HbHidden ELSE HbVisible

IdleOnly ==                                       \* mutant: the deadline is not looked at
    {b \in Sessions : active[b].idle > NextIdleTtl}
Expired ==
    {b \in Sessions :
        \/ active[b].age > HardTTL
        \/ active[b].idle > NextIdleTtl
        \/ active[b].beat > StaleAfter(active[b])}

RecycleAgeLate == PoolMaxAge                      \* mutant: not one period early
RecycleAge == PoolMaxAge - Period
Aged(entry) == entry.age > RecycleAge

(* What a sequence has at the places S, in its order.                      *)
InOrder(S) == {f \in [1..Cardinality(S) -> S] : \A i, j \in DOMAIN f : i < j => f[i] < f[j]}
Picked(seq, S) == {[i \in 1..Cardinality(S) |-> seq[f[i]]] : f \in InOrder(S)}

(* Records of addresses not seen for PER_IP_TTL go; then, while there are  *)
(* too many, those without a session and longest unseen.                   *)
Known(table) == {ip \in Ips : table[ip] # None}
Forget(table, S) == [ip \in Ips |-> IF ip \in S THEN None ELSE table[ip]]
SweptWhateverActive ==                            \* mutant: active is not looked at
    Forget(perIp, {ip \in Known(perIp) : perIp[ip].seen > PerIpTTL})
Swept ==
    Forget(perIp, {ip \in Known(perIp) : perIp[ip].seen > PerIpTTL /\ perIp[ip].active = 0})

Kept(table) ==
    LET spare == {ip \in Known(table) : table[ip].active = 0}
        over  == Max({0, Cardinality(Known(table)) - MaxIpRecords})
    IN  {Forget(table, S) : S \in {T \in SUBSET spare :
            /\ Cardinality(T) = Min({over, Cardinality(spare)})
            /\ \A ip \in T, q \in spare \ T : table[q].seen =< table[ip].seen}}

(* On to the next await: the next expired session that is still there,     *)
(* then the next aged container, then the refill.                          *)
Proceed(table, expired, recycle) ==
    LET left == expired \cap Sessions IN
    \/ \E b \in left :
           /\ active' = [active EXCEPT ![b] = None]
           /\ perIp' = LessOne(table, active[b].ip)
           /\ reaper' = [phase |-> "destroying", wait |-> 0, box |-> {b},
                         expired |-> left \ {b}, recycle |-> recycle]
           /\ UNCHANGED refill
    \/ /\ left = {}
       /\ \E b \in recycle :
              reaper' = [phase |-> "recycling", wait |-> 0, box |-> {b},
                         expired |-> {}, recycle |-> recycle \ {b}]
       /\ perIp' = table
       /\ UNCHANGED <<active, refill>>
    \/ /\ left = {} /\ recycle = {}
       /\ refill' = NextRefill("reaper")
       /\ reaper' = IF refill' = refill THEN NoReaping
                    ELSE [NoReaping EXCEPT !.phase = "refilling", !.wait = 0]
       /\ perIp' = table
       /\ UNCHANGED active

Wake ==
    /\ stage = "serving"
    /\ reaper.phase = "asleep" /\ reaper.wait = 0
    /\ idleTtl' = NextIdleTtl
    /\ pool' \in Picked(pool, {i \in 1..Len(pool) : ~Aged(pool[i])})
    /\ \E table \in Kept(Swept) :
           Proceed(table, Expired, {pool[i].box : i \in {k \in 1..Len(pool) : Aged(pool[k])}})
    /\ UNCHANGED <<stage, live, reserving, mint, due, ending, crashes>>

(* mutant: a reaped session is not removed from docker *)
ReaperForgets ==
    /\ reaper.box # {}
    /\ live' = live
    /\ Proceed(perIp, reaper.expired, reaper.recycle)
    /\ UNCHANGED <<stage, pool, reserving, mint, due, ending, idleTtl, crashes>>

Reaped ==
    /\ \E b \in reaper.box : Remove(b)
    /\ Proceed(perIp, reaper.expired, reaper.recycle)
    /\ UNCHANGED <<stage, pool, reserving, mint, due, ending, idleTtl, crashes>>

------------------------------------------------------------------------------
(* The process and its clock.                                              *)

(* _lifespan: force-remove every labelled container, fill the pool.        *)
Start ==
    /\ stage = "down"
    /\ stage' = "filling"
    /\ live' \in IF DockerMayFail THEN SUBSET live ELSE {{}}
    /\ refill' = [by |-> "startup", left |-> Need]
    /\ UNCHANGED <<pool, active, perIp, reserving, mint, due, reaper, ending, idleTtl, crashes>>

(* Everything but the containers is in RAM; creations may still complete.  *)
Crash ==
    /\ stage # "down"
    /\ crashes < MaxCrashes
    /\ crashes' = crashes + 1
    /\ stage' = "down"
    /\ live' \in {live \cup S : S \in {T \in SUBSET Fresh : Cardinality(T) =< Creations}}
    /\ pool' = <<>>
    /\ active' = [b \in Boxes |-> None]
    /\ perIp' = [ip \in Ips |-> None]
    /\ reserving' = 0
    /\ mint' = [m \in Mints |-> NoMint]
    /\ refill' = NoRefill
    /\ due' = 0
    /\ reaper' = NoReaping
    /\ ending' = {}
    /\ idleTtl' = IdleTTL

Older(n, cap) == Min({n + 1, cap})

(* Time never passes a reaper that is due; if docker and the loop are      *)
(* prompt it does not pass while a call or a task is outstanding either.   *)
Tick ==
    /\ stage # "down"
    /\ ~(stage = "serving" /\ reaper.phase = "asleep" /\ reaper.wait = 0)
    /\ DockerIsSlow \/ (DockerCalls = 0 /\ due = 0)
    /\ pool' = [i \in 1..Len(pool) |-> [pool[i] EXCEPT !.age = Older(@, PoolCap)]]
    /\ active' = [b \in Boxes |-> IF b \notin Sessions THEN None ELSE
           [active[b] EXCEPT !.age = Older(@, AgeCap), !.idle = Older(@, IdleCap),
                             !.beat = Older(@, BeatCap)]]
    /\ perIp' = [ip \in Ips |-> IF perIp[ip] = None THEN None ELSE
           [perIp[ip] EXCEPT !.seen = Older(@, SeenCap),
                !.minted = [i \in DOMAIN @ |-> IF i = 0 THEN 0 ELSE @[i - 1]]]]
    /\ mint' = [m \in Mints |-> IF mint[m] = NoMint THEN NoMint ELSE
           [mint[m] EXCEPT !.age = Older(@, AgeCap)]]
    /\ reaper' = IF stage = "serving" /\ reaper.phase = "asleep"
                 THEN [reaper EXCEPT !.wait = @ - 1] ELSE reaper
    /\ UNCHANGED <<stage, live, reserving, refill, due, ending, idleTtl, crashes>>

Next ==
    \/ Start \/ Crash \/ Tick
    \/ BeginRefill \/ RefillOne \/ RefillFails
    \/ Wake \/ Reaped
    \/ \E b \in Boxes : End(b) \/ Ended(b)
    \/ \E b \in Boxes, flag \in BOOLEAN : Heartbeat(b, flag) \/ Route(b, flag)
    \/ \E m \in Mints, ip \in Ips : New(m, ip) \/ \E b \in Boxes : Replace(m, ip, b)
    \/ \E m \in Mints : Replaced(m) \/ Reclaimed(m) \/ Created(m) \/ CreateFails(m)

Spec == Init /\ [][Next]_vars

------------------------------------------------------------------------------
(* What the warden promises.                                               *)

(* Who answers for a container: the pool, a session, or the task that      *)
(* awaits its removal.                                                     *)
Keepers(b) ==
    {<<"pool", i>> : i \in {k \in 1..Len(pool) : pool[k].box = b}}
    \cup {<<"session", 0>> : s \in Sessions \cap {b}}
    \cup {<<"end", 0>> : e \in ending \cap {b}}
    \cup {<<"mint", m>> : m \in {n \in MintsAt("ending") \cup MintsAt("reclaiming") :
                                     mint[n].box = b}}
    \cup {<<"reaper", 0>> : r \in (reaper.box \cup reaper.recycle) \cap {b}}

(* No container is in two hands: none backs two sessions, stays in the     *)
(* pool that it was assigned from, or is removed twice; and whoever holds  *)
(* one holds a container that exists (reserve-then-fill of _refill_pool,   *)
(* session_new, _reaper_tick and _destroy).                                *)
OneKeeper ==
    \A b \in Boxes : /\ Cardinality(Keepers(b)) =< 1
                     /\ Keepers(b) # {} => b \in live

(* While the warden runs every container has somebody who will remove it   *)
(* (checked as a promise of the documents: "Verify gone").                 *)
NoOrphans == stage = "serving" => \A b \in live : Keepers(b) # {}

(* _reserving is the number of requests that hold a place and have no      *)
(* session yet; every way out of session_new gives it back.                *)
ReservingIsExact == reserving = Cardinality(MintsAt("creating"))

(* The count that the per-address cap reads is the number of sessions of   *)
(* the address, whatever order they start, end and are forgotten in.       *)
PerIpIsExact ==
    \A ip \in Ips : Cardinality({b \in Sessions : active[b].ip = ip})
                        = IF perIp[ip] = None THEN 0 ELSE perIp[ip].active

(* "MAX_ACTIVE may never be exceeded" (tests/demo/test_warden_caps.py), a  *)
(* "hard instance cap" (docs/DEMO_WHITEPAPER.md).  Run warden_cap: while a *)
(* request awaits the removal of the session it reclaimed, another takes   *)
(* the place, and the first one takes it again.                            *)
HardCap == Cardinality(Sessions) =< MaxActive

(* How far the caps can be passed: the global one by requests that         *)
(* reclaimed, those of an address by requests that were checked together,  *)
(* the one on all instances, warm ones and those of a refill included, by  *)
(* a refill that the requests did not see as well.  Never by more than the *)
(* requests that are inside session_new with the one that was right to go  *)
(* on, and a pool.                                                         *)
Spare == Cardinality(Mints) - 1
UsedIsBounded == Used + Cardinality(MintsAt("reclaiming")) =< MaxActive + Spare
InstancesAreBounded ==
    Len(pool) + refill.left + Used + Cardinality(MintsAt("reclaiming"))
        =< MaxActive + PoolSize + Spare
AddressesAreBounded ==
    \A ip \in Ips : perIp[ip] # None => perIp[ip].active =< PerIpMax + Spare
MintedIsBounded ==
    \A ip \in Ips : perIp[ip] # None => Minted(perIp[ip]) =< MintMax + Spare
OvershootIsBounded ==
    UsedIsBounded /\ InstancesAreBounded /\ AddressesAreBounded /\ MintedIsBounded

(* With a prompt docker a session is gone one reaper period after its hard *)
(* deadline, whatever its visitor does (I3: nothing moves the deadline).   *)
SessionsEndOnTime == \A b \in Sessions : active[b].age =< HardTTL + Period

(* What a request would be handed now is not older than POOL_MAX_AGE       *)
(* (constants.py, "an instance is never ASSIGNED more than this after      *)
(* creation"): holds when docker is prompt.                                *)
AssignableIsYoung == stage = "serving" /\ FromPool => Head(pool).age =< PoolMaxAge

================================================================================
