--------------------------- MODULE JobExecutorProofs ---------------------------
(***************************************************************************)
(* Proofs about JobExecutor, for any jobs, threads and executors: a job    *)
(* for which the system had a thread is run once.                          *)
(*                                                                         *)
(* RunsOnceGivenThreads counts work items; it is inductive only together   *)
(* with which item there may be.  InPlace(j) says that an item of j is the *)
(* one of its last submit, in the executor that this submit was given, for *)
(* a job that has not ended, and that it is either queued, once, or runs.  *)
(***************************************************************************)
EXTENDS JobExecutor, FiniteSetTheorems, TLAPS

(* Where an item of j may be, and which one.                               *)
Expected(j) ==
    \A p \in Pools : \A item \in Items :
        item[1] = j /\ There(p, item) =>
            /\ step[j] = "returned"
            /\ p = had[j]
            /\ item = <<j, try[j]>>
            /\ status[j] # "ended"

(* It is there once.                                                       *)
Alone(j) ==
    \A p \in Pools : \A i \in 1..Len(queue[p]) :
        queue[p][i][1] = j =>
            /\ \A k \in 1..Len(queue[p]) : queue[p][k][1] = j => k = i
            /\ queue[p][i] \notin active[p]

(* A submit that has not returned is of a job that has not run.            *)
NotYet(j) == step[j] \in {"resolve", "submit"} => status[j] # "ended"

InPlace(j) == j \notin short => Expected(j) /\ Alone(j) /\ NotYet(j)

IInv ==
    /\ TypeOK
    /\ \A j \in Jobs : step[j] = "submit" => had[j] \in Pools
    /\ \A j \in Jobs : InPlace(j)

------------------------------------------------------------------------------
(* Types.                                                                  *)

LEMMA BoundsAreNumbers ==
    /\ Slots \in Nat /\ Slots > 0
    /\ MaxPools \in Nat /\ MaxPools > 0
    /\ Pools \subseteq Nat /\ Pools \subseteq 0..MaxPools
BY ExecutorAssumption DEF Pools

LEMMA TypesFromStart == Init => TypeOK
BY BoundsAreNumbers DEF Init, TypeOK

LEMMA EnqueueKeepsType ==
    ASSUME TypeOK, NEW j \in Jobs, had[j] \in Pools, Enqueue(had[j], j)
    PROVE  queue' \in [Pools -> Seq(Items)]
<1>1. <<j, try[j]>> \in Items
  BY DEF TypeOK, Items
<1>2. Append(queue[had[j]], <<j, try[j]>>) \in Seq(Items)
  BY <1>1 DEF TypeOK
<1> QED
  BY <1>2 DEF Enqueue, TypeOK

LEMMA RaiseKeepsType ==
    ASSUME TypeOK, NEW j \in Jobs, Raise(j) \/ Return(j), minded' = minded \/ Return(j)
    PROVE  /\ step' \in [Jobs -> {"idle", "resolve", "submit", "returned", "raised"}]
           /\ status' \in [Jobs -> {"none", "pending", "running", "ended"}]
           /\ try' \in [Jobs -> {1, 2}]
           /\ minded' \in [Jobs -> {0, 1, 2, Gone}]
<1>1. CASE Return(j)
  BY <1>1 DEF Return, TypeOK
<1>2. CASE Raise(j) /\ minded' = minded
  BY <1>2 DEF Raise, TypeOK
<1> QED
  BY <1>1, <1>2

LEMMA TypesOfSubmit ==
    ASSUME TypeOK, NEW j \in Jobs, had[j] \in Pools, Submit(j)
    PROVE  TypeOK'
<1>1. CASE SubmitToShutPool(j)
  BY <1>1, RaiseKeepsType DEF SubmitToShutPool, TypeOK, pools
<1>2. CASE SubmitToThreads(j)
  <2>1. queue' \in [Pools -> Seq(Items)]
    BY <1>2, EnqueueKeepsType DEF SubmitToThreads
  <2>2. idle' \in [Pools -> Nat]
    BY <1>2 DEF SubmitToThreads, TypeOK
  <2> QED
    BY <1>2, <2>1, <2>2, RaiseKeepsType DEF SubmitToThreads, TypeOK
<1>3. CASE SubmitStartsThread(j)
  <2>1. queue' \in [Pools -> Seq(Items)]
    BY <1>3, EnqueueKeepsType DEF SubmitStartsThread
  <2>2. threads' \in [Pools -> 0..Slots]
    BY <1>3, BoundsAreNumbers DEF SubmitStartsThread, TypeOK
  <2> QED
    BY <1>3, <2>1, <2>2, RaiseKeepsType DEF SubmitStartsThread, TypeOK
<1>4. CASE SubmitFindsNoThread(j)
  <2>1. queue' \in [Pools -> Seq(Items)]
    BY <1>4, EnqueueKeepsType DEF SubmitFindsNoThread
  <2> QED
    BY <1>4, <2>1, RaiseKeepsType DEF SubmitFindsNoThread, TypeOK
<1> QED
  BY <1>1, <1>2, <1>3, <1>4 DEF Submit

LEMMA TypesOfRuns ==
    ASSUME TypeOK, NEW p \in Pools,
           \/ RunBegins(p) \/ SkipCancelled(p)
           \/ \E item \in Items : RunEnds(p, item) \/ RunCrashes(p, item)
    PROVE  TypeOK'
<1>1. CASE RunBegins(p)
  <2>1. Head(queue[p]) \in Items /\ Tail(queue[p]) \in Seq(Items)
    BY <1>1 DEF RunBegins, TypeOK
  <2>2. Head(queue[p])[1] \in Jobs
    BY <2>1 DEF Items
  <2>3. queue' \in [Pools -> Seq(Items)]
    BY <1>1, <2>1 DEF RunBegins, TypeOK
  <2>4. active' \in [Pools -> SUBSET Items]
    BY <1>1, <2>1 DEF RunBegins, TypeOK
  <2>5. status' \in [Jobs -> {"none", "pending", "running", "ended"}]
    BY <1>1, <2>2 DEF RunBegins, TypeOK
  <2> QED
    BY <1>1, <2>3, <2>4, <2>5 DEF RunBegins, TypeOK
<1>2. ASSUME NEW item \in Items, RunEnds(p, item) \/ RunCrashes(p, item) PROVE TypeOK'
  <2>0. ThreadIsFree(p, item)
    BY <1>2 DEF RunEnds, RunCrashes
  <2>1. active' \in [Pools -> SUBSET Items]
    <3>1. active' = [active EXCEPT ![p] = @ \ {item}]
      BY <2>0 DEF ThreadIsFree
    <3>2. active[p] \ {item} \subseteq Items
      BY DEF TypeOK
    <3> QED
      BY <3>1, <3>2 DEF TypeOK
  <2>2. idle' \in [Pools -> Nat]
    <3>1. idle' = [idle EXCEPT ![p] = @ + 1]
      BY <2>0 DEF ThreadIsFree
    <3> QED
      BY <3>1 DEF TypeOK
  <2>3. status' \in [Jobs -> {"none", "pending", "running", "ended"}]
    BY <1>2 DEF RunEnds, RunCrashes, TypeOK, Items
  <2> QED
    BY <1>2, <2>1, <2>2, <2>3 DEF RunEnds, RunCrashes, TypeOK
<1>3. CASE SkipCancelled(p)
  <2>1. Tail(queue[p]) \in Seq(Items)
    BY <1>3 DEF SkipCancelled, TypeOK
  <2>2. queue' \in [Pools -> Seq(Items)] /\ idle' \in [Pools -> Nat]
    BY <1>3, <2>1 DEF SkipCancelled, TypeOK
  <2> QED
    BY <1>3, <2>2 DEF SkipCancelled, TypeOK
<1> QED
  BY <1>1, <1>2, <1>3

LEMMA TypesKept ==
    ASSUME TypeOK, \A j \in Jobs : step[j] = "submit" => had[j] \in Pools, [Next]_vars
    PROVE  /\ TypeOK'
           /\ \A j \in Jobs : step'[j] = "submit" => had'[j] \in Pools
<1>1. ASSUME NEW j \in Jobs, Accept(j) \/ Resolve(j) \/ Submit(j) \/ Cancel(j) \/ Forget(j)
      PROVE  /\ TypeOK'
             /\ \A k \in Jobs : step'[k] = "submit" => had'[k] \in Pools
  <2>1. CASE Accept(j)
    BY <2>1 DEF Accept, TypeOK, pools
  <2>2. CASE Resolve(j)
    <3>1. had' \in [Jobs -> 0..MaxPools] /\ had'[j] \in Pools
      <4>1. CASE current # 0
        <5>1. current \in Pools
          BY <4>1, BoundsAreNumbers DEF TypeOK, Pools
        <5> QED
          BY <2>2, <4>1, <5>1, BoundsAreNumbers DEF Resolve, TypeOK
      <4>2. CASE current = 0
        <5>1. built + 1 \in Pools
          BY <2>2, <4>2, BoundsAreNumbers DEF Resolve, TypeOK, Pools
        <5> QED
          BY <2>2, <4>2, <5>1, BoundsAreNumbers DEF Resolve, TypeOK
      <4> QED
        BY <4>1, <4>2
    <3>2. current' \in 0..MaxPools /\ built' \in 0..MaxPools
      BY <2>2, BoundsAreNumbers DEF Resolve, TypeOK
    <3>3. TypeOK'
      BY <2>2, <3>1, <3>2 DEF Resolve, TypeOK
    <3>4. ASSUME NEW k \in Jobs, k # j PROVE step'[k] = step[k] /\ had'[k] = had[k]
      BY <2>2, <3>4 DEF Resolve, TypeOK
    <3> QED
      BY <3>1, <3>3, <3>4
  <2>3. CASE Submit(j)
    <3>1. step[j] = "submit" /\ had' = had
      BY <2>3 DEF Submit, SubmitToShutPool, SubmitToThreads, SubmitStartsThread,
                  SubmitFindsNoThread
    <3>2. step'[j] # "submit" /\ \A k \in Jobs : k # j => step'[k] = step[k]
      BY <2>3 DEF Submit, SubmitToShutPool, SubmitToThreads, SubmitStartsThread,
                  SubmitFindsNoThread, Raise, Return, TypeOK
    <3> QED
      BY <2>3, <3>1, <3>2, TypesOfSubmit
  <2>4. CASE Forget(j)
    BY <2>4, BoundsAreNumbers DEF Forget, TypeOK, pools
  <2>5. CASE Cancel(j)
    BY <2>5 DEF Cancel, TypeOK, pools
  <2> QED
    BY <1>1, <2>1, <2>2, <2>3, <2>4, <2>5
<1>2. ASSUME NEW p \in Pools,
             \/ RunBegins(p) \/ SkipCancelled(p)
             \/ \E item \in Items : RunEnds(p, item) \/ RunCrashes(p, item)
      PROVE  TypeOK' /\ UNCHANGED <<step, had>>
  BY <1>2, TypesOfRuns DEF RunBegins, SkipCancelled, RunEnds, RunCrashes
<1>3. CASE Reset
  <2>1. current \in Pools
    BY <1>3, BoundsAreNumbers DEF Reset, TypeOK, Pools
  <2>2. closing' \subseteq Pools /\ current' \in 0..MaxPools
    BY <1>3, <2>1, BoundsAreNumbers DEF Reset, TypeOK
  <2> QED
    BY <1>3, <2>2 DEF Reset, TypeOK
<1>4. ASSUME NEW p \in Pools, Shutdown(p)
      PROVE  TypeOK' /\ UNCHANGED <<step, had>>
  BY <1>4 DEF Shutdown, TypeOK
<1>5. CASE UNCHANGED vars
  BY <1>5 DEF vars, TypeOK
<1> QED
  BY <1>1, <1>2, <1>3, <1>4, <1>5 DEF Next, Reset, vars

------------------------------------------------------------------------------
(* Queues.                                                                 *)

LEMMA QueueAfterEnqueue ==
    ASSUME TypeOK, NEW j \in Jobs, had[j] \in Pools, Enqueue(had[j], j)
    PROVE  /\ \A p \in Pools : p # had[j] => queue'[p] = queue[p]
           /\ Len(queue[had[j]]) \in Nat
           /\ Len(queue'[had[j]]) = Len(queue[had[j]]) + 1
           /\ \A i \in 1..Len(queue[had[j]]) : queue'[had[j]][i] = queue[had[j]][i]
           /\ queue'[had[j]][Len(queue[had[j]]) + 1] = <<j, try[j]>>
<1>1. \A p \in Pools : queue[p] \in Seq(Items)
  BY DEF TypeOK
<1>2. queue'[had[j]] = Append(queue[had[j]], <<j, try[j]>>)
  BY DEF Enqueue, TypeOK
<1>3. \A p \in Pools : p # had[j] => queue'[p] = queue[p]
  BY DEF Enqueue, TypeOK
<1> QED
  BY <1>1, <1>2, <1>3

LEMMA QueueAfterBegin ==
    ASSUME TypeOK, NEW p \in Pools, RunBegins(p)
    PROVE  /\ \A q \in Pools : q # p => queue'[q] = queue[q] /\ active'[q] = active[q]
           /\ Len(queue[p]) \in Nat /\ Len(queue[p]) > 0
           /\ Len(queue'[p]) = Len(queue[p]) - 1
           /\ \A i \in 1..Len(queue'[p]) : queue'[p][i] = queue[p][i + 1]
           /\ active'[p] = active[p] \cup {queue[p][1]}
           /\ status' = [status EXCEPT ![queue[p][1][1]] = "running"]
           /\ queue[p][1] \in Items
<1>1. queue[p] \in Seq(Items) /\ queue[p] # <<>>
  BY DEF TypeOK, RunBegins
<1>2. queue'[p] = Tail(queue[p]) /\ Head(queue[p]) = queue[p][1]
  BY <1>1 DEF RunBegins, TypeOK
<1>3. active'[p] = active[p] \cup {queue[p][1]}
  BY <1>2 DEF RunBegins, TypeOK
<1>4. status' = [status EXCEPT ![queue[p][1][1]] = "running"]
  BY <1>2 DEF RunBegins
<1>5. \A q \in Pools : q # p => queue'[q] = queue[q] /\ active'[q] = active[q]
  BY DEF RunBegins, TypeOK
<1> QED
  BY <1>1, <1>2, <1>3, <1>4, <1>5

LEMMA QueueAfterSkip ==
    ASSUME TypeOK, NEW p \in Pools, SkipCancelled(p)
    PROVE  /\ \A q \in Pools : q # p => queue'[q] = queue[q]
           /\ Len(queue[p]) \in Nat /\ Len(queue[p]) > 0
           /\ Len(queue'[p]) = Len(queue[p]) - 1
           /\ \A i \in 1..Len(queue'[p]) : queue'[p][i] = queue[p][i + 1]
<1>1. queue[p] \in Seq(Items) /\ queue[p] # <<>>
  BY DEF TypeOK, SkipCancelled
<1>2. queue'[p] = Tail(queue[p]) /\ \A q \in Pools : q # p => queue'[q] = queue[q]
  BY DEF SkipCancelled, TypeOK
<1> QED
  BY <1>1, <1>2

(* A job keeps its place when its own state and its items stay.            *)
LEMMA UntouchedStaysInPlace ==
    ASSUME NEW k \in Jobs, InPlace(k), UNCHANGED <<queue, active>>, k \notin short' => k \notin short,
           k \notin short' => UNCHANGED <<step[k], had[k], try[k], status[k]>>
    PROVE  InPlace(k)'
BY DEF InPlace, Expected, Alone, NotYet, There

(* It has no item as long as its submit has not returned.                  *)
LEMMA NothingThereYet ==
    ASSUME TypeOK, NEW j \in Jobs, InPlace(j), j \notin short, step[j] # "returned"
    PROVE  /\ \A p \in Pools : \A item \in Items : item[1] = j => ~There(p, item)
           /\ \A p \in Pools : \A i \in 1..Len(queue[p]) : queue[p][i][1] # j
<1>1. \A p \in Pools : \A item \in Items : item[1] = j => ~There(p, item)
  BY DEF InPlace, Expected
<1>2. ASSUME NEW p \in Pools, NEW i \in 1..Len(queue[p]), queue[p][i][1] = j PROVE FALSE
  <2>1. queue[p][i] \in Items
    BY DEF TypeOK
  <2> QED
    BY <1>1, <1>2, <2>1 DEF There
<1> QED
  BY <1>1, <1>2

LEMMA EnqueueKeepsInPlace ==
    ASSUME TypeOK, TypeOK', NEW j \in Jobs, had[j] \in Pools, Enqueue(had[j], j), UNCHANGED active,
           NEW k \in Jobs, InPlace(k),
           k \notin short' => k \notin short /\ UNCHANGED <<had[k], try[k], status[k]>>,
           k # j => UNCHANGED step[k],
           k = j /\ k \notin short' => step[j] = "submit" /\ step'[j] = "returned"
    PROVE  InPlace(k)'
<1> SUFFICES ASSUME k \notin short' PROVE Expected(k)' /\ Alone(k)' /\ NotYet(k)'
  BY DEF InPlace
<1>0. DEFINE h == had[j]
<1>1. /\ \A p \in Pools : p # h => queue'[p] = queue[p]
      /\ Len(queue[h]) \in Nat
      /\ Len(queue'[h]) = Len(queue[h]) + 1
      /\ \A i \in 1..Len(queue[h]) : queue'[h][i] = queue[h][i]
      /\ queue'[h][Len(queue[h]) + 1] = <<j, try[j]>>
  BY QueueAfterEnqueue
<1>2. k \notin short /\ Expected(k) /\ Alone(k) /\ NotYet(k)
  BY DEF InPlace
<1>3. CASE k # j
  <2>1. \A p \in Pools : \A i \in 1..Len(queue'[p]) :
          queue'[p][i][1] = k => i \in 1..Len(queue[p]) /\ queue[p][i] = queue'[p][i]
    <3> SUFFICES ASSUME NEW p \in Pools, NEW i \in 1..Len(queue'[p]), queue'[p][i][1] = k
                 PROVE  i \in 1..Len(queue[p]) /\ queue[p][i] = queue'[p][i]
      OBVIOUS
    <3>1. CASE p # h
      BY <1>1, <3>1
    <3>2. CASE p = h
      <4>1. i # Len(queue[h]) + 1
        BY <1>1, <1>3, <3>2
      <4>2. i \in 1..Len(queue[h])
        BY <1>1, <3>2, <4>1
      <4> QED
        BY <1>1, <3>2, <4>2
    <3> QED
      BY <3>1, <3>2
  <2>2. \A p \in Pools : \A item \in Items : item[1] = k /\ There(p, item)' => There(p, item)
    BY <2>1 DEF There
  <2>3. Expected(k)'
    BY <1>2, <1>3, <2>2 DEF Expected
  <2>4. Alone(k)'
    BY <1>2, <2>1 DEF Alone
  <2> QED
    BY <1>2, <1>3, <2>3, <2>4 DEF NotYet
<1>4. CASE k = j
  <2>1. /\ \A p \in Pools : \A item \in Items : item[1] = j => ~There(p, item)
        /\ \A p \in Pools : \A i \in 1..Len(queue[p]) : queue[p][i][1] # j
    BY <1>2, <1>4, NothingThereYet
  <2>2. \A p \in Pools : \A i \in 1..Len(queue'[p]) :
          queue'[p][i][1] = j => p = h /\ i = Len(queue[h]) + 1 /\ queue'[p][i] = <<j, try[j]>>
    <3> SUFFICES ASSUME NEW p \in Pools, NEW i \in 1..Len(queue'[p]), queue'[p][i][1] = j
                 PROVE  p = h /\ i = Len(queue[h]) + 1 /\ queue'[p][i] = <<j, try[j]>>
      OBVIOUS
    <3>1. p = h
      BY <1>1, <2>1
    <3>2. i \notin 1..Len(queue[h])
      BY <1>1, <2>1, <3>1
    <3>3. i = Len(queue[h]) + 1
      BY <1>1, <3>1, <3>2
    <3> QED
      BY <1>1, <3>1, <3>3
  <2>3. step'[j] = "returned" /\ status'[j] # "ended"
    BY <1>2, <1>4 DEF NotYet
  <2>4. <<j, try[j]>> \in Items
    BY DEF TypeOK, Items
  <2>5. Expected(j)'
    BY <1>4, <2>1, <2>2, <2>3 DEF Expected, There
  <2>6. Alone(j)'
    <3>1. \A p \in Pools : <<j, try[j]>> \notin active'[p]
      BY <2>1, <2>4 DEF There
    <3> QED
      BY <2>2, <3>1 DEF Alone
  <2> QED
    BY <1>4, <2>3, <2>5, <2>6 DEF NotYet
<1> QED
  BY <1>3, <1>4

LEMMA BeginKeepsInPlace ==
    ASSUME TypeOK, NEW p \in Pools, RunBegins(p), NEW k \in Jobs, InPlace(k)
    PROVE  InPlace(k)'
<1>0. UNCHANGED <<step, try, had, short>>
  BY DEF RunBegins
<1> SUFFICES ASSUME k \notin short PROVE Expected(k)' /\ Alone(k)' /\ NotYet(k)'
  BY <1>0 DEF InPlace
<1>1. /\ \A q \in Pools : q # p => queue'[q] = queue[q] /\ active'[q] = active[q]
      /\ Len(queue[p]) \in Nat /\ Len(queue[p]) > 0
      /\ Len(queue'[p]) = Len(queue[p]) - 1
      /\ \A i \in 1..Len(queue'[p]) : queue'[p][i] = queue[p][i + 1]
      /\ active'[p] = active[p] \cup {queue[p][1]}
      /\ status' = [status EXCEPT ![queue[p][1][1]] = "running"]
      /\ queue[p][1] \in Items
  BY QueueAfterBegin
<1>2. Expected(k) /\ Alone(k) /\ NotYet(k)
  BY DEF InPlace
<1>3. \A q \in Pools : \A item \in Items : There(q, item)' => There(q, item)
  <2> SUFFICES ASSUME NEW q \in Pools, NEW item \in Items, There(q, item)' PROVE There(q, item)
    OBVIOUS
  <2>1. CASE q # p
    BY <1>1, <2>1 DEF There
  <2>2. CASE q = p
    <3>1. CASE item \in active'[p]
      <4>1. 1 \in 1..Len(queue[p])
        BY <1>1
      <4> QED
        BY <1>1, <2>2, <3>1, <4>1 DEF There
    <3>2. ASSUME NEW i \in 1..Len(queue'[p]), queue'[p][i] = item PROVE There(p, item)
      <4>1. i + 1 \in 1..Len(queue[p]) /\ queue[p][i + 1] = item
        BY <1>1, <3>2
      <4> QED
        BY <4>1 DEF There
    <3> QED
      BY <2>2, <3>1, <3>2 DEF There
  <2> QED
    BY <2>1, <2>2
<1>4. status'[k] # "ended" \/ status'[k] = status[k]
  BY <1>1 DEF TypeOK, Items
<1>5. Expected(k)'
  BY <1>0, <1>2, <1>3, <1>4 DEF Expected
<1>6. Alone(k)'
  <2> SUFFICES ASSUME NEW q \in Pools, NEW i \in 1..Len(queue'[q]), queue'[q][i][1] = k
               PROVE  /\ \A m \in 1..Len(queue'[q]) : queue'[q][m][1] = k => m = i
                      /\ queue'[q][i] \notin active'[q]
    BY DEF Alone
  <2>1. CASE q # p
    BY <1>1, <1>2, <2>1 DEF Alone
  <2>2. CASE q = p
    <3>1. i + 1 \in 1..Len(queue[p]) /\ queue'[p][i] = queue[p][i + 1] /\ i \in Nat /\ i > 0
      BY <1>1, <2>2
    <3>2. ASSUME NEW m \in 1..Len(queue'[p]), queue'[p][m][1] = k PROVE m = i
      <4>1. m + 1 \in 1..Len(queue[p]) /\ queue'[p][m] = queue[p][m + 1]
        BY <1>1
      <4>2. m + 1 = i + 1
        BY <1>2, <2>2, <3>1, <3>2, <4>1 DEF Alone
      <4> QED
        BY <3>1, <4>2
    <3>3. queue[p][1] # queue[p][i + 1]
      <4>1. SUFFICES ASSUME queue[p][1] = queue[p][i + 1] PROVE FALSE
        OBVIOUS
      <4>2. queue[p][1][1] = k /\ 1 \in 1..Len(queue[p])
        BY <1>1, <2>2, <3>1, <4>1
      <4>3. i + 1 = 1
        BY <1>2, <2>2, <3>1, <4>2 DEF Alone
      <4> QED
        BY <3>1, <4>3
    <3>4. queue[p][i + 1] \notin active[p]
      BY <1>2, <2>2, <3>1 DEF Alone
    <3> QED
      BY <1>1, <2>2, <3>1, <3>2, <3>3, <3>4
  <2> QED
    BY <2>1, <2>2
<1>7. NotYet(k)'
  BY <1>0, <1>2, <1>4 DEF NotYet
<1> QED
  BY <1>5, <1>6, <1>7

LEMMA SkipKeepsInPlace ==
    ASSUME TypeOK, NEW p \in Pools, SkipCancelled(p), NEW k \in Jobs, InPlace(k)
    PROVE  InPlace(k)'
<1>0. UNCHANGED <<step, try, had, short, status, active>>
  BY DEF SkipCancelled
<1> SUFFICES ASSUME k \notin short PROVE Expected(k)' /\ Alone(k)' /\ NotYet(k)'
  BY <1>0 DEF InPlace
<1>1. /\ \A q \in Pools : q # p => queue'[q] = queue[q]
      /\ Len(queue[p]) \in Nat /\ Len(queue[p]) > 0
      /\ Len(queue'[p]) = Len(queue[p]) - 1
      /\ \A i \in 1..Len(queue'[p]) : queue'[p][i] = queue[p][i + 1]
  BY QueueAfterSkip
<1>2. Expected(k) /\ Alone(k) /\ NotYet(k)
  BY DEF InPlace
<1>3. \A i \in 1..Len(queue'[p]) :
         i \in Nat /\ i + 1 \in 1..Len(queue[p]) /\ queue'[p][i] = queue[p][i + 1]
  BY <1>1
<1>4. \A q \in Pools : \A item \in Items : There(q, item)' => There(q, item)
  <2> SUFFICES ASSUME NEW q \in Pools, NEW item \in Items, There(q, item)' PROVE There(q, item)
    OBVIOUS
  <2>1. CASE q # p
    BY <1>0, <1>1, <2>1 DEF There
  <2>2. CASE q = p
    <3>1. ASSUME NEW i \in 1..Len(queue'[p]), queue'[p][i] = item PROVE There(q, item)
      BY <1>3, <2>2, <3>1 DEF There
    <3> QED
      BY <1>0, <2>2, <3>1 DEF There
  <2> QED
    BY <2>1, <2>2
<1>5. Expected(k)' /\ NotYet(k)'
  BY <1>0, <1>2, <1>4 DEF Expected, NotYet
<1>6. Alone(k)'
  <2> SUFFICES ASSUME NEW q \in Pools, NEW i \in 1..Len(queue'[q]), queue'[q][i][1] = k
               PROVE  /\ \A m \in 1..Len(queue'[q]) : queue'[q][m][1] = k => m = i
                      /\ queue'[q][i] \notin active'[q]
    BY DEF Alone
  <2>1. CASE q # p
    BY <1>0, <1>1, <1>2, <2>1 DEF Alone
  <2>2. CASE q = p
    <3>1. queue'[p][i] \notin active[p]
      BY <1>2, <1>3, <2>2 DEF Alone
    <3>2. ASSUME NEW m \in 1..Len(queue'[p]), queue'[p][m][1] = k PROVE m = i
      <4>1. m + 1 = i + 1
        BY <1>2, <1>3, <2>2, <3>2 DEF Alone
      <4> QED
        BY <1>3, <2>2, <4>1
    <3> QED
      BY <1>0, <2>2, <3>1, <3>2
  <2> QED
    BY <2>1, <2>2
<1> QED
  BY <1>5, <1>6

LEMMA EndKeepsInPlace ==
    ASSUME TypeOK, NEW p \in Pools, NEW item \in Items, RunEnds(p, item) \/ RunCrashes(p, item),
           NEW k \in Jobs, InPlace(k)
    PROVE  InPlace(k)'
<1>0. UNCHANGED <<step, try, had, short, queue>> /\ item \in active[p]
  BY DEF RunEnds, RunCrashes
<1> SUFFICES ASSUME k \notin short PROVE Expected(k)' /\ Alone(k)' /\ NotYet(k)'
  BY <1>0 DEF InPlace
<1>1. Expected(k) /\ Alone(k) /\ NotYet(k)
  BY DEF InPlace
<1>2. /\ active'[p] = active[p] \ {item}
      /\ \A q \in Pools : q # p => active'[q] = active[q]
  BY DEF RunEnds, RunCrashes, ThreadIsFree, TypeOK
<1>3. \A q \in Pools : \A x \in Items : There(q, x)' => There(q, x)
  BY <1>0, <1>2 DEF There
<1>4. Alone(k)'
  BY <1>0, <1>1, <1>2 DEF Alone
<1>5. CASE item[1] # k
  <2>1. status'[k] = status[k]
    BY <1>5 DEF RunEnds, RunCrashes, TypeOK, Items
  <2> QED
    BY <1>0, <1>1, <1>3, <1>4, <2>1 DEF Expected, NotYet
<1>6. CASE item[1] = k
  <2>1. step[k] = "returned" /\ p = had[k] /\ item = <<k, try[k]>>
    BY <1>0, <1>1, <1>6 DEF Expected, There
  <2>2. ~There(p, item)'
    <3>1. ASSUME NEW i \in 1..Len(queue[p]), queue[p][i] = item PROVE FALSE
      BY <1>0, <1>1, <1>6, <3>1 DEF Alone
    <3> QED
      BY <1>0, <1>2, <3>1 DEF There
  <2>3. ASSUME NEW q \in Pools, NEW x \in Items, x[1] = k, There(q, x)' PROVE FALSE
    <3>1. q = p /\ x = item
      BY <1>1, <1>3, <2>1, <2>3 DEF Expected
    <3> QED
      BY <2>2, <2>3, <3>1
  <2> QED
    BY <1>0, <1>4, <2>1, <2>3 DEF Expected, NotYet
<1> QED
  BY <1>5, <1>6

------------------------------------------------------------------------------
LEMMA SubmitKeepsInPlace ==
    ASSUME TypeOK, TypeOK', NEW j \in Jobs, had[j] \in Pools, Submit(j),
           NEW k \in Jobs, InPlace(k)
    PROVE  InPlace(k)'
<1>1. CASE SubmitToShutPool(j)
  <2>1. UNCHANGED <<had, queue, active, short>> /\ Raise(j) /\ step[j] = "submit"
    BY <1>1 DEF SubmitToShutPool, pools
  <2>2. CASE k # j
    <3>1. UNCHANGED <<step[k], had[k], try[k], status[k]>>
      BY <2>1, <2>2 DEF Raise, TypeOK
    <3> QED
      BY <2>1, <3>1, UntouchedStaysInPlace
  <2>3. CASE k = j
    <3>1. SUFFICES ASSUME k \notin short PROVE Expected(k)' /\ Alone(k)' /\ NotYet(k)'
      BY <2>1 DEF InPlace
    <3>2. /\ \A p \in Pools : \A item \in Items : item[1] = j => ~There(p, item)
          /\ \A p \in Pools : \A i \in 1..Len(queue[p]) : queue[p][i][1] # j
      BY <2>1, <2>3, <3>1, NothingThereYet
    <3>3. Expected(k)' /\ Alone(k)'
      BY <2>1, <2>3, <3>2 DEF Expected, Alone, There
    <3>4. NotYet(k)'
      BY <2>1, <2>3, <3>1 DEF InPlace, NotYet, Raise, TypeOK
    <3> QED
      BY <3>3, <3>4
  <2> QED
    BY <2>2, <2>3
<1>2. CASE SubmitToThreads(j) \/ SubmitStartsThread(j)
  <2>1. Enqueue(had[j], j) /\ Return(j) /\ step[j] = "submit" /\ UNCHANGED <<had, active, short>>
    BY <1>2 DEF SubmitToThreads, SubmitStartsThread
  <2>2. UNCHANGED <<try, status>> /\ step'[j] = "returned" /\ (k # j => UNCHANGED step[k])
    BY <2>1 DEF Return, TypeOK
  <2> QED
    BY <2>1, <2>2, EnqueueKeepsInPlace
<1>3. CASE SubmitFindsNoThread(j)
  <2>1. Enqueue(had[j], j) /\ Raise(j) /\ UNCHANGED <<had, active>> /\ short' = short \cup {j}
    BY <1>3 DEF SubmitFindsNoThread
  <2>2. k # j => UNCHANGED <<step[k], try[k], status[k]>>
    BY <2>1 DEF Raise, TypeOK
  <2> QED
    BY <2>1, <2>2, EnqueueKeepsInPlace
<1> QED
  BY <1>1, <1>2, <1>3 DEF Submit

LEMMA ForgetKeepsInPlace ==
    ASSUME TypeOK, NEW j \in Jobs, Forget(j), NEW k \in Jobs, InPlace(k)
    PROVE  InPlace(k)'
<1>1. UNCHANGED <<queue, active>> /\ short' = short \ {j} /\ ItemsOf(j) = {}
  BY DEF Forget, pools
<1>2. CASE k # j
  <2>1. UNCHANGED <<step[k], had[k], try[k], status[k]>>
    BY <1>2 DEF Forget, TypeOK
  <2> QED
    BY <1>1, <1>2, <2>1, UntouchedStaysInPlace
<1>3. CASE k = j
  <2>1. ASSUME NEW p \in Pools, NEW item \in Items, item[1] = j, There(p, item) PROVE FALSE
    <3>1. <<p, item>> \in Pools \X Items
      OBVIOUS
    <3>2. <<p, item>> \in ItemsOf(j)
      BY <2>1, <3>1 DEF ItemsOf
    <3> QED
      BY <1>1, <3>2
  <2>2. ASSUME NEW p \in Pools, NEW i \in 1..Len(queue[p]), queue[p][i][1] = j PROVE FALSE
    <3>1. queue[p][i] \in Items
      BY DEF TypeOK
    <3> QED
      BY <2>1, <2>2, <3>1 DEF There
  <2>3. Expected(j)' /\ Alone(j)'
    BY <1>1, <2>1, <2>2 DEF Expected, Alone, There
  <2>4. NotYet(j)'
    BY DEF Forget, NotYet, TypeOK
  <2> QED
    BY <1>3, <2>3, <2>4 DEF InPlace
<1> QED
  BY <1>2, <1>3

LEMMA InvariantFromStart == Init => IInv
<1> SUFFICES ASSUME Init PROVE IInv
  OBVIOUS
<1>1. TypeOK
  BY TypesFromStart
<1>2. \A j \in Jobs : step[j] = "idle"
  BY DEF Init
<1>3. \A p \in Pools : active[p] = {} /\ Len(queue[p]) = 0
  BY DEF Init
<1>4. ASSUME NEW j \in Jobs PROVE InPlace(j)
  BY <1>2, <1>3 DEF InPlace, Expected, Alone, NotYet, There
<1> QED
  BY <1>1, <1>2, <1>4 DEF IInv

LEMMA InvariantKept == IInv /\ [Next]_vars => IInv'
<1> SUFFICES ASSUME IInv, [Next]_vars PROVE IInv'
  OBVIOUS
<1>1. TypeOK /\ TypeOK' /\ \A j \in Jobs : step'[j] = "submit" => had'[j] \in Pools
  BY TypesKept DEF IInv
<1>2. ASSUME NEW k \in Jobs PROVE InPlace(k)'
  <2>0. InPlace(k)
    BY DEF IInv
  <2>1. ASSUME NEW j \in Jobs, Accept(j) PROVE InPlace(k)'
    <3>1. UNCHANGED <<queue, active, had, try, short>>
      BY <2>1 DEF Accept, pools
    <3>2. k # j => UNCHANGED <<step[k], status[k]>>
      BY <1>1, <2>1 DEF Accept, TypeOK
    <3>3. CASE k = j /\ k \notin short
      <4>1. step[k] = "idle" /\ status'[k] = "pending"
        BY <1>1, <2>1, <3>3 DEF Accept, TypeOK
      <4>2. /\ \A p \in Pools : \A item \in Items : item[1] = k => ~There(p, item)
            /\ \A p \in Pools : \A i \in 1..Len(queue[p]) : queue[p][i][1] # k
        BY <1>1, <2>0, <3>3, <4>1, NothingThereYet
      <4> QED
        BY <3>1, <4>1, <4>2 DEF InPlace, Expected, Alone, NotYet, There
    <3> QED
      BY <2>0, <3>1, <3>2, <3>3, UntouchedStaysInPlace DEF InPlace
  <2>2. ASSUME NEW j \in Jobs, Resolve(j) PROVE InPlace(k)'
    <3>1. UNCHANGED <<queue, active, try, status, short>>
      BY <2>2 DEF Resolve
    <3>2. k # j => UNCHANGED <<step[k], had[k]>>
      BY <1>1, <2>2 DEF Resolve, TypeOK
    <3>3. CASE k = j /\ k \notin short
      <4>1. step[k] = "resolve" /\ status'[k] # "ended"
        BY <1>1, <2>0, <2>2, <3>1, <3>3 DEF Resolve, InPlace, NotYet
      <4>2. /\ \A p \in Pools : \A item \in Items : item[1] = k => ~There(p, item)
            /\ \A p \in Pools : \A i \in 1..Len(queue[p]) : queue[p][i][1] # k
        BY <1>1, <2>0, <3>3, <4>1, NothingThereYet
      <4> QED
        BY <3>1, <4>1, <4>2 DEF InPlace, Expected, Alone, NotYet, There
    <3> QED
      BY <2>0, <3>1, <3>2, <3>3, UntouchedStaysInPlace DEF InPlace
  <2>3. ASSUME NEW j \in Jobs, Submit(j) PROVE InPlace(k)'
    <3>1. had[j] \in Pools
      BY <2>3 DEF IInv, Submit, SubmitToShutPool, SubmitToThreads, SubmitStartsThread,
                  SubmitFindsNoThread
    <3> QED
      BY <1>1, <2>0, <2>3, <3>1, SubmitKeepsInPlace
  <2>4. ASSUME NEW j \in Jobs, Forget(j) PROVE InPlace(k)'
    BY <1>1, <2>0, <2>4, ForgetKeepsInPlace
  <2>5. CASE Reset \/ \E p \in Pools : Shutdown(p)
    BY <2>0, <2>5, UntouchedStaysInPlace DEF Reset, Shutdown
  <2>6. ASSUME NEW p \in Pools, RunBegins(p) PROVE InPlace(k)'
    BY <1>1, <2>0, <2>6, BeginKeepsInPlace
  <2>7. ASSUME NEW p \in Pools, NEW item \in Items, RunEnds(p, item) \/ RunCrashes(p, item)
        PROVE  InPlace(k)'
    BY <1>1, <2>0, <2>7, EndKeepsInPlace
  <2>9. ASSUME NEW j \in Jobs, Cancel(j) PROVE InPlace(k)'
    BY <2>0, <2>9, UntouchedStaysInPlace DEF Cancel, pools
  <2>10. ASSUME NEW p \in Pools, SkipCancelled(p) PROVE InPlace(k)'
    BY <1>1, <2>0, <2>10, SkipKeepsInPlace
  <2>8. CASE UNCHANGED vars
    BY <2>0, <2>8, UntouchedStaysInPlace DEF vars
  <2> QED
    BY <2>1, <2>2, <2>3, <2>4, <2>5, <2>6, <2>7, <2>8, <2>9, <2>10 DEF Next
<1> QED
  BY <1>1, <1>2 DEF IInv

LEMMA InvariantHolds == Spec => []IInv
BY InvariantFromStart, InvariantKept, PTL DEF Spec

(* Type correctness, of any jobs, threads and executors.                   *)
THEOREM ExecutorIsTyped == Spec => []TypeOK
<1>1. IInv => TypeOK
  BY DEF IInv
<1> QED
  BY <1>1, InvariantHolds, PTL

(* A job for which the system had a thread is run once, also when          *)
(* submit_backup_job met the shutdown of an executor and tried again.      *)
THEOREM JobsRunOnce == Spec => []RunsOnceGivenThreads
<1>1. IInv => RunsOnceGivenThreads
  <2> SUFFICES ASSUME IInv, NEW j \in Jobs \ short
               PROVE  /\ Cardinality(ItemsOf(j)) <= 1
                      /\ status[j] = "ended" => ItemsOf(j) = {}
    BY DEF RunsOnceGivenThreads, Once
  <2>1. Expected(j)
    BY DEF IInv, InPlace
  <2>2. ItemsOf(j) \subseteq {<<had[j], <<j, try[j]>>>>}
    <3> SUFFICES ASSUME NEW x \in ItemsOf(j) PROVE x = <<had[j], <<j, try[j]>>>>
      OBVIOUS
    <3>1. x \in Pools \X Items /\ x[2][1] = j /\ There(x[1], x[2])
      BY DEF ItemsOf
    <3>2. x = <<x[1], x[2]>> /\ x[1] \in Pools /\ x[2] \in Items
      BY <3>1
    <3>3. x[1] = had[j] /\ x[2] = <<j, try[j]>>
      BY <2>1, <3>1, <3>2 DEF Expected
    <3> QED
      BY <3>2, <3>3
  <2>3. Cardinality(ItemsOf(j)) <= 1
    <3>1. IsFiniteSet({<<had[j], <<j, try[j]>>>>}) /\ Cardinality({<<had[j], <<j, try[j]>>>>}) = 1
      BY FS_Singleton
    <3> QED
      BY <2>2, <3>1, FS_Subset
  <2>4. ASSUME status[j] = "ended", NEW x \in ItemsOf(j) PROVE FALSE
    <3>1. x[1] \in Pools /\ x[2] \in Items /\ x[2][1] = j /\ There(x[1], x[2])
      BY DEF ItemsOf
    <3> QED
      BY <2>1, <2>4, <3>1 DEF Expected
  <2> QED
    BY <2>3, <2>4
<1> QED
  BY <1>1, InvariantHolds, PTL
==============================================================================
