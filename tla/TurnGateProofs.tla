---------------------------- MODULE TurnGateProofs ----------------------------
(***************************************************************************)
(* The turn gate keeps its promises for every number of requests, turns,   *)
(* waiters and seconds.                                                    *)
(*                                                                         *)
(* One inductive invariant, IInv, carries everything.  The bounds are not  *)
(* inductive by themselves: the guards compare the counters `working' and  *)
(* `places', so CountersAreExact is needed to speak of the turns and the   *)
(* places they count; the counters stay exact only because a turn is given *)
(* back by somebody who has it, which is what BooksAgree and               *)
(* NothingLeftBehind say of the stages of one request.                     *)
(***************************************************************************)
EXTENDS TurnGate, FiniteSetTheorems, SequenceTheorems, TLAPS

(* The requests that hold a turn under the books t, those with a place, and*)
(* those that stand in the line l.                                         *)
Out(t) == {q \in Requests : t[q] # "none"}
Placed(p) == {q \in Requests : p[q]}
InLine(l) == {q \in Requests : \E i \in 1..Len(l) : l[i] = q}
NoneTwice(l) == \A i, j \in 1..Len(l) : l[i] = l[j] => i = j

TurnState == {"none", "at_work", "lent"}

(* CountersAreExact, in these terms.                                       *)
Counters ==
    /\ working = Cardinality(Out(turn))
    /\ places = Cardinality(Placed(place))

(* MemoryIsBounded, as the guards of the code see it.                      *)
CountersAreBounded ==
    /\ working <= AtOnce
    /\ places <= AtOnce + MostWaiting
    /\ Len(line) <= MostWaiting

(* BooksAgree, with the line as a set.                                     *)
Books ==
    /\ \A r \in Requests :
        /\ stage[r] = "line" <=> r \in InLine(line)
        /\ stage[r] = "work" <=> turn[r] = "at_work"
        /\ turn[r] = "lent" => stage[r] \in {"handler", "answer"} /\ ~gone[r]
        /\ sleep[r] > 0 => stage[r] = "line"
        /\ gone[r] => stage[r] \in {"handler", "line", "work"}
    /\ NoneTwice(line)

IInv ==
    /\ TypeOK
    /\ Counters
    /\ CountersAreBounded
    /\ Books
    /\ NothingLeftBehind
    /\ NoLostWakeUp
    /\ NobodyOversleeps

------------------------------------------------------------------------------
(* Sequences and counts.                                                   *)

(* RemoveAt, the deque.remove of the line: one element less, the rest in   *)
(* their order.                                                            *)
LEMMA RemoveAtProperties ==
    ASSUME NEW S, NEW s \in Seq(S), NEW i \in 1..Len(s)
    PROVE  /\ RemoveAt(s, i) \in Seq(S)
           /\ Len(RemoveAt(s, i)) = Len(s) - 1
           /\ \A j \in 1..(Len(s) - 1) :
                 RemoveAt(s, i)[j] = IF j < i THEN s[j] ELSE s[j + 1]
<1> DEFINE a == SubSeq(s, 1, i - 1)
           b == SubSeq(s, i + 1, Len(s))
<1>1. /\ a \in Seq(S)
      /\ Len(a) = i - 1
      /\ \A j \in 1..(i - 1) : a[j] = s[j]
  OBVIOUS
<1>2. /\ b \in Seq(S)
      /\ Len(b) = Len(s) - i
      /\ \A j \in 1..(Len(s) - i) : b[j] = s[i + j]
  OBVIOUS
<1> HIDE DEF a, b
<1>3. /\ a \o b \in Seq(S)
      /\ Len(a \o b) = Len(a) + Len(b)
      /\ \A j \in 1..(Len(a) + Len(b)) :
            (a \o b)[j] = IF j <= Len(a) THEN a[j] ELSE b[j - Len(a)]
  BY <1>1, <1>2, ConcatProperties
<1>4. Len(a) + Len(b) = Len(s) - 1 /\ Len(s) \in Nat
  BY <1>1, <1>2
<1>5. ASSUME NEW j \in 1..(Len(s) - 1)
      PROVE  (a \o b)[j] = IF j < i THEN s[j] ELSE s[j + 1]
  <2>1. CASE j < i
    BY <2>1, <1>1, <1>3, <1>4
  <2>2. CASE j >= i
    <3>1. (a \o b)[j] = b[j - (i - 1)]
      BY <2>2, <1>1, <1>3, <1>4
    <3>2. j - (i - 1) \in 1..(Len(s) - i) /\ i + (j - (i - 1)) = j + 1
      BY <2>2
    <3>3. b[j - (i - 1)] = s[i + (j - (i - 1))]
      BY <3>2, <1>2
    <3>4. (a \o b)[j] = s[j + 1]
      BY <3>1, <3>2, <3>3
    <3>5. ~(j < i)
      BY <2>2
    <3> QED BY <3>4, <3>5
  <2> QED BY <2>1, <2>2, <1>4
<1> QED BY <1>3, <1>4, <1>5 DEF RemoveAt, a, b

(* Giving a request a turn adds one to the count, taking it away takes one *)
(* off, and what it is used for makes no difference.                       *)
LEMMA CountTurns ==
    ASSUME NEW t \in [Requests -> TurnState], NEW r \in Requests,
           NEW v \in TurnState
    PROVE  /\ IsFiniteSet(Out(t))
           /\ Cardinality(Out(t)) \in Nat
           /\ LET u == [t EXCEPT ![r] = v] IN
                /\ u \in [Requests -> TurnState]
                /\ Cardinality(Out(u)) =
                     IF t[r] = "none" /\ v # "none" THEN Cardinality(Out(t)) + 1
                     ELSE IF t[r] # "none" /\ v = "none"
                          THEN Cardinality(Out(t)) - 1
                          ELSE Cardinality(Out(t))
<1> DEFINE u == [t EXCEPT ![r] = v]
<1>1. IsFiniteSet(Out(t)) /\ Cardinality(Out(t)) \in Nat
  BY GateAssumption, FS_Subset, FS_CardinalityType DEF Out
<1>2. u \in [Requests -> TurnState]
  OBVIOUS
<1>3. CASE t[r] = "none" /\ v # "none"
  <2>1. Out(u) = Out(t) \cup {r} /\ r \notin Out(t)
    BY <1>3 DEF Out
  <2> QED BY <2>1, <1>1, <1>2, <1>3, FS_AddElement
<1>4. CASE t[r] # "none" /\ v = "none"
  <2>1. Out(u) = Out(t) \ {r} /\ r \in Out(t)
    BY <1>4 DEF Out
  <2> QED BY <2>1, <1>1, <1>2, <1>4, FS_RemoveElement
<1>5. CASE ~(t[r] = "none" /\ v # "none") /\ ~(t[r] # "none" /\ v = "none")
  <2>1. Out(u) = Out(t)
    BY <1>5 DEF Out
  <2> QED BY <2>1, <1>1, <1>2, <1>5
<1> QED BY <1>1, <1>2, <1>3, <1>4, <1>5

(* The same for places.                                                    *)
LEMMA CountPlaces ==
    ASSUME NEW p \in [Requests -> BOOLEAN], NEW r \in Requests
    PROVE  /\ IsFiniteSet(Placed(p))
           /\ Cardinality(Placed(p)) \in Nat
           /\ [p EXCEPT ![r] = TRUE] \in [Requests -> BOOLEAN]
           /\ [p EXCEPT ![r] = FALSE] \in [Requests -> BOOLEAN]
           /\ ~p[r] => Cardinality(Placed([p EXCEPT ![r] = TRUE])) =
                          Cardinality(Placed(p)) + 1
           /\ p[r] => /\ Cardinality(Placed([p EXCEPT ![r] = FALSE])) =
                            Cardinality(Placed(p)) - 1
                      /\ Cardinality(Placed(p)) > 0
<1>1. IsFiniteSet(Placed(p)) /\ Cardinality(Placed(p)) \in Nat
  BY GateAssumption, FS_Subset, FS_CardinalityType DEF Placed
<1>2. /\ [p EXCEPT ![r] = TRUE] \in [Requests -> BOOLEAN]
      /\ [p EXCEPT ![r] = FALSE] \in [Requests -> BOOLEAN]
  OBVIOUS
<1>3. ASSUME ~p[r]
      PROVE  Cardinality(Placed([p EXCEPT ![r] = TRUE])) =
                Cardinality(Placed(p)) + 1
  <2>1. Placed([p EXCEPT ![r] = TRUE]) = Placed(p) \cup {r} /\ r \notin Placed(p)
    BY <1>3 DEF Placed
  <2> QED BY <2>1, <1>1, FS_AddElement
<1>4. ASSUME p[r]
      PROVE  /\ Cardinality(Placed([p EXCEPT ![r] = FALSE])) =
                   Cardinality(Placed(p)) - 1
             /\ Cardinality(Placed(p)) > 0
  <2>1. Placed([p EXCEPT ![r] = FALSE]) = Placed(p) \ {r} /\ r \in Placed(p)
    BY <1>4 DEF Placed
  <2>2. Cardinality(Placed(p)) # 0
    BY <2>1, <1>1, FS_EmptySet
  <2>3. Cardinality(Placed(p) \ {r}) = Cardinality(Placed(p)) - 1
    BY <2>1, <1>1, FS_RemoveElement
  <2>4. Cardinality(Placed(p)) > 0
    BY <2>2, <1>1
  <2> QED BY <2>1, <2>3, <2>4
<1> QED BY <1>1, <1>2, <1>3, <1>4

(* _take_back_what_is_overdue leaves the counter exact and only lowers it. *)
LEMMA TakeBack ==
    ASSUME TypeOK, Counters
    PROVE  /\ TurnsLeft \in [Requests -> TurnState]
           /\ StillOut \in Nat
           /\ StillOut <= working
           /\ StillOut = Cardinality(Out(TurnsLeft))
           /\ Overdue = {} => StillOut = working /\ TurnsLeft = turn
           /\ StillAsleep \in [Requests -> 0..Seconds]
<1>1. TurnsLeft \in [Requests -> TurnState]
  BY DEF TypeOK, TurnsLeft, TurnState
<1>2. IsFiniteSet(Out(turn)) /\ working = Cardinality(Out(turn))
  BY GateAssumption, FS_Subset DEF Out, Counters
<1>3. Overdue \in SUBSET Out(turn)
  BY DEF Overdue, Lent, Out
<1>4. IsFiniteSet(Overdue) /\ Cardinality(Overdue) \in Nat
  BY <1>2, <1>3, FS_Subset, FS_CardinalityType
<1>5. Out(TurnsLeft) = Out(turn) \ Overdue
  BY DEF Out, TurnsLeft
<1>6. /\ IsFiniteSet(Out(TurnsLeft))
      /\ Cardinality(Out(TurnsLeft)) = working - Cardinality(Overdue)
  <2>1. Out(turn) \cap Overdue = Overdue
    BY <1>3
  <2> QED BY <2>1, <1>2, <1>5, FS_Difference
<1>7. Cardinality(Out(TurnsLeft)) \in Nat
  BY <1>6, FS_CardinalityType
<1>8. Overdue = {} => StillOut = working /\ TurnsLeft = turn
  <2> SUFFICES ASSUME Overdue = {} PROVE StillOut = working /\ TurnsLeft = turn
    OBVIOUS
  <2>1. Cardinality(Overdue) = 0
    BY FS_EmptySet
  <2>2. TurnsLeft = turn
    BY <1>1 DEF TurnsLeft, TypeOK
  <2> QED BY <2>1, <2>2 DEF StillOut, TypeOK
<1>9. StillAsleep \in [Requests -> 0..Seconds]
  BY GateAssumption DEF StillAsleep, NobodySleeps, TypeOK
<1> QED BY <1>1, <1>4, <1>6, <1>7, <1>8, <1>9 DEF StillOut, TypeOK

(* _settle keeps the count of places exact, and only ever gives one back.  *)
LEMMA SettleProperties ==
    ASSUME TypeOK, Counters, NEW r \in Requests,
           NEW isGone \in BOOLEAN, NEW inLine \in BOOLEAN, NEW held,
           Settle(r, isGone, inLine, held)
    PROVE  /\ place' \in [Requests -> BOOLEAN]
           /\ places' \in Nat
           /\ places' = Cardinality(Placed(place'))
           /\ places' <= places
           /\ \A q \in Requests \ {r} : place'[q] = place[q]
           /\ place'[r] <=> place[r] /\ ~Settles(r, isGone, inLine, held)
<1>1. places = Cardinality(Placed(place)) /\ place \in [Requests -> BOOLEAN]
  BY DEF Counters, TypeOK
<1>2. CASE Settles(r, isGone, inLine, held)
  <2>1. place[r] /\ place' = [place EXCEPT ![r] = FALSE] /\ places' = places - 1
    BY <1>2 DEF Settle, Settles
  <2>2. /\ Cardinality(Placed(place')) = Cardinality(Placed(place)) - 1
        /\ Cardinality(Placed(place)) > 0
        /\ Cardinality(Placed(place)) \in Nat
        /\ place' \in [Requests -> BOOLEAN]
    BY <1>1, <2>1, CountPlaces
  <2>3. \A q \in Requests \ {r} : place'[q] = place[q]
    BY <1>1, <2>1
  <2>4. ~place'[r]
    BY <1>1, <2>1
  <2>5. places' = Cardinality(Placed(place')) /\ places' \in Nat /\ places' <= places
    BY <1>1, <2>1, <2>2
  <2> QED BY <1>2, <2>2, <2>3, <2>4, <2>5
<1>3. CASE ~Settles(r, isGone, inLine, held)
  <2>1. place' = place /\ places' = places
    BY <1>3 DEF Settle
  <2> QED BY <1>1, <1>3, <2>1 DEF TypeOK, Settles
<1> QED BY <1>2, <1>3

(* Whoever leaves the line, wherever it stood, is the only one to leave.   *)
LEMMA LeaveLineProperties ==
    ASSUME TypeOK, NoneTwice(line), NEW r \in Requests, LeaveLine(r)
    PROVE  /\ line' \in Seq(Requests)
           /\ Len(line') <= Len(line)
           /\ NoneTwice(line')
           /\ InLine(line') = InLine(line) \ {r}
           /\ FirstIn(r) => line' = RemoveAt(line, 1)
<1>1. PICK i \in 1..Len(line) : line[i] = r /\ line' = RemoveAt(line, i)
  BY DEF LeaveLine
<1>2. line \in Seq(Requests) /\ Len(line) \in Nat
  BY DEF TypeOK
<1>3. /\ line' \in Seq(Requests)
      /\ Len(line') = Len(line) - 1
      /\ \A j \in 1..(Len(line) - 1) :
            line'[j] = IF j < i THEN line[j] ELSE line[j + 1]
  BY <1>1, <1>2, RemoveAtProperties
<1>4. NoneTwice(line')
  BY <1>1, <1>2, <1>3 DEF NoneTwice
<1>5. ASSUME NEW q \in InLine(line')  PROVE q \in InLine(line) \ {r}
  BY <1>1, <1>2, <1>3, <1>5 DEF NoneTwice, InLine
<1>6. ASSUME NEW q \in InLine(line) \ {r}  PROVE q \in InLine(line')
  <2>1. PICK k \in 1..Len(line) : line[k] = q
    BY <1>6 DEF InLine
  <2>2. k # i
    BY <1>1, <1>6, <2>1
  <2>3. CASE k < i
    BY <1>1, <1>2, <1>3, <2>1, <2>3 DEF InLine
  <2>4. CASE k > i
    <3>1. k - 1 \in 1..(Len(line) - 1) /\ line'[k - 1] = q
      BY <1>1, <1>2, <1>3, <2>1, <2>4
    <3> QED BY <1>3, <3>1 DEF InLine
  <2> QED BY <1>1, <2>2, <2>3, <2>4
<1>7. FirstIn(r) => line' = RemoveAt(line, 1)
  BY <1>1, <1>2 DEF FirstIn, NoneTwice
<1> QED BY <1>2, <1>3, <1>4, <1>5, <1>6, <1>7

(* Whoever joins is new in the line.                                       *)
LEMMA JoinProperties ==
    ASSUME TypeOK, NoneTwice(line), NEW r \in Requests, r \notin InLine(line)
    PROVE  /\ Append(line, r) \in Seq(Requests)
           /\ Len(Append(line, r)) = Len(line) + 1
           /\ NoneTwice(Append(line, r))
           /\ InLine(Append(line, r)) = InLine(line) \cup {r}
           /\ Append(line, r)[1] = IF line = <<>> THEN r ELSE line[1]
           /\ Append(line, r) # <<>>
<1> DEFINE l == Append(line, r)
<1>1. line \in Seq(Requests) /\ Len(line) \in Nat
  BY DEF TypeOK
<1>2. /\ l \in Seq(Requests)
      /\ Len(l) = Len(line) + 1
      /\ \A i \in 1..Len(line) : l[i] = line[i]
      /\ l[Len(line) + 1] = r
      /\ l # <<>>
  BY <1>1
<1>3. line = <<>> <=> Len(line) = 0
  BY <1>1, EmptySeq
<1>4. l[1] = IF line = <<>> THEN r ELSE line[1]
  BY <1>1, <1>2, <1>3
<1> HIDE DEF l
<1>5. NoneTwice(l)
  BY <1>1, <1>2 DEF NoneTwice, InLine
<1>6. InLine(l) = InLine(line) \cup {r}
  BY <1>1, <1>2 DEF InLine
<1> QED BY <1>2, <1>4, <1>5, <1>6 DEF l

------------------------------------------------------------------------------
(* The invariant.                                                          *)

LEMMA InitEstablishesIInv == Init => IInv
<1> SUFFICES ASSUME Init PROVE IInv
  OBVIOUS
<1> USE DEF Init
<1>1. TypeOK
  BY GateAssumption, EmptySeq DEF TypeOK, Stages
<1>2. Counters
  <2>1. Out(turn) = {} /\ Placed(place) = {}
    BY DEF Out, Placed
  <2> QED BY <2>1, FS_EmptySet DEF Counters
<1>3. Len(line) = 0
  BY EmptySeq
<1>4. CountersAreBounded
  BY <1>3, GateAssumption DEF CountersAreBounded
<1>5. Books
  BY <1>3 DEF Books, InLine, NoneTwice
<1>6. NothingLeftBehind /\ NoLostWakeUp /\ NobodyOversleeps
  BY DEF NothingLeftBehind, NoLostWakeUp, NobodyOversleeps
<1> QED BY <1>1, <1>2, <1>4, <1>5, <1>6 DEF IInv

(* What every step starts from.                                            *)
StepFacts ==
    /\ line = <<>> <=> Len(line) = 0
    /\ Len(line) \in Nat
    /\ line # <<>> => line[1] \in Requests
    /\ turn \in [Requests -> TurnState]

LEMMA StepFactsHold == IInv => StepFacts
  BY EmptySeq DEF IInv, StepFacts, TypeOK, TurnState

(* Waking everybody keeps both promises about sleepers.                    *)
LEMMA NotifyAllIsSafe ==
    ASSUME sleep' = NobodySleeps, line' \in Seq(Requests)
    PROVE  /\ sleep' \in [Requests -> 0..Seconds]
           /\ NoLostWakeUp' /\ NobodyOversleeps'
<1>1. line' # <<>> => line'[1] \in Requests
  OBVIOUS
<1> QED BY <1>1, GateAssumption DEF NobodySleeps, NoLostWakeUp, NobodyOversleeps

(* Arrive takes a place and nothing else.                                  *)
LEMMA ArrivePreserves ==
    ASSUME IInv, NEW r \in Requests, Arrive(r)  PROVE IInv'
<1> USE DEF Arrive, Admit
<1>1. ~place[r] /\ place \in [Requests -> BOOLEAN]
  BY DEF IInv, TypeOK, NothingLeftBehind
<1>2. TypeOK'
  BY GateAssumption DEF IInv, TypeOK, Stages
<1>3. Counters'
  BY <1>1, CountPlaces DEF IInv, Counters
<1>4. CountersAreBounded'
  BY GateAssumption DEF IInv, CountersAreBounded, TypeOK
<1>5. Books'
  BY DEF IInv, Books, NothingLeftBehind, TypeOK
<1>6. NothingLeftBehind' /\ NoLostWakeUp'
  BY DEF IInv, Books, NothingLeftBehind, NoLostWakeUp, TypeOK
<1>7. NobodyOversleeps'
  BY DEF IInv, Books, NothingLeftBehind, NobodyOversleeps, TypeOK, Lent
<1> QED BY <1>2, <1>3, <1>4, <1>5, <1>6, <1>7 DEF IInv

(* answer_sent keeps the count of turns exact.                             *)
LEMMA GiveBackProperties ==
    ASSUME IInv, NEW r \in Requests, GiveBackIfLent(r)
    PROVE  /\ turn' \in [Requests -> TurnState]
           /\ turn'[r] = IF turn[r] = "lent" THEN "none" ELSE turn[r]
           /\ \A q \in Requests \ {r} : turn'[q] = turn[q]
           /\ working' = Cardinality(Out(turn'))
           /\ working' \in Nat
           /\ working' <= working
<1>1. turn \in [Requests -> TurnState] /\ working = Cardinality(Out(turn))
  BY StepFactsHold DEF StepFacts, IInv, Counters
<1>2. CASE turn[r] = "lent"
  <2>1. turn' = [turn EXCEPT ![r] = "none"] /\ working' = working - 1
    BY <1>2 DEF GiveBackIfLent
  <2>2. /\ turn' \in [Requests -> TurnState]
        /\ Cardinality(Out(turn')) = Cardinality(Out(turn)) - 1
        /\ Cardinality(Out(turn')) \in Nat
    BY <1>1, <1>2, <2>1, CountTurns DEF TurnState
  <2>3. turn'[r] = "none" /\ \A q \in Requests \ {r} : turn'[q] = turn[q]
    BY <1>1, <2>1
  <2>4. working' = Cardinality(Out(turn')) /\ working' \in Nat /\ working' <= working
    BY <1>1, <2>1, <2>2 DEF IInv, TypeOK
  <2> QED BY <1>2, <2>2, <2>3, <2>4
<1>3. CASE turn[r] # "lent"
  BY <1>1, <1>3 DEF GiveBackIfLent, IInv, TypeOK
<1> QED BY <1>2, <1>3

(* It wakes whoever has to know of it; otherwise nothing a sleeper waits   *)
(* for has changed.                                                        *)
LEMMA GiveBackWakes ==
    ASSUME IInv, NEW r \in Requests, GiveBackIfLent(r), line' = line,
           turn[r] # "lent" =>
              \/ sleep[r] = 0 /\ \A q \in Requests \ {r} : left'[q] = left[q]
              \/ \A q \in Requests : left'[q] = left[q]
    PROVE  /\ sleep' \in [Requests -> 0..Seconds]
           /\ NoLostWakeUp' /\ NobodyOversleeps'
<1>1. CASE turn[r] = "lent"
  <2>1. sleep' = NobodySleeps /\ line' \in Seq(Requests)
    BY <1>1 DEF GiveBackIfLent, IInv, TypeOK
  <2> QED BY <2>1, NotifyAllIsSafe
<1>2. CASE turn[r] # "lent"
  <2>1. sleep' = sleep /\ turn' = turn /\ working' = working
    BY <1>2 DEF GiveBackIfLent
  <2>2. NoLostWakeUp'
    BY <2>1 DEF IInv, NoLostWakeUp
  <2>3. ASSUME NEW q \in Requests, sleep[q] > 0, NEW h \in Lent \cup {q}
        PROVE  sleep[q] <= left'[h]
    <3>1. /\ sleep[q] <= left[h]
          /\ h # r \/ \A g \in Requests : left'[g] = left[g]
      BY <1>2, <2>3, GateAssumption DEF IInv, NobodyOversleeps, Lent, TypeOK
    <3> QED BY <2>3, <3>1, <1>2 DEF IInv, NobodyOversleeps, Lent
  <2>4. NobodyOversleeps'
    BY <2>1, <2>3 DEF NobodyOversleeps, Lent
  <2> QED BY <2>1, <2>2, <2>4 DEF IInv, TypeOK
<1> QED BY <1>1, <1>2

(* Over gives back the place and a lent turn, and forgets the request.     *)
LEMMA OverPreserves ==
    ASSUME IInv, NEW r \in Requests, stage[r] \in {"body", "answer"}, Over(r)
    PROVE  IInv'
<1>1. /\ stage' = [stage EXCEPT ![r] = "idle"]
      /\ left' = [left EXCEPT ![r] = 0]
      /\ Settle(r, TRUE, FALSE, turn[r])
      /\ GiveBackIfLent(r)
      /\ gone' = gone
      /\ line' = line
  BY DEF Over, GiveBackIfLent
<1>2. /\ turn[r] # "at_work"
      /\ ~gone[r]
      /\ r \notin InLine(line)
      /\ sleep[r] = 0
  BY DEF IInv, Books, TypeOK
<1>3. /\ place' \in [Requests -> BOOLEAN]
      /\ places' \in Nat
      /\ places' = Cardinality(Placed(place'))
      /\ places' <= places
      /\ \A q \in Requests \ {r} : place'[q] = place[q]
      /\ ~place'[r]
  BY <1>1, <1>2, SettleProperties DEF IInv, Settles
<1>4. /\ turn' \in [Requests -> TurnState]
      /\ turn'[r] = "none"
      /\ \A q \in Requests \ {r} : turn'[q] = turn[q]
      /\ working' = Cardinality(Out(turn'))
      /\ working' \in Nat
      /\ working' <= working
  BY <1>1, <1>2, GiveBackProperties, StepFactsHold DEF StepFacts, TurnState
<1>5. sleep' \in [Requests -> 0..Seconds] /\ NoLostWakeUp' /\ NobodyOversleeps'
  BY <1>1, <1>2, GiveBackWakes DEF IInv, TypeOK
<1>6. TypeOK'
  <2>1. /\ stage' \in [Requests -> Stages]
        /\ left' \in [Requests -> 0..Seconds]
        /\ gone' \in [Requests -> BOOLEAN]
        /\ line' \in Seq(Requests)
    BY <1>1, GateAssumption DEF IInv, TypeOK, Stages
  <2> QED BY <2>1, <1>3, <1>4, <1>5 DEF TypeOK, TurnState
<1>7. Counters'
  BY <1>3, <1>4 DEF Counters
<1>8. CountersAreBounded'
  BY <1>1, <1>3, <1>4, GateAssumption DEF IInv, CountersAreBounded, TypeOK
<1>9. sleep'[r] = 0 /\ \A q \in Requests : sleep'[q] > 0 => sleep[q] > 0
  BY <1>1, <1>2 DEF GiveBackIfLent, NobodySleeps, IInv, TypeOK
<1>10. Books'
  BY <1>1, <1>2, <1>4, <1>9 DEF IInv, Books, TypeOK
<1>11. NothingLeftBehind'
  BY <1>1, <1>2, <1>3, <1>4 DEF IInv, NothingLeftBehind, TypeOK
<1> QED BY <1>5, <1>6, <1>7, <1>8, <1>10, <1>11 DEF IInv

(* A client that leaves takes its lent turn along, and its place too       *)
(* unless its thread stands in the line or is at work.                     *)
LEMMA ClientLeftPreserves ==
    ASSUME IInv, NEW r \in Requests, ClientLeft(r)  PROVE IInv'
<1>1. /\ stage[r] \in {"handler", "line", "work"}
      /\ gone' = [gone EXCEPT ![r] = TRUE]
      /\ Settle(r, TRUE, stage[r] = "line", turn[r])
      /\ GiveBackIfLent(r)
      /\ stage' = stage /\ left' = left /\ line' = line
  BY DEF ClientLeft, GiveBackIfLent
<1>2. turn[r] = "at_work" <=> stage[r] = "work"
  BY DEF IInv, Books
<1>3. /\ place' \in [Requests -> BOOLEAN]
      /\ places' \in Nat
      /\ places' = Cardinality(Placed(place'))
      /\ places' <= places
      /\ \A q \in Requests \ {r} : place'[q] = place[q]
      /\ stage[r] = "handler" => ~place'[r]
  BY <1>1, <1>2, SettleProperties DEF IInv, Settles
<1>4. /\ turn' \in [Requests -> TurnState]
      /\ turn'[r] = IF turn[r] = "lent" THEN "none" ELSE turn[r]
      /\ \A q \in Requests \ {r} : turn'[q] = turn[q]
      /\ working' = Cardinality(Out(turn'))
      /\ working' \in Nat
      /\ working' <= working
  BY <1>1, GiveBackProperties
<1>5. sleep' \in [Requests -> 0..Seconds] /\ NoLostWakeUp' /\ NobodyOversleeps'
  <2>1. turn[r] # "lent" => \A h \in Requests : left'[h] = left[h]
    BY <1>1
  <2> QED BY <1>1, <2>1, GiveBackWakes DEF IInv, TypeOK
<1>6. TypeOK'
  BY <1>1, <1>3, <1>4, <1>5 DEF IInv, TypeOK, TurnState
<1>7. Counters'
  BY <1>3, <1>4 DEF Counters
<1>8. CountersAreBounded'
  BY <1>1, <1>3, <1>4, GateAssumption DEF IInv, CountersAreBounded, TypeOK
<1>9. \A q \in Requests : sleep'[q] > 0 => sleep[q] > 0
  BY <1>1 DEF GiveBackIfLent, NobodySleeps, IInv, TypeOK
<1>10. Books'
  BY <1>1, <1>2, <1>4, <1>9 DEF IInv, Books, TypeOK
<1>11. NothingLeftBehind'
  BY <1>1, <1>3, <1>4 DEF IInv, NothingLeftBehind, TypeOK
<1> QED BY <1>5, <1>6, <1>7, <1>8, <1>10, <1>11 DEF IInv

(* BodyIn, HandlerReturns and Tick touch no turn, no place and no counter. *)
LEMMA BodyInPreserves ==
    ASSUME IInv, NEW r \in Requests, BodyIn(r)  PROVE IInv'
<1> USE DEF BodyIn
<1>1. TypeOK' /\ Counters' /\ CountersAreBounded'
  BY DEF IInv, TypeOK, Stages, Counters, CountersAreBounded
<1>2. Books' /\ NothingLeftBehind'
  BY DEF IInv, Books, NothingLeftBehind, TypeOK
<1>3. NoLostWakeUp' /\ NobodyOversleeps'
  BY DEF IInv, NoLostWakeUp, NobodyOversleeps, Lent
<1> QED BY <1>1, <1>2, <1>3 DEF IInv

LEMMA HandlerReturnsPreserves ==
    ASSUME IInv, NEW r \in Requests, HandlerReturns(r)  PROVE IInv'
<1> DEFINE next == IF gone[r] THEN "idle" ELSE "answer"
<1>1. stage[r] = "handler"
  BY DEF HandlerReturns
<1>2. /\ stage' = [stage EXCEPT ![r] = next]
      /\ gone' = [gone EXCEPT ![r] = FALSE]
      /\ \A q \in Requests \ {r} : left'[q] = left[q]
      /\ ~gone[r] => left' = left
      /\ left' \in [Requests -> 0..Seconds]
      /\ place' = place /\ turn' = turn /\ sleep' = sleep /\ line' = line
      /\ working' = working /\ places' = places
  <2>1. CASE gone[r]
    <3>1. /\ stage' = [stage EXCEPT ![r] = next]
          /\ gone' = [gone EXCEPT ![r] = FALSE]
          /\ left' = [left EXCEPT ![r] = 0]
          /\ UNCHANGED <<place, turn, sleep, line, working, places>>
      BY <2>1 DEF HandlerReturns
    <3>2. left \in [Requests -> 0..Seconds] /\ 0 \in 0..Seconds
      BY GateAssumption DEF IInv, TypeOK
    <3> QED BY <2>1, <3>1, <3>2
  <2>2. CASE ~gone[r]
    <3>1. gone = [gone EXCEPT ![r] = FALSE]
      BY <2>2 DEF IInv, TypeOK
    <3> QED BY <2>2, <3>1, GateAssumption DEF HandlerReturns, IInv, TypeOK
  <2> QED BY <2>1, <2>2
<1>3. /\ sleep[r] = 0
      /\ r \notin InLine(line)
      /\ turn[r] # "at_work"
      /\ gone[r] => turn[r] # "lent" /\ ~place[r]
  BY <1>1, GateAssumption DEF IInv, Books, TypeOK, NothingLeftBehind
<1>4. next \in Stages /\ next \notin {"line", "work", "handler"}
  BY DEF Stages
<1>5. /\ TypeOK' /\ Counters' /\ CountersAreBounded'
  BY <1>2, <1>4 DEF IInv, TypeOK, Counters, CountersAreBounded
<1>6. Books'
  BY <1>1, <1>2, <1>3 DEF IInv, Books, TypeOK
<1>7. NothingLeftBehind'
  BY <1>1, <1>2, <1>3 DEF IInv, NothingLeftBehind, TypeOK
<1>8. NoLostWakeUp'
  BY <1>2 DEF IInv, NoLostWakeUp
<1>9. ASSUME NEW q \in Requests, sleep[q] > 0, NEW h \in Lent \cup {q}
      PROVE  sleep[q] <= left'[h]
  <2>1. sleep[q] <= left[h]
    BY <1>9 DEF IInv, NobodyOversleeps
  <2>2. h # r \/ ~gone[r]
    BY <1>3, <1>9 DEF Lent
  <2> QED BY <1>2, <1>9, <2>1, <2>2 DEF Lent
<1>10. NobodyOversleeps'
  BY <1>2, <1>9 DEF NobodyOversleeps, Lent
<1> QED BY <1>5, <1>6, <1>7, <1>8, <1>10 DEF IInv

LEMMA TickPreserves == ASSUME IInv, Tick  PROVE IInv'
<1>1. /\ left' = [r \in Requests |-> Earlier(left[r])]
      /\ sleep' = [r \in Requests |-> Earlier(sleep[r])]
      /\ stage' = stage /\ place' = place /\ gone' = gone /\ turn' = turn
      /\ line' = line /\ working' = working /\ places' = places
  BY DEF Tick
<1>2. \A t \in 0..Seconds : Earlier(t) \in 0..Seconds /\ Earlier(t) <= t
  BY GateAssumption DEF Earlier
<1>3. TypeOK' /\ Counters' /\ CountersAreBounded'
  BY <1>1, <1>2 DEF IInv, TypeOK, Counters, CountersAreBounded
<1>4. \A q \in Requests : sleep'[q] > 0 => sleep[q] > 0
  BY <1>1, GateAssumption DEF IInv, TypeOK, Earlier
<1>5. Books' /\ NothingLeftBehind'
  BY <1>1, <1>4 DEF IInv, Books, NothingLeftBehind
<1>6. NoLostWakeUp'
  BY <1>1, <1>4, StepFactsHold DEF IInv, NoLostWakeUp, StepFacts
<1>7. NobodyOversleeps'
  <2>1. ASSUME NEW q \in Requests, sleep'[q] > 0, NEW h \in Lent \cup {q}
        PROVE  sleep'[q] <= left'[h]
    <3>1. sleep[q] > 0 /\ sleep[q] <= left[h] /\ h \in Requests
      BY <1>4, <2>1 DEF IInv, NobodyOversleeps, Lent
    <3>2. sleep[q] \in 0..Seconds /\ left[h] \in 0..Seconds
      BY <3>1 DEF IInv, TypeOK
    <3> QED BY <1>1, <3>1, <3>2, GateAssumption DEF Earlier
  <2> QED BY <1>1, <2>1 DEF NobodyOversleeps, Lent
<1> QED BY <1>3, <1>5, <1>6, <1>7 DEF IInv

(* The block ends: the turn is lent, or comes back with the place.         *)
LEMMA WorkEndsPreserves ==
    ASSUME IInv, NEW r \in Requests, WorkEnds(r)  PROVE IInv'
<1>1. /\ stage[r] = "work"
      /\ stage' = [stage EXCEPT ![r] = "handler"]
      /\ sleep' = NobodySleeps
      /\ gone' = gone /\ left' = left /\ line' = line
  BY DEF WorkEnds
<1>2. /\ turn[r] = "at_work" /\ turn \in [Requests -> TurnState]
      /\ working = Cardinality(Out(turn))
      /\ r \notin InLine(line)
  BY <1>1, StepFactsHold DEF IInv, Books, StepFacts, Counters
<1>3. /\ turn' = [turn EXCEPT ![r] = IF gone[r] THEN "none" ELSE "lent"]
      /\ working' = IF gone[r] THEN working - 1 ELSE working
  BY DEF WorkEnds
<1>4. /\ turn' \in [Requests -> TurnState]
      /\ turn'[r] = IF gone[r] THEN "none" ELSE "lent"
      /\ \A q \in Requests \ {r} : turn'[q] = turn[q]
  BY <1>2, <1>3 DEF TurnState
<1>5. working' = Cardinality(Out(turn')) /\ working' \in Nat /\ working' <= working
  <2>1. CASE gone[r]
    <3>1. Cardinality(Out(turn')) = Cardinality(Out(turn)) - 1
      BY <1>2, <1>3, <2>1, CountTurns DEF TurnState
    <3>2. Cardinality(Out(turn')) \in Nat
      BY <1>4, CountTurns
    <3> QED BY <1>2, <1>3, <2>1, <3>1, <3>2 DEF IInv, TypeOK
  <2>2. CASE ~gone[r]
    <3>1. Cardinality(Out(turn')) = Cardinality(Out(turn))
      BY <1>2, <1>3, <2>2, CountTurns DEF TurnState
    <3> QED BY <1>2, <1>3, <2>2, <3>1 DEF IInv, TypeOK
  <2> QED BY <2>1, <2>2
<1>6. /\ place' \in [Requests -> BOOLEAN]
      /\ places' \in Nat
      /\ places' = Cardinality(Placed(place'))
      /\ places' <= places
      /\ \A q \in Requests \ {r} : place'[q] = place[q]
      /\ gone[r] => ~place'[r]
  <2>1. CASE gone[r]
    <3>1. Settle(r, TRUE, FALSE, "none")
      BY <2>1 DEF WorkEnds
    <3>2. TypeOK /\ Counters
      BY DEF IInv
    <3>3. place[r] => Settles(r, TRUE, FALSE, "none")
      BY DEF Settles
    <3> QED BY <3>1, <3>2, <3>3, SettleProperties
  <2>2. CASE ~gone[r]
    BY <2>2 DEF WorkEnds, IInv, TypeOK, Counters
  <2> QED BY <2>1, <2>2
<1>7. sleep' \in [Requests -> 0..Seconds] /\ NoLostWakeUp' /\ NobodyOversleeps'
  BY <1>1, NotifyAllIsSafe DEF IInv, TypeOK
<1>8. TypeOK'
  BY <1>1, <1>4, <1>5, <1>6, <1>7 DEF IInv, TypeOK, Stages, TurnState
<1>9. Counters' /\ CountersAreBounded'
  BY <1>1, <1>5, <1>6, GateAssumption
     DEF IInv, Counters, CountersAreBounded, TypeOK
<1>10. Books'
  BY <1>1, <1>2, <1>4 DEF IInv, Books, TypeOK, NobodySleeps
<1>11. NothingLeftBehind'
  BY <1>1, <1>4, <1>6 DEF IInv, NothingLeftBehind, TypeOK
<1> QED BY <1>7, <1>8, <1>9, <1>10, <1>11 DEF IInv

------------------------------------------------------------------------------
(* The branches of _Turns.take.                                            *)

LEMMA TakeOwnBackPreserves ==
    ASSUME IInv, NEW r \in Requests, TakeOwnBack(r)  PROVE IInv'
<1>1. /\ stage[r] = "handler" /\ turn[r] = "lent"
      /\ turn' = [turn EXCEPT ![r] = "at_work"]
      /\ stage' = [stage EXCEPT ![r] = "work"]
      /\ place' = place /\ gone' = gone /\ left' = left /\ sleep' = sleep
      /\ line' = line /\ working' = working /\ places' = places
  BY DEF TakeOwnBack
<1>2. turn \in [Requests -> TurnState] /\ r \notin InLine(line)
  BY <1>1, StepFactsHold DEF StepFacts, IInv, Books
<1>3. TypeOK'
  BY <1>1 DEF IInv, TypeOK, Stages
<1>4. Counters' /\ CountersAreBounded'
  BY <1>1, <1>2, CountTurns DEF IInv, Counters, CountersAreBounded, TurnState
<1>5. Books' /\ NothingLeftBehind'
  BY <1>1, <1>2 DEF IInv, Books, NothingLeftBehind, TypeOK
<1>6. NoLostWakeUp' /\ NobodyOversleeps'
  BY <1>1, <1>2 DEF IInv, NoLostWakeUp, NobodyOversleeps, Lent, TypeOK
<1> QED BY <1>3, <1>4, <1>5, <1>6 DEF IInv

(* What holds once the overdue turns are back.                             *)
LEMMA AfterTakeBack ==
    ASSUME IInv
    PROVE  /\ StillOut <= AtOnce
           /\ \A q \in Requests :
                /\ TurnsLeft[q] \in {turn[q], "none"}
                /\ turn[q] # "lent" => TurnsLeft[q] = turn[q]
                /\ StillAsleep[q] > 0 =>
                      /\ sleep[q] > 0
                      /\ \A h \in (Lent \ Overdue) \cup {q} : StillAsleep[q] <= left[h]
           /\ line # <<>> /\ StillAsleep[line[1]] > 0 => StillOut = AtOnce
           /\ {q \in Requests : TurnsLeft[q] = "lent"} = Lent \ Overdue
<1>1. StillOut <= working /\ StillOut \in Nat /\ (Overdue = {} => StillOut = working)
  BY TakeBack DEF IInv
<1>2. StillOut <= AtOnce
  BY <1>1, GateAssumption DEF IInv, CountersAreBounded, TypeOK
<1>3. ASSUME NEW q \in Requests
      PROVE  /\ TurnsLeft[q] \in {turn[q], "none"}
             /\ turn[q] # "lent" => TurnsLeft[q] = turn[q]
  BY DEF TurnsLeft, Overdue, Lent
<1>4. ASSUME NEW q \in Requests, StillAsleep[q] > 0
      PROVE  /\ Overdue = {}
             /\ sleep[q] > 0
             /\ \A h \in (Lent \ Overdue) \cup {q} : StillAsleep[q] <= left[h]
  BY <1>4 DEF StillAsleep, NobodySleeps, IInv, NobodyOversleeps
<1>5. line # <<>> /\ StillAsleep[line[1]] > 0 => StillOut = AtOnce
  <2> SUFFICES ASSUME line # <<>>, StillAsleep[line[1]] > 0  PROVE StillOut = AtOnce
    OBVIOUS
  <2>1. line[1] \in Requests
    BY StepFactsHold DEF StepFacts
  <2>2. Overdue = {} /\ sleep[line[1]] > 0
    BY <1>4, <2>1
  <2> QED BY <1>1, <2>2 DEF IInv, NoLostWakeUp
<1>6. {q \in Requests : TurnsLeft[q] = "lent"} = Lent \ Overdue
  BY DEF TurnsLeft, Lent
<1> QED BY <1>2, <1>3, <1>4, <1>5, <1>6

(* The step to a turn, from the handler or from the line: r goes to work   *)
(* on a turn that is free once the overdue ones are back.                  *)
LEMMA StartWork ==
    ASSUME IInv, NEW r \in Requests, turn[r] = "none", StillOut < AtOnce,
           turn' = [TurnsLeft EXCEPT ![r] = "at_work"],
           working' = StillOut + 1
    PROVE  /\ turn' \in [Requests -> TurnState]
           /\ turn'[r] = "at_work"
           /\ \A q \in Requests \ {r} : turn'[q] = TurnsLeft[q]
           /\ working' \in Nat
           /\ working' <= AtOnce
           /\ working' = Cardinality(Out(turn'))
<1>1. /\ TurnsLeft \in [Requests -> TurnState]
      /\ StillOut \in Nat
      /\ StillOut = Cardinality(Out(TurnsLeft))
  BY TakeBack DEF IInv
<1>2. TurnsLeft[r] = "none"
  BY AfterTakeBack
<1>3. Cardinality(Out(turn')) = Cardinality(Out(TurnsLeft)) + 1
  BY <1>1, <1>2, CountTurns DEF TurnState
<1> QED BY <1>1, <1>3, GateAssumption DEF TurnState

LEMMA TakeFreePreserves ==
    ASSUME IInv, NEW r \in Requests, TakeFree(r)  PROVE IInv'
<1>1. /\ stage[r] = "handler" /\ turn[r] = "none" /\ StillOut < AtOnce
      /\ line = <<>>
      /\ stage' = [stage EXCEPT ![r] = "work"]
      /\ turn' = [TurnsLeft EXCEPT ![r] = "at_work"]
      /\ working' = StillOut + 1
      /\ sleep' = StillAsleep
      /\ place' = place /\ gone' = gone /\ left' = left
      /\ line' = line /\ places' = places
  BY DEF TakeFree
<1>2. /\ turn' \in [Requests -> TurnState]
      /\ turn'[r] = "at_work"
      /\ \A q \in Requests \ {r} : turn'[q] = TurnsLeft[q]
      /\ working' \in Nat
      /\ working' <= AtOnce
      /\ working' = Cardinality(Out(turn'))
  BY <1>1, StartWork
<1>3. sleep' \in [Requests -> 0..Seconds]
  BY <1>1, TakeBack DEF IInv
<1>4. TypeOK'
  BY <1>1, <1>2, <1>3 DEF IInv, TypeOK, Stages, TurnState
<1>5. Counters' /\ CountersAreBounded'
  BY <1>1, <1>2 DEF IInv, Counters, CountersAreBounded
<1>6. r \notin InLine(line)
  BY <1>1 DEF IInv, Books
<1>7. Books' /\ NothingLeftBehind'
  BY <1>1, <1>2, <1>6, AfterTakeBack DEF IInv, Books, NothingLeftBehind, TypeOK
<1>8. NoLostWakeUp'
  BY <1>1 DEF NoLostWakeUp
<1>9. Lent' = Lent \ Overdue
  BY <1>1, <1>2, AfterTakeBack DEF Lent
<1>10. NobodyOversleeps'
  BY <1>1, <1>9, AfterTakeBack DEF NobodyOversleeps
<1> QED BY <1>4, <1>5, <1>7, <1>8, <1>10 DEF IInv

LEMMA RefusedLineFullPreserves ==
    ASSUME IInv, NEW r \in Requests, RefusedLineFull(r)  PROVE IInv'
<1>1. /\ turn' = TurnsLeft /\ working' = StillOut /\ sleep' = StillAsleep
      /\ stage' = stage /\ place' = place /\ gone' = gone /\ left' = left
      /\ line' = line /\ places' = places
  BY DEF RefusedLineFull
<1>2. /\ turn' \in [Requests -> TurnState]
      /\ working' \in Nat
      /\ working' = Cardinality(Out(turn'))
      /\ sleep' \in [Requests -> 0..Seconds]
      /\ working' <= AtOnce
  BY <1>1, TakeBack, AfterTakeBack DEF IInv
<1>3. TypeOK' /\ Counters' /\ CountersAreBounded'
  BY <1>1, <1>2 DEF IInv, TypeOK, Counters, CountersAreBounded, TurnState
<1>4. Books' /\ NothingLeftBehind'
  BY <1>1, AfterTakeBack DEF IInv, Books, NothingLeftBehind, TypeOK
<1>5. NoLostWakeUp'
  BY <1>1, AfterTakeBack DEF NoLostWakeUp
<1>6. Lent' = Lent \ Overdue
  BY <1>1, AfterTakeBack DEF Lent
<1>7. NobodyOversleeps'
  BY <1>1, <1>6, AfterTakeBack DEF NobodyOversleeps
<1> QED BY <1>3, <1>4, <1>5, <1>7 DEF IInv

(* Going to sleep in the line, for no longer than anybody may.             *)
LEMMA GoToSleep ==
    ASSUME IInv, NEW r \in Requests, SleepUntilSoonest(r),
           turn' = TurnsLeft, left' = left, working' = StillOut,
           line' \in Seq(Requests),
           line' # <<>>,
           \/ line'[1] = r /\ StillOut = AtOnce
           \/ line # <<>> /\ line'[1] = line[1] /\ line[1] # r
           \/ StillOut = AtOnce
    PROVE  /\ sleep' \in [Requests -> 0..Seconds]
           /\ \A q \in Requests \ {r} : sleep'[q] > 0 => sleep[q] > 0
           /\ NoLostWakeUp' /\ NobodyOversleeps'
<1>1. PICK s \in 1..Seconds :
        /\ \A h \in (Lent \ Overdue) \cup {r} : s <= left[h]
        /\ sleep' = [StillAsleep EXCEPT ![r] = s]
  BY DEF SleepUntilSoonest
<1>2. StillAsleep \in [Requests -> 0..Seconds]
  BY TakeBack DEF IInv
<1>3. /\ sleep' \in [Requests -> 0..Seconds]
      /\ sleep'[r] = s
      /\ \A q \in Requests \ {r} : sleep'[q] = StillAsleep[q]
  BY <1>1, <1>2, GateAssumption
<1>4. \A q \in Requests \ {r} : sleep'[q] > 0 => sleep[q] > 0
  BY <1>3, AfterTakeBack
<1>5. NoLostWakeUp'
  <2>1. CASE StillOut = AtOnce
    BY <2>1 DEF NoLostWakeUp
  <2>2. CASE line # <<>> /\ line'[1] = line[1] /\ line[1] # r
    <3>1. line[1] \in Requests
      BY <2>2, StepFactsHold DEF StepFacts
    <3>2. sleep'[line'[1]] = StillAsleep[line[1]]
      BY <1>3, <2>2, <3>1
    <3> QED BY <2>2, <3>2, AfterTakeBack DEF NoLostWakeUp
  <2> QED BY <2>1, <2>2
<1>6. Lent' = Lent \ Overdue
  BY AfterTakeBack DEF Lent
<1>7. ASSUME NEW q \in Requests, sleep'[q] > 0, NEW h \in (Lent \ Overdue) \cup {q}
      PROVE  sleep'[q] <= left[h]
  <2>1. CASE q = r
    BY <1>1, <1>3, <1>7, <2>1
  <2>2. CASE q # r
    BY <1>3, <1>7, <2>2, AfterTakeBack
  <2> QED BY <2>1, <2>2
<1>8. NobodyOversleeps'
  BY <1>6, <1>7 DEF NobodyOversleeps
<1> QED BY <1>3, <1>4, <1>5, <1>8

LEMMA JoinLinePreserves ==
    ASSUME IInv, NEW r \in Requests, JoinLine(r)  PROVE IInv'
<1>1. /\ stage[r] = "handler" /\ turn[r] = "none" /\ MustWait
      /\ Len(line) < MostWaiting
      /\ stage' = [stage EXCEPT ![r] = "line"]
      /\ line' = Append(line, r)
      /\ turn' = TurnsLeft /\ working' = StillOut
      /\ SleepUntilSoonest(r)
      /\ place' = place /\ gone' = gone /\ left' = left /\ places' = places
  BY DEF JoinLine
<1>2. TypeOK /\ NoneTwice(line) /\ r \notin InLine(line)
  BY <1>1 DEF IInv, Books
<1>3. /\ line' \in Seq(Requests)
      /\ Len(line') = Len(line) + 1
      /\ NoneTwice(line')
      /\ InLine(line') = InLine(line) \cup {r}
      /\ line'[1] = IF line = <<>> THEN r ELSE line[1]
      /\ line' # <<>>
  BY <1>1, <1>2, JoinProperties
<1>4. /\ turn' \in [Requests -> TurnState]
      /\ working' \in Nat
      /\ working' = Cardinality(Out(turn'))
      /\ working' <= AtOnce
  BY <1>1, TakeBack, AfterTakeBack DEF IInv
<1>5. line = <<>> => StillOut = AtOnce
  BY <1>1, <1>4, GateAssumption DEF MustWait
<1>6. line # <<>> => line[1] # r
  BY <1>2, StepFactsHold DEF StepFacts, InLine
<1>7. /\ sleep' \in [Requests -> 0..Seconds]
      /\ \A q \in Requests \ {r} : sleep'[q] > 0 => sleep[q] > 0
      /\ NoLostWakeUp' /\ NobodyOversleeps'
  BY <1>1, <1>3, <1>5, <1>6, GoToSleep
<1>8. TypeOK'
  BY <1>1, <1>3, <1>4, <1>7 DEF IInv, TypeOK, Stages, TurnState
<1>9. Counters' /\ CountersAreBounded'
  BY <1>1, <1>3, <1>4, GateAssumption, StepFactsHold
     DEF IInv, Counters, CountersAreBounded, StepFacts
<1>10. Books' /\ NothingLeftBehind'
  BY <1>1, <1>3, <1>7, AfterTakeBack
     DEF IInv, Books, NothingLeftBehind, TypeOK
<1> QED BY <1>7, <1>8, <1>9, <1>10 DEF IInv

(* A refusal at the deadline: nothing of the turns is r's, its place comes *)
(* back if its client left, and everybody looks again.                     *)
LEMMA RefusalProperties ==
    ASSUME IInv, NEW r \in Requests, turn[r] = "none",
           turn' = TurnsLeft, working' = StillOut, sleep' = NobodySleeps,
           Settle(r, gone[r], FALSE, "none"), gone' = gone, left' = left,
           line' \in Seq(Requests), Len(line') <= Len(line)
    PROVE  /\ turn' \in [Requests -> TurnState]
           /\ sleep' \in [Requests -> 0..Seconds]
           /\ place' \in [Requests -> BOOLEAN]
           /\ working' \in Nat /\ places' \in Nat
           /\ Counters' /\ CountersAreBounded'
           /\ NoLostWakeUp' /\ NobodyOversleeps'
           /\ gone[r] => ~place'[r]
           /\ \A q \in Requests : place'[q] => place[q]
<1>1. TypeOK /\ Counters /\ gone[r] \in BOOLEAN
  BY DEF IInv, TypeOK
<1>2. /\ place' \in [Requests -> BOOLEAN]
      /\ places' \in Nat
      /\ places' = Cardinality(Placed(place'))
      /\ places' <= places
      /\ \A q \in Requests \ {r} : place'[q] = place[q]
      /\ place'[r] <=> place[r] /\ ~Settles(r, gone[r], FALSE, "none")
  BY <1>1, SettleProperties
<1>3. gone[r] => ~place'[r]
  BY <1>2 DEF Settles
<1>4. \A q \in Requests : place'[q] => place[q]
  BY <1>2
<1>5. /\ turn' \in [Requests -> TurnState]
      /\ working' \in Nat
      /\ working' = Cardinality(Out(turn'))
      /\ working' <= AtOnce
  BY TakeBack, AfterTakeBack DEF IInv
<1>6. sleep' \in [Requests -> 0..Seconds] /\ NoLostWakeUp' /\ NobodyOversleeps'
  BY NotifyAllIsSafe
<1>7. Len(line') \in Nat /\ Len(line) \in Nat
  BY StepFactsHold DEF StepFacts
<1>8. Counters' /\ CountersAreBounded'
  BY <1>2, <1>5, <1>7, GateAssumption
     DEF IInv, Counters, CountersAreBounded, TypeOK
<1> QED BY <1>2, <1>3, <1>4, <1>5, <1>6, <1>8

LEMMA RefusedOnJoiningPreserves ==
    ASSUME IInv, NEW r \in Requests, RefusedOnJoining(r)  PROVE IInv'
<1>1. /\ stage[r] = "handler" /\ turn[r] = "none"
      /\ turn' = TurnsLeft /\ working' = StillOut /\ sleep' = NobodySleeps
      /\ Settle(r, gone[r], FALSE, "none")
      /\ stage' = stage /\ gone' = gone /\ left' = left /\ line' = line
  BY DEF RefusedOnJoining
<1>2. line' \in Seq(Requests) /\ Len(line') <= Len(line)
  BY <1>1, StepFactsHold DEF IInv, TypeOK, StepFacts
<1>3. /\ turn' \in [Requests -> TurnState]
      /\ sleep' \in [Requests -> 0..Seconds]
      /\ place' \in [Requests -> BOOLEAN]
      /\ working' \in Nat /\ places' \in Nat
      /\ Counters' /\ CountersAreBounded'
      /\ NoLostWakeUp' /\ NobodyOversleeps'
      /\ gone[r] => ~place'[r]
      /\ \A q \in Requests : place'[q] => place[q]
  BY <1>1, <1>2, RefusalProperties
<1>4. TypeOK'
  BY <1>1, <1>3 DEF IInv, TypeOK, TurnState
<1>5. Books' /\ NothingLeftBehind'
  BY <1>1, <1>3, AfterTakeBack
     DEF IInv, Books, NothingLeftBehind, NobodySleeps, TypeOK
<1> QED BY <1>3, <1>4, <1>5 DEF IInv

------------------------------------------------------------------------------
(* The loop of take.                                                       *)

LEMMA LookAndWorkPreserves ==
    ASSUME IInv, NEW r \in Requests, LookAndWork(r)  PROVE IInv'
<1>1. /\ stage[r] = "line" /\ StillOut < AtOnce
      /\ LeaveLine(r)
      /\ stage' = [stage EXCEPT ![r] = "work"]
      /\ turn' = [TurnsLeft EXCEPT ![r] = "at_work"]
      /\ working' = StillOut + 1
      /\ sleep' = NobodySleeps
      /\ place' = place /\ gone' = gone /\ left' = left /\ places' = places
  BY DEF LookAndWork, Awake, HasTurn
<1>2. TypeOK /\ NoneTwice(line)
  BY DEF IInv, Books
<1>3. turn[r] = "none"
  BY <1>1 DEF IInv, Books, TypeOK
<1>4. /\ line' \in Seq(Requests)
      /\ Len(line') <= Len(line)
      /\ NoneTwice(line')
      /\ InLine(line') = InLine(line) \ {r}
  BY <1>1, <1>2, LeaveLineProperties
<1>5. /\ turn' \in [Requests -> TurnState]
      /\ turn'[r] = "at_work"
      /\ \A q \in Requests \ {r} : turn'[q] = TurnsLeft[q]
      /\ working' \in Nat
      /\ working' <= AtOnce
      /\ working' = Cardinality(Out(turn'))
  BY <1>1, <1>3, StartWork
<1>6. sleep' \in [Requests -> 0..Seconds] /\ NoLostWakeUp' /\ NobodyOversleeps'
  BY <1>1, <1>4, NotifyAllIsSafe
<1>7. TypeOK'
  BY <1>1, <1>4, <1>5, <1>6 DEF IInv, TypeOK, Stages, TurnState
<1>8. Counters' /\ CountersAreBounded'
  BY <1>1, <1>4, <1>5, GateAssumption, StepFactsHold
     DEF IInv, Counters, CountersAreBounded, StepFacts
<1>9. Books'
  <2> SUFFICES ASSUME NEW q \in Requests
               PROVE  /\ stage'[q] = "line" <=> q \in InLine(line')
                      /\ stage'[q] = "work" <=> turn'[q] = "at_work"
                      /\ turn'[q] = "lent" =>
                            stage'[q] \in {"handler", "answer"} /\ ~gone'[q]
                      /\ sleep'[q] > 0 => stage'[q] = "line"
                      /\ gone'[q] => stage'[q] \in {"handler", "line", "work"}
    BY <1>4 DEF Books
  <2>1. sleep'[q] = 0
    BY <1>1 DEF NobodySleeps
  <2>2. CASE q = r
    BY <1>1, <1>4, <1>5, <2>1, <2>2 DEF IInv, TypeOK
  <2>3. CASE q # r
    <3>1. stage'[q] = stage[q] /\ gone'[q] = gone[q] /\ turn'[q] = TurnsLeft[q]
      BY <1>1, <1>5, <2>3 DEF IInv, TypeOK
    <3>2. TurnsLeft[q] \in {turn[q], "none"} /\ (turn[q] # "lent" => TurnsLeft[q] = turn[q])
      BY AfterTakeBack
    <3>3. q \in InLine(line') <=> q \in InLine(line)
      BY <1>4, <2>3
    <3> QED
      BY <2>1, <3>1, <3>2, <3>3 DEF IInv, Books
  <2> QED BY <2>2, <2>3
<1>10. NothingLeftBehind'
  BY <1>1, <1>5, AfterTakeBack DEF IInv, NothingLeftBehind, TypeOK
<1> QED BY <1>6, <1>7, <1>8, <1>9, <1>10 DEF IInv

LEMMA LookAndRefusePreserves ==
    ASSUME IInv, NEW r \in Requests, LookAndRefuse(r)  PROVE IInv'
<1>1. /\ stage[r] = "line"
      /\ LeaveLine(r)
      /\ stage' = [stage EXCEPT ![r] = "handler"]
      /\ turn' = TurnsLeft /\ working' = StillOut /\ sleep' = NobodySleeps
      /\ Settle(r, gone[r], FALSE, "none")
      /\ gone' = gone /\ left' = left
  BY DEF LookAndRefuse, Awake
<1>2. TypeOK /\ NoneTwice(line)
  BY DEF IInv, Books
<1>3. turn[r] = "none"
  BY <1>1 DEF IInv, Books, TypeOK
<1>4. /\ line' \in Seq(Requests)
      /\ Len(line') <= Len(line)
      /\ NoneTwice(line')
      /\ InLine(line') = InLine(line) \ {r}
  BY <1>1, <1>2, LeaveLineProperties
<1>5. /\ turn' \in [Requests -> TurnState]
      /\ sleep' \in [Requests -> 0..Seconds]
      /\ place' \in [Requests -> BOOLEAN]
      /\ working' \in Nat /\ places' \in Nat
      /\ Counters' /\ CountersAreBounded'
      /\ NoLostWakeUp' /\ NobodyOversleeps'
      /\ gone[r] => ~place'[r]
      /\ \A q \in Requests : place'[q] => place[q]
  BY <1>1, <1>3, <1>4, RefusalProperties
<1>6. TypeOK'
  BY <1>1, <1>4, <1>5 DEF IInv, TypeOK, Stages, TurnState
<1>7. Books'
  BY <1>1, <1>3, <1>4, AfterTakeBack DEF IInv, Books, NobodySleeps, TypeOK
<1>8. NothingLeftBehind'
  BY <1>1, <1>5, AfterTakeBack DEF IInv, NothingLeftBehind, TypeOK
<1> QED BY <1>5, <1>6, <1>7, <1>8 DEF IInv

LEMMA LookAndSleepPreserves ==
    ASSUME IInv, NEW r \in Requests, LookAndSleep(r)  PROVE IInv'
<1>1. /\ stage[r] = "line" /\ ~HasTurn(r)
      /\ turn' = TurnsLeft /\ working' = StillOut
      /\ SleepUntilSoonest(r)
      /\ stage' = stage /\ place' = place /\ gone' = gone /\ left' = left
      /\ line' = line /\ places' = places
  BY DEF LookAndSleep, Awake
<1>2. /\ turn' \in [Requests -> TurnState]
      /\ working' \in Nat
      /\ working' = Cardinality(Out(turn'))
      /\ working' <= AtOnce
  BY <1>1, TakeBack, AfterTakeBack DEF IInv
<1>3. line' \in Seq(Requests) /\ line' # <<>>
  BY <1>1, StepFactsHold DEF IInv, Books, TypeOK, InLine, StepFacts
<1>4. \/ StillOut = AtOnce
      \/ line # <<>> /\ line'[1] = line[1] /\ line[1] # r
  BY <1>1, <1>2, <1>3, GateAssumption DEF HasTurn, FirstIn
<1>5. /\ sleep' \in [Requests -> 0..Seconds]
      /\ \A q \in Requests \ {r} : sleep'[q] > 0 => sleep[q] > 0
      /\ NoLostWakeUp' /\ NobodyOversleeps'
  BY <1>1, <1>3, <1>4, GoToSleep
<1>6. TypeOK' /\ Counters' /\ CountersAreBounded'
  BY <1>1, <1>2, <1>5 DEF IInv, TypeOK, Counters, CountersAreBounded, TurnState
<1>7. Books' /\ NothingLeftBehind'
  BY <1>1, <1>5, AfterTakeBack DEF IInv, Books, NothingLeftBehind, TypeOK
<1> QED BY <1>5, <1>6, <1>7 DEF IInv

------------------------------------------------------------------------------
LEMMA StepPreservesIInv == IInv /\ [Next]_vars => IInv'
<1> SUFFICES ASSUME IInv, [Next]_vars  PROVE IInv'
  OBVIOUS
<1>1. CASE Tick
  BY <1>1, TickPreserves
<1>2. ASSUME NEW r \in Requests,
             \/ BodyLate(r) \/ BodyLeft(r) \/ AnswerRead(r) \/ AnswerAbandoned(r)
      PROVE  IInv'
  <2>1. stage[r] \in {"body", "answer"} /\ Over(r)
    BY <1>2 DEF BodyLate, BodyLeft, AnswerRead, AnswerAbandoned
  <2> QED BY <2>1, OverPreserves
<1>3. ASSUME NEW r \in Requests, Take(r)  PROVE IInv'
  BY <1>3, TakeOwnBackPreserves, TakeFreePreserves, RefusedLineFullPreserves,
     JoinLinePreserves, RefusedOnJoiningPreserves DEF Take
<1>4. ASSUME NEW r \in Requests, Look(r)  PROVE IInv'
  BY <1>4, LookAndWorkPreserves, LookAndRefusePreserves, LookAndSleepPreserves
     DEF Look
<1>5. ASSUME NEW r \in Requests,
             \/ Arrive(r) \/ BodyIn(r) \/ ClientLeft(r)
             \/ HandlerReturns(r) \/ WorkEnds(r)
      PROVE  IInv'
  BY <1>5, ArrivePreserves, BodyInPreserves, ClientLeftPreserves,
     HandlerReturnsPreserves, WorkEndsPreserves
<1>6. CASE UNCHANGED vars
  BY <1>6 DEF vars, IInv, TypeOK, Counters, CountersAreBounded, Books,
              NothingLeftBehind, NoLostWakeUp, NobodyOversleeps, Lent
<1> QED BY <1>1, <1>2, <1>3, <1>4, <1>5, <1>6 DEF Next

(* The inductive invariant holds in every reachable state.                 *)
THEOREM GateInvariant == Spec => []IInv
<1> QED BY InitEstablishesIInv, StepPreservesIInv, PTL DEF Spec

LEMMA IInvImplies ==
    IInv => /\ TypeOK
            /\ CountersAreExact
            /\ MemoryIsBounded
            /\ BooksAgree
            /\ NoLostWakeUp
            /\ NobodyOversleeps
            /\ NothingLeftBehind
<1> SUFFICES ASSUME IInv
             PROVE  CountersAreExact /\ MemoryIsBounded /\ BooksAgree
  BY DEF IInv
<1>1. CountersAreExact
  BY DEF IInv, Counters, CountersAreExact, Out, Placed
<1>2. MemoryIsBounded
  BY <1>1 DEF IInv, CountersAreBounded, CountersAreExact, MemoryIsBounded
<1>3. BooksAgree
  BY DEF IInv, Books, BooksAgree, InLine, NoneTwice
<1> QED BY <1>1, <1>2, <1>3

(* The type invariant, for any number of requests and turns.               *)
THEOREM TypesAreCorrect == Spec => []TypeOK
<1> QED BY GateInvariant, IInvImplies, PTL

(* _Turns.working and _Turns.places are exact at every release of the lock.*)
THEOREM CountersNeverDrift == Spec => []CountersAreExact
<1> QED BY GateInvariant, IInvImplies, PTL

(* The promise of `at_once': never more turns out, requests waiting or     *)
(* requests counted than the limits say.                                   *)
THEOREM MemoryStaysBounded == Spec => []MemoryIsBounded
<1> QED BY GateInvariant, IInvImplies, PTL

(* No order of releases and joins loses the wake-up of the first in line.  *)
THEOREM NoWakeUpIsLost == Spec => []NoLostWakeUp
<1> QED BY GateInvariant, IInvImplies, PTL

(* Nobody sleeps past the time at which an overdue turn can be had back.   *)
THEOREM NobodySleepsTooLong == Spec => []NobodyOversleeps
<1> QED BY GateInvariant, IInvImplies, PTL

(* The books of a request agree with its thread, and are clear afterwards. *)
THEOREM BooksAlwaysAgree == Spec => [](BooksAgree /\ NothingLeftBehind)
<1> QED BY GateInvariant, IInvImplies, PTL

------------------------------------------------------------------------------
(* Action properties.                                                      *)

(* Settle clears the place of r only when r neither waits nor works.       *)
LEMMA SettleClears ==
    ASSUME NEW r \in Requests, NEW isGone, NEW inLine, NEW held, TypeOK,
           Settle(r, isGone, inLine, held), NEW q \in Requests,
           place[q], ~place'[q]
    PROVE  q = r /\ ~inLine /\ held # "at_work"
  BY DEF Settle, Settles, TypeOK

(* A request in the line or at work never loses its place.                 *)
THEOREM PlacesOutlastWork == Spec => PlaceOutlastsWork
<1> DEFINE Keeps == \A r \in Requests :
                      place[r] /\ ~place'[r] => stage'[r] \notin {"line", "work"}
<1>1. IInv /\ [Next]_vars => Keeps
  <2> SUFFICES ASSUME IInv, Next, NEW q \in Requests, place[q], ~place'[q]
               PROVE  stage'[q] \notin {"line", "work"}
    BY DEF vars
  <2>1. TypeOK
    BY DEF IInv
  <2>2. ASSUME NEW r \in Requests,
               \/ BodyLate(r) \/ BodyLeft(r) \/ AnswerRead(r) \/ AnswerAbandoned(r)
        PROVE  stage'[q] \notin {"line", "work"}
    <3>1. /\ stage' = [stage EXCEPT ![r] = "idle"]
          /\ Settle(r, TRUE, FALSE, turn[r])
      BY <2>2 DEF BodyLate, BodyLeft, AnswerRead, AnswerAbandoned, Over
    <3>2. q = r
      BY <2>1, <3>1, SettleClears
    <3> QED BY <2>1, <3>1, <3>2 DEF TypeOK
  <2>3. ASSUME NEW r \in Requests, ClientLeft(r)
        PROVE  stage'[q] \notin {"line", "work"}
    <3>1. /\ stage' = stage
          /\ Settle(r, TRUE, stage[r] = "line", turn[r])
      BY <2>3 DEF ClientLeft
    <3>2. q = r /\ stage[r] # "line" /\ turn[r] # "at_work"
      BY <2>1, <3>1, SettleClears
    <3> QED BY <3>1, <3>2 DEF IInv, Books
  <2>4. ASSUME NEW r \in Requests, RefusedOnJoining(r) \/ LookAndRefuse(r) \/ WorkEnds(r)
        PROVE  stage'[q] \notin {"line", "work"}
    <3>1. /\ stage'[r] = "handler"
          /\ \/ Settle(r, gone[r], FALSE, "none")
             \/ Settle(r, TRUE, FALSE, "none")
             \/ place' = place
      BY <2>1, <2>4 DEF RefusedOnJoining, LookAndRefuse, WorkEnds, TypeOK
    <3>2. q = r
      BY <2>1, <3>1, SettleClears
    <3> QED BY <3>1, <3>2
  <2>5. ASSUME NEW r \in Requests,
               \/ Tick \/ BodyIn(r) \/ HandlerReturns(r) \/ TakeOwnBack(r)
               \/ TakeFree(r) \/ RefusedLineFull(r) \/ JoinLine(r)
               \/ LookAndWork(r) \/ LookAndSleep(r)
        PROVE  FALSE
    BY <2>5 DEF Tick, BodyIn, HandlerReturns, TakeOwnBack, TakeFree,
                RefusedLineFull, JoinLine, LookAndWork, LookAndSleep
  <2>6. ASSUME NEW r \in Requests, Arrive(r)  PROVE FALSE
    BY <2>1, <2>6 DEF Arrive, Admit, TypeOK
  <2> QED BY <2>2, <2>3, <2>4, <2>5, <2>6 DEF Next, Take, Look
<1> QED BY <1>1, GateInvariant, PTL DEF PlaceOutlastsWork, Spec

(* Only an overdue turn is taken from a request whose answer still goes out*)
(* and nothing is ever taken from a block at work.                         *)
THEOREM TurnsAreNotStolen == Spec => TakenBackOnlyWhenOverdue
<1> DEFINE Fair == \A r \in Requests :
                     turn[r] # "none" /\ turn'[r] = "none" =>
                        \/ turn[r] = "lent" /\ left[r] = 0
                        \/ stage'[r] = "idle" \/ gone'[r]
<1>1. IInv /\ [Next]_vars => Fair
  <2> SUFFICES ASSUME IInv, Next, NEW q \in Requests,
                      turn[q] # "none", turn'[q] = "none"
               PROVE  \/ turn[q] = "lent" /\ left[q] = 0
                      \/ stage'[q] = "idle" \/ gone'[q]
    BY DEF vars
  <2>1. TypeOK
    BY DEF IInv
  <2>2. ASSUME NEW r \in Requests,
               \/ BodyLate(r) \/ BodyLeft(r) \/ AnswerRead(r) \/ AnswerAbandoned(r)
        PROVE  stage'[q] = "idle"
    <3>1. stage' = [stage EXCEPT ![r] = "idle"] /\ GiveBackIfLent(r)
      BY <2>2 DEF BodyLate, BodyLeft, AnswerRead, AnswerAbandoned, Over,
                  GiveBackIfLent
    <3>2. q = r
      BY <2>1, <3>1 DEF GiveBackIfLent, TypeOK
    <3> QED BY <2>1, <3>1, <3>2 DEF TypeOK
  <2>3. ASSUME NEW r \in Requests, ClientLeft(r)
        PROVE  gone'[q]
    <3>1. gone' = [gone EXCEPT ![r] = TRUE] /\ GiveBackIfLent(r)
      BY <2>3 DEF ClientLeft, GiveBackIfLent
    <3>2. q = r
      BY <2>1, <3>1 DEF GiveBackIfLent, TypeOK
    <3> QED BY <2>1, <3>1, <3>2 DEF TypeOK
  <2>4. ASSUME NEW r \in Requests, WorkEnds(r)
        PROVE  gone'[q]
    <3>1. /\ turn' = [turn EXCEPT ![r] = IF gone[r] THEN "none" ELSE "lent"]
          /\ gone' = gone
      BY <2>4 DEF WorkEnds
    <3> QED BY <2>1, <3>1 DEF TypeOK
  <2>5. ASSUME NEW r \in Requests, Take(r) \/ Look(r)
        PROVE  turn[q] = "lent" /\ left[q] = 0
    <3>1. \/ turn' = TurnsLeft
          \/ turn' = [TurnsLeft EXCEPT ![r] = "at_work"]
          \/ turn' = [turn EXCEPT ![r] = "at_work"]
      BY <2>5 DEF Take, Look, TakeOwnBack, TakeFree, RefusedLineFull, JoinLine,
                  RefusedOnJoining, LookAndWork, LookAndRefuse, LookAndSleep
    <3>2. TurnsLeft[q] = "none"
      BY <2>1, <3>1, TakeBack DEF TypeOK, IInv, TurnState
    <3> QED BY <3>2 DEF TurnsLeft, Overdue, Lent
  <2>6. ASSUME NEW r \in Requests,
               Tick \/ Arrive(r) \/ BodyIn(r) \/ HandlerReturns(r)
        PROVE  FALSE
    BY <2>6 DEF Tick, Arrive, Admit, BodyIn, HandlerReturns
  <2> QED BY <2>2, <2>3, <2>4, <2>5, <2>6 DEF Next
<1> QED BY <1>1, GateInvariant, PTL DEF TakenBackOnlyWhenOverdue, Spec

------------------------------------------------------------------------------
(* Refinement: every step of the gate is a step of the queue, or none.     *)

(* The queue's own copies of two library operators.                        *)
LEMMA QueueLibrary ==
    /\ \A S : Queue!Cardinality(S) = Cardinality(S)
    /\ \A s, i : Queue!RemoveAt(s, i) = RemoveAt(s, i)
<1>1. \A S : Queue!Cardinality(S) = Cardinality(S)
  BY Zenon DEF Queue!Cardinality, Cardinality
<1>2. \A s, i : Queue!RemoveAt(s, i) = RemoveAt(s, i)
  BY Zenon DEF Queue!RemoveAt, RemoveAt
<1> QED BY <1>1, <1>2

LEMMA QueueCounts ==
    ASSUME IInv
    PROVE  /\ TurnsLeft = Queue!Returned(turn, Overdue)
           /\ Overdue \in SUBSET {q \in Requests : turn[q] = "lent"}
           /\ StillOut = Cardinality(Queue!OutOf(TurnsLeft))
<1>1. StillOut = Cardinality(Out(TurnsLeft))
  BY TakeBack DEF IInv
<1> QED BY <1>1 DEF Queue!Returned, TurnsLeft, Overdue, Lent, Queue!OutOf, Out

LEMMA StepImplementsQueue == IInv /\ [Next]_vars => [Queue!Next]_(Queue!vars)
<1> SUFFICES ASSUME IInv, Next
             PROVE  Queue!Next \/ (turn' = turn /\ line' = line)
  BY DEF vars, Queue!vars
<1>1. ASSUME NEW r \in Requests, TakeFree(r) \/ JoinLine(r)
      PROVE  Queue!Next
  <2>1. Queue!TakeFree(TurnsLeft, r) \/ Queue!Join(TurnsLeft, r)
    <3>1. CASE TakeFree(r)
      <4>1. TurnsLeft[r] = "none"
        BY <3>1, AfterTakeBack DEF TakeFree
      <4> QED BY <3>1, <4>1, QueueCounts, QueueLibrary DEF TakeFree, Queue!TakeFree, Queue!Grant
    <3>2. CASE JoinLine(r)
      <4>1. TurnsLeft[r] = "none"
        BY <3>2, AfterTakeBack DEF JoinLine
      <4>2. ~Queue!Waiting(r)
        BY <3>2 DEF JoinLine, IInv, Books, InLine, Queue!Waiting
      <4> QED BY <3>2, <4>1, <4>2 DEF JoinLine, Queue!Join
    <3> QED BY <1>1, <3>1, <3>2
  <2> QED BY <2>1, QueueCounts DEF Queue!Next
<1>2. ASSUME NEW r \in Requests, LookAndWork(r)
      PROVE  Queue!Next
  <2>1. /\ StillOut < AtOnce /\ line # <<>> /\ line[1] = r
        /\ turn' = [TurnsLeft EXCEPT ![r] = "at_work"]
        /\ LeaveLine(r) /\ stage[r] = "line"
    BY <1>2 DEF LookAndWork, HasTurn, FirstIn, Awake
  <2>2. line' = RemoveAt(line, 1)
    BY <2>1, LeaveLineProperties DEF IInv, Books, FirstIn
  <2>3. TurnsLeft[r] = "none"
    BY <2>1, AfterTakeBack DEF IInv, Books, TypeOK
  <2>4. Queue!ServeFirst(TurnsLeft)
    BY <2>1, <2>2, <2>3, QueueCounts, QueueLibrary DEF Queue!ServeFirst, Queue!Grant
  <2> QED BY <2>4, QueueCounts DEF Queue!Next
<1>3. ASSUME NEW r \in Requests, LookAndRefuse(r)
      PROVE  Queue!Next
  <2>1. Queue!GiveUp(TurnsLeft)
    BY <1>3, QueueLibrary DEF LookAndRefuse, LeaveLine, Queue!GiveUp
  <2> QED BY <2>1, QueueCounts DEF Queue!Next
<1>4. ASSUME NEW r \in Requests,
             RefusedLineFull(r) \/ RefusedOnJoining(r) \/ LookAndSleep(r)
      PROVE  Queue!Next
  <2>1. Queue!Rest(TurnsLeft)
    BY <1>4 DEF RefusedLineFull, RefusedOnJoining, LookAndSleep, Queue!Rest
  <2> QED BY <2>1, QueueCounts DEF Queue!Next
<1>5. ASSUME NEW r \in Requests, TakeOwnBack(r)
      PROVE  Queue!Next
  BY <1>5 DEF TakeOwnBack, Queue!Resume, Queue!Next
<1>6. ASSUME NEW r \in Requests, WorkEnds(r)
      PROVE  Queue!Next
  <2>1. turn[r] = "at_work"
    BY <1>6 DEF WorkEnds, IInv, Books
  <2> QED BY <1>6, <2>1 DEF WorkEnds, Queue!Lend, Queue!Finish, Queue!Next
<1>7. ASSUME NEW r \in Requests,
             \/ BodyLate(r) \/ BodyLeft(r) \/ AnswerRead(r)
             \/ AnswerAbandoned(r) \/ ClientLeft(r)
      PROVE  Queue!Next \/ (turn' = turn /\ line' = line)
  <2>1. line' = line /\ GiveBackIfLent(r)
    BY <1>7 DEF BodyLate, BodyLeft, AnswerRead, AnswerAbandoned, Over,
                ClientLeft, GiveBackIfLent
  <2>2. CASE turn[r] = "lent"
    <3>1. turn' = Queue!Returned(turn, {r})
      BY <2>1, <2>2 DEF GiveBackIfLent, Queue!Returned, IInv, TypeOK
    <3>2. Queue!Rest(Queue!Returned(turn, {r}))
      BY <2>1, <3>1 DEF Queue!Rest
    <3> QED BY <2>2, <3>2 DEF Queue!Next
  <2>3. CASE turn[r] # "lent"
    BY <2>1, <2>3 DEF GiveBackIfLent
  <2> QED BY <2>2, <2>3
<1>8. ASSUME NEW r \in Requests,
             Tick \/ Arrive(r) \/ BodyIn(r) \/ HandlerReturns(r)
      PROVE  turn' = turn /\ line' = line
  BY <1>8 DEF Tick, Arrive, Admit, BodyIn, HandlerReturns
<1>9. Tick => turn' = turn /\ line' = line
  BY DEF Tick
<1> QED BY <1>1, <1>2, <1>3, <1>4, <1>5, <1>6, <1>7, <1>8, <1>9 DEF Next, Take, Look

(* The gate is a bounded first-come first-served queue: no newcomer passes *)
(* a request that waits, and the first in the line is the one served.      *)
THEOREM GateImplementsQueue == Spec => ImplementsQueue
<1>1. Init => Queue!Init
  BY DEF Init, Queue!Init
<1> QED BY <1>1, StepImplementsQueue, GateInvariant, PTL
        DEF ImplementsQueue, Spec, Queue!Spec
==============================================================================
