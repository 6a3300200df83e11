------------------------------- MODULE TurnGate -------------------------------
(***************************************************************************)
(* Whose turn it is on a server that works on `at_once' requests at once:  *)
(* class _Turns of netcanon/migration/limits.py, the Answer of one request *)
(* that it keeps its books in, and the AnswerSent / _InItsTime middleware  *)
(* that counts a request when its headers arrive and lets it go when its   *)
(* answer has gone out.                                                    *)
(*                                                                         *)
(* One action is one critical section of _Turns._changed (the lock), with  *)
(* whatever the same thread does around it.  Condition.wait is modelled by *)
(* its sleeper: sleep[r] is the time its wait still has to run, 0 when the *)
(* thread is awake (notified, or timed out) and competes for the lock.     *)
(*                                                                         *)
(* Time is relative: left[r] is Answer.left(), the time until the          *)
(* deadline of r, 0 when the deadline has passed.  A turn's _Held.deadline *)
(* is its request's: server_scope takes the smaller of `now + seconds' and *)
(* the deadline set at arrival, which is the earlier one.                  *)
(*                                                                         *)
(* A request is reused for a later one when it is over, so behaviours do   *)
(* not end.  A turn that was given back and one that was never taken are   *)
(* both "none": no test in the code tells them apart.                      *)
(***************************************************************************)
EXTENDS Naturals, FiniteSets, SequencesExt

CONSTANTS Requests,     \* requests that would read config text
          AtOnce,       \* Limits.at_once: turns
          MostWaiting,  \* MOST_WAITING: how many may stand in the line
          Seconds       \* Limits.seconds: from the arrival to the deadline

ASSUME GateAssumption ==
    /\ IsFiniteSet(Requests)
    /\ AtOnce \in Nat \ {0}
    /\ MostWaiting \in Nat
    /\ Seconds \in Nat \ {0}

VARIABLES
    stage,    \* where the request of the server's thread is
    place,    \* Answer._place: it was counted when it arrived
    gone,     \* Answer._gone: its answer has gone out, or never will
    left,     \* time until Answer.deadline
    turn,     \* Answer._held.state
    sleep,    \* time left of its Condition.wait; 0: awake
    line,     \* _Turns._line
    working,  \* _Turns.working
    places    \* _Turns.places

vars == <<stage, place, gone, left, turn, sleep, line, working, places>>

Stages == {"idle",     \* there is no such request (yet, or any more)
           "body",     \* counted; its body is coming in
           "handler",  \* its handler runs, outside of any scope
           "line",     \* its thread is in the loop of _Turns.take
           "work",     \* inside the block of its server_scope
           "answer"}   \* the handler has returned, the answer goes out

TypeOK ==
    /\ stage \in [Requests -> Stages]
    /\ place \in [Requests -> BOOLEAN]
    /\ gone \in [Requests -> BOOLEAN]
    /\ left \in [Requests -> 0..Seconds]
    /\ turn \in [Requests -> {"none", "at_work", "lent"}]
    /\ sleep \in [Requests -> 0..Seconds]
    /\ line \in Seq(Requests)
    /\ working \in Nat
    /\ places \in Nat

Init ==
    /\ stage = [r \in Requests |-> "idle"]
    /\ place = [r \in Requests |-> FALSE]
    /\ gone = [r \in Requests |-> FALSE]
    /\ left = [r \in Requests |-> 0]
    /\ turn = [r \in Requests |-> "none"]
    /\ sleep = [r \in Requests |-> 0]
    /\ line = <<>>
    /\ working = 0
    /\ places = 0

------------------------------------------------------------------------------
(* Pieces of _Turns that run with the lock held.                           *)

NobodySleeps == [r \in Requests |-> 0]          \* Condition.notify_all
Lent == {r \in Requests : turn[r] = "lent"}     \* _Turns._lent
Overdue == {r \in Lent : left[r] = 0}

(* After _take_back_what_is_overdue: the turns, how many are out, and who  *)
(* still sleeps.                                                           *)
TurnsLeft == [r \in Requests |-> IF r \in Overdue THEN "none" ELSE turn[r]]
StillOut == working - Cardinality(Overdue)
StillAsleep == IF Overdue = {} THEN sleep ELSE NobodySleeps

(* _settle: the place of r comes back once its answer has gone and none of *)
(* its work goes on.  inLine and held are what the caller has just made of *)
(* Answer._in_line and of its turn.                                        *)
SettlesTwice(r, isGone, inLine, held) ==          \* mutant: no test of _place
    isGone /\ ~inLine /\ held # "at_work"

Settles(r, isGone, inLine, held) ==
    place[r] /\ isGone /\ ~inLine /\ held # "at_work"

Settle(r, isGone, inLine, held) ==
    IF Settles(r, isGone, inLine, held)
    THEN /\ place' = [place EXCEPT ![r] = FALSE]
         /\ places' = places - 1
    ELSE UNCHANGED <<place, places>>

(* answer_sent with _give_back: a turn that is lent comes back, and        *)
(* whoever sleeps is told.                                                 *)
GiveBackUncounted(r) ==                           \* mutant: working is not lowered
    IF turn[r] = "lent"
    THEN /\ turn' = [turn EXCEPT ![r] = "none"]
         /\ sleep' = NobodySleeps
         /\ UNCHANGED working
    ELSE UNCHANGED <<turn, working, sleep>>

GiveBackQuietly(r) ==                             \* mutant: no notify_all
    IF turn[r] = "lent"
    THEN /\ turn' = [turn EXCEPT ![r] = "none"]
         /\ working' = working - 1
         /\ UNCHANGED sleep
    ELSE UNCHANGED <<turn, working, sleep>>

GiveBackIfLent(r) ==
    IF turn[r] = "lent"
    THEN /\ turn' = [turn EXCEPT ![r] = "none"]
         /\ working' = working - 1
         /\ sleep' = NobodySleeps
    ELSE UNCHANGED <<turn, working, sleep>>

------------------------------------------------------------------------------
(* _Turns.admit: a place for r, if one is free.                             *)
Admit(r) ==
    /\ places < AtOnce + MostWaiting
    /\ place' = [place EXCEPT ![r] = TRUE]
    /\ places' = places + 1

(* Answer.arrived: counted before a byte of the body is read.  A request   *)
(* that finds every place taken is answered 503 there and changes nothing. *)
Arrive(r) ==
    /\ stage[r] = "idle"
    /\ Admit(r)
    /\ stage' = [stage EXCEPT ![r] = "body"]
    /\ left' = [left EXCEPT ![r] = Seconds]
    /\ UNCHANGED <<gone, turn, sleep, line, working>>

(* _InItsTime.receive: the body is in, the handler starts.                 *)
BodyIn(r) ==
    /\ stage[r] = "body"
    /\ stage' = [stage EXCEPT ![r] = "handler"]
    /\ UNCHANGED <<place, gone, left, turn, sleep, line, working, places>>

(* _Turns.answer_sent, for a request with no thread behind it: the place   *)
(* and a lent turn come back, and the request is over.                     *)
Over(r) ==
    /\ stage' = [stage EXCEPT ![r] = "idle"]
    /\ left' = [left EXCEPT ![r] = 0]
    /\ Settle(r, TRUE, FALSE, turn[r])
    /\ GiveBackIfLent(r)
    /\ UNCHANGED <<gone, line>>

(* _no_longer_than: where a wait for the client ends.                      *)
TimeIsUp(r) == left[r] = 0

(* The body had not arrived at the deadline: the application is told its   *)
(* client left, and the request is answered 408.                           *)
BodyLate(r) == stage[r] = "body" /\ TimeIsUp(r) /\ Over(r)

(* The client left while it was sending its body.                          *)
BodyLeft(r) == stage[r] = "body" /\ Over(r)

(* The answer has been read to its end (or its client left).               *)
AnswerRead(r) == stage[r] = "answer" /\ Over(r)

(* It had not gone out at the deadline: _InItsTime drops what is left.     *)
AnswerAbandoned(r) == stage[r] = "answer" /\ TimeIsUp(r) /\ Over(r)

(* _Turns.answer_sent while the handler's thread is still on its way (the  *)
(* task that awaited the thread was cancelled): a lent turn comes back, a  *)
(* thread in the line or at work keeps what it has.                        *)
ClientLeft(r) ==
    /\ stage[r] \in {"handler", "line", "work"}
    /\ ~gone[r]
    /\ gone' = [gone EXCEPT ![r] = TRUE]
    /\ Settle(r, TRUE, stage[r] = "line", turn[r])
    /\ GiveBackIfLent(r)
    /\ UNCHANGED <<stage, left, line>>

(* The handler returns; its answer starts on its way, if anyone waits.     *)
HandlerReturns(r) ==
    /\ stage[r] = "handler"
    /\ IF gone[r]
       THEN /\ stage' = [stage EXCEPT ![r] = "idle"]
            /\ gone' = [gone EXCEPT ![r] = FALSE]
            /\ left' = [left EXCEPT ![r] = 0]
       ELSE /\ stage' = [stage EXCEPT ![r] = "answer"]
            /\ UNCHANGED <<gone, left>>
    /\ UNCHANGED <<place, turn, sleep, line, working, places>>

------------------------------------------------------------------------------
(* _Turns.take.  An inner server_scope of a request at work takes nothing  *)
(* and changes nothing.                                                    *)

(* The turn is still lent to the answer of this very request.              *)
TakeOwnBack(r) ==
    /\ stage[r] = "handler"
    /\ turn[r] = "lent"
    /\ turn' = [turn EXCEPT ![r] = "at_work"]
    /\ stage' = [stage EXCEPT ![r] = "work"]
    /\ UNCHANGED <<place, gone, left, sleep, line, working, places>>

(* A turn is free and nobody waits.                                        *)
TakeFree(r) ==
    /\ stage[r] = "handler"
    /\ turn[r] = "none"
    /\ StillOut < AtOnce
    /\ line = <<>>
    /\ stage' = [stage EXCEPT ![r] = "work"]
    /\ turn' = [TurnsLeft EXCEPT ![r] = "at_work"]
    /\ working' = StillOut + 1
    /\ sleep' = StillAsleep
    /\ UNCHANGED <<place, gone, left, line, places>>

MustWait == StillOut >= AtOnce \/ line # <<>>

(* The line is full: refused as busy; what was overdue has been taken back.*)
RefusedLineFull(r) ==
    /\ stage[r] = "handler"
    /\ turn[r] = "none"
    /\ MustWait
    /\ Len(line) >= MostWaiting
    /\ turn' = TurnsLeft
    /\ working' = StillOut
    /\ sleep' = StillAsleep
    /\ UNCHANGED <<stage, place, gone, left, line, places>>

(* How long a waiter sleeps: until its deadline or until the first of the  *)
(* turns still lent falls due, whichever is first.                         *)
SleepUntilOwnDeadline(r) ==                       \* mutant: lent turns forgotten
    sleep' = [StillAsleep EXCEPT ![r] = left[r]]

SleepUntilSoonest(r) ==
    \E s \in 1..Seconds :
        /\ \A h \in (Lent \ Overdue) \cup {r} : s <= left[h]
        /\ \E h \in (Lent \ Overdue) \cup {r} : s = left[h]
        /\ sleep' = [StillAsleep EXCEPT ![r] = s]

(* Joins the back of the line and sleeps: the first look of the loop is    *)
(* under the same hold of the lock and finds no turn for it.               *)
JoinLine(r) ==
    /\ stage[r] = "handler"
    /\ turn[r] = "none"
    /\ MustWait
    /\ Len(line) < MostWaiting
    /\ left[r] > 0
    /\ stage' = [stage EXCEPT ![r] = "line"]
    /\ line' = Append(line, r)
    /\ turn' = TurnsLeft
    /\ working' = StillOut
    /\ SleepUntilSoonest(r)
    /\ UNCHANGED <<place, gone, left, places>>

(* Joins with its deadline already past: out of the line again and refused,*)
(* under the one hold of the lock.                                         *)
RefusedOnJoining(r) ==
    /\ stage[r] = "handler"
    /\ turn[r] = "none"
    /\ MustWait
    /\ Len(line) < MostWaiting
    /\ left[r] = 0
    /\ turn' = TurnsLeft
    /\ working' = StillOut
    /\ sleep' = NobodySleeps
    /\ Settle(r, gone[r], FALSE, "none")
    /\ UNCHANGED <<stage, gone, left, line>>

(* The loop of take, in a thread of the line that is awake.                *)
Awake(r) == stage[r] = "line" /\ sleep[r] = 0
FirstIn(r) == line # <<>> /\ line[1] = r
AnyHasTurn(r) == StillOut < AtOnce              \* mutant: no test of line[0]
HasTurn(r) == StillOut < AtOnce /\ FirstIn(r)

LeaveLine(r) == \E i \in 1..Len(line) : line[i] = r /\ line' = RemoveAt(line, i)

(* Its turn has come, even when its deadline has, too.                     *)
LookAndWork(r) ==
    /\ Awake(r)
    /\ HasTurn(r)
    /\ LeaveLine(r)
    /\ stage' = [stage EXCEPT ![r] = "work"]
    /\ turn' = [TurnsLeft EXCEPT ![r] = "at_work"]
    /\ working' = StillOut + 1
    /\ sleep' = NobodySleeps
    /\ UNCHANGED <<place, gone, left, places>>

(* Its deadline has passed: refused, and its place settled if its client   *)
(* left meanwhile.                                                         *)
LookAndRefuseUnsettled(r) ==                      \* mutant: no _settle
    /\ Awake(r)
    /\ ~HasTurn(r)
    /\ left[r] = 0
    /\ LeaveLine(r)
    /\ stage' = [stage EXCEPT ![r] = "handler"]
    /\ turn' = TurnsLeft
    /\ working' = StillOut
    /\ sleep' = NobodySleeps
    /\ UNCHANGED <<place, places, gone, left>>

LookAndRefuse(r) ==
    /\ Awake(r)
    /\ ~HasTurn(r)
    /\ left[r] = 0
    /\ LeaveLine(r)
    /\ stage' = [stage EXCEPT ![r] = "handler"]
    /\ turn' = TurnsLeft
    /\ working' = StillOut
    /\ sleep' = NobodySleeps
    /\ Settle(r, gone[r], FALSE, "none")
    /\ UNCHANGED <<gone, left>>

LookAndSleep(r) ==
    /\ Awake(r)
    /\ ~HasTurn(r)
    /\ left[r] > 0
    /\ turn' = TurnsLeft
    /\ working' = StillOut
    /\ SleepUntilSoonest(r)
    /\ UNCHANGED <<stage, place, gone, left, line, places>>

(* _Turns.done: the block has ended.  The turn is lent to the answer, or   *)
(* given back when the answer has gone already.                            *)
WorkEndsAlwaysLends(r) ==                         \* mutant: no test of _gone
    /\ stage[r] = "work"
    /\ stage' = [stage EXCEPT ![r] = "handler"]
    /\ sleep' = NobodySleeps
    /\ turn' = [turn EXCEPT ![r] = "lent"]
    /\ UNCHANGED <<working, place, places, gone, left, line>>

WorkEnds(r) ==
    /\ stage[r] = "work"
    /\ stage' = [stage EXCEPT ![r] = "handler"]
    /\ sleep' = NobodySleeps
    /\ IF gone[r]
       THEN /\ turn' = [turn EXCEPT ![r] = "none"]
            /\ working' = working - 1
            /\ Settle(r, TRUE, FALSE, "none")
       ELSE /\ turn' = [turn EXCEPT ![r] = "lent"]
            /\ UNCHANGED <<working, place, places>>
    /\ UNCHANGED <<gone, left, line>>

(* Time passes.                                                            *)
Earlier(t) == IF t = 0 THEN 0 ELSE t - 1

TickWithoutTimeout ==                             \* mutant: wait() has no timeout
    /\ \E r \in Requests : left[r] > 0
    /\ left' = [r \in Requests |-> Earlier(left[r])]
    /\ UNCHANGED <<stage, place, gone, turn, sleep, line, working, places>>

Tick ==
    /\ \E r \in Requests : left[r] > 0
    /\ left' = [r \in Requests |-> Earlier(left[r])]
    /\ sleep' = [r \in Requests |-> Earlier(sleep[r])]
    /\ UNCHANGED <<stage, place, gone, turn, line, working, places>>

------------------------------------------------------------------------------
Take(r) ==
    \/ TakeOwnBack(r)
    \/ TakeFree(r)
    \/ RefusedLineFull(r)
    \/ JoinLine(r)
    \/ RefusedOnJoining(r)

Look(r) ==
    \/ LookAndWork(r)
    \/ LookAndRefuse(r)
    \/ LookAndSleep(r)

Next ==
    \/ Tick
    \/ \E r \in Requests :
        \/ Arrive(r)
        \/ BodyIn(r)
        \/ BodyLate(r)
        \/ BodyLeft(r)
        \/ AnswerRead(r)
        \/ AnswerAbandoned(r)
        \/ ClientLeft(r)
        \/ HandlerReturns(r)
        \/ Take(r)
        \/ Look(r)
        \/ WorkEnds(r)

Spec == Init /\ [][Next]_vars

(* Time passes, a thread of the line that is awake gets the lock, and the  *)
(* middleware's timers fire.  Clients owe nothing: no fairness for a body, *)
(* for the reading of an answer or for leaving.                            *)
Fairness ==
    /\ WF_vars(Tick)
    /\ \A r \in Requests :
        /\ WF_vars(Look(r))
        /\ WF_vars(BodyLate(r))
        /\ WF_vars(AnswerAbandoned(r))

FairSpec == Spec /\ Fairness

(* A block that took a turn ends (a parse or a render checks the deadline),*)
(* and a handler, which opens finitely many scopes, returns.               *)
HandlersEnd ==
    \A r \in Requests : WF_vars(WorkEnds(r)) /\ SF_vars(HandlerReturns(r))

------------------------------------------------------------------------------
(***************************************************************************)
(* Safety.                                                                 *)
(***************************************************************************)

(* The two counters of _Turns never drift from what they count, whatever   *)
(* the order in which blocks end, answers go out and overdue turns are     *)
(* taken back: no turn or place is given back twice, none is lost.         *)
CountersAreExact ==
    /\ working = Cardinality({r \in Requests : turn[r] # "none"})
    /\ places = Cardinality({r \in Requests : place[r]})

(* What the limits promise the machine: at most at_once turns are out (at  *)
(* work, or lent to an answer on its way), at most MOST_WAITING wait, and  *)
(* at most at_once + MOST_WAITING requests are counted at once.            *)
MemoryIsBounded ==
    /\ Cardinality({r \in Requests : turn[r] # "none"}) <= AtOnce
    /\ Len(line) <= MostWaiting
    /\ Cardinality({r \in Requests : place[r]}) <= AtOnce + MostWaiting

(* No lost wake-up: the first of the line never sleeps beside a free turn, *)
(* so whatever gives a turn back, lends one or shortens the line wakes it. *)
NoLostWakeUp ==
    line # <<>> /\ sleep[line[1]] > 0 => working = AtOnce

(* Nobody sleeps past its own deadline, or past the deadline of a turn     *)
(* that is lent: when one falls due somebody is awake to take it back.     *)
NobodyOversleeps ==
    \A r \in Requests : sleep[r] > 0 =>
        \A h \in Lent \cup {r} : sleep[r] <= left[h]

(* The books of one request agree with its thread: it is in the line once  *)
(* or not at all, a turn is at work exactly while its block runs, and only *)
(* a request whose answer is still awaited has a turn lent to it.          *)
BooksAgree ==
    /\ \A r \in Requests :
        /\ stage[r] = "line" <=> \E i \in 1..Len(line) : line[i] = r
        /\ stage[r] = "work" <=> turn[r] = "at_work"
        /\ turn[r] = "lent" => stage[r] \in {"handler", "answer"} /\ ~gone[r]
        /\ sleep[r] > 0 => stage[r] = "line"
        /\ gone[r] => stage[r] \in {"handler", "line", "work"}
    /\ \A i, j \in 1..Len(line) : line[i] = line[j] => i = j

(* A request that is over has left nothing behind: no place, no turn.      *)
NothingLeftBehind ==
    \A r \in Requests :
        /\ stage[r] = "idle" => ~place[r] /\ turn[r] = "none" /\ ~gone[r]
        /\ gone[r] /\ stage[r] = "handler" => ~place[r]

(***************************************************************************)
(* Action properties.                                                      *)
(***************************************************************************)

(* A turn is taken from nobody who still works, and from an answer that is *)
(* still going out only once its request's deadline has passed.            *)
TakenBackOnlyWhenOverdue ==
    [][\A r \in Requests :
         turn[r] # "none" /\ turn'[r] = "none" =>
            \/ turn[r] = "lent" /\ left[r] = 0
            \/ stage'[r] = "idle" \/ gone'[r]]_vars

(* Answer.sent: a request that stands in the line or is at work keeps its  *)
(* place until it no longer does, also when its client has left.           *)
PlaceOutlastsWork ==
    [][\A r \in Requests :
         place[r] /\ ~place'[r] => stage'[r] \notin {"line", "work"}]_vars

(***************************************************************************)
(* Refinement: the gate is a bounded first-come first-served queue.        *)
(***************************************************************************)
Queue == INSTANCE TurnQueue

ImplementsQueue == Queue!Spec

(***************************************************************************)
(* Liveness.                                                               *)
(***************************************************************************)

(* Nothing waits for ever: every request that stands in the line gets its  *)
(* turn or is refused, though no client ever reads, no block ends and no   *)
(* handler returns.                                                        *)
EveryWaiterLeaves == \A r \in Requests : stage[r] = "line" ~> stage[r] # "line"

(* Every place comes back, though no client ever sends or reads another    *)
(* byte, provided that handlers end.                                       *)
EveryPlaceComesBack ==
    HandlersEnd => \A r \in Requests : place[r] ~> ~place[r]
==============================================================================
