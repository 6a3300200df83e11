------------------------------ MODULE TurnQueue ------------------------------
(***************************************************************************)
(* What a server under limits with `at_once' promises about its turns:     *)
(* a first-come first-served queue of bounded length in front of a bounded *)
(* number of turns.  No clock, no thread, no lock and no counter: the      *)
(* detailed account of how netcanon keeps the promise is module TurnGate,  *)
(* which implements this one.                                              *)
(***************************************************************************)
EXTENDS Naturals, FiniteSets, SequencesExt

CONSTANTS Requests,     \* requests to the server
          AtOnce,       \* how many turns there are
          MostWaiting   \* how many may wait for one

VARIABLES turn,         \* [Requests -> "none" | "at_work" | "lent"]
          line          \* the requests that wait, first come first

vars == <<turn, line>>

OutOf(t) == {r \in Requests : t[r] # "none"}

Init == /\ turn = [r \in Requests |-> "none"]
        /\ line = <<>>

(***************************************************************************)
(* Turns had back: only turns that are lent, never one at work.            *)
(***************************************************************************)
Returned(t, back) == [r \in Requests |-> IF r \in back THEN "none" ELSE t[r]]

Grant(t, r) ==
    /\ t[r] = "none"
    /\ Cardinality(OutOf(t)) < AtOnce
    /\ turn' = [t EXCEPT ![r] = "at_work"]

Waiting(r) == \E i \in 1..Len(line) : line[i] = r

(* A newcomer gets a turn only when nobody waits.                          *)
TakeFree(t, r) == /\ line = <<>>
                  /\ Grant(t, r)
                  /\ UNCHANGED line

(* Otherwise it waits behind everybody else.                               *)
Join(t, r) == /\ t[r] = "none"
              /\ ~Waiting(r)
              /\ Len(line) < MostWaiting
              /\ line' = Append(line, r)
              /\ turn' = t

(* Only the first in the line is ever served.                              *)
ServeFirst(t) == /\ line # <<>>
                 /\ Grant(t, line[1])
                 /\ line' = RemoveAt(line, 1)

(* Anyone may give up waiting.                                             *)
GiveUp(t) == /\ \E i \in 1..Len(line) : line' = RemoveAt(line, i)
             /\ turn' = t

Rest(t) == turn' = t /\ UNCHANGED line

(* The holder of a turn stops working, or works again.                     *)
Lend(r) == /\ turn[r] = "at_work"
           /\ turn' = [turn EXCEPT ![r] = "lent"]
           /\ UNCHANGED line

Resume(r) == /\ turn[r] = "lent"
             /\ turn' = [turn EXCEPT ![r] = "at_work"]
             /\ UNCHANGED line

Finish(r) == /\ turn[r] = "at_work"
             /\ turn' = [turn EXCEPT ![r] = "none"]
             /\ UNCHANGED line

Next ==
    \/ \E back \in SUBSET {r \in Requests : turn[r] = "lent"} :
         LET t == Returned(turn, back) IN
           \/ \E r \in Requests : TakeFree(t, r) \/ Join(t, r)
           \/ ServeFirst(t)
           \/ GiveUp(t)
           \/ Rest(t)
    \/ \E r \in Requests : Lend(r) \/ Resume(r) \/ Finish(r)

Spec == Init /\ [][Next]_vars
==============================================================================
