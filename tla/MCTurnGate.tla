------------------------------ MODULE MCTurnGate ------------------------------
(* TurnGate on small instances.                                            *)
EXTENDS TurnGate, TLC
===============================================================================
