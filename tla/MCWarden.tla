------------------------------- MODULE MCWarden -------------------------------
(* The instances of Warden that TLC checks.                                *)
EXTENDS Warden, TLC

Alike == Permutations(Boxes) \cup Permutations(Mints) \cup Permutations(Ips)
===============================================================================
