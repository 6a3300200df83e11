---------------------------- MODULE MCBackupRunner ----------------------------
(* BackupRunner on small instances.                                        *)
EXTENDS BackupRunner, TLC

CONSTANTS j1, j2

(* One job works through its devices itself, the other one has a pool.     *)
OneSerialOnePool == j1 :> 1 @@ j2 :> 2

(* The second device of the serial job has a type nobody knows.            *)
OneUnknown == {<<j1, 2>>}
==============================================================================
