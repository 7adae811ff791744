--------------------------- MODULE MCBackupLedger ---------------------------
(* Instances of BackupLedger for TLC: object 2 and 3 fit one bundle, and    *)
(* object 1 needs one of its own.                                           *)
EXTENDS BackupLedger

Sizes == [f \in Objects |-> IF f = 1 THEN 2 ELSE 1]

=============================================================================
