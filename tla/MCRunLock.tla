----------------------------- MODULE MCRunLock -----------------------------
(* Instances of RunLock for TLC: one host, model values for invocations.   *)
EXTENDS RunLock

OneHost == [p \in Procs |-> "server"]

=============================================================================
