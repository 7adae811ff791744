---------------------------- MODULE MCResearchRun ----------------------------
(* Instances of ResearchRun for TLC: every evaluation reads every embedding. *)
EXTENDS ResearchRun

Sources == [t \in Core \cup Families |-> Embeddings]

=============================================================================
