----------------------------- MODULE MCEvidence -----------------------------
(* One adaptive method and one baseline, one pair and one channel each.    *)
EXTENDS Evidence

MCMethods   == {"C3_A_D", "B1"}
MCBaselines == {"B1"}
MCAdaptive  == {"C3_A_D"}

\* Each file alone, and the files that have to be replaced together before a
\* dispatch finds rows that agree with one another and were not planned.
MCEditable == {{f} : f \in Files} \cup {{"main", "sweep", "images"}}

=============================================================================
