--------------------------- MODULE MCContentStore ---------------------------
(* Instances of ContentStore for TLC: one embedding, one evaluation of it. *)
EXTENDS ContentStore, TLC

CONSTANTS emb, eval

Pair == {emb, eval}
EvalReadsEmb == (emb :> NoObject) @@ (eval :> emb)

Symmetry == Permutations(Workers)

=============================================================================
