----------------------------- MODULE MCObjects -----------------------------
(* A group and a dataset in one file, a dataset and a datatype in another. *)
EXTENDS RVObjects, TLC

CONSTANTS f1, f2, g1, d1, d2, t1

MCUri  == {g1, d1, d2, t1}
MCKind == (g1 :> "group") @@ (d1 :> "dataset") @@ (d2 :> "dataset") @@ (t1 :> "datatype")
MCHome == (g1 :> f1) @@ (d1 :> f1) @@ (d2 :> f2) @@ (t1 :> f2)

Symmetry == Permutations(Handle) \cup Permutations(Slot) \cup Permutations(Space)
=============================================================================
