----------------------------- MODULE MCStorage -----------------------------
(* Storage with two tables, two keys, one or two crashes and one fault. *)
EXTENDS Storage, TLC

StorageSymmetry == Permutations(Tables) \cup Permutations(Keys)
=============================================================================
