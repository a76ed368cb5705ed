------------------------- MODULE MCKeyValueStorage -------------------------
(***************************************************************************)
(* KeyValueStorage for TLC.                                                *)
(***************************************************************************)
EXTENDS KeyValueStorage

Symmetry == Permutations(Blobs) \cup Permutations(Requests)

=============================================================================
