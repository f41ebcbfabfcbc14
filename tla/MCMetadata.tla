----------------------------- MODULE MCMetadata -----------------------------
(* Small instances of Metadata for TLC. *)
EXTENDS Metadata, TLC

Symmetry == Permutations(Token) \cup Permutations(Proc)
=============================================================================
