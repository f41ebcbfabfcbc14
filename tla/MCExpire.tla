------------------------------ MODULE MCExpire ------------------------------
(* Small instances of Expire for TLC. *)
EXTENDS Expire, TLC

Symmetry == Permutations(Msg) \cup Permutations(Proc)
=============================================================================
