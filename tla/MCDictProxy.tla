---------------------------- MODULE MCDictProxy ----------------------------
(* Small instances of DictProxy for TLC. *)
EXTENDS DictProxy, TLC

Symmetry == Permutations(Conn) \cup Permutations(Addr)
=============================================================================
