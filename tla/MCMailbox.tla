----------------------------- MODULE MCMailbox -----------------------------
(* Small instances of Mailbox for TLC. *)
EXTENDS Mailbox, TLC

Symmetry == Permutations(Login) \cup Permutations(Password)
=============================================================================
