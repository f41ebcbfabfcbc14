----------------------------- MODULE MCCmdeploy -----------------------------
(* Small instances of Cmdeploy for TLC. *)
EXTENDS Cmdeploy, TLC
=============================================================================
