------------------------------ MODULE MCUpdate ------------------------------
(***************************************************************************)
(* Update for TLC: its constants are given by the configurations.          *)
(***************************************************************************)
EXTENDS Update
=============================================================================
