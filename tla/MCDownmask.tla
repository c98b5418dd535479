----------------------------- MODULE MCDownmask -----------------------------
(***************************************************************************)
(* Downmask for TLC: the other constants are given by the configuration.   *)
(***************************************************************************)
EXTENDS Downmask

CONSTANTS e0, e1

\* The first byte pulled for one of the interfaces may arrive on the other.
OneStrays == [i \in {e0, e1} |-> IF i = e0 THEN 1 ELSE 0]
=============================================================================
