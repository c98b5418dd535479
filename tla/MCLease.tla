------------------------------ MODULE MCLease -------------------------------
(***************************************************************************)
(* Values of Lease's constants for TLC.                                    *)
(***************************************************************************)
EXTENDS Lease, TLC

\* A sender whose clock is behind by what a handler may take or more, and one
\* that may be ahead.
Behind == {-2, -1}
Ahead == {1}

\* Connections are told apart by nothing.
Connections == Permutations(Conn)
=============================================================================
