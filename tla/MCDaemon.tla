------------------------------ MODULE MCDaemon ------------------------------
(***************************************************************************)
(* Values of Daemon's constants for TLC, and a special case of it.         *)
(***************************************************************************)
EXTENDS Daemon

\* A configuration that turns everything on and is not edited, and a process
\* that is neither killed nor told to end.
Settled ==
  /\ Init /\ configured = Comp
  /\ [][Next /\ UNCHANGED configured /\ up' \in {"booting", "up"}]_vars
  /\ Fairness
=============================================================================
