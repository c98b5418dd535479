------------------------------- MODULE Store -------------------------------
(***************************************************************************)
(* What the store promises the commands, without processes, transactions,  *)
(* tables read one by one, the second list of ports and failures: there is *)
(* one configuration, always accepted.  A new one gets its defaults once;  *)
(* from then on each command changes it in a single step, until a process  *)
(* writes that was overlapped by another.  Config implements it.           *)
(***************************************************************************)
CONSTANTS
  DefaultPort,
  First,       \* the configurations there may be to begin with
  Acceptable,  \* those that validate
  Outcomes(_)  \* what a command may make of a configuration

VARIABLES
  conf,   \* the configuration, as anyone loads it
  fresh,  \* its defaults are not complete
  quiet   \* nobody who was overlapped has written

vars == << conf, fresh, quiet >>

Init == conf \in First /\ fresh \in BOOLEAN /\ quiet = TRUE

OpenDefault ==
  /\ fresh /\ conf.openPorts = {}
  /\ conf' = [conf EXCEPT !.openPorts = {DefaultPort},
                          !.openPortRanges = {<<DefaultPort, DefaultPort>>}]
  /\ UNCHANGED << fresh, quiet >>

SkipDefault ==
  /\ fresh /\ conf.skipPorts = {}
  /\ conf' = [conf EXCEPT !.skipPorts = {DefaultPort}]
  /\ UNCHANGED << fresh, quiet >>

Complete ==
  /\ fresh /\ conf.openPorts # {} /\ conf.skipPorts # {}
  /\ fresh' = FALSE
  /\ UNCHANGED << conf, quiet >>

\* One that leaves the configuration as it is takes no step.
Command ==
  /\ ~fresh
  /\ conf' # conf /\ conf' \in Acceptable
  /\ conf' \in Outcomes(conf)
  /\ UNCHANGED << fresh, quiet >>

\* The last writer wins, with a mix of what there was and what it read before.
Overlapped ==
  /\ conf' \in Acceptable
  /\ quiet' = FALSE
  /\ UNCHANGED fresh

Next == OpenDefault \/ SkipDefault \/ Complete \/ Command \/ Overlapped

Spec == Init /\ [][Next]_vars
=============================================================================
