------------------------------ MODULE MCConfig ------------------------------
(***************************************************************************)
(* Values of Config's constants for TLC.                                   *)
(***************************************************************************)
EXTENDS Config, TLC

CONSTANTS hn, zz, cidr, t1, bad, route, here, there, p1, p2

MCProvinceOf == [c \in {zz} |-> hn]

\* A store in use: ranges as the operator typed them, a city, a port's policy,
\* routes, and a trigger that was disabled.
Used ==
  [Empty EXCEPT
     !.protect = {"enabled", "guard_all"},
     !.openPorts = {22, 23}, !.openPortRanges = {<<22, 22>>, <<23, 23>>},
     !.skipPorts = {22}, !.cities = {zz}, !.cidrs = {cidr},
     !.policies = [Empty.policies EXCEPT ![22] =
                     [mode |-> "provinces", provinces |-> {}, cities |-> {zz}]],
     !.trigger = [on |-> FALSE, listen |-> None],
     !.routes = [l \in Label |-> t1], !.relays = {cidr}]

MCLived == {Used}

Symmetry == Permutations(Process)
=============================================================================
