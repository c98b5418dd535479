--------------------------- MODULE MCPacketFilter ---------------------------
(***************************************************************************)
(* PacketFilter for TLC.                                                   *)
(***************************************************************************)
EXTENDS PacketFilter

CONSTANTS friend, stranger, guardedPort, otherPort, http, tls

MCAddr == {friend, stranger}
MCPort == {guardedPort, otherPort}
MCApp == {http, tls}

\* A list of the friend, one port guarded.
Plain ==
  [block |-> {}, guardAll |-> FALSE, open |-> {}, guarded |-> {guardedPort},
   skip |-> {}, ingress |-> TRUE, sources |-> {friend},
   policy |-> [q \in MCPort |-> None], relays |-> {}, egress |-> FALSE, dests |-> {}]

\* All ports guarded.
Blocking == [Plain EXCEPT !.block = {http}, !.guardAll = TRUE]

\* More blocked, one port open to relays, another list for the other, the host's
\* own connections confined.
Strict ==
  [Blocking EXCEPT !.block = {http, tls}, !.relays = {stranger},
   !.policy = [q \in MCPort |-> IF q = guardedPort THEN {stranger} ELSE None],
   !.egress = TRUE, !.dests = {friend}]

\* One port open, the other passes without a look.
Opened == [Blocking EXCEPT !.open = {otherPort}, !.skip = {guardedPort}]

To(peer, port, hook, proto, app) ==
  [peer |-> peer, backend |-> stranger, port |-> port, hook |-> hook, proto |-> proto,
   app |-> app]

\* Browsers, one of them of a backend, a name server behind DNAT, a client of the
\* agent, the host asking.
FlowsConn ==
  {To(friend, guardedPort, "input", "tcp", http),
   To(friend, guardedPort, "forward", "tcp", http),
   To(stranger, guardedPort, "forward", "udp", tls),
   To(stranger, otherPort, "input", "tcp", tls),
   To(stranger, otherPort, "output", "tcp", tls)}
FlowsConfig == {Plain, Blocking, Strict, Opened}

\* Connections have to do with each other by the queue only, leases with none but
\* their own: two connections at a time, and one lease.
Few ==
  /\ Cardinality({c \in Conn : track[c] # "none" \/ c \in answered}) <= 2
  /\ Cardinality(leases) <= 1

\* A browser behind DNAT.
BackendConn == {To(friend, guardedPort, "forward", "tcp", tls)}
BackendConfig == {Plain, Blocking}
=============================================================================
