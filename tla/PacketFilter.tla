---------------------------- MODULE PacketFilter ----------------------------
(***************************************************************************)
(* The packet filter: the chains of internal/nft/render.go, and the        *)
(* protocol blocking of internal/dpi/dpi.go behind them.                   *)
(*                                                                         *)
(* A packet goes through the chain of its hook, which accepts it, drops it *)
(* or hands it to the DPI.  The kernel keeps an entry for each connection, *)
(* with a mark: a connection is pending until the DPI has seen a payload   *)
(* of it.  Meanwhile commands and the daemon delete the table and load     *)
(* another, the daemon's DPI comes and goes with a configuration of its    *)
(* own, leases come and go, entries time out, and the DPI answers in its   *)
(* time.                                                                   *)
(*                                                                         *)
(* Connections are those to the host (input), those it forwards to a       *)
(* backend after DNAT (forward) and those it makes (output).  Lists are    *)
(* the sets of addresses they expand to, a payload is one of the protocol  *)
(* the connection speaks.  The time of leases is that of module Lease.     *)
(***************************************************************************)
EXTENDS Naturals, FiniteSets

CONSTANTS
  Addr,       \* the addresses of peers and backends
  Loopback,   \* the peers that come over lo
  Port,       \* the ports, as seen from outside
  LeasePort,  \* the port the lease agent listens on
  App,        \* the protocols connections speak
  Config,     \* the configurations that are rendered
  Conn,       \* the connections
  MaxQueue,   \* MaxQueueLen
  None        \* no table, no policy of a port, no DPI

\* What BuildInput makes of a configuration, to be rendered.
Input ==
  [block : SUBSET App, guardAll : BOOLEAN,
   open : SUBSET Port, guarded : SUBSET Port, skip : SUBSET Port,
   ingress : BOOLEAN, sources : SUBSET Addr,
   policy : [Port -> {None} \cup SUBSET Addr], relays : SUBSET Addr,
   egress : BOOLEAN, dests : SUBSET Addr]

Connection ==
  [peer : Addr, backend : Addr, port : Port, hook : {"input", "forward", "output"},
   proto : {"tcp", "udp"}, app : App]

\* It takes the policies of ports only when the ingress list is on.
ASSUME FilterAssumption ==
  /\ Loopback \subseteq Addr
  /\ Config \subseteq Input
  /\ \A r \in Config : ~r.ingress => \A q \in Port : r.policy[q] = None
  /\ Conn \subseteq Connection
  /\ LeasePort \in Port
  /\ MaxQueue \in Nat

VARIABLES
  rules,     \* the configuration of the table in force
  leases,    \* the addresses with a lease
  track,     \* conntrack: the state of each connection
  mark,      \* ct mark
  answered,  \* the connections whose peer has had a reply
  dpi,       \* the protocols the DPI drops, None when it does not run
  queue,     \* the packets the DPI has not judged
  admitted,  \* history: connections whose first packet the policy let in
  carried,   \* history: connections with a payload delivered to the service
  exempt     \* history: connections begun or served under rules that do not inspect them

Tables == <<rules, leases>>
Kernel == <<track, mark>>
History == <<admitted, carried, exempt>>
vars == <<Tables, Kernel, answered, dpi, queue, History>>

\* ct: the packet's ct state; fresh: its connection had no entry; may: the
\* policy let it in (history).
Packet ==
  [conn : Conn, way : {"original", "reply"}, data : BOOLEAN,
   ct : {"new", "established", "invalid"}, mark : {"none", "pending", "accept"},
   fresh : BOOLEAN, may : BOOLEAN]

TypeOK ==
  /\ rules \in Config \cup {None}
  /\ leases \in SUBSET Addr
  /\ track \in [Conn -> {"none", "new", "established"}]
  /\ mark \in [Conn -> {"none", "pending", "accept"}]
  /\ answered \in SUBSET Conn
  /\ dpi \in ({r.block : r \in Config} \ {{}}) \cup {None}
  /\ queue \in SUBSET Packet
  /\ admitted \in SUBSET Conn /\ carried \in SUBSET Conn /\ exempt \in SUBSET Conn

----------------------------------------------------------------------------
(* The chains.  r is what the table was rendered from, L the leases. *)

\* EnableDPI
Blocks(r) == r.block # {}

IsGuarded(r, c) == r.guardAll \/ c.port \in r.guarded

\* renderLeaseRelayAccepts
FromRelay(r, c) == c.proto = "tcp" /\ c.port = LeasePort /\ c.peer \in r.relays

\* ip saddr.  A forward chain sees replies too, and these come from the backend.
Source(p) ==
  IF p.conn.hook = "forward" /\ p.way = "reply" THEN p.conn.backend ELSE p.conn.peer

\* Wrong: a list of a port adds to the global one.
ListedToo(r, port) ==
  IF r.policy[port] # None THEN r.policy[port] \cup r.sources
  ELSE IF r.ingress THEN r.sources
  ELSE Addr

\* What wl_check_p<port>, wl_check, or no check lets through.
Listed(r, port) ==
  IF r.policy[port] # None THEN r.policy[port]
  ELSE IF r.ingress THEN r.sources
  ELSE Addr

\* ingress_allowed, forward_allowed
Allowed(r, p) ==
  IF p.conn.port \in r.skip \/ ~Blocks(r) THEN "accept" ELSE "queue"

\* ingress_guarded, forward_guarded
Guarded(r, L, p) ==
  IF Source(p) \in L \cup Listed(r, p.conn.port) THEN Allowed(r, p) ELSE "drop"

\* Wrong: established connections are accepted before the mark is looked at.
IngressEstablished(r, L, p) ==
  IF p.conn.peer \in Loopback THEN "accept"
  ELSE IF p.ct = "established" THEN "accept"
  ELSE IF Blocks(r) /\ p.mark = "accept" THEN "accept"
  ELSE IF Blocks(r) /\ p.mark = "pending" THEN Guarded(r, L, p)
  ELSE IF FromRelay(r, p.conn) \/ p.conn.port \in r.open THEN "accept"
  ELSE IF p.ct = "new" /\ IsGuarded(r, p.conn) THEN Guarded(r, L, p)
  ELSE "drop"

\* renderIngress: the rules in their order; invalid packets and the rest are
\* dropped.
Ingress(r, L, p) ==
  IF p.conn.peer \in Loopback THEN "accept"
  ELSE IF Blocks(r) /\ p.mark = "accept" THEN "accept"
  ELSE IF Blocks(r) /\ p.mark = "pending" THEN Guarded(r, L, p)
  ELSE IF p.ct = "established" THEN "accept"
  ELSE IF FromRelay(r, p.conn) \/ p.conn.port \in r.open THEN "accept"
  ELSE IF p.ct = "new" /\ IsGuarded(r, p.conn) THEN Guarded(r, L, p)
  ELSE "drop"

\* renderForward, for connections with DNAT; others are not looked at.
Forward(r, L, p) ==
  IF Blocks(r) /\ p.mark = "accept" THEN "accept"
  ELSE IF Blocks(r) /\ p.mark = "pending" THEN Guarded(r, L, p)
  ELSE IF p.ct = "established" THEN "accept"
  ELSE IF p.conn.port \in r.open THEN "accept"
  ELSE IF p.ct = "new" /\ IsGuarded(r, p.conn) THEN Guarded(r, L, p)
  ELSE "drop"

\* Wrong: answers of services go by the list of destinations.
EgressStrict(r, p) ==
  IF \/ ~r.egress
     \/ p.conn.peer \in Loopback \/ p.conn.peer \in r.dests
  THEN "accept" ELSE "drop"

\* renderEgress
Egress(r, p) ==
  IF \/ ~r.egress
     \/ p.conn.peer \in Loopback \/ p.ct = "established"
     \/ p.conn.port \in r.open \cup r.guarded \/ p.conn.peer \in r.dests
  THEN "accept" ELSE "drop"

\* The chain of a packet.  Without a table nothing is looked at.
Verdict(r, L, p) ==
  IF r = None THEN "accept"
  ELSE IF p.conn.hook = "forward" THEN Forward(r, L, p)
  ELSE IF (p.conn.hook = "input") = (p.way = "original") THEN Ingress(r, L, p)
  ELSE Egress(r, p)

----------------------------------------------------------------------------
(* What the chains are to do. *)

\* The policy: who may begin a connection.
MayBegin(r, L, c) ==
  \/ r = None
  \/ /\ c.hook = "output"
     /\ r.egress => \/ c.peer \in Loopback \cup r.dests
                    \/ c.port \in r.open \cup r.guarded
  \/ c.hook = "input" /\ (c.peer \in Loopback \/ FromRelay(r, c))
  \/ c.hook # "output" /\ c.port \in r.open
  \/ /\ c.hook # "output" /\ IsGuarded(r, c)
     /\ \/ c.peer \in L
        \/ r.policy[c.port] # None /\ c.peer \in r.policy[c.port]
        \/ r.policy[c.port] = None /\ (r.ingress => c.peer \in r.sources)

\* Whether the protocol of a connection that begins now is to be looked at.
Inspects(r, c) ==
  /\ r # None /\ Blocks(r)
  /\ c.hook # "output"
  /\ c.port \notin r.open \cup r.skip
  /\ c.hook = "input" => c.peer \notin Loopback /\ ~FromRelay(r, c)

----------------------------------------------------------------------------
(* Packets *)

Init ==
  /\ rules \in Config
  /\ leases = {}
  /\ track = [c \in Conn |-> "none"] /\ mark = [c \in Conn |-> "none"]
  /\ answered = {}
  /\ dpi = None /\ queue = {}
  /\ admitted = {} /\ carried = {} /\ exempt = {}

\* A packet gets to its end.  An entry is made with the first one.
Deliver(p, m) ==
  LET c == p.conn IN
  /\ IF p.ct = "invalid" THEN UNCHANGED <<Kernel, History>>
     ELSE /\ track' = [track EXCEPT ![c] = IF @ = "none" THEN "new" ELSE @]
          /\ mark' = [mark EXCEPT ![c] = m]
          /\ admitted' = IF p.may /\ track[c] = "none" THEN admitted \cup {c} ELSE admitted
          /\ carried' = IF p.data /\ p.way = "original" THEN carried \cup {c} ELSE carried
          /\ exempt' = IF ~Inspects(rules, c) /\ (p.data \/ track[c] = "none")
                       THEN exempt \cup {c} ELSE exempt
  /\ answered' = IF p.way = "reply" THEN answered \cup {c} ELSE answered

\* A packet is handed to the DPI, or lost because nobody takes it.
Enqueue(p) ==
  /\ mark' = [mark EXCEPT ![p.conn] = IF p.fresh THEN @ ELSE "pending"]
  /\ \/ /\ dpi # None /\ Cardinality(queue) < MaxQueue
        /\ queue' = queue \cup {[p EXCEPT !.mark = "pending"]}
     \/ UNCHANGED queue
  /\ UNCHANGED <<answered, History>>

\* The peer of a connection sends, an empty segment or data.  An invalid packet
\* belongs to no entry, so it has no mark and no DNAT.
Send(c, data, invalid) ==
  LET p == [conn |-> c, way |-> "original", data |-> data,
            ct |-> IF invalid THEN "invalid"
                   ELSE IF track[c] = "established" THEN "established" ELSE "new",
            mark |-> IF invalid THEN "none" ELSE mark[c],
            fresh |-> track[c] = "none", may |-> MayBegin(rules, leases, c)]
      v == Verdict(rules, leases, p)
  IN
  /\ c.proto = "tcp" /\ data => c \in answered
  /\ c.proto = "udp" => data
  /\ invalid => c.hook = "input" /\ c.proto = "tcp"
  /\ \/ v = "accept" /\ Deliver(p, p.mark) /\ UNCHANGED queue
     \/ v = "queue" /\ Enqueue(p) /\ UNCHANGED track
     \/ v = "drop" /\ UNCHANGED <<Kernel, answered, queue, History>>
  /\ UNCHANGED <<Tables, dpi>>

\* The other end replies; the kernel sees that before any chain does.
Reply(c, data) ==
  LET p == [conn |-> c, way |-> "reply", data |-> data, ct |-> "established",
            mark |-> mark[c], fresh |-> FALSE, may |-> FALSE]
      v == Verdict(rules, leases, p)
  IN
  /\ track[c] # "none"
  /\ c.proto = "tcp" /\ data => c \in answered
  /\ c.proto = "udp" => data
  /\ track' = [track EXCEPT ![c] = "established"]
  /\ \/ /\ v = "accept"
        /\ answered' = answered \cup {c}
        /\ UNCHANGED <<mark, queue, History>>
     \/ v = "queue" /\ Enqueue(p)
     \/ v = "drop" /\ UNCHANGED <<mark, answered, queue, History>>
  /\ UNCHANGED <<Tables, dpi>>

\* Wrong: a segment without a payload is judged for good.
FinalAlways(p) == TRUE

\* Wrong: a payload is not waited for, what is let through is not marked.
FinalOther(p) == p.conn.proto # "tcp"

\* InspectPacket waits for a payload, but only with TCP.
Final(p) == p.data \/ p.conn.proto # "tcp"

\* The DPI judges a packet: it drops what it is to block and marks what it
\* need not see again.  A TCP packet whose entry another one made meanwhile is
\* lost.
Judge(p) ==
  /\ dpi # None /\ p \in queue
  /\ queue' = queue \ {p}
  /\ IF \/ p.conn.proto = "tcp" /\ p.data /\ p.conn.app \in dpi
        \/ p.conn.proto = "tcp" /\ p.fresh /\ track[p.conn] # "none"
     THEN UNCHANGED <<Kernel, answered, History>>
     ELSE Deliver(p, IF Final(p) THEN "accept"
                     ELSE IF p.fresh THEN "pending" ELSE mark[p.conn])
  /\ UNCHANGED <<Tables, dpi>>

\* A packet in the queue is lost: its verdict cannot be sent.
Lose(p) ==
  /\ p \in queue
  /\ queue' = queue \ {p}
  /\ UNCHANGED <<Tables, Kernel, answered, dpi, History>>

----------------------------------------------------------------------------
(* What changes around them *)

\* The entry of a connection times out.
Forget(c) ==
  /\ track[c] # "none"
  /\ \A p \in queue : p.conn # c
  /\ track' = [track EXCEPT ![c] = "none"]
  /\ mark' = [mark EXCEPT ![c] = "none"]
  /\ admitted' = admitted \ {c} /\ carried' = carried \ {c} /\ exempt' = exempt \ {c}
  /\ UNCHANGED <<Tables, answered, dpi, queue>>

\* nft.Apply deletes the table, with the leases in it; `protect disable` does
\* that alone.  What is queued goes too.
DeleteTable ==
  /\ rules # None
  /\ rules' = None /\ leases' = {}
  /\ queue' = {}
  /\ UNCHANGED <<Kernel, answered, dpi, History>>

\* nft.Apply loads a table.
LoadTable(r) ==
  /\ rules = None
  /\ rules' = r
  /\ UNCHANGED <<leases, Kernel, answered, dpi, queue, History>>

\* The agent adds a lease, a lease runs out.
Grant(a) ==
  /\ rules # None /\ a \notin leases
  /\ leases' = leases \cup {a}
  /\ UNCHANGED <<rules, Kernel, answered, dpi, queue, History>>

Expire(a) ==
  /\ a \in leases
  /\ leases' = leases \ {a}
  /\ UNCHANGED <<rules, Kernel, answered, dpi, queue, History>>

\* Run: the daemon starts the DPI with what it has read.
Attach(r) ==
  /\ dpi = None /\ Blocks(r)
  /\ dpi' = r.block
  /\ UNCHANGED <<Tables, Kernel, answered, queue, History>>

\* The DPI ends, with its queue.
Detach ==
  /\ dpi # None
  /\ dpi' = None /\ queue' = {}
  /\ UNCHANGED <<Tables, Kernel, answered, History>>

Next ==
  \/ \E c \in Conn, data \in BOOLEAN :
       (\E invalid \in BOOLEAN : Send(c, data, invalid)) \/ Reply(c, data)
  \/ \E p \in queue : Judge(p) \/ Lose(p)
  \/ \E c \in Conn : Forget(c)
  \/ DeleteTable \/ Detach
  \/ \E r \in Config : LoadTable(r) \/ Attach(r)
  \/ \E a \in Addr : Grant(a) \/ Expire(a)

Spec == Init /\ [][Next]_vars

----------------------------------------------------------------------------
(* Properties *)

\* A connection exists only if the policy let its first packet in, whatever was
\* loaded while that packet was with the DPI (README.md:54-62, the order of
\* renderIngress and renderForward).
OnlyAdmitted == \A c \in Conn : track[c] # "none" => c \in admitted

\* A protocol that is blocked by every configuration that blocks any is never
\* served, unless the rules did not ask for it when the connection began or was
\* served: over reloads that change what is blocked, a DPI that comes and goes,
\* losses and retransmissions (PendingConnMark of dpi.go, the rules on marks).
BlockedStaysOut ==
  \A c \in carried \ exempt :
    c.proto = "tcp" => \E r \in Config : Blocks(r) /\ c.app \notin r.block

\* A session that has been served goes on, whatever is loaded next and whatever
\* lease runs out, except one that was served while nothing was blocked and is
\* still marked as pending (README.md:56 of the repository: established
\* connections are let through first).
SessionsSurvive ==
  \A c \in carried :
    LET p == [conn |-> c, way |-> "original", data |-> TRUE, ct |-> "established",
              mark |-> mark[c], fresh |-> FALSE, may |-> FALSE]
    IN track[c] = "established" /\ (mark[c] = "pending" => c \notin exempt) =>
         \A r \in Config : Verdict(r, leases, p) = "accept"

\* What the other end of a connection says, it may say: of services of the
\* host to their peers, of others to the host.
Heard(c) ==
  LET p == [conn |-> c, way |-> "reply", data |-> FALSE, ct |-> "established",
            mark |-> mark[c], fresh |-> FALSE, may |-> FALSE]
  IN track[c] # "none" => Verdict(rules, leases, p) # "drop"

RepliesPass == \A c \in Conn : c.hook # "forward" => Heard(c)

\* README.md:54 says input and forward protect alike: the same for backends.
ForwardedRepliesPass == \A c \in Conn : c.hook = "forward" => Heard(c)
=============================================================================
