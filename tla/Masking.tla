------------------------------ MODULE Masking ------------------------------
(***************************************************************************)
(* One pull of downlink masking, and the servers it pulls from (pullAB and *)
(* runServeContext of internal/mask/mask.go).                              *)
(*                                                                         *)
(* A pull asks for bytes over TCP, over UDP, or part over each, one after  *)
(* the other or at once.  Each protocol's part, a leg, draws one of the    *)
(* targets that are left until one has sent something.  A server has a     *)
(* goroutine per TCP connection and per UDP session.                       *)
(*                                                                         *)
(* Over UDP requests and packets are lost, late or there twice; a client   *)
(* that hears nothing for a while asks for the whole again, in the same    *)
(* session.  A server may be stopped, as a reload of its daemon does, and  *)
(* started, with no memory of its sessions.                                *)
(*                                                                         *)
(* Bytes are few.  Rates, weights and the contents of packets are left     *)
(* out; a timeout may come at any time.                                    *)
(***************************************************************************)
EXTENDS Integers, FiniteSetsExt

CONSTANTS
  Target,      \* the rows of downmask_ab_pull_targets, a server each
  Enabled,     \* their tcp_enabled and udp_enabled
  Stranger,    \* servers that have another token
  Mode,        \* what protocol_mode, protocol and parallel_limit ask for
  Planned,     \* the bytes reconcile asks for
  Percent,     \* bytes_jitter_percent
  Body,        \* the bytes of a UDP packet after its session
  Retries,     \* udpMaxRetries
  MaxFaults,   \* bound on what comes twice and on the stops of servers
  None         \* no target, and no result yet

Protocol == {"tcp", "udp"}

ASSUME MaskingAssumption ==
  /\ IsFiniteSet(Target)
  /\ Enabled \in [Target -> SUBSET Protocol]
  /\ Stranger \subseteq Target /\ None \notin Target
  /\ Mode \subseteq Protocol \cup {"inTurn", "atOnce"}
  /\ {Planned, Body, Retries} \subseteq Nat \ {0}
  /\ {Percent, MaxFaults} \subseteq Nat

VARIABLES
  mode,      \* the mode of this pull
  leg,       \* the pull, by protocol
  result,    \* what pullAB has returned
  server,    \* the servers: up, closing or down, and their starts
  keys,      \* udpSessions: the servers that have a session of this pull
  streams,   \* the goroutines of connections and sessions
  requests,  \* requests on their way, by server
  asked,     \* what they ask for
  packets,   \* UDP packets on their way, by server and size
  faults,    \* requests and packets that came twice, stops of servers
  got,       \* history: bytes that were read
  sent       \* history: bytes written in UDP sessions, by server

net == <<requests, asked, packets, faults>>
vars == <<mode, leg, result, server, keys, streams, net, got, sent>>

Leg == [pc : {"off", "wait", "pick", "tcpRead", "udpSend", "udpRead", "done"},
        planned : Nat, candidates : SUBSET Target, target : Target \cup {None},
        wanted : Nat, actual : Nat, attempt : 0 .. Retries]

Stream == [over : Protocol, target : Target, start : Nat, wanted : Nat, sent : Nat,
           pc : {"header", "send", "ending", "closed"}]

TypeOK ==
  /\ mode \in Mode
  /\ leg \in [Protocol -> Leg]
  /\ result \in Nat \cup {None}
  /\ server \in [Target -> [is : {"up", "closing", "down"}, starts : Nat]]
  /\ keys \subseteq Target
  /\ streams \subseteq Stream
  /\ requests \in [Target -> Nat] /\ asked \in [Target -> Nat]
  /\ packets \in [Target -> [1 .. Body -> Nat]]
  /\ faults \in 0 .. MaxFaults
  /\ got \in Nat
  /\ sent \in [Target -> Nat]

----------------------------------------------------------------------------
(* The plan *)

\* splitProtocolBytes: 35 to 65 of a hundred over TCP, the rest over UDP.
Split(total) ==
  IF total <= 1 THEN {total}
  ELSE {Max({1, Min({total - 1, (total * (35 + n) + 50) \div 100})}) : n \in 0 .. 30}

\* applyPercentJitter, and at least one.
Wanted(planned) ==
  {Max({1, (planned * (100 + d) + 50) \div 100}) : d \in -Percent .. Percent}

Rows(p) == {t \in Target : p \in Enabled[t]}

\* pullABProtocol of no bytes returns at once.
NewLeg(p, planned, pc) ==
  [pc |-> IF pc # "off" /\ planned = 0 THEN "done" ELSE pc, planned |-> planned,
   candidates |-> Rows(p), target |-> None, wanted |-> 0, actual |-> 0, attempt |-> 0]

Legs(m) ==
  IF m \in Protocol
  THEN {[p \in Protocol |-> NewLeg(p, Planned, IF p = m THEN "pick" ELSE "off")]}
  ELSE {[p \in Protocol |->
           IF p = "tcp" THEN NewLeg(p, tcp, "pick")
           ELSE NewLeg(p, Planned - tcp,
                       IF m = "atOnce" THEN "pick" ELSE "wait")] : tcp \in Split(Planned)}

Nothing == [n \in 1 .. Body |-> 0]

Init ==
  /\ mode \in Mode
  /\ leg \in Legs(mode)
  /\ result = None
  /\ server = [t \in Target |-> [is |-> "up", starts |-> 0]]
  /\ keys = {} /\ streams = {}
  /\ requests = [t \in Target |-> 0] /\ asked = [t \in Target |-> 0]
  /\ packets = [t \in Target |-> Nothing]
  /\ faults = 0 /\ got = 0
  /\ sent = [t \in Target |-> 0]

Up(t) == server[t].is = "up"

\* A goroutine of the server that is there now.
Current(s) == s.start = server[s.target].starts /\ server[s.target].is # "down"

Reads(t) == leg["udp"].pc \in {"udpSend", "udpRead"} /\ leg["udp"].target = t
Connected(t) == leg["tcp"].pc = "tcpRead" /\ leg["tcp"].target = t

\* The UDP sessions the server of now has.
Sessions(t) == {s \in streams : s.over = "udp" /\ s.target = t
                                 /\ s.start = server[t].starts}

\* What a connection has carried and the client has not read.
OnItsWay(t) ==
  {s \in streams : s.over = "tcp" /\ s.target = t /\ s.sent > leg["tcp"].actual}

----------------------------------------------------------------------------
(* The client *)

\* Wrong: a connection that breaks is an error, whatever came before.
TryOverOrError(p) ==
  LET l == leg[p] IN
  leg' = [leg EXCEPT ![p] =
            IF l.actual >= l.wanted THEN [l EXCEPT !.pc = "done", !.target = None]
            ELSE [l EXCEPT !.pc = "pick", !.target = None, !.actual = 0,
                           !.candidates = @ \ {l.target}]]

\* pullABProtocol: a target that sent something ends the leg, one that sent
\* nothing or failed is crossed out.
TryOver(p) ==
  LET l == leg[p] IN
  leg' = [leg EXCEPT ![p] =
            IF l.actual > 0 THEN [l EXCEPT !.pc = "done", !.target = None]
            ELSE [l EXCEPT !.pc = "pick", !.target = None,
                           !.candidates = @ \ {l.target}]]

\* Every target failed.
GiveUp(p) ==
  /\ leg[p].pc = "pick" /\ leg[p].candidates = {}
  /\ leg' = [leg EXCEPT ![p].pc = "done"]
  /\ UNCHANGED <<mode, result, server, keys, streams, net, got, sent>>

\* The next one has no port or no token, or no socket to it can be opened.
PickFails(p) ==
  /\ leg[p].pc = "pick"
  /\ \E t \in leg[p].candidates :
       leg' = [leg EXCEPT ![p].candidates = @ \ {t}]
  /\ UNCHANGED <<mode, result, server, keys, streams, net, got, sent>>

PickTCP ==
  /\ leg["tcp"].pc = "pick"
  /\ \E t \in leg["tcp"].candidates, w \in Wanted(leg["tcp"].planned) :
       /\ Up(t)
       /\ leg' = [leg EXCEPT !["tcp"].pc = "tcpRead", !["tcp"].target = t,
                             !["tcp"].wanted = w]
       /\ streams' = streams \cup
            {[over |-> "tcp", target |-> t, start |-> server[t].starts,
              wanted |-> w, sent |-> 0, pc |-> "header"]}
  /\ UNCHANGED <<mode, result, server, keys, net, got, sent>>

PickUDP ==
  /\ leg["udp"].pc = "pick"
  /\ \E t \in leg["udp"].candidates, w \in Wanted(leg["udp"].planned) :
       leg' = [leg EXCEPT !["udp"].pc = "udpSend", !["udp"].target = t,
                          !["udp"].wanted = w, !["udp"].attempt = 0]
  /\ UNCHANGED <<mode, result, server, keys, streams, net, got, sent>>

\* A read returns some of what has come, and no more than is wanted.
ReadTCP ==
  /\ leg["tcp"].pc = "tcpRead"
  /\ \E s \in OnItsWay(leg["tcp"].target) :
       \E n \in 1 .. leg["tcp"].wanted - leg["tcp"].actual :
         /\ n <= s.sent - leg["tcp"].actual
         /\ leg' = [leg EXCEPT !["tcp"].actual = @ + n]
         /\ got' = got + n
  /\ UNCHANGED <<mode, result, server, keys, streams, net, sent>>

\* All is read, the server has closed, or the connection or the time has ended:
\* what was read counts.
EndTCP ==
  /\ leg["tcp"].pc = "tcpRead"
  /\ TryOver("tcp")
  /\ streams' = {s \in streams : ~ (s.over = "tcp" /\ s.target = leg["tcp"].target
                                    /\ s.pc = "closed")}
  /\ UNCHANGED <<mode, result, server, keys, net, got, sent>>

\* Wrong: a pull asks until it has everything.
AskWithoutEnd(l) == l.actual < l.wanted

MayAsk(l) == l.attempt < Retries /\ l.actual < l.wanted

\* The request is sent, the first time or again.
Ask ==
  LET l == leg["udp"] IN
  /\ l.pc = "udpSend" /\ MayAsk(l)
  /\ leg' = [leg EXCEPT !["udp"].pc = "udpRead",
                        !["udp"].attempt = Min({@ + 1, Retries})]
  /\ requests' = [requests EXCEPT ![l.target] = @ + 1]
  /\ asked' = [asked EXCEPT ![l.target] = l.wanted]
  /\ UNCHANGED <<mode, result, server, keys, streams, packets, faults, got, sent>>

\* Sending it fails, as after an unreachable port.
AskFails ==
  /\ leg["udp"].pc = "udpSend" /\ MayAsk(leg["udp"])
  /\ leg' = [leg EXCEPT !["udp"].attempt = Min({@ + 1, Retries})]
  /\ UNCHANGED <<mode, result, server, keys, streams, net, got, sent>>

\* Wrong: packets are read for as long as they come.
ReadsOn(l) == l.pc = "udpRead"

MayRead(l) == l.pc = "udpRead" /\ l.actual < l.wanted

\* A packet of the session counts with all it carries.
ReadUDP ==
  LET l == leg["udp"] IN
  /\ MayRead(l)
  /\ \E n \in 1 .. Body :
       /\ packets[l.target][n] > 0
       /\ packets' = [packets EXCEPT ![l.target][n] = @ - 1]
       /\ leg' = [leg EXCEPT !["udp"].actual = @ + n]
       /\ got' = got + n
  /\ UNCHANGED <<mode, result, server, keys, streams, requests, asked, faults, sent>>

\* Wrong: only a packet sets a deadline.
EndReadsHeard ==
  /\ leg["udp"].pc = "udpRead" /\ leg["udp"].actual > 0
  /\ leg' = [leg EXCEPT !["udp"].pc = "udpSend"]
  /\ UNCHANGED <<mode, result, server, keys, streams, net, got, sent>>

\* All has come, or nothing has for 5 s, 2 s after a packet; at the deadline
\* every read ends at once, and what attempts are left are made.
EndReads ==
  /\ leg["udp"].pc = "udpRead"
  /\ leg' = [leg EXCEPT !["udp"].pc = "udpSend"]
  /\ UNCHANGED <<mode, result, server, keys, streams, net, got, sent>>

\* The socket is closed, and packets that come later find none.
EndUDP ==
  LET l == leg["udp"] IN
  /\ l.pc = "udpSend" /\ ~ MayAsk(l)
  /\ TryOver("udp")
  /\ packets' = [packets EXCEPT ![l.target] = Nothing]
  /\ UNCHANGED <<mode, result, server, keys, streams, requests, asked, faults, got, sent>>

\* One after the other: UDP follows TCP, whatever came of that.
Turn ==
  /\ leg["udp"].pc = "wait" /\ leg["tcp"].pc = "done"
  /\ leg' = [leg EXCEPT !["udp"].pc = "pick"]
  /\ UNCHANGED <<mode, result, server, keys, streams, net, got, sent>>

\* sumABResults: what both brought; an error counts only where nothing came.
Return ==
  /\ result = None
  /\ \A p \in Protocol : leg[p].pc \in {"off", "done"}
  /\ result' = leg["tcp"].actual + leg["udp"].actual
  /\ UNCHANGED <<mode, leg, server, keys, streams, net, got, sent>>

----------------------------------------------------------------------------
(* The network *)

\* A request, or a packet, is lost.
LoseRequest(t) ==
  /\ requests[t] > 0
  /\ requests' = [requests EXCEPT ![t] = @ - 1]
  /\ UNCHANGED <<mode, leg, result, server, keys, streams, asked, packets, faults, got, sent>>

LosePacket(t) ==
  /\ \E n \in 1 .. Body :
       packets[t][n] > 0 /\ packets' = [packets EXCEPT ![t][n] = @ - 1]
  /\ UNCHANGED <<mode, leg, result, server, keys, streams, requests, asked, faults, got, sent>>

Duplicate(t) ==
  /\ faults < MaxFaults /\ faults' = faults + 1
  /\ \/ /\ requests[t] > 0
        /\ requests' = [requests EXCEPT ![t] = @ + 1]
        /\ UNCHANGED packets
     \/ /\ \E n \in 1 .. Body :
             packets[t][n] > 0 /\ packets' = [packets EXCEPT ![t][n] = @ + 1]
        /\ UNCHANGED requests
  /\ UNCHANGED <<mode, leg, result, server, keys, streams, asked, got, sent>>

----------------------------------------------------------------------------
(* The servers *)

Replace(s, new) == streams' = (streams \ {s}) \cup {new}

\* handleTCPSession reads a header with its token, or closes: on another one,
\* after 15 s, when the client has gone.
ReadHeader(s) ==
  /\ s.pc = "header" /\ s.target \notin Stranger
  /\ Replace(s, [s EXCEPT !.pc = "send"])
  /\ UNCHANGED <<mode, leg, result, server, keys, net, got, sent>>

\* It sends a chunk.  A server that closes has closed its listener, and neither
\* its connections nor, yet, its seed.
SendTCP(s) ==
  /\ s.over = "tcp" /\ s.pc = "send" /\ s.sent < s.wanted
  /\ Current(s) /\ Connected(s.target)
  /\ \E n \in 1 .. s.wanted - s.sent : Replace(s, [s EXCEPT !.sent = @ + n])
  /\ UNCHANGED <<mode, leg, result, server, keys, net, got, sent>>

\* All is sent, or the client has gone, a write took 60 s, the seed is closed.
CloseTCP(s) ==
  /\ s.over = "tcp" /\ s.pc \in {"header", "send"}
  /\ IF Connected(s.target) THEN Replace(s, [s EXCEPT !.pc = "closed"])
     ELSE streams' = streams \ {s}
  /\ UNCHANGED <<mode, leg, result, server, keys, net, got, sent>>

\* Wrong: every request starts a session.
MayStartAlways(t) == TRUE

\* tryStartUDPSession.
MayStart(t) == t \notin keys

\* serveUDPLoop: a request starts a session of its address and number, unless
\* there is one.  One with another token is passed over.
Receive(t) ==
  /\ Up(t) /\ requests[t] > 0
  /\ requests' = [requests EXCEPT ![t] = @ - 1]
  /\ IF t \in Stranger \/ ~ MayStart(t) THEN UNCHANGED <<keys, streams>>
     ELSE /\ keys' = keys \cup {t}
          /\ streams' = streams \cup
               {[over |-> "udp", target |-> t, start |-> server[t].starts,
                 wanted |-> asked[t], sent |-> 0, pc |-> "send"]}
  /\ UNCHANGED <<mode, leg, result, server, asked, packets, faults, got, sent>>

\* handleUDPSession sends a packet, to a client that may have gone.
SendUDP(s) ==
  LET n == Min({Body, s.wanted - s.sent}) IN
  /\ s.over = "udp" /\ s.pc = "send" /\ s.sent < s.wanted
  /\ Up(s.target) /\ Current(s)
  /\ Replace(s, [s EXCEPT !.sent = @ + n])
  /\ sent' = [sent EXCEPT ![s.target] = @ + n]
  /\ packets' = IF Reads(s.target) THEN [packets EXCEPT ![s.target][n] = @ + 1] ELSE packets
  /\ UNCHANGED <<mode, leg, result, server, keys, requests, asked, faults, got>>

\* All is sent, 10 minutes are over, the socket is closed: it is no longer
\* counted (sessionDone), ...
EndUDPSession(s) ==
  /\ s.over = "udp" /\ s.pc = "send"
  /\ Replace(s, [s EXCEPT !.pc = "ending"])
  /\ UNCHANGED <<mode, leg, result, server, keys, net, got, sent>>

\* Wrong: what ended is not forgotten.
KeyKept(s) == keys

KeyDropped(s) == IF Current(s) THEN keys \ {s.target} ELSE keys

\* ... and then a request may start another (finishUDPSession).
Finish(s) ==
  /\ s.over = "udp" /\ s.pc = "ending"
  /\ streams' = streams \ {s} /\ keys' = KeyDropped(s)
  /\ UNCHANGED <<mode, leg, result, server, net, got, sent>>

\* The context ends: the listeners close.
StopServer(t) ==
  /\ Up(t) /\ server' = [server EXCEPT ![t].is = "closing"]
  /\ faults < MaxFaults /\ faults' = faults + 1
  /\ UNCHANGED <<mode, leg, result, keys, streams, requests, asked, packets, got, sent>>

\* runServeContext returns: the seed is closed, the sessions are forgotten.
CloseSeed(t) ==
  /\ server[t].is = "closing" /\ server' = [server EXCEPT ![t].is = "down"]
  /\ keys' = keys \ {t}
  /\ UNCHANGED <<mode, leg, result, streams, net, got, sent>>

StartServer(t) ==
  /\ server[t].is = "down"
  /\ server' = [server EXCEPT ![t] = [is |-> "up", starts |-> @.starts + 1]]
  /\ UNCHANGED <<mode, leg, result, keys, streams, net, got, sent>>

----------------------------------------------------------------------------

Client ==
  \/ \E p \in Protocol : GiveUp(p) \/ PickFails(p)
  \/ PickTCP \/ ReadTCP \/ EndTCP
  \/ PickUDP \/ Ask \/ AskFails \/ ReadUDP \/ EndReads \/ EndUDP
  \/ Turn \/ Return

Session(s) ==
  \/ ReadHeader(s) \/ SendTCP(s) \/ CloseTCP(s)
  \/ SendUDP(s) \/ EndUDPSession(s) \/ Finish(s)

Serve == \E s \in streams : Session(s)

Network == \E t \in Target : LoseRequest(t) \/ LosePacket(t) \/ Duplicate(t)

Daemon == \E t \in Target : Receive(t) \/ StopServer(t) \/ CloseSeed(t) \/ StartServer(t)

Next == Client \/ Serve \/ Network \/ Daemon

\* Every wait of client and server has a deadline: a client's reads
\* (SetDeadline, SetReadDeadline), a server's header and writes, a session's 10
\* minutes.  Nothing is assumed of the network, or of who stops a server.
Fairness == WF_vars(Client) /\ WF_vars(Serve)

Spec == Init /\ [][Next]_vars /\ Fairness

----------------------------------------------------------------------------
(* Properties *)

\* A server has a session's number for as long as a goroutine sends for it, and
\* no two do: however often the client asks, and whenever the server is stopped,
\* nobody is sent to twice at once, and no number is left that would refuse the
\* next request (tryStartUDPSession, finishUDPSession).
OneSession ==
  \A t \in Target :
    /\ Cardinality(Sessions(t)) <= 1
    /\ server[t].is # "down" => (t \in keys <=> Sessions(t) # {})

\* A UDP pull, which may be sent the whole several times, reads less than a
\* packet beyond what it asked for, and a TCP pull nothing (the loops of pullUDP
\* and pullTCP).
NoOvershoot ==
  /\ leg["tcp"].actual <= leg["tcp"].wanted
  /\ leg["udp"].actual < leg["udp"].wanted + Body

\* What pullAB returns, which the status shows as the bytes last pulled
\* (LastActualBytes; zero is a failed pull), is what came over the network: over
\* broken connections, crossed-out targets, and a protocol that failed beside
\* one that did not.
ReportIsReceived == result # None => result = got

\* A target is sent at most udpMaxRetries times what was asked of it, but for
\* requests the network brought twice.
SentIsBounded ==
  \A t \in Target : sent[t] <= asked[t] * (Retries + MaxFaults)

\* Every pull returns and every goroutine of a server ends, whatever is lost and
\* whoever is stopped.
PullEnds == <>[](result # None /\ streams = {})
=============================================================================
