--------------------------- MODULE MaskingProofs ---------------------------
(***************************************************************************)
(* Theorems about Masking, for any targets, sizes, retries and faults.     *)
(***************************************************************************)
EXTENDS Masking, FiniteSetTheorems, TLAPS

USE DEF Protocol

----------------------------------------------------------------------------
(* The plan is one of numbers *)

LEMMA MaxOfTwo ==
  ASSUME NEW a \in Int, NEW b \in Int
  PROVE  Max({a, b}) \in Int /\ Max({a, b}) >= a /\ Max({a, b}) \in {a, b}
<1>1. \E x \in {a, b} : \A y \in {a, b} : x >= y
  OBVIOUS
<1>2. QED
  BY <1>1 DEF Max

LEMMA MinOfTwo ==
  ASSUME NEW a \in Int, NEW b \in Int
  PROVE  Min({a, b}) \in Int /\ Min({a, b}) <= a /\ Min({a, b}) \in {a, b}
<1>1. \E x \in {a, b} : \A y \in {a, b} : x <= y
  OBVIOUS
<1>2. QED
  BY <1>1 DEF Min

LEMMA WantedType ==
  ASSUME NEW planned \in Nat, NEW w \in Wanted(planned)
  PROVE  w \in Nat \ {0}
<1>0. Percent \in Nat
  BY MaskingAssumption
<1>1. PICK d \in -Percent .. Percent : w = Max({1, (planned * (100 + d) + 50) \div 100})
  BY DEF Wanted
<1> DEFINE q == (planned * (100 + d) + 50) \div 100
<1>2. d \in Int
  BY <1>0
<1>3. planned * (100 + d) + 50 \in Int
  BY <1>2
<1>4. q \in Int
  BY <1>3
<1>5. w = Max({1, q})
  BY <1>1
<1> HIDE DEF q
<1>6. Max({1, q}) \in Int /\ Max({1, q}) >= 1
  BY <1>4, MaxOfTwo
<1>7. QED
  BY <1>5, <1>6

LEMMA SplitType ==
  ASSUME NEW part \in Split(Planned)
  PROVE  part \in Nat /\ Planned - part \in Nat
<1>0. Planned \in Nat \ {0}
  BY MaskingAssumption
<1>1. CASE Planned <= 1
  BY <1>0, <1>1 DEF Split
<1>2. CASE ~ (Planned <= 1)
  <2>1. PICK n \in 0 .. 30 :
          part = Max({1, Min({Planned - 1, (Planned * (35 + n) + 50) \div 100})})
    BY <1>2 DEF Split
  <2> DEFINE q == (Planned * (35 + n) + 50) \div 100
  <2>2. n \in Int /\ Planned * (35 + n) + 50 \in Int
    BY <1>0
  <2>3. q \in Int
    BY <2>2
  <2>8. part = Max({1, Min({Planned - 1, q})})
    BY <2>1
  <2> HIDE DEF q
  <2>4. Min({Planned - 1, q}) \in Int /\ Min({Planned - 1, q}) <= Planned - 1
    BY <1>0, <2>3, MinOfTwo
  <2>5. part \in Int /\ part >= 1 /\ part \in {1, Min({Planned - 1, q})}
    <3> DEFINE m == Min({Planned - 1, q})
    <3>1. m \in Int /\ part = Max({1, m})
      BY <2>4, <2>8
    <3> HIDE DEF m
    <3>2. part \in Int /\ part >= 1 /\ part \in {1, m}
      BY <3>1, MaxOfTwo
    <3>3. QED
      BY <3>2 DEF m
  <2>6. QED
    BY <1>0, <1>2, <2>4, <2>5
<1>3. QED
  BY <1>1, <1>2

LEMMA NewLegType ==
  ASSUME NEW p \in Protocol, NEW n \in Nat, NEW step \in {"off", "wait", "pick"}
  PROVE  /\ NewLeg(p, n, step) \in Leg
         /\ NewLeg(p, n, step).actual = 0 /\ NewLeg(p, n, step).wanted = 0
         /\ NewLeg(p, n, step).pc \in {"off", "wait", "pick", "done"}
  BY MaskingAssumption DEF NewLeg, Leg, Rows

\* Before anything was asked for.
Unasked(l) ==
  /\ l \in [Protocol -> Leg]
  /\ \A p \in Protocol : /\ l[p].actual = 0 /\ l[p].wanted = 0
                         /\ l[p].pc \in {"off", "wait", "pick", "done"}

LEMMA LegsType ==
  ASSUME NEW m \in Mode, NEW l \in Legs(m)
  PROVE  Unasked(l)
<1>1. CASE m \in Protocol
  <2>1. l = [p \in Protocol |-> NewLeg(p, Planned, IF p = m THEN "pick" ELSE "off")]
    BY <1>1 DEF Legs
  <2>2. \A p \in Protocol : l[p] = NewLeg(p, Planned, IF p = m THEN "pick" ELSE "off")
    BY <2>1
  <2>3. QED
    BY <2>1, <2>2, NewLegType, MaskingAssumption DEF Unasked
<1>2. CASE m \notin Protocol
  <2>1. PICK part \in Split(Planned) :
          l = [p \in Protocol |->
                 IF p = "tcp" THEN NewLeg(p, part, "pick")
                 ELSE NewLeg(p, Planned - part, IF m = "atOnce" THEN "pick" ELSE "wait")]
    BY <1>2 DEF Legs
  <2>2. part \in Nat /\ Planned - part \in Nat
    BY SplitType
  <2>3. \A p \in Protocol :
          l[p] = IF p = "tcp" THEN NewLeg(p, part, "pick")
                 ELSE NewLeg(p, Planned - part, IF m = "atOnce" THEN "pick" ELSE "wait")
    BY <2>1
  <2>4. QED
    BY <2>1, <2>2, <2>3, NewLegType DEF Unasked
<1>3. QED
  BY <1>1, <1>2

----------------------------------------------------------------------------
(* Types *)

LEMMA InitType == Init => TypeOK
<1> SUFFICES ASSUME Init PROVE TypeOK
  OBVIOUS
<1>1. leg \in [Protocol -> Leg]
  BY LegsType DEF Init, Unasked
<1>2. Nothing \in [1 .. Body -> Nat]
  BY DEF Nothing
<1>3. QED
  BY <1>1, <1>2, MaskingAssumption DEF Init, TypeOK

\* The variables apart: a leg and a stream are records of many fields, and a
\* step changes few.
LegOK == leg \in [Protocol -> Leg]
NetOK == requests \in [Target -> Nat] /\ asked \in [Target -> Nat]
PacketsOK == packets \in [Target -> [1 .. Body -> Nat]]
ServerOK ==
  /\ server \in [Target -> [is : {"up", "closing", "down"}, starts : Nat]]
  /\ keys \subseteq Target /\ streams \subseteq Stream
CountOK ==
  /\ mode \in Mode /\ result \in Nat \cup {None} /\ faults \in 0 .. MaxFaults
  /\ got \in Nat /\ sent \in [Target -> Nat]

LEMMA TypeParts == TypeOK <=> LegOK /\ NetOK /\ PacketsOK /\ ServerOK /\ CountOK
  BY DEF TypeOK, LegOK, NetOK, PacketsOK, ServerOK, CountOK

LEMMA PacketsType ==
  ASSUME PacketsOK, NEW t, NEW n \in 1 .. Body, NEW k \in Nat,
         packets' = [packets EXCEPT ![t][n] = k]
  PROVE  PacketsOK'
<1>1. CASE t \in Target
  <2>1. [packets[t] EXCEPT ![n] = k] \in [1 .. Body -> Nat]
    BY <1>1 DEF PacketsOK
  <2>2. QED
    BY <1>1, <2>1 DEF PacketsOK
<1>2. CASE t \notin Target
  BY <1>2 DEF PacketsOK
<1>3. QED
  BY <1>1, <1>2

LEMMA LegType == LegOK /\ Client => LegOK'
<1> SUFFICES ASSUME LegOK, Client PROVE LegOK'
  OBVIOUS
<1>1. ASSUME NEW p \in Protocol, GiveUp(p) \/ PickFails(p) PROVE LegOK'
  BY <1>1 DEF GiveUp, PickFails, LegOK, Leg
<1>2. CASE PickTCP
  <2>1. PICK t \in leg["tcp"].candidates, w \in Wanted(leg["tcp"].planned) :
          leg' = [leg EXCEPT !["tcp"].pc = "tcpRead", !["tcp"].target = t,
                             !["tcp"].wanted = w]
    BY <1>2 DEF PickTCP
  <2>2. w \in Nat
    BY WantedType DEF LegOK, Leg
  <2>3. QED
    BY ZenonT(60), <2>1, <2>2 DEF LegOK, Leg
<1>3. CASE PickUDP
  <2>1. PICK t \in leg["udp"].candidates, w \in Wanted(leg["udp"].planned) :
          leg' = [leg EXCEPT !["udp"].pc = "udpSend", !["udp"].target = t,
                             !["udp"].wanted = w, !["udp"].attempt = 0]
    BY <1>3 DEF PickUDP
  <2>2. leg["udp"].planned \in Nat /\ Retries \in Nat
    BY MaskingAssumption DEF LegOK, Leg
  <2>4. w \in Nat /\ 0 \in 0 .. Retries
    BY <2>2, WantedType
  <2>3. QED
    <3>1. [leg["udp"] EXCEPT !.pc = "udpSend", !.target = t, !.wanted = w,
                             !.attempt = 0] \in Leg
      BY <2>4 DEF LegOK, Leg
    <3>2. leg' = [leg EXCEPT !["udp"] = [leg["udp"] EXCEPT !.pc = "udpSend", !.target = t,
                                                 !.wanted = w, !.attempt = 0]]
      BY <2>1 DEF LegOK
    <3>3. QED
      BY <3>1, <3>2 DEF LegOK
<1>4. ASSUME NEW p \in Protocol, NEW n \in Nat, leg' = [leg EXCEPT ![p].actual = @ + n]
      PROVE  LegOK'
  BY <1>4 DEF LegOK, Leg
<1>5. CASE ReadTCP
  <2>1. PICK n \in 1 .. leg["tcp"].wanted - leg["tcp"].actual :
          leg' = [leg EXCEPT !["tcp"].actual = @ + n]
    BY <1>5 DEF ReadTCP
  <2>2. n \in Nat
    BY DEF LegOK, Leg
  <2>3. QED
    BY <2>1, <2>2, <1>4
<1>6. CASE ReadUDP
  <2>1. PICK n \in 1 .. Body : leg' = [leg EXCEPT !["udp"].actual = @ + n]
    BY <1>6 DEF ReadUDP
  <2>2. n \in Nat
    BY MaskingAssumption
  <2>3. QED
    BY <2>1, <2>2, <1>4
<1>7. ASSUME NEW p \in Protocol, TryOver(p) PROVE LegOK'
  BY ZenonT(60), <1>7 DEF TryOver, LegOK, Leg
<1>8. CASE Ask \/ AskFails
  <2> DEFINE a == leg["udp"].attempt + 1
             n == Min({a, Retries})
  <2>1. a \in Int /\ a >= 0 /\ Retries \in Nat
    BY MaskingAssumption DEF LegOK, Leg
  <2>2. leg' \in {[leg EXCEPT !["udp"].attempt = n],
                  [leg EXCEPT !["udp"].pc = "udpRead", !["udp"].attempt = n]}
    BY <1>8 DEF Ask, AskFails
  <2> HIDE DEF a
  <2>3. n \in 0 .. Retries
    BY <2>1, MinOfTwo
  <2> HIDE DEF n
  <2>4. QED
    BY <2>2, <2>3 DEF LegOK, Leg
<1>9. CASE EndReads \/ Turn \/ Return
  BY <1>9 DEF EndReads, Turn, Return, LegOK, Leg
<1>10. QED
  BY <1>1, <1>2, <1>3, <1>5, <1>6, <1>7, <1>8, <1>9 DEF Client, EndTCP, EndUDP

LEMMA ClientType == TypeOK /\ Client => TypeOK'
<1> SUFFICES ASSUME TypeOK, Client PROVE TypeOK'
  OBVIOUS
<1>1. LegOK /\ NetOK /\ PacketsOK /\ ServerOK /\ CountOK
  BY TypeParts
<1>2. LegOK'
  BY <1>1, LegType
<1>3. leg["udp"].wanted \in Nat /\ leg["tcp"].wanted \in Nat
      /\ leg["udp"].actual \in Nat /\ leg["tcp"].actual \in Nat
  BY <1>1 DEF LegOK, Leg
<1>4. NetOK'
  <2>1. CASE Ask
    <3>1. /\ requests' = [requests EXCEPT ![leg["udp"].target] = @ + 1]
          /\ asked' = [asked EXCEPT ![leg["udp"].target] = leg["udp"].wanted]
      BY <2>1 DEF Ask
    <3>2. QED
      <4> DEFINE t == leg["udp"].target
      <4>1. CASE t \in Target
        <5>1. requests[t] + 1 \in Nat
          BY <1>1, <4>1 DEF NetOK
        <5>2. QED
          BY <1>1, <1>3, <3>1, <4>1, <5>1 DEF NetOK
      <4>2. CASE t \notin Target
        BY <1>1, <3>1, <4>2 DEF NetOK
      <4>3. QED
        BY <4>1, <4>2
  <2>2. CASE UNCHANGED <<requests, asked>>
    BY <1>1, <2>2 DEF NetOK
  <2>3. QED
    BY <2>1, <2>2 DEF Client, GiveUp, PickFails, PickTCP, PickUDP, ReadTCP, EndTCP,
       AskFails, ReadUDP, EndReads, EndUDP, Turn, Return, net
<1>5. PacketsOK'
  <2>1. CASE ReadUDP
    <3> DEFINE t == leg["udp"].target
    <3>1. PICK n \in 1 .. Body :
            packets[t][n] > 0 /\ packets' = [packets EXCEPT ![t][n] = packets[t][n] - 1]
      BY <2>1 DEF ReadUDP
    <3>2. CASE t \in Target
      <4>0. packets[t] \in [1 .. Body -> Nat]
        BY <1>1, <3>2 DEF PacketsOK
      <4>1. packets[t][n] - 1 \in Nat
        <5>1. packets[t][n] \in Nat
          BY <4>0
        <5>2. QED
          BY <3>1, <5>1
      <4>2. QED
        BY <1>1, <3>1, <4>1, PacketsType
    <3>3. CASE t \notin Target
      BY <1>1, <3>1, <3>3 DEF PacketsOK
    <3>4. QED
      BY <3>2, <3>3
  <2>2. CASE EndUDP
    BY <1>1, <2>2 DEF PacketsOK, EndUDP, Nothing
  <2>3. CASE packets' = packets
    BY <1>1, <2>3 DEF PacketsOK
  <2>4. QED
    BY <2>1, <2>2, <2>3 DEF Client, GiveUp, PickFails, PickTCP, PickUDP, ReadTCP, EndTCP,
       Ask, AskFails, EndReads, Turn, Return, net
<1>6. ServerOK'
  <2>1. CASE PickTCP
    <3>1. PICK t \in leg["tcp"].candidates, w \in Wanted(leg["tcp"].planned) :
            streams' = streams \cup
              {[over |-> "tcp", target |-> t, start |-> server[t].starts,
                wanted |-> w, sent |-> 0, pc |-> "header"]}
      BY <2>1 DEF PickTCP
    <3>2. t \in Target /\ w \in Nat
      BY <1>1, WantedType DEF LegOK, Leg
    <3>3. QED
      BY <1>1, <2>1, <3>1, <3>2 DEF PickTCP, ServerOK, Stream
  <2>2. CASE UNCHANGED <<server, keys>> /\ streams' \subseteq streams
    BY <1>1, <2>2 DEF ServerOK
  <2>3. QED
    BY <2>1, <2>2 DEF Client, GiveUp, PickFails, PickUDP, ReadTCP, EndTCP,
       Ask, AskFails, ReadUDP, EndReads, EndUDP, Turn, Return
<1>7. CountOK'
  <2>1. CASE ReadTCP
    <3>1. PICK n \in 1 .. leg["tcp"].wanted - leg["tcp"].actual : got' = got + n
      BY <2>1 DEF ReadTCP
    <3>2. n \in Nat
      BY <1>3
    <3>3. QED
      BY <1>1, <2>1, <3>1, <3>2 DEF ReadTCP, CountOK, net
  <2>2. CASE ReadUDP
    <3>1. PICK n \in 1 .. Body : got' = got + n
      BY <2>2 DEF ReadUDP
    <3>2. n \in Nat
      BY MaskingAssumption
    <3>3. QED
      BY <1>1, <2>2, <3>1, <3>2 DEF ReadUDP, CountOK
  <2>3. CASE Return
    BY <1>1, <1>3, <2>3 DEF Return, CountOK, net
  <2>4. CASE UNCHANGED <<mode, result, faults, got, sent>>
    BY <1>1, <2>4 DEF CountOK
  <2>5. QED
    BY <2>1, <2>2, <2>3, <2>4 DEF Client, GiveUp, PickFails, PickTCP, PickUDP, EndTCP,
       Ask, AskFails, EndReads, EndUDP, Turn, net
<1>8. QED
  BY <1>2, <1>4, <1>5, <1>6, <1>7 DEF TypeOK, LegOK, NetOK, PacketsOK, ServerOK, CountOK

LEMMA SessionType ==
  ASSUME TypeOK, NEW s \in streams, Session(s)
  PROVE  TypeOK'
<1>1. LegOK /\ NetOK /\ PacketsOK /\ ServerOK /\ CountOK
  BY TypeParts
<1>2. s \in Stream
  BY <1>1 DEF ServerOK
<1>3. UNCHANGED <<mode, leg, result, server, requests, asked, faults, got>>
  BY DEF Session, ReadHeader, SendTCP, CloseTCP, SendUDP, EndUDPSession, Finish, net
<1>4. CASE ReadHeader(s) \/ SendTCP(s) \/ CloseTCP(s) \/ EndUDPSession(s) \/ Finish(s)
  <2>1. UNCHANGED <<packets, sent>> /\ keys' \subseteq keys
    BY <1>4 DEF ReadHeader, SendTCP, CloseTCP, EndUDPSession, Finish, KeyDropped, net
  <2>2. streams' \subseteq Stream
    BY <1>1, <1>2, <1>4
       DEF ReadHeader, SendTCP, CloseTCP, EndUDPSession, Finish, Replace, Stream, ServerOK
  <2>3. QED
    BY <1>1, <1>3, <2>1, <2>2
       DEF TypeOK, LegOK, NetOK, PacketsOK, ServerOK, CountOK
<1>5. CASE SendUDP(s)
  <2> DEFINE d == s.wanted - s.sent
             n == Min({Body, d})
  <2>1. d \in Int /\ d >= 1 /\ s.target \in Target /\ Body \in Nat /\ Body >= 1
    BY <1>2, <1>5, MaskingAssumption DEF SendUDP, Stream
  <2>2. /\ streams' = (streams \ {s}) \cup {[s EXCEPT !.sent = @ + n]}
        /\ sent' = [sent EXCEPT ![s.target] = @ + n]
        /\ packets' \in {packets, [packets EXCEPT ![s.target][n] = @ + 1]}
        /\ keys' = keys
    BY <1>5 DEF SendUDP, Replace
  <2> HIDE DEF d
  <2>3. n \in 1 .. Body
    BY <2>1, MinOfTwo
  <2> HIDE DEF n
  <2>4. [s EXCEPT !.sent = @ + n] \in Stream
    BY <1>2, <2>1, <2>3 DEF Stream
  <2>5. ServerOK' /\ CountOK'
    BY <1>1, <1>3, <2>1, <2>2, <2>3, <2>4 DEF ServerOK, CountOK
  <2>6. PacketsOK'
    <3>1. CASE packets' = packets
      BY <1>1, <3>1 DEF PacketsOK
    <3>2. CASE packets' = [packets EXCEPT ![s.target][n] = packets[s.target][n] + 1]
      <4>1. packets[s.target][n] + 1 \in Nat
        BY <1>1, <2>1, <2>3 DEF PacketsOK
      <4>2. QED
        BY <1>1, <2>3, <3>2, <4>1, PacketsType
    <3>3. QED
      BY <2>2, <3>1, <3>2
  <2>7. LegOK' /\ NetOK'
    BY <1>1, <1>3 DEF LegOK, NetOK
  <2>8. QED
    BY <2>5, <2>6, <2>7 DEF TypeOK, LegOK, NetOK, PacketsOK, ServerOK, CountOK
<1>6. QED
  BY <1>4, <1>5 DEF Session

LEMMA TypeInductive == TypeOK /\ [Next]_vars => TypeOK'
<1> SUFFICES ASSUME TypeOK, [Next]_vars PROVE TypeOK'
  OBVIOUS
<1>0. LegOK /\ NetOK /\ PacketsOK /\ ServerOK /\ CountOK
  BY TypeParts
<1>1. CASE Client
  BY <1>1, ClientType
<1>2. CASE Serve
  BY <1>2, SessionType DEF Serve
<1>3. CASE Network
  <2>1. PICK t \in Target : LoseRequest(t) \/ LosePacket(t) \/ Duplicate(t)
    BY <1>3 DEF Network
  <2>2. UNCHANGED <<mode, leg, result, server, keys, streams, asked, got, sent>>
    BY <2>1 DEF LoseRequest, LosePacket, Duplicate
  <2>3. NetOK'
    BY <1>0, <2>1, <2>2 DEF NetOK, LoseRequest, LosePacket, Duplicate
  <2>4. PacketsOK'
    <3>1. CASE packets' = packets
      BY <1>0, <3>1 DEF PacketsOK
    <3>2. ASSUME NEW n \in 1 .. Body, packets[t][n] > 0,
                 \/ packets' = [packets EXCEPT ![t][n] = packets[t][n] - 1]
                 \/ packets' = [packets EXCEPT ![t][n] = packets[t][n] + 1]
          PROVE  PacketsOK'
      <4>0. packets[t] \in [1 .. Body -> Nat]
        BY <1>0 DEF PacketsOK
      <4>1. packets[t][n] - 1 \in Nat /\ packets[t][n] + 1 \in Nat
        <5>1. packets[t][n] \in Nat
          BY <4>0
        <5>2. QED
          BY <3>2, <5>1
      <4>2. QED
        BY <1>0, <3>2, <4>1, PacketsType
    <3>3. QED
      BY <2>1, <3>1, <3>2 DEF LoseRequest, LosePacket, Duplicate
  <2>5. faults' \in 0 .. MaxFaults
    BY <1>0, <2>1, MaskingAssumption DEF CountOK, LoseRequest, LosePacket, Duplicate
  <2>6. QED
    BY <1>0, <2>2, <2>3, <2>4, <2>5
       DEF TypeOK, LegOK, NetOK, PacketsOK, ServerOK, CountOK
<1>4. ASSUME NEW t \in Target, Receive(t) PROVE TypeOK'
  <2>1. UNCHANGED <<mode, leg, result, server, asked, packets, faults, got, sent>>
        /\ requests' = [requests EXCEPT ![t] = @ - 1] /\ requests[t] > 0
    BY <1>4 DEF Receive
  <2>2. ServerOK'
    BY <1>0, <1>4 DEF Receive, ServerOK, NetOK, Stream
  <2>3. QED
    BY <1>0, <2>1, <2>2 DEF TypeOK, LegOK, NetOK, PacketsOK, ServerOK, CountOK
<1>5. ASSUME NEW t \in Target, StopServer(t) \/ CloseSeed(t) \/ StartServer(t) PROVE TypeOK'
  <2>1. UNCHANGED <<mode, leg, result, streams, requests, asked, packets, got, sent>>
    BY <1>5 DEF StopServer, CloseSeed, StartServer, net
  <2>2. ServerOK'
    BY <1>0, <1>5, <2>1 DEF StopServer, CloseSeed, StartServer, ServerOK
  <2>3. faults' \in 0 .. MaxFaults
    BY <1>0, <1>5, MaskingAssumption DEF StopServer, CloseSeed, StartServer, CountOK, net
  <2>4. QED
    BY <1>0, <2>1, <2>2, <2>3 DEF TypeOK, LegOK, NetOK, PacketsOK, ServerOK, CountOK
<1>6. CASE UNCHANGED vars
  BY <1>6 DEF vars, net, TypeOK
<1>7. QED
  BY <1>1, <1>2, <1>3, <1>4, <1>5, <1>6 DEF Next, Daemon

\* Everything keeps its type: counts stay numbers and legs, sessions and packets
\* what they are, whatever is lost, repeated and stopped.
THEOREM TypeCorrect == Spec => []TypeOK
  BY InitType, TypeInductive, PTL DEF Spec

----------------------------------------------------------------------------
(* What is read is what is returned, and no more than was wanted *)

Sum == leg["tcp"].actual + leg["udp"].actual

\* Until the pull returns, what was read is what its legs have; one that has
\* found no target has read nothing, and after the return none goes on.
Account ==
  /\ got = Sum
  /\ \A p \in Protocol : leg[p].pc \in {"off", "wait", "pick"} => leg[p].actual = 0
  /\ result # None => result = got /\ \A p \in Protocol : leg[p].pc \in {"off", "done"}

AInv == Account /\ NoOvershoot

LEMMA InitAccount == Init => AInv
<1> SUFFICES ASSUME Init PROVE AInv
  OBVIOUS
<1>1. Unasked(leg) /\ got = 0 /\ result = None
  BY LegsType DEF Init
<1>2. QED
  BY <1>1, MaskingAssumption DEF Unasked, AInv, Account, Sum, NoOvershoot

\* Only the client's steps touch its legs.
LEMMA LegFrame ==
  Serve \/ Network \/ Daemon \/ UNCHANGED vars => UNCHANGED <<leg, got, result>>
  BY DEF Serve, Network, Daemon, Session, ReadHeader, SendTCP, CloseTCP, SendUDP,
     EndUDPSession, Finish, LoseRequest, LosePacket, Duplicate, Receive, StopServer,
     CloseSeed, StartServer, vars

LEMMA ReadKeeps ==
  ASSUME LegOK, AInv, got \in Nat, NEW p \in Protocol, NEW n \in Nat,
         leg[p].pc \in {"tcpRead", "udpRead"},
         leg' = [leg EXCEPT ![p].actual = @ + n], got' = got + n, result' = result,
         IF p = "tcp" THEN leg[p].actual + n <= leg[p].wanted
         ELSE leg[p].actual + n < leg[p].wanted + Body
  PROVE  AInv'
<1>1. \A q \in Protocol : /\ leg[q].actual \in Nat /\ leg[q].wanted \in Nat
                          /\ leg'[q].pc = leg[q].pc /\ leg'[q].wanted = leg[q].wanted
  BY DEF LegOK, Leg
<1>2. \A q \in Protocol : leg'[q].actual = IF q = p THEN leg[q].actual + n ELSE leg[q].actual
  BY DEF LegOK, Leg
<1>3. Account'
  BY <1>1, <1>2 DEF AInv, Account, Sum
<1>4. NoOvershoot'
  BY <1>1, <1>2 DEF AInv, NoOvershoot
<1>5. QED
  BY <1>3, <1>4 DEF AInv

\* A step that reads nothing leaves what was read; one that asks for another
\* number of bytes comes when nothing was.
LEMMA OtherKeeps ==
  ASSUME LegOK, AInv, UNCHANGED <<got, result>>, NEW p \in Protocol,
         LegOK',
         \A q \in Protocol : q # p => leg'[q] = leg[q],
         leg'[p].actual = leg[p].actual,
         leg'[p].wanted = leg[p].wanted \/ leg[p].actual = 0,
         leg'[p].pc \in {"off", "wait", "pick"} => leg[p].actual = 0,
         leg[p].pc \notin {"off", "done"}
  PROVE  AInv'
<1>1. \A q \in Protocol : leg'[q].actual = leg[q].actual
  OBVIOUS
<1>2. \A q \in Protocol : leg[q].actual \in Nat /\ leg'[q].wanted \in Nat
  BY DEF LegOK, Leg
<1>3. Account'
  BY <1>1 DEF AInv, Account, Sum
<1>4. NoOvershoot'
  BY <1>1, <1>2, MaskingAssumption DEF AInv, NoOvershoot
<1>5. QED
  BY <1>3, <1>4 DEF AInv

LEMMA AccountInductive == TypeOK /\ AInv /\ [Next]_vars => AInv'
<1> SUFFICES ASSUME TypeOK, AInv, [Next]_vars PROVE AInv'
  OBVIOUS
<1>0. LegOK /\ got \in Nat /\ Body \in Nat
      /\ \A q \in Protocol : leg[q].actual \in Nat /\ leg[q].wanted \in Nat
  BY MaskingAssumption DEF TypeOK, LegOK, Leg
<1>1. CASE Serve \/ Network \/ Daemon \/ UNCHANGED vars
  BY <1>1, LegFrame DEF AInv, Account, Sum, NoOvershoot
<1>2. CASE Client
  <2>0. LegOK'
    BY <1>0, <1>2, LegType
  <2>1. CASE ReadTCP
    <3>1. PICK n \in 1 .. leg["tcp"].wanted - leg["tcp"].actual :
            leg' = [leg EXCEPT !["tcp"].actual = @ + n] /\ got' = got + n
      BY <2>1 DEF ReadTCP
    <3>2. n \in Nat /\ leg["tcp"].actual + n <= leg["tcp"].wanted
      BY <1>0
    <3>3. QED
      BY <1>0, <2>1, <3>1, <3>2, ReadKeeps DEF ReadTCP
  <2>2. CASE ReadUDP
    <3>1. PICK n \in 1 .. Body :
            leg' = [leg EXCEPT !["udp"].actual = @ + n] /\ got' = got + n
      BY <2>2 DEF ReadUDP
    <3>2. n \in Nat /\ leg["udp"].actual + n < leg["udp"].wanted + Body
      BY <1>0, <2>2 DEF ReadUDP, MayRead
    <3>3. QED
      BY <1>0, <2>2, <3>1, <3>2, ReadKeeps DEF ReadUDP, MayRead
  <2>3. ASSUME NEW p \in Protocol, GiveUp(p) \/ PickFails(p) PROVE AInv'
    BY <1>0, <2>0, <2>3, OtherKeeps DEF GiveUp, PickFails, AInv, Account, LegOK, Leg
  <2>4. CASE PickTCP
    <3>1. /\ leg'["udp"] = leg["udp"] /\ leg'["tcp"].actual = leg["tcp"].actual
          /\ leg["tcp"].actual = 0 /\ leg["tcp"].pc = "pick" /\ UNCHANGED <<got, result>>
      BY <1>0, <2>4 DEF PickTCP, AInv, Account, LegOK, Leg
    <3>2. QED
      BY <1>0, <2>0, <3>1, OtherKeeps
  <2>5. CASE PickUDP
    <3>1. /\ leg'["tcp"] = leg["tcp"] /\ leg'["udp"].actual = leg["udp"].actual
          /\ leg["udp"].actual = 0 /\ leg["udp"].pc = "pick" /\ UNCHANGED <<got, result>>
      BY <1>0, <2>5 DEF PickUDP, AInv, Account, LegOK, Leg
    <3>2. QED
      BY <1>0, <2>0, <3>1, OtherKeeps
  <2>6. ASSUME NEW p \in Protocol, TryOver(p), leg[p].pc \in {"tcpRead", "udpSend"},
               UNCHANGED <<got, result>>
        PROVE  AInv'
    <3>1. /\ \A q \in Protocol : q # p => leg'[q] = leg[q]
          /\ leg'[p].actual = leg[p].actual /\ leg'[p].wanted = leg[p].wanted
          /\ leg[p].actual > 0 => leg'[p].pc = "done"
      BY <1>0, <2>6 DEF TryOver, LegOK, Leg
    <3>2. QED
      BY <1>0, <2>0, <2>6, <3>1, OtherKeeps
  <2>7. CASE EndTCP \/ EndUDP
    BY <2>6, <2>7 DEF EndTCP, EndUDP
  <2>8. CASE Ask \/ AskFails \/ EndReads
    <3>1. /\ leg'["tcp"] = leg["tcp"] /\ leg'["udp"].actual = leg["udp"].actual
          /\ leg'["udp"].wanted = leg["udp"].wanted
          /\ leg'["udp"].pc \in {"udpSend", "udpRead"}
          /\ leg["udp"].pc \in {"udpSend", "udpRead"} /\ UNCHANGED <<got, result>>
      BY <1>0, <2>8 DEF Ask, AskFails, EndReads, LegOK, Leg
    <3>2. QED
      BY <1>0, <2>0, <3>1, OtherKeeps
  <2>9. CASE Turn
    <3>1. /\ leg'["tcp"] = leg["tcp"] /\ leg'["udp"].actual = leg["udp"].actual
          /\ leg'["udp"].wanted = leg["udp"].wanted
          /\ leg["udp"].pc = "wait" /\ UNCHANGED <<got, result>>
      BY <1>0, <2>9 DEF Turn, LegOK, Leg
    <3>2. leg["udp"].actual = 0
      BY <3>1 DEF AInv, Account
    <3>3. QED
      BY <1>0, <2>0, <3>1, <3>2, OtherKeeps
  <2>10. CASE Return
    BY <2>10 DEF Return, AInv, Account, Sum, NoOvershoot
  <2>11. QED
    BY <1>2, <2>1, <2>2, <2>3, <2>4, <2>5, <2>7, <2>8, <2>9, <2>10 DEF Client
<1>3. QED
  BY <1>1, <1>2 DEF Next

\* However the network, the targets and the servers fail, pullAB returns what the
\* host received, for any targets, plan, jitter and number of retries.
THEOREM ReportsWhatCame == Spec => []ReportIsReceived
<1>1. AInv => ReportIsReceived
  BY DEF AInv, Account, ReportIsReceived
<1>2. QED
  BY <1>1, InitType, InitAccount, TypeInductive, AccountInductive, PTL DEF Spec

\* A pull reads less than a packet more than it wants, whatever came twice.
THEOREM ReadsNoMore == Spec => []NoOvershoot
<1>1. AInv => NoOvershoot
  BY DEF AInv
<1>2. QED
  BY <1>1, InitType, InitAccount, TypeInductive, AccountInductive, PTL DEF Spec

----------------------------------------------------------------------------
(* One goroutine for a session *)

\* No two goroutines of one start of a server have the session, none is of a
\* start to come, and the number is known as long as there is one.
SInv ==
  /\ \A s \in streams : s.start <= server[s.target].starts
  /\ \A r, s \in streams :
       r.over = "udp" /\ s.over = "udp" /\ r.target = s.target /\ r.start = s.start
         => r = s
  /\ \A t \in Target :
       IF server[t].is = "down" THEN t \notin keys
       ELSE t \in keys <=> \E s \in streams : s \in Sessions(t)

\* The goroutine goes on, or changes what the invariant does not see.
LEMMA ReplaceKeeps ==
  ASSUME ServerOK, SInv, NEW s \in streams, NEW new \in Stream, Replace(s, new),
         new.over = s.over, new.target = s.target, new.start = s.start,
         UNCHANGED <<server, keys>>
  PROVE  SInv'
<1>1. streams' = (streams \ {s}) \cup {new}
  BY DEF Replace
<1>2. \A t \in Target : (\E q \in streams : q \in Sessions(t))
                          <=> (\E q \in streams' : q \in Sessions(t)')
  BY <1>1 DEF Sessions
<1>3. \A q \in streams' : q.start <= server'[q.target].starts
  BY <1>1 DEF SInv
<1>4. \A q, r \in streams' :
        q.over = "udp" /\ r.over = "udp" /\ q.target = r.target /\ q.start = r.start
          => q = r
  BY <1>1 DEF SInv
<1>5. QED
  BY <1>2, <1>3, <1>4 DEF SInv

\* TCP connections come and go beside the sessions.
LEMMA ConnectionKeeps ==
  ASSUME SInv, UNCHANGED <<server, keys>>,
         \A s \in streams' : s.start <= server[s.target].starts,
         \A s \in streams' : s.over = "udp" => s \in streams,
         \A s \in streams : s.over = "udp" => s \in streams'
  PROVE  SInv'
<1>1. \A t \in Target : Sessions(t)' = Sessions(t)
  BY DEF Sessions
<1>2. \A t \in Target : (\E q \in streams : q \in Sessions(t))
                          <=> (\E q \in streams' : q \in Sessions(t)')
  BY <1>1 DEF Sessions
<1>3. \A q, r \in streams' :
        q.over = "udp" /\ r.over = "udp" /\ q.target = r.target /\ q.start = r.start
          => q = r
  BY SMTT(30) DEF SInv
<1>4. QED
  BY <1>2, <1>3 DEF SInv

LEMMA SessionsInductive == TypeOK /\ SInv /\ [Next]_vars => SInv'
<1> SUFFICES ASSUME TypeOK, SInv, [Next]_vars PROVE SInv'
  OBVIOUS
<1>0. ServerOK /\ ServerOK' /\ LegOK
  BY TypeInductive DEF TypeOK, ServerOK, LegOK
<1>1. CASE UNCHANGED <<server, keys, streams>>
  BY <1>1 DEF SInv, Sessions
<1>2. CASE PickTCP
  <2>1. PICK t \in leg["tcp"].candidates, w \in Wanted(leg["tcp"].planned) :
          streams' = streams \cup
            {[over |-> "tcp", target |-> t, start |-> server[t].starts,
              wanted |-> w, sent |-> 0, pc |-> "header"]}
    BY <1>2 DEF PickTCP
  <2>2. t \in Target
    BY <1>0 DEF LegOK, Leg
  <2>3. server[t].starts <= server[t].starts
    BY <1>0, <2>2 DEF ServerOK
  <2>4. UNCHANGED <<server, keys>>
    BY <1>2 DEF PickTCP
  <2>5. QED
    BY <2>1, <2>3, <2>4, ConnectionKeeps DEF SInv
<1>3. CASE EndTCP
  <2>1. /\ UNCHANGED <<server, keys>> /\ streams' \subseteq streams
        /\ \A s \in streams : s.over = "udp" => s \in streams'
    BY <1>3 DEF EndTCP
  <2>2. QED
    BY <2>1, ConnectionKeeps DEF SInv
<1>4. ASSUME NEW s \in streams, Session(s) PROVE SInv'
  <2>0. s \in Stream /\ s.target \in Target
    BY <1>0 DEF ServerOK, Stream
  <2>1. CASE ReadHeader(s) \/ SendTCP(s) \/ SendUDP(s) \/ EndUDPSession(s)
    <3>1. UNCHANGED <<server, keys>>
      BY <2>1 DEF ReadHeader, SendTCP, SendUDP, EndUDPSession
    <3>2. PICK new : /\ Replace(s, new) /\ new.over = s.over /\ new.target = s.target
                     /\ new.start = s.start
      <4>1. \A x : /\ [s EXCEPT !.pc = x].over = s.over /\ [s EXCEPT !.pc = x].start = s.start
                   /\ [s EXCEPT !.pc = x].target = s.target
                   /\ [s EXCEPT !.sent = x].over = s.over /\ [s EXCEPT !.sent = x].start = s.start
                   /\ [s EXCEPT !.sent = x].target = s.target
        BY <2>0 DEF Stream
      <4>2. CASE ReadHeader(s)
        BY <4>1, <4>2 DEF ReadHeader
      <4>3. CASE SendTCP(s)
        BY <4>1, <4>3 DEF SendTCP
      <4>4. CASE SendUDP(s)
        BY <4>1, <4>4 DEF SendUDP
      <4>5. CASE EndUDPSession(s)
        BY ZenonT(40), <4>1, <4>5 DEF EndUDPSession
      <4>6. QED
        BY <2>1, <4>2, <4>3, <4>4, <4>5
    <3>3. new \in Stream
      BY <1>0, <3>2 DEF Replace, ServerOK
    <3>4. QED
      BY <1>0, <3>1, <3>2, <3>3, ReplaceKeeps
  <2>2. CASE CloseTCP(s)
    <3>1. /\ UNCHANGED <<server, keys>> /\ s.over = "tcp"
          /\ streams' \subseteq (streams \ {s}) \cup {[s EXCEPT !.pc = "closed"]}
          /\ streams \ {s} \subseteq streams'
      BY <2>2 DEF CloseTCP, Replace
    <3>2. /\ [s EXCEPT !.pc = "closed"].over = "tcp"
          /\ [s EXCEPT !.pc = "closed"].start = s.start
          /\ [s EXCEPT !.pc = "closed"].target = s.target
      BY <2>0, <3>1 DEF Stream
    <3>3. QED
      BY <3>1, <3>2, ConnectionKeeps DEF SInv
  <2>3. CASE Finish(s)
    <3>1. streams' = streams \ {s} /\ server' = server /\ keys' = KeyDropped(s)
          /\ s.over = "udp"
      BY <2>3 DEF Finish
    <3>2. \A q \in streams' : q \in streams /\ q.start <= server'[q.target].starts
      BY <3>1 DEF SInv
    <3>3. \A q, r \in streams' :
            q.over = "udp" /\ r.over = "udp" /\ q.target = r.target /\ q.start = r.start
              => q = r
      BY <3>1 DEF SInv
    <3>4. ASSUME NEW t \in Target
          PROVE  IF server'[t].is = "down" THEN t \notin keys'
                 ELSE t \in keys' <=> \E q \in streams' : q \in Sessions(t)'
      <4>1. CASE s \in Sessions(t) /\ server[t].is # "down"
        <5>1. Current(s) /\ s.target = t
          BY <4>1 DEF Sessions, Current
        <5>2. t \notin keys'
          BY <3>1, <5>1 DEF KeyDropped
        <5>3. \A q \in streams' : q \notin Sessions(t)'
          BY <3>1, <4>1 DEF Sessions, SInv
        <5>4. QED
          BY <5>2, <5>3, <3>1, <4>1
      <4>2. CASE s \notin Sessions(t)
        <5>1. Sessions(t)' = Sessions(t)
          BY <3>1, <4>2 DEF Sessions
        <5>2. (\E q \in streams' : q \in Sessions(t)') <=> (\E q \in streams : q \in Sessions(t))
          BY <5>1 DEF Sessions
        <5>3. t \in keys' <=> t \in keys
          BY <3>1, <4>2 DEF KeyDropped, Current, Sessions
        <5>4. QED
          BY <3>1, <5>2, <5>3 DEF SInv
      <4>3. CASE server[t].is = "down"
        BY <3>1, <4>3 DEF SInv, KeyDropped
      <4>4. QED
        BY <4>1, <4>2, <4>3
    <3>5. QED
      BY <3>2, <3>3, <3>4 DEF SInv
  <2>4. QED
    BY <1>4, <2>1, <2>2, <2>3 DEF Session
<1>5. ASSUME NEW t \in Target, Receive(t) PROVE SInv'
  <2>1. CASE UNCHANGED <<keys, streams>>
    BY <1>1, <1>5, <2>1 DEF Receive
  <2>2. CASE ~ UNCHANGED <<keys, streams>>
    <3> DEFINE new == [over |-> "udp", target |-> t, start |-> server[t].starts,
                       wanted |-> asked[t], sent |-> 0, pc |-> "send"]
    <3>1. /\ streams' = streams \cup {new} /\ keys' = keys \cup {t} /\ server' = server
          /\ t \notin keys /\ server[t].is = "up"
      BY <1>5, <2>2 DEF Receive, MayStart, Up
    <3>2. new.over = "udp" /\ new.target = t /\ new.start = server[t].starts
      OBVIOUS
    <3> HIDE DEF new
    <3>3. \A s \in streams : ~ (s.over = "udp" /\ s.target = t /\ s.start = server[t].starts)
      BY <3>1 DEF SInv, Sessions
    <3>4. \A s \in streams' : s.start <= server'[s.target].starts
      BY <1>0, <3>1, <3>2 DEF SInv, ServerOK
    <3>5. \A q, r \in streams' :
            q.over = "udp" /\ r.over = "udp" /\ q.target = r.target /\ q.start = r.start
              => q = r
      BY <3>1, <3>2, <3>3 DEF SInv
    <3>6. ASSUME NEW u \in Target
          PROVE  IF server'[u].is = "down" THEN u \notin keys'
                 ELSE u \in keys' <=> \E s \in streams' : s \in Sessions(u)'
      <4>1. CASE u = t
        <5>1. new \in Sessions(t)'
          BY <3>1, <3>2 DEF Sessions
        <5>2. QED
          BY <3>1, <4>1, <5>1
      <4>2. CASE u # t
        <5>1. Sessions(u)' = Sessions(u)
          BY <3>1, <3>2, <4>2 DEF Sessions
        <5>2. (\E s \in streams' : s \in Sessions(u)') <=> (\E s \in streams : s \in Sessions(u))
          BY <5>1 DEF Sessions
        <5>3. QED
          BY <3>1, <4>2, <5>2 DEF SInv
      <4>3. QED
        BY <4>1, <4>2
    <3>7. QED
      BY <3>4, <3>5, <3>6 DEF SInv
  <2>3. QED
    BY <2>1, <2>2
<1>6. ASSUME NEW t \in Target, StopServer(t) \/ CloseSeed(t) PROVE SInv'
  <2>1. /\ streams' = streams /\ \A u \in Target : server'[u].starts = server[u].starts
        /\ \A u \in Target \ {t} : server'[u] = server[u] /\ (u \in keys' <=> u \in keys)
        /\ \/ server[t].is # "down" /\ server'[t].is # "down" /\ keys' = keys
           \/ server'[t].is = "down" /\ t \notin keys'
    BY <1>0, <1>6 DEF StopServer, CloseSeed, ServerOK, Up
  <2>2. \A u \in Target : Sessions(u)' = Sessions(u)
    BY <2>1 DEF Sessions
  <2>3. \A s \in streams : s.target \in Target
    BY <1>0 DEF ServerOK, Stream
  <2>4. \A u \in Target : (\E s \in streams' : s \in Sessions(u)')
                            <=> (\E s \in streams : s \in Sessions(u))
    BY <2>1, <2>2
  <2>5. QED
    BY <2>1, <2>3, <2>4 DEF SInv
<1>7. ASSUME NEW t \in Target, StartServer(t) PROVE SInv'
  <2>1. /\ UNCHANGED <<streams, keys>> /\ server[t].is = "down"
        /\ server'[t].is = "up" /\ server'[t].starts = server[t].starts + 1
        /\ \A u \in Target \ {t} : server'[u] = server[u]
    BY <1>0, <1>7 DEF StartServer, ServerOK
  <2>2. \A s \in streams : s.target \in Target /\ s.start \in Nat
    BY <1>0 DEF ServerOK, Stream
  <2>3. server[t].starts \in Nat
    BY <1>0 DEF ServerOK
  <2>4. t \notin keys' /\ \A s \in streams' : s \notin Sessions(t)'
    BY <2>1, <2>2, <2>3 DEF SInv, Sessions
  <2>5. \A u \in Target \ {t} : Sessions(u)' = Sessions(u)
    BY <2>1 DEF Sessions
  <2>6. \A u \in Target \ {t} : (\E s \in streams' : s \in Sessions(u)')
                                  <=> (\E s \in streams : s \in Sessions(u))
    BY <2>1, <2>5
  <2>7. \A s \in streams' : s.start <= server'[s.target].starts
    BY <2>1, <2>2, <2>3 DEF SInv
  <2>8. QED
    BY <2>1, <2>4, <2>6, <2>7 DEF SInv
<1>8. QED
  BY <1>1, <1>2, <1>3, <1>4, <1>5, <1>6, <1>7
     DEF Next, Client, Serve, Network, Daemon, GiveUp, PickFails, PickUDP, ReadTCP, Ask,
         AskFails, ReadUDP, EndReads, EndUDP, Turn, Return, LoseRequest, LosePacket,
         Duplicate, vars

\* However often a client asks, and over every stop and start of a server, no
\* session is served twice at once, and its number is known exactly as long as it
\* is served: nobody is sent to twice at once, and no later request is refused.
THEOREM ServedOnce == Spec => []OneSession
<1>1. Init => SInv
  BY DEF Init, SInv
<1>2. ASSUME SInv, NEW t \in Target
      PROVE  /\ Cardinality(Sessions(t)) <= 1
             /\ server[t].is # "down" => (t \in keys <=> Sessions(t) # {})
  <2>1. \A r, s \in Sessions(t) : r = s
    BY <1>2 DEF SInv, Sessions
  <2>2. ASSUME Sessions(t) = {} PROVE Cardinality(Sessions(t)) <= 1
    <3>1. Cardinality(Sessions(t)) = 0
      BY <2>2, FS_EmptySet
    <3>2. QED
      BY <3>1
  <2>3. ASSUME NEW s \in Sessions(t) PROVE Cardinality(Sessions(t)) <= 1
    <3>1. Sessions(t) = {s}
      BY <2>1, <2>3
    <3>2. Cardinality({s}) = 1
      BY FS_Singleton
    <3>3. QED
      BY <3>1, <3>2
  <2>4. (\E s \in streams : s \in Sessions(t)) <=> Sessions(t) # {}
    BY DEF Sessions
  <2>5. QED
    BY <1>2, <2>2, <2>3, <2>4 DEF SInv
<1>3. SInv => OneSession
  BY <1>2 DEF OneSession
<1>4. QED
  BY <1>1, <1>3, InitType, TypeInductive, SessionsInductive, PTL DEF Spec

----------------------------------------------------------------------------
(* What a target is sent *)

\* The requests for all of it that a target may have had; before the first, the
\* pull has its target yet to try.
Spent(t) == IF Reads(t) THEN leg["udp"].attempt ELSE Retries
Untried(t) == leg["udp"].pc # "done" /\ t \in leg["udp"].candidates /\ ~ Reads(t)

Due(t) == sent[t] + asked[t] * requests[t]
Allowed(t) == asked[t] * (Spent(t) + faults)

Carries(s, t) == s.over = "udp" /\ s.target = t

\* What was sent, and what the requests on their way and the session of now may
\* still have sent, are no more than the requests made so far asked for: a session
\* takes one request, and one of another start sends nothing any more.
Bounded(t) ==
  /\ asked[t] = 0 => sent[t] = 0 /\ requests[t] = 0 /\ \A s \in streams : ~ Carries(s, t)
  /\ Untried(t) => asked[t] = 0
  /\ Reads(t) => asked[t] \in {0, leg["udp"].wanted}
  /\ \A s \in streams : Carries(s, t) => s.wanted = asked[t] /\ s.sent <= s.wanted
  /\ Due(t) <= Allowed(t)
  /\ \A s \in Sessions(t) : Due(t) + (s.wanted - s.sent) <= Allowed(t)

BInv == \A t \in Target : Bounded(t)

LEMMA Times ==
  ASSUME NEW a \in Nat, NEW b \in Nat, NEW c \in Nat
  PROVE  /\ a * b \in Nat /\ a * (b + 1) = a * b + a
         /\ b <= c => a * b <= a * c
         /\ 0 * b = 0 /\ a * 0 = 0
  OBVIOUS

Numbers(t) ==
  /\ Spent(t) \in Nat /\ Spent(t) <= Retries /\ Retries \in Nat
  /\ asked[t] \in Nat /\ requests[t] \in Nat /\ sent[t] \in Nat
  /\ faults \in Nat /\ faults <= MaxFaults /\ MaxFaults \in Nat
  /\ Due(t) \in Nat /\ Allowed(t) \in Nat
  /\ \A s \in streams : s.wanted \in Nat /\ s.sent \in Nat

AllNumbers == \A t \in Target : Numbers(t)

LEMMA BoundType == TypeOK => AllNumbers
<1> SUFFICES ASSUME TypeOK, NEW t \in Target PROVE Numbers(t)
  BY DEF AllNumbers
<1>1. leg["udp"].attempt \in 0 .. Retries /\ Retries \in Nat /\ MaxFaults \in Nat
  BY MaskingAssumption DEF TypeOK, Leg
<1>2. Spent(t) \in Nat /\ Spent(t) <= Retries
  BY <1>1 DEF Spent
<1>3. /\ asked[t] \in Nat /\ requests[t] \in Nat /\ sent[t] \in Nat
      /\ faults \in Nat /\ faults <= MaxFaults
  BY <1>1 DEF TypeOK
<1>4. \A s \in streams : s.wanted \in Nat /\ s.sent \in Nat
  BY DEF TypeOK, Stream
<1>5. Spent(t) + faults \in Nat
  BY <1>2, <1>3
<1>6. asked[t] * requests[t] \in Nat /\ asked[t] * (Spent(t) + faults) \in Nat
  BY <1>3, <1>5, Times
<1>7. Due(t) \in Nat /\ Allowed(t) \in Nat
  BY <1>3, <1>6 DEF Due, Allowed
<1>8. QED
  BY <1>1, <1>2, <1>3, <1>4, <1>7 DEF Numbers

\* A step that asks for nothing and sends nothing.
LEMMA BoundKeeps ==
  ASSUME TypeOK, TypeOK', NEW t \in Target, Bounded(t),
         asked'[t] = asked[t], sent'[t] = sent[t], requests'[t] <= requests[t],
         \A s \in streams' : Carries(s, t) =>
           \E r \in streams : /\ Carries(r, t) /\ r.wanted = s.wanted /\ r.sent = s.sent
                              /\ s.start = server'[t].starts => r.start = server[t].starts,
         asked[t] = 0 \/ Spent(t) + faults <= Spent(t)' + faults',
         Untried(t)' => asked[t] = 0,
         Reads(t)' => asked[t] \in {0, leg'["udp"].wanted}
  PROVE  Bounded(t)'
<1>1. Numbers(t) /\ Numbers(t)'
  <2>1. TypeOK' => AllNumbers'
    BY BoundType, PTL
  <2>2. QED
    BY BoundType, <2>1 DEF AllNumbers
<1>2. Due(t)' <= Due(t)
  <2>1. asked[t] * requests'[t] <= asked[t] * requests[t]
    BY <1>1, Times DEF Numbers
  <2>2. asked[t] * requests'[t] \in Nat /\ asked[t] * requests[t] \in Nat
    BY <1>1, Times DEF Numbers
  <2>3. Due(t)' = sent[t] + asked[t] * requests'[t]
    BY DEF Due
  <2>4. QED
    BY <1>1, <2>1, <2>2, <2>3 DEF Numbers, Due
<1>3. Allowed(t) <= Allowed(t)'
  <2>1. Allowed(t)' = asked[t] * (Spent(t)' + faults')
    BY DEF Allowed
  <2>2. CASE asked[t] = 0
    <3>1. Spent(t) + faults \in Nat /\ Spent(t)' + faults' \in Nat
      BY <1>1 DEF Numbers
    <3>2. asked[t] * (Spent(t) + faults) = 0 /\ asked[t] * (Spent(t)' + faults') = 0
      BY <2>2, <3>1, Times
    <3>3. QED
      BY <2>1, <3>2 DEF Allowed
  <2>3. CASE Spent(t) + faults <= Spent(t)' + faults'
    <3>1. Spent(t) + faults \in Nat /\ Spent(t)' + faults' \in Nat /\ asked[t] \in Nat
      BY <1>1 DEF Numbers
    <3>2. asked[t] * (Spent(t) + faults) <= asked[t] * (Spent(t)' + faults')
      BY <2>3, <3>1, Times
    <3>3. QED
      BY <2>1, <3>2 DEF Allowed
  <2>4. QED
    BY <2>2, <2>3
<1>4. Due(t) \in Nat /\ Due(t)' \in Nat /\ Allowed(t) \in Nat /\ Allowed(t)' \in Nat
  BY <1>1 DEF Numbers
<1>5. Due(t)' <= Allowed(t)'
  BY <1>2, <1>3, <1>4 DEF Bounded
<1>6. ASSUME NEW s \in streams', s \in Sessions(t)'
      PROVE  Due(t)' + (s.wanted - s.sent) <= Allowed(t)'
  <2>1. Carries(s, t) /\ s.start = server'[t].starts
    BY <1>6 DEF Sessions, Carries
  <2>2. PICK r \in streams : /\ Carries(r, t) /\ r.wanted = s.wanted /\ r.sent = s.sent
                             /\ r.start = server[t].starts
    BY <2>1
  <2>3. r \in Sessions(t)
    BY <2>2 DEF Sessions, Carries
  <2>4. Due(t) + (s.wanted - s.sent) <= Allowed(t)
    BY <2>2, <2>3 DEF Bounded
  <2>5. s.wanted \in Nat /\ s.sent \in Nat
    BY <1>1 DEF Numbers
  <2>6. QED
    BY <1>2, <1>3, <1>4, <2>4, <2>5
<1>7. \A s \in Sessions(t)' : s \in streams'
  BY DEF Sessions
<1>8. \A s \in streams' : Carries(s, t) => s.wanted = asked'[t] /\ s.sent <= s.wanted
  BY DEF Bounded
<1>9. asked'[t] = 0 => /\ sent'[t] = 0 /\ requests'[t] = 0
                       /\ \A s \in streams' : ~ Carries(s, t)
  BY <1>1 DEF Bounded, Numbers
<1>10. QED
  BY <1>5, <1>6, <1>7, <1>8, <1>9 DEF Bounded, Carries

\* The client's steps but Ask, which asks.
LEMMA ClientBound ==
  ASSUME TypeOK, TypeOK', NEW t \in Target, Bounded(t), Client, ~ Ask
  PROVE  Bounded(t)'
<1>0. LegOK /\ LegOK' /\ Numbers(t)
  BY TypeParts, BoundType DEF AllNumbers, TypeOK, LegOK
<1> DEFINE l == leg["udp"]
           k == leg'["udp"]
<1>1. UNCHANGED <<asked, sent, requests, faults, server>>
  <2>1. ASSUME NEW p \in Protocol, GiveUp(p) \/ PickFails(p)
        PROVE  UNCHANGED <<asked, sent, requests, faults, server>>
    BY <2>1 DEF GiveUp, PickFails, net
  <2>2. CASE PickTCP \/ PickUDP \/ AskFails
    BY <2>2 DEF PickTCP, PickUDP, AskFails, net
  <2>3. CASE ReadTCP \/ EndTCP \/ EndReads \/ Turn \/ Return
    BY <2>3 DEF ReadTCP, EndTCP, EndReads, Turn, Return, net
  <2>4. CASE ReadUDP \/ EndUDP
    BY <2>4 DEF ReadUDP, EndUDP
  <2>5. QED
    BY <2>1, <2>2, <2>3, <2>4 DEF Client
<1>2. \A s \in streams' : s.over = "udp" => s \in streams
  <2>1. CASE PickTCP
    BY <2>1 DEF PickTCP
  <2>2. CASE EndTCP
    BY <2>2 DEF EndTCP
  <2>3. CASE ~ PickTCP /\ ~ EndTCP
    <3>1. streams' = streams
      BY <2>3 DEF Client, GiveUp, PickFails, PickUDP, ReadTCP, AskFails, ReadUDP,
         EndReads, EndUDP, Turn, Return
    <3>2. QED
      BY SMTT(30), <3>1
  <2>4. QED
    BY <2>1, <2>2, <2>3
\* What a step does to the leg: none, it goes on with its target, it leaves it, or
\* it takes one that was to be tried.
<1>3. \/ k = l
      \/ k.pc \in {"pick", "done"} /\ l.pc \in {"wait", "pick"} /\ k.candidates \subseteq l.candidates
      \/ /\ l.pc \in {"udpSend", "udpRead"} /\ k.pc \in {"udpSend", "udpRead"}
         /\ k.target = l.target /\ k.wanted = l.wanted /\ l.attempt <= k.attempt
         /\ k.candidates = l.candidates
      \/ k.pc = "done"
      \/ k.pc = "pick" /\ k.candidates = l.candidates \ {l.target}
         /\ l.pc = "udpSend"
      \/ /\ l.pc = "pick" /\ k.target \in l.candidates /\ k.pc = "udpSend"
         /\ k.candidates = l.candidates
  <2>1. ASSUME NEW p \in Protocol, GiveUp(p) \/ PickFails(p)
        PROVE  k = l \/ (/\ k.pc \in {"pick", "done"} /\ l.pc \in {"wait", "pick"}
                         /\ k.candidates \subseteq l.candidates)
    BY <1>0, <2>1 DEF GiveUp, PickFails, LegOK, Leg
  <2>2. CASE PickTCP \/ ReadTCP \/ EndTCP \/ Return
    BY <1>0, <2>2 DEF PickTCP, ReadTCP, EndTCP, TryOver, Return, LegOK
  <2>3. CASE PickUDP
    BY <1>0, <2>3 DEF PickUDP, LegOK, Leg
  <2>4. CASE AskFails
    <3> DEFINE n == Min({l.attempt + 1, Retries})
    <3>1. l.attempt + 1 \in Int /\ Retries \in Int /\ l.attempt + 1 <= Retries
      BY <1>0, <2>4, MaskingAssumption DEF AskFails, MayAsk, LegOK, Leg
    <3>2. n >= l.attempt
      <4>1. n \in {l.attempt + 1, Retries}
        BY <3>1, MinOfTwo
      <4> HIDE DEF n
      <4>2. l.attempt \in Nat
        BY <1>0, MaskingAssumption DEF LegOK, Leg
      <4>3. QED
        BY <3>1, <4>1, <4>2
    <3>3. k = [l EXCEPT !.attempt = n] /\ l.pc = "udpSend"
      BY <1>0, <2>4 DEF AskFails, LegOK
    <3> HIDE DEF n
    <3>4. QED
      BY <1>0, <3>2, <3>3 DEF LegOK, Leg
  <2>5. CASE ReadUDP \/ EndReads
    <3>1. l.attempt <= l.attempt /\ l \in Leg
      BY <1>0, MaskingAssumption DEF LegOK, Leg
    <3>2. CASE EndReads
      <4>1. k = [l EXCEPT !.pc = "udpSend"] /\ l.pc = "udpRead"
        BY <1>0, <3>2 DEF EndReads, LegOK
      <4>2. QED
        BY <3>1, <4>1 DEF Leg
    <3>3. CASE ReadUDP
      <4>1. PICK n : leg' = [leg EXCEPT !["udp"].actual = @ + n]
        BY <3>3 DEF ReadUDP
      <4>2. k = [l EXCEPT !.actual = @ + n] /\ l.pc = "udpRead"
        BY <1>0, <3>3, <4>1 DEF ReadUDP, MayRead, LegOK
      <4>3. QED
        BY <3>1, <4>2 DEF Leg
    <3>4. QED
      BY <2>5, <3>2, <3>3
  <2>6. CASE EndUDP
    BY <1>0, <2>6 DEF EndUDP, TryOver, LegOK, Leg
  <2>7. CASE Turn
    BY <1>0, <2>7 DEF Turn, LegOK, Leg
  <2>8. QED
    BY <2>1, <2>2, <2>3, <2>4, <2>5, <2>6, <2>7 DEF Client
<1>4. l.attempt \in Nat /\ k.attempt \in Nat /\ Spent(t) \in Nat /\ Spent(t) <= Retries
      /\ Retries \in Nat /\ faults \in Nat /\ faults' = faults
  BY <1>0, <1>1, MaskingAssumption DEF LegOK, Leg, Numbers
<1>5. /\ asked[t] = 0 \/ Spent(t) <= Spent(t)'
      /\ Untried(t)' => asked[t] = 0
      /\ Reads(t)' => asked[t] \in {0, k.wanted}
  <2>1. CASE k = l
    BY <2>1, <1>4 DEF Spent, Reads, Untried, Bounded
  <2>2. CASE k.pc \in {"pick", "done"} /\ l.pc \in {"wait", "pick"} /\ k.candidates \subseteq l.candidates
    BY <2>2, <1>4 DEF Spent, Reads, Untried, Bounded
  <2>3. CASE /\ l.pc \in {"udpSend", "udpRead"} /\ k.pc \in {"udpSend", "udpRead"}
             /\ k.target = l.target /\ k.wanted = l.wanted /\ l.attempt <= k.attempt
             /\ k.candidates = l.candidates
    BY <2>3, <1>4 DEF Spent, Reads, Untried, Bounded
  <2>4. CASE k.pc = "done"
    BY <2>4, <1>4 DEF Spent, Reads, Untried, Bounded
  <2>5. CASE k.pc = "pick" /\ k.candidates = l.candidates \ {l.target} /\ l.pc = "udpSend"
    BY <2>5, <1>4 DEF Spent, Reads, Untried, Bounded
  <2>6. CASE /\ l.pc = "pick" /\ k.target \in l.candidates /\ k.pc = "udpSend"
             /\ k.candidates = l.candidates
    BY <2>6, <1>4 DEF Spent, Reads, Untried, Bounded
  <2>7. QED
    BY <1>3, <2>1, <2>2, <2>3, <2>4, <2>5, <2>6
<1>6. /\ asked'[t] = asked[t] /\ sent'[t] = sent[t] /\ requests'[t] <= requests[t]
      /\ asked[t] = 0 \/ Spent(t) + faults <= Spent(t)' + faults'
  <2>1. Spent(t)' \in Nat
    BY <1>4 DEF Spent
  <2>2. QED
    BY <1>0, <1>1, <1>4, <1>5, <2>1 DEF Numbers
<1>7. \A s \in streams' : Carries(s, t) =>
        \E r \in streams : /\ Carries(r, t) /\ r.wanted = s.wanted /\ r.sent = s.sent
                           /\ s.start = server'[t].starts => r.start = server[t].starts
  BY <1>1, <1>2 DEF Carries
<1>8. QED
  BY <1>5, <1>6, <1>7, BoundKeeps

\* A request for all of it: one attempt more allows for it.
LEMMA AskBound ==
  ASSUME TypeOK, TypeOK', NEW t \in Target, Bounded(t), Ask
  PROVE  Bounded(t)'
<1>0. LegOK /\ NetOK /\ Numbers(t) /\ Numbers(t)'
  <2>1. TypeOK' => AllNumbers'
    BY BoundType, PTL
  <2>2. QED
    BY TypeParts, BoundType, <2>1 DEF AllNumbers
<1> DEFINE l == leg["udp"]
           k == leg'["udp"]
           n == Min({l.attempt + 1, Retries})
<1>1. l.attempt \in Nat /\ l.attempt + 1 \in Int /\ Retries \in Int /\ l.attempt + 1 <= Retries
      /\ l.wanted \in Nat
  BY <1>0, MaskingAssumption DEF Ask, MayAsk, LegOK, Leg
<1>2. n = l.attempt + 1
  <2>1. n \in Int /\ n \in {l.attempt + 1, Retries} /\ n <= l.attempt + 1
    BY <1>1, MinOfTwo
  <2> HIDE DEF n
  <2>2. QED
    BY <1>1, <2>1
<1>3. k = [l EXCEPT !.pc = "udpRead", !.attempt = n] /\ l.pc = "udpSend"
  BY <1>0 DEF Ask, LegOK
<1> HIDE DEF n
<1>4. /\ k.pc = "udpRead" /\ k.target = l.target /\ k.wanted = l.wanted
      /\ k.attempt = l.attempt + 1 /\ k.candidates = l.candidates
  BY <1>0, <1>2, <1>3 DEF LegOK, Leg
<1>5. /\ requests' = [requests EXCEPT ![l.target] = @ + 1]
      /\ asked' = [asked EXCEPT ![l.target] = l.wanted]
      /\ UNCHANGED <<streams, sent, faults, server>>
  BY DEF Ask
<1>6. CASE t # l.target
  <2>1. ~ Reads(t) /\ ~ Reads(t)' /\ (Untried(t)' <=> Untried(t))
    BY <1>3, <1>4, <1>6 DEF Reads, Untried
  <2>2. Spent(t)' = Spent(t)
    BY <2>1 DEF Spent
  <2>3. asked'[t] = asked[t] /\ sent'[t] = sent[t] /\ requests'[t] = requests[t]
    BY <1>0, <1>5, <1>6 DEF NetOK
  <2>4. requests'[t] <= requests[t] /\ Spent(t) + faults <= Spent(t)' + faults'
    BY <1>0, <1>5, <2>2, <2>3 DEF Numbers
  <2>5. \A s \in streams' : Carries(s, t) =>
          \E r \in streams : /\ Carries(r, t) /\ r.wanted = s.wanted /\ r.sent = s.sent
                             /\ s.start = server'[t].starts => r.start = server[t].starts
    BY <1>5
  <2>6. Untried(t)' => asked[t] = 0
    BY <2>1 DEF Bounded
  <2>7. QED
    BY <2>1, <2>3, <2>4, <2>5, <2>6, BoundKeeps
<1>7. CASE t = l.target
  <2>1. Reads(t) /\ Reads(t)' /\ ~ Untried(t)'
    BY <1>3, <1>4, <1>7 DEF Reads, Untried
  <2>2. Spent(t) = l.attempt /\ Spent(t)' = l.attempt + 1
    BY <1>4, <2>1 DEF Spent
  <2>3. asked'[t] = l.wanted /\ requests'[t] = requests[t] + 1 /\ sent'[t] = sent[t]
    BY <1>0, <1>5, <1>7 DEF NetOK
  <2> DEFINE w == l.wanted
             q == requests[t]
             m == l.attempt + faults
  <2>4. w \in Nat /\ q \in Nat /\ m \in Nat /\ w * q \in Nat /\ w * m \in Nat
    BY <1>0, <1>1, Times DEF Numbers
  <2>5. sent[t] + w * q <= w * m
    <3>1. CASE asked[t] = 0
      <4>1. sent[t] = 0 /\ q = 0
        BY <3>1 DEF Bounded
      <4>2. w * q = 0
        BY <2>4, <4>1, Times
      <4>3. QED
        BY <2>4, <4>1, <4>2
    <3>2. CASE asked[t] = w
      BY <2>2, <3>2 DEF Bounded, Due, Allowed
    <3>3. QED
      BY <2>1, <3>1, <3>2 DEF Bounded
  <2>6. Due(t)' = sent[t] + w * (q + 1) /\ Allowed(t)' = w * (m + 1)
    <3>1. l.attempt + 1 + faults = m + 1
      BY <1>0, <1>1 DEF Numbers
    <3>2. QED
      BY <1>5, <2>2, <2>3, <3>1 DEF Due, Allowed
  <2>7. w * (q + 1) = w * q + w /\ w * (m + 1) = w * m + w
    BY <2>4, Times
  <2>8. sent[t] \in Nat
    BY <1>0 DEF Numbers
  <2> HIDE DEF w, q, m
  <2>9. Due(t)' <= Allowed(t)'
    BY <2>4, <2>5, <2>6, <2>7, <2>8
  <2>10. \A s \in streams : Carries(s, t) => asked[t] = w /\ s.wanted = w /\ s.sent <= s.wanted
    BY <2>1 DEF Bounded, w
  <2>11. ASSUME NEW s \in Sessions(t)' PROVE Due(t)' + (s.wanted - s.sent) <= Allowed(t)'
    <3>1. s \in streams /\ Carries(s, t) /\ s \in Sessions(t)
      BY <1>5, <2>11 DEF Sessions, Carries
    <3>2. asked[t] = w /\ s.wanted \in Nat /\ s.sent \in Nat
      BY <1>0, <2>10, <3>1 DEF Numbers
    <3>3. Due(t) = sent[t] + w * q /\ Allowed(t) = w * m
      BY <2>2, <3>2 DEF Due, Allowed, q, m
    <3>4. sent[t] + w * q + (s.wanted - s.sent) <= w * m
      BY <3>1, <3>3 DEF Bounded
    <3>5. QED
      BY <2>4, <2>6, <2>7, <2>8, <3>2, <3>4
  <2>12. asked'[t] = 0 => FALSE
    BY <1>0, <1>1, <2>3 DEF Ask, MayAsk, LegOK, Leg
  <2>13. asked'[t] = w
    BY <2>3 DEF w
  <2>14. QED
    BY <1>4, <1>5, <2>1, <2>9, <2>10, <2>11, <2>12, <2>13 DEF Bounded, w
<1>8. QED
  BY <1>6, <1>7

\* A packet: what the session may still send is that much less.
LEMMA SendBound ==
  ASSUME TypeOK, TypeOK', SInv, NEW s \in streams, SendUDP(s), BInv
  PROVE  BInv'
<1>0. /\ s \in Stream /\ s.target \in Target /\ ServerOK
      /\ AllNumbers /\ AllNumbers'
  <2>1. TypeOK' => AllNumbers'
    BY BoundType, PTL
  <2>2. QED
    BY TypeParts, BoundType, <2>1 DEF ServerOK, Stream
<1> DEFINE t == s.target
           d == s.wanted - s.sent
           n == Min({Body, d})
           new == [s EXCEPT !.sent = @ + n]
<1>1. s.wanted \in Nat /\ s.sent \in Nat /\ d \in Int /\ d >= 1 /\ Body \in Nat /\ Body >= 1
  BY <1>0, MaskingAssumption DEF SendUDP, Stream
<1>2. n \in Nat /\ n <= d
  <2> HIDE DEF d
  <2>1. n \in Int /\ n \in {Body, d} /\ Min({d, Body}) <= d /\ {d, Body} = {Body, d}
    BY <1>1, MinOfTwo
  <2>2. n <= d
    BY <2>1
  <2> HIDE DEF n
  <2>3. QED
    BY <1>1, <2>1, <2>2
<1>3. /\ streams' = (streams \ {s}) \cup {new} /\ sent' = [sent EXCEPT ![t] = @ + n]
      /\ UNCHANGED <<leg, server, requests, asked, faults>>
      /\ Carries(s, t) /\ s \in Sessions(t)
  BY DEF SendUDP, Replace, Current, Sessions, Carries
<1> HIDE DEF n
<1>4. /\ new.over = "udp" /\ new.target = t /\ new.start = s.start /\ new.wanted = s.wanted
      /\ new.sent = s.sent + n
  BY <1>0, <1>3 DEF Stream, Carries
<1> HIDE DEF new
<1>5. ASSUME NEW u \in Target PROVE Bounded(u)'
  <2>0. Bounded(u) /\ Numbers(u) /\ Numbers(u)'
    BY <1>0 DEF BInv, AllNumbers
  <2>1. CASE u # t
    <3>1. asked'[u] = asked[u] /\ sent'[u] = sent[u] /\ requests'[u] <= requests[u]
      BY <1>3, <2>0, <2>1 DEF Numbers, TypeOK
    <3>2. \A r \in streams' : Carries(r, u) => r \in streams
      BY <1>3, <1>4, <2>1 DEF Carries
    <3>3. Spent(u)' = Spent(u) /\ Spent(u) + faults <= Spent(u)' + faults'
      BY <1>3, <2>0 DEF Spent, Reads, Numbers
    <3>4. (Untried(u)' <=> Untried(u)) /\ (Reads(u)' <=> Reads(u))
      BY <1>3 DEF Untried, Reads
    <3>5. \A r \in streams' : Carries(r, u) =>
            \E x \in streams : /\ Carries(x, u) /\ x.wanted = r.wanted /\ x.sent = r.sent
                               /\ r.start = server'[u].starts => x.start = server[u].starts
      BY <1>3, <3>2
    <3>6. (Untried(u)' => asked[u] = 0) /\ (Reads(u)' => asked[u] \in {0, leg'["udp"].wanted})
      BY <1>3, <2>0, <3>4 DEF Bounded
    <3>7. QED
      BY <2>0, <3>1, <3>3, <3>5, <3>6, BoundKeeps
  <2>2. CASE u = t
    <3>1. /\ asked'[t] = asked[t] /\ requests'[t] = requests[t] /\ sent'[t] = sent[t] + n
          /\ Spent(t)' = Spent(t) /\ (Untried(t)' <=> Untried(t)) /\ (Reads(t)' <=> Reads(t))
          /\ Allowed(t)' = Allowed(t)
      BY <1>0, <1>3 DEF TypeOK, Spent, Untried, Reads, Allowed
    <3>2. asked[t] * requests[t] \in Nat
      BY <2>0, <2>2, Times DEF Numbers
    <3>3. Due(t)' = Due(t) + n
      BY <1>2, <2>0, <2>2, <3>1, <3>2 DEF Due, Numbers
    <3>4. Due(t) + (s.wanted - s.sent) <= Allowed(t)
      BY <1>3, <2>0, <2>2 DEF Bounded
    <3>5. Due(t) \in Nat /\ Allowed(t) \in Nat
      BY <2>0, <2>2 DEF Numbers
    <3>6. Due(t)' <= Allowed(t)'
      BY <1>1, <1>2, <3>1, <3>3, <3>4, <3>5
    <3>7. \A r \in Sessions(t)' : r = new
      BY <1>0, <1>3 DEF Sessions, SInv
    <3>8. Due(t)' + (new.wanted - new.sent) <= Allowed(t)'
      BY <1>1, <1>2, <1>4, <3>1, <3>3, <3>4, <3>5
    <3>9. asked[t] # 0 /\ s.wanted = asked[t]
      BY <1>3, <2>0, <2>2 DEF Bounded
    <3>10. \A r \in streams' : Carries(r, t) => r.wanted = asked[t] /\ r.sent <= r.wanted
      <4>1. new.wanted = asked[t] /\ new.sent <= new.wanted
        BY <1>1, <1>2, <1>4, <3>9
      <4>2. QED
        BY <1>3, <2>0, <2>2, <4>1 DEF Bounded
    <3>11. (Untried(t)' => asked[t] = 0) /\ (Reads(t)' => asked[t] \in {0, leg'["udp"].wanted})
      BY <1>3, <2>0, <2>2, <3>1 DEF Bounded
    <3>12. QED
      BY <2>2, <3>1, <3>6, <3>7, <3>8, <3>9, <3>10, <3>11 DEF Bounded
  <2>3. QED
    BY <2>1, <2>2
<1>6. QED
  BY <1>5 DEF BInv

\* A server takes a request: what that may have sent, its session may.
LEMMA ReceiveBound ==
  ASSUME TypeOK, TypeOK', SInv, NEW t \in Target, Receive(t), Bounded(t),
         ~ UNCHANGED <<keys, streams>>
  PROVE  Bounded(t)'
<1>0. Numbers(t) /\ Numbers(t)' /\ NetOK
  <2>1. TypeOK' => AllNumbers'
    BY BoundType, PTL
  <2>2. QED
    BY TypeParts, BoundType, <2>1 DEF AllNumbers
<1> DEFINE a == asked[t]
           q == requests'[t]
           new == [over |-> "udp", target |-> t, start |-> server[t].starts,
                   wanted |-> a, sent |-> 0, pc |-> "send"]
<1>1. /\ streams' = streams \cup {new} /\ t \notin keys /\ server[t].is = "up"
      /\ requests' = [requests EXCEPT ![t] = @ - 1] /\ requests[t] > 0
      /\ UNCHANGED <<leg, server, asked, faults, sent>>
  BY DEF Receive, MayStart, Up
<1>2. /\ Carries(new, t) /\ new.wanted = a /\ new.sent = 0
  BY DEF Carries
<1> HIDE DEF new
<1>3. requests[t] = q + 1 /\ q \in Nat /\ a \in Nat /\ a * q \in Nat /\ a * (q + 1) = a * q + a
  <2>1. requests[t] = q + 1 /\ q \in Nat /\ a \in Nat
    BY <1>0, <1>1 DEF NetOK, Numbers
  <2> HIDE DEF q, a
  <2>2. QED
    BY <2>1, Times
<1>4. /\ Spent(t)' = Spent(t) /\ (Untried(t)' <=> Untried(t)) /\ (Reads(t)' <=> Reads(t))
      /\ Allowed(t)' = Allowed(t) /\ asked'[t] = a /\ sent'[t] = sent[t]
  BY <1>1 DEF Spent, Untried, Reads, Allowed
<1>5. Due(t) = Due(t)' + a
  <2>1. Due(t)' = sent[t] + a * q
    BY <1>1 DEF Due
  <2>2. Due(t) = sent[t] + a * (q + 1)
    BY <1>3 DEF Due
  <2>3. sent[t] \in Nat
    BY <1>0 DEF Numbers
  <2> HIDE DEF a, q
  <2>4. QED
    BY <1>3, <2>1, <2>2, <2>3
<1>6. Due(t) <= Allowed(t) /\ Due(t)' \in Nat /\ Allowed(t) \in Nat
  BY <1>0 DEF Bounded, Numbers
<1>7. a # 0
  BY <1>1 DEF Bounded
<1>8. \A s \in Sessions(t)' : s = new
  BY <1>1 DEF SInv, Sessions
<1>9. Due(t)' <= Allowed(t)' /\ Due(t)' + (new.wanted - new.sent) <= Allowed(t)'
  <2> HIDE DEF a
  <2>1. QED
    BY <1>2, <1>3, <1>4, <1>5, <1>6
<1>10. \A s \in streams' : Carries(s, t) => s.wanted = a /\ s.sent <= s.wanted
  BY <1>1, <1>2, <1>3 DEF Bounded
<1>11. (Untried(t)' => a = 0) /\ (Reads(t)' => a \in {0, leg'["udp"].wanted})
  BY <1>1, <1>4 DEF Bounded
<1>12. QED
  BY <1>4, <1>7, <1>8, <1>9, <1>10, <1>11 DEF Bounded

\* Of the other steps, none has a server send or a client ask.
LEMMA OtherBound ==
  ASSUME TypeOK, TypeOK', NEW t \in Target, Bounded(t), UNCHANGED <<leg, asked, sent>>,
         requests'[t] <= requests[t], faults <= faults',
         \A s \in streams' : Carries(s, t) =>
           \E r \in streams : /\ Carries(r, t) /\ r.wanted = s.wanted /\ r.sent = s.sent
                              /\ s.start = server'[t].starts => r.start = server[t].starts
  PROVE  Bounded(t)'
<1>1. Numbers(t) /\ faults' \in Nat
  BY SMTT(30), BoundType, MaskingAssumption DEF AllNumbers, TypeOK
<1>2. Spent(t)' = Spent(t) /\ (Untried(t)' <=> Untried(t)) /\ (Reads(t)' <=> Reads(t))
  BY DEF Spent, Untried, Reads
<1>3. Spent(t) + faults <= Spent(t)' + faults'
  BY <1>1, <1>2 DEF Numbers
<1>4. (Untried(t)' => asked[t] = 0) /\ (Reads(t)' => asked[t] \in {0, leg'["udp"].wanted})
  BY <1>2 DEF Bounded
<1>5. asked'[t] = asked[t] /\ sent'[t] = sent[t]
  OBVIOUS
<1>6. QED
  BY <1>3, <1>4, <1>5, BoundKeeps

\* The network brings a request twice: a fault more allows for it.
LEMMA DuplicateBound ==
  ASSUME TypeOK, TypeOK', NEW t \in Target, Duplicate(t), Bounded(t), requests' # requests
  PROVE  Bounded(t)'
<1>0. Numbers(t) /\ Numbers(t)' /\ NetOK
  <2>1. TypeOK' => AllNumbers'
    BY BoundType, PTL
  <2>2. QED
    BY TypeParts, BoundType, <2>1 DEF AllNumbers
<1> DEFINE a == asked[t]
           q == requests[t]
           m == Spent(t) + faults
<1>1. /\ requests' = [requests EXCEPT ![t] = @ + 1] /\ requests[t] > 0
      /\ faults' = faults + 1
      /\ UNCHANGED <<leg, server, streams, asked, sent>>
  BY DEF Duplicate
<1>2. a \in Nat /\ q \in Nat /\ m \in Nat /\ requests'[t] = q + 1 /\ sent[t] \in Nat
  BY <1>0, <1>1 DEF NetOK, Numbers
<1>3. Spent(t)' = Spent(t) /\ (Untried(t)' <=> Untried(t)) /\ (Reads(t)' <=> Reads(t))
  BY <1>1 DEF Spent, Untried, Reads
<1>4. Spent(t)' + faults' = m + 1
  BY <1>0, <1>1, <1>3 DEF Numbers
<1>5. /\ Due(t) = sent[t] + a * q /\ Due(t)' = sent[t] + a * (q + 1)
      /\ Allowed(t) = a * m /\ Allowed(t)' = a * (m + 1)
  BY <1>1, <1>2, <1>4 DEF Due, Allowed
<1>6. asked'[t] = a /\ a # 0
  BY <1>1 DEF Bounded
<1>7. /\ a * q \in Nat /\ a * m \in Nat
      /\ a * (q + 1) = a * q + a /\ a * (m + 1) = a * m + a
  <2> HIDE DEF a, q, m
  <2>1. QED
    BY <1>2, Times
<1>8. ASSUME NEW r \in Nat, Due(t) + r <= Allowed(t)
      PROVE  Due(t)' + r <= Allowed(t)'
  <2> HIDE DEF a, q, m
  <2>1. QED
    BY <1>2, <1>5, <1>7, <1>8
<1>9. Due(t)' <= Allowed(t)'
  <2>1. Due(t) + 0 <= Allowed(t)
    BY <1>0 DEF Bounded, Numbers
  <2>2. Due(t)' + 0 <= Allowed(t)' /\ Due(t)' \in Nat
    BY <1>0, <1>8, <2>1 DEF Numbers
  <2>3. QED
    BY <2>2
<1>10. Sessions(t)' = Sessions(t)
  BY <1>1 DEF Sessions
<1>11. ASSUME NEW s \in Sessions(t) PROVE Due(t)' + (s.wanted - s.sent) <= Allowed(t)'
  <2>1. s \in streams /\ Carries(s, t)
    BY DEF Sessions, Carries
  <2>2. s.wanted - s.sent \in Nat
    BY <1>0, <2>1 DEF Bounded, Numbers
  <2>3. Due(t) + (s.wanted - s.sent) <= Allowed(t)
    BY DEF Bounded
  <2>4. QED
    BY <1>8, <2>2, <2>3
<1>12. QED
  BY <1>1, <1>3, <1>6, <1>9, <1>10, <1>11 DEF Bounded

LEMMA BoundInductive == TypeOK /\ SInv /\ BInv /\ [Next]_vars => BInv'
<1> SUFFICES ASSUME TypeOK, SInv, BInv, [Next]_vars PROVE BInv'
  OBVIOUS
<1>0. TypeOK' /\ ServerOK /\ NetOK /\ faults \in Nat
  BY TypeInductive, TypeParts, MaskingAssumption DEF CountOK
<1>1. CASE Client
  BY <1>0, <1>1, AskBound, ClientBound DEF BInv
<1>2. ASSUME NEW s \in streams, Session(s) PROVE BInv'
  <2>0. s \in Stream
    BY <1>0 DEF ServerOK
  <2>1. CASE SendUDP(s)
    BY <1>0, <2>1, SendBound
  <2>2. CASE ~ SendUDP(s)
    <3>1. UNCHANGED <<leg, server, requests, asked, faults, sent>>
      BY <1>2, <2>2 DEF Session, ReadHeader, SendTCP, CloseTCP, EndUDPSession, Finish, net
    <3>2. ASSUME NEW r \in streams', r.over = "udp", r \notin streams
          PROVE  /\ r.target = s.target /\ r.wanted = s.wanted /\ r.sent = s.sent
                 /\ r.start = s.start /\ s.over = "udp"
      <4>1. CASE ReadHeader(s)
        BY <2>0, <3>2, <4>1 DEF ReadHeader, Replace, Stream
      <4>2. CASE SendTCP(s)
        BY <2>0, <3>2, <4>2 DEF SendTCP, Replace, Stream
      <4>3. CASE CloseTCP(s)
        BY <2>0, <3>2, <4>3 DEF CloseTCP, Replace, Stream
      <4>4. CASE EndUDPSession(s)
        BY <2>0, <3>2, <4>4 DEF EndUDPSession, Replace, Stream
      <4>5. CASE Finish(s)
        BY <3>2, <4>5 DEF Finish
      <4>6. QED
        BY <1>2, <2>2, <4>1, <4>2, <4>3, <4>4, <4>5 DEF Session
    <3>3. ASSUME NEW t \in Target PROVE Bounded(t)'
      <4>1. requests'[t] <= requests[t] /\ faults <= faults'
        BY <1>0, <3>1 DEF NetOK
      <4>2. \A r \in streams' : Carries(r, t) =>
              \E x \in streams : /\ Carries(x, t) /\ x.wanted = r.wanted /\ x.sent = r.sent
                                 /\ r.start = server'[t].starts => x.start = server[t].starts
        BY <3>1, <3>2 DEF Carries
      <4>3. QED
        BY <1>0, <3>1, <4>1, <4>2, OtherBound DEF BInv
    <3>4. QED
      BY <3>3 DEF BInv
  <2>3. QED
    BY <2>1, <2>2
<1>3. ASSUME NEW u \in Target, LoseRequest(u) \/ LosePacket(u) \/ Duplicate(u), NEW t \in Target
      PROVE  Bounded(t)'
  <2>1. UNCHANGED <<leg, server, streams, asked, sent>> /\ faults <= faults'
    BY <1>0, <1>3 DEF LoseRequest, LosePacket, Duplicate
  <2>2. CASE u = t /\ Duplicate(u) /\ requests' # requests
    BY <1>0, <2>2, DuplicateBound DEF BInv
  <2>3. CASE ~ (u = t /\ Duplicate(u) /\ requests' # requests)
    <3>1. requests'[t] <= requests[t]
      BY <1>0, <1>3, <2>3 DEF LoseRequest, LosePacket, Duplicate, NetOK
    <3>2. QED
      BY <1>0, <2>1, <3>1, OtherBound DEF BInv
  <2>4. QED
    BY <2>2, <2>3
<1>4. ASSUME NEW u \in Target, Receive(u), NEW t \in Target PROVE Bounded(t)'
  <2>1. /\ UNCHANGED <<leg, server, asked, sent, faults>>
        /\ requests' = [requests EXCEPT ![u] = @ - 1]
        /\ \A s \in streams' : Carries(s, t) /\ t # u => s \in streams
    BY <1>4 DEF Receive, Carries
  <2>2. CASE u = t /\ ~ UNCHANGED <<keys, streams>>
    BY <1>0, <1>4, <2>2, ReceiveBound DEF BInv
  <2>3. CASE t # u \/ UNCHANGED <<keys, streams>>
    <3>1. requests'[t] <= requests[t] /\ faults <= faults'
      BY <1>0, <2>1 DEF NetOK
    <3>2. \A s \in streams' : Carries(s, t) => s \in streams
      BY <2>1, <2>3
    <3>3. QED
      BY <1>0, <2>1, <3>1, <3>2, OtherBound DEF BInv
  <2>4. QED
    BY <2>2, <2>3
<1>5. ASSUME NEW u \in Target, StopServer(u) \/ CloseSeed(u) \/ StartServer(u),
             NEW t \in Target
      PROVE  Bounded(t)'
  <2>1. UNCHANGED <<leg, requests, asked, sent, streams>> /\ faults <= faults'
    BY <1>0, <1>5 DEF StopServer, CloseSeed, StartServer, net
  <2>2. requests'[t] <= requests[t]
    BY <1>0, <2>1 DEF NetOK
  <2>3. server[t].starts \in Nat /\ \A s \in streams : s.start \in Nat
    BY <1>0 DEF ServerOK, Stream
  <2>4. server'[t].starts \in {server[t].starts, server[t].starts + 1}
    BY <1>0, <1>5 DEF StopServer, CloseSeed, StartServer, ServerOK
  <2>5. \A s \in streams : Carries(s, t) => s.start <= server[t].starts
    BY DEF SInv, Carries
  <2>6. \A s \in streams : Carries(s, t) /\ s.start = server'[t].starts
                             => s.start = server[t].starts
    BY <2>3, <2>4, <2>5
  <2>7. QED
    BY <1>0, <2>1, <2>2, <2>6, OtherBound DEF BInv
<1>6. CASE UNCHANGED vars
  <2>1. UNCHANGED <<leg, server, streams, requests, asked, sent, faults>>
    BY <1>6 DEF vars, net
  <2>2. ASSUME NEW t \in Target PROVE Bounded(t)'
    <3>1. requests'[t] <= requests[t] /\ faults <= faults'
      BY <1>0, <2>1 DEF NetOK
    <3>2. QED
      BY <1>0, <2>1, <3>1, OtherBound DEF BInv
  <2>3. QED
    BY <2>2 DEF BInv
<1>7. QED
  BY <1>1, <1>2, <1>3, <1>4, <1>5, <1>6 DEF Next, Serve, Network, Daemon, BInv

\* However many requests are lost, late and repeated, and over every stop and start
\* of a server, a target sends no more than its retries and the network's copies
\* asked for, for any targets, plan, packet size and number of retries and faults.
THEOREM SendsNoMore == Spec => []SentIsBounded
<1>1. Init => BInv
  <2>1. ASSUME Init, NEW t \in Target PROVE Bounded(t)
    <3>1. /\ asked[t] = 0 /\ sent[t] = 0 /\ requests[t] = 0 /\ streams = {}
          /\ Unasked(leg) /\ TypeOK
      BY <2>1, InitType, LegsType DEF Init
    <3>2. ~ Reads(t)
      BY <3>1 DEF Reads, Unasked
    <3>3. Numbers(t)
      BY <3>1, BoundType DEF AllNumbers
    <3>4. Due(t) = 0
      BY <3>1 DEF Due
    <3>5. QED
      BY <3>1, <3>2, <3>3, <3>4 DEF Bounded, Sessions, Numbers
  <2>2. QED
    BY <2>1 DEF BInv
<1>2. Init => SInv
  BY DEF Init, SInv
<1>3. TypeOK /\ BInv => SentIsBounded
  <2>1. ASSUME TypeOK, BInv, NEW t \in Target
        PROVE  sent[t] <= asked[t] * (Retries + MaxFaults)
    <3>1. Numbers(t) /\ Bounded(t)
      BY <2>1, BoundType DEF AllNumbers, BInv
    <3> DEFINE a == asked[t]
               m == Spent(t) + faults
               b == Retries + MaxFaults
    <3>2. a \in Nat /\ m \in Nat /\ b \in Nat /\ m <= b /\ sent[t] \in Nat
          /\ requests[t] \in Nat
      BY <3>1 DEF Numbers
    <3>3. Due(t) <= a * m
      BY <3>1 DEF Bounded, Allowed
    <3>4. Due(t) = sent[t] + a * requests[t]
      BY DEF Due
    <3> HIDE DEF a, m, b
    <3>5. a * requests[t] \in Nat /\ a * m \in Nat /\ a * b \in Nat /\ a * m <= a * b
      BY <3>2, Times
    <3>6. sent[t] <= a * b
      BY <3>2, <3>3, <3>4, <3>5
    <3>7. QED
      BY <3>6 DEF a, b
  <2>2. QED
    BY <2>1 DEF SentIsBounded
<1>4. QED
  BY <1>1, <1>2, <1>3, InitType, TypeInductive, SessionsInductive, BoundInductive, PTL
     DEF Spec
=============================================================================
