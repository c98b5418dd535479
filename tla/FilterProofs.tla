---------------------------- MODULE FilterProofs ----------------------------
(***************************************************************************)
(* Theorems about PacketFilter, for any configurations and connections.    *)
(***************************************************************************)
EXTENDS PacketFilter, TLAPS

----------------------------------------------------------------------------
(* The chains *)

\* The first packet of a connection gets through, or to the DPI, exactly if the
\* policy lets the connection begin: renderIngress, renderForward and
\* renderEgress have the order of README.md:54-62.
THEOREM ChainsArePolicy ==
  ASSUME NEW r \in Config \cup {None}, NEW L \in SUBSET Addr, NEW p \in Packet,
         p.way = "original", p.ct = "new", p.mark = "none"
  PROVE  Verdict(r, L, p) # "drop" <=> MayBegin(r, L, p.conn)
<1>1. CASE r = None
  BY <1>1 DEF Verdict, MayBegin
<1>2. CASE r # None
  <2>1. r \in Input /\ p.conn \in Connection
    BY <1>2, FilterAssumption DEF Packet
  <2>2. p.conn.hook \in {"input", "forward", "output"} /\ p.conn.peer \in Addr
        /\ p.conn.port \in Port
    BY <2>1 DEF Connection
  <2>3. Source(p) = p.conn.peer
    BY DEF Source
  <2>4. Allowed(r, p) # "drop"
    BY DEF Allowed
  <2>5. p.conn.peer \in L \cup Listed(r, p.conn.port) <=>
          \/ p.conn.peer \in L
          \/ r.policy[p.conn.port] # None /\ p.conn.peer \in r.policy[p.conn.port]
          \/ r.policy[p.conn.port] = None /\ (r.ingress => p.conn.peer \in r.sources)
    BY <2>2 DEF Listed
  <2>6. Guarded(r, L, p) # "drop" <=> p.conn.peer \in L \cup Listed(r, p.conn.port)
    BY <2>3, <2>4 DEF Guarded
  <2>7. CASE p.conn.hook = "input"
    BY <1>2, <2>5, <2>6, <2>7 DEF Verdict, Ingress, MayBegin
  <2>8. CASE p.conn.hook = "forward"
    BY <1>2, <2>5, <2>6, <2>8 DEF Verdict, Forward, MayBegin
  <2>9. CASE p.conn.hook = "output"
    BY <1>2, <2>9 DEF Verdict, Egress, MayBegin
  <2> QED BY <2>2, <2>7, <2>8, <2>9
<1> QED BY <1>1, <1>2

\* Where a protocol is to be looked at, only a mark or an entry made before lets
\* a packet through.
LEMMA AcceptedInspected ==
  ASSUME NEW r, NEW L, NEW p \in Packet, p.way = "original", p.ct # "invalid",
         Inspects(r, p.conn), Verdict(r, L, p) = "accept"
  PROVE  p.mark = "accept" \/ (p.ct = "established" /\ p.mark = "none")
<1>1. r # None /\ Blocks(r) /\ p.conn.hook # "output" /\ p.conn.port \notin r.open
      /\ p.conn.port \notin r.skip
  BY DEF Inspects
<1>2. Guarded(r, L, p) # "accept"
  BY <1>1 DEF Guarded, Allowed
<1>3. p.mark \in {"none", "pending", "accept"} /\ p.ct \in {"new", "established"}
      /\ p.conn.hook \in {"input", "forward"}
  BY <1>1, FilterAssumption DEF Packet, Connection
<1>4. CASE p.conn.hook = "input"
  <2>1. p.conn.peer \notin Loopback /\ ~FromRelay(r, p.conn)
    BY <1>4 DEF Inspects
  <2>2. Ingress(r, L, p) = "accept"
    BY <1>1, <1>4 DEF Verdict
  <2> QED BY <1>1, <1>2, <1>3, <2>1, <2>2 DEF Ingress
<1>5. CASE p.conn.hook = "forward"
  <2>1. Forward(r, L, p) = "accept"
    BY <1>1, <1>5 DEF Verdict
  <2> QED BY <1>1, <1>2, <1>3, <2>1 DEF Forward
<1> QED BY <1>3, <1>4, <1>5

\* The DPI is given what it has not passed for good: first packets and those of
\* pending connections, and none the host sends to begin one.
LEMMA QueuedUnjudged ==
  ASSUME NEW r, NEW L, NEW p \in Packet, Verdict(r, L, p) = "queue"
  PROVE  /\ p.mark # "accept"
         /\ p.mark = "pending" \/ p.ct = "new"
         /\ p.conn.hook = "output" => p.way = "reply"
<1>1. r # None
  BY DEF Verdict
<1>2. Egress(r, p) # "queue"
  BY DEF Egress
<1>3. Forward(r, L, p) = "queue" \/ Ingress(r, L, p) = "queue"
  BY <1>1, <1>2 DEF Verdict
<1>4. Guarded(r, L, p) = "queue" => Blocks(r)
  BY DEF Guarded, Allowed
<1>5. p.mark # "accept"
  BY <1>3, <1>4 DEF Forward, Ingress
<1>6. p.mark = "pending" \/ p.ct = "new"
  BY <1>3 DEF Forward, Ingress
<1>7. ASSUME p.conn.hook = "output" PROVE p.way = "reply"
  <2>1. CASE p.way = "original"
    BY <1>1, <1>2, <1>7, <2>1 DEF Verdict
  <2> QED BY <2>1 DEF Packet
<1> QED BY <1>5, <1>6, <1>7

\* What is established and not pending passes, in both directions.
LEMMA EstablishedPasses ==
  ASSUME NEW r, NEW L, NEW p, p.ct = "established", p.mark # "pending"
  PROVE  Verdict(r, L, p) = "accept"
BY DEF Verdict, Ingress, Forward, Egress

----------------------------------------------------------------------------
(* The invariant *)

\* The packets with the DPI: first ones the policy let in, others of
\* connections that have an entry.
Queued ==
  \A p \in queue :
    /\ IF p.fresh THEN p.may /\ p.way = "original" ELSE track[p.conn] # "none"
    /\ p.ct # "invalid" /\ p.conn.hook # "output"

\* What no entry is of, nothing is known of.
Untracked ==
  \A c \in Conn : track[c] = "none" => mark[c] = "none" /\ c \notin carried

\* Only connections nobody looks at have an entry without a mark.
Unmarked == \A c \in Conn : track[c] # "none" /\ mark[c] = "none" => c \in exempt

\* The DPI passes for good what some configuration does not block.
Unblocked(c) == c.proto = "tcp" => \E r \in Config : Blocks(r) /\ c.app \notin r.block
Passed == \A c \in Conn : mark[c] = "accept" => Unblocked(c)

\* What has been served is not pending, but for the exempt.
Served == \A c \in carried : mark[c] = "pending" => c \in exempt

\* The host's own connections have no mark.
Outgoing == \A c \in Conn : c.hook = "output" => mark[c] = "none"

\* The invariant, but for the types.
Rest ==
  /\ Queued /\ Untracked /\ Unmarked /\ Passed /\ Served /\ Outgoing
  /\ OnlyAdmitted /\ BlockedStaysOut

USE DEF Tables, Kernel, History

LEMMA TypeStep == TypeOK /\ [Next]_vars => TypeOK'
<1> SUFFICES ASSUME TypeOK, [Next]_vars PROVE TypeOK'
  OBVIOUS
<1> USE DEF TypeOK
<1>1. ASSUME NEW p \in Packet, NEW m \in {"none", "pending", "accept"}, Deliver(p, m)
      PROVE  /\ track' \in [Conn -> {"none", "new", "established"}]
             /\ mark' \in [Conn -> {"none", "pending", "accept"}]
             /\ answered' \in SUBSET Conn /\ admitted' \in SUBSET Conn
             /\ carried' \in SUBSET Conn /\ exempt' \in SUBSET Conn
  BY <1>1 DEF Deliver, Packet
<1>2. ASSUME NEW p \in Packet, Enqueue(p)
      PROVE  /\ mark' \in [Conn -> {"none", "pending", "accept"}]
             /\ queue' \in SUBSET Packet
             /\ UNCHANGED <<answered, admitted, carried, exempt>>
  BY <1>2 DEF Enqueue, Packet
<1>3. ASSUME NEW c \in Conn, NEW data \in BOOLEAN, NEW invalid \in BOOLEAN,
             Send(c, data, invalid)
      PROVE  TypeOK'
  <2> DEFINE p == [conn |-> c, way |-> "original", data |-> data,
                   ct |-> IF invalid THEN "invalid"
                          ELSE IF track[c] = "established" THEN "established" ELSE "new",
                   mark |-> IF invalid THEN "none" ELSE mark[c],
                   fresh |-> track[c] = "none", may |-> MayBegin(rules, leases, c)]
  <2>1. MayBegin(rules, leases, c) \in BOOLEAN
    BY DEF MayBegin
  <2>2. p \in Packet
    BY <2>1 DEF Packet
  <2>3. \/ Deliver(p, p.mark) /\ UNCHANGED queue
        \/ Enqueue(p) /\ UNCHANGED track
        \/ UNCHANGED <<Kernel, answered, queue, History>>
    BY <1>3 DEF Send
  <2>4. UNCHANGED <<Tables, dpi>>
    BY <1>3 DEF Send
  <2> HIDE DEF p
  <2>5. p.mark \in {"none", "pending", "accept"}
    BY <2>2 DEF Packet
  <2> QED BY <1>1, <1>2, <2>2, <2>3, <2>4, <2>5
<1>4. ASSUME NEW c \in Conn, NEW data \in BOOLEAN, Reply(c, data)
      PROVE  TypeOK'
  <2> DEFINE p == [conn |-> c, way |-> "reply", data |-> data, ct |-> "established",
                   mark |-> mark[c], fresh |-> FALSE, may |-> FALSE]
  <2>1. p \in Packet
    BY DEF Packet
  <2>2. /\ track' = [track EXCEPT ![c] = "established"]
        /\ \/ answered' = answered \cup {c} /\ UNCHANGED <<mark, queue, History>>
           \/ Enqueue(p)
           \/ UNCHANGED <<mark, answered, queue, History>>
        /\ UNCHANGED <<Tables, dpi>>
    BY <1>4 DEF Reply
  <2> HIDE DEF p
  <2> QED BY <1>2, <2>1, <2>2
<1>5. ASSUME NEW p \in queue, Judge(p) \/ Lose(p)
      PROVE  TypeOK'
  <2>1. p \in Packet /\ mark[p.conn] \in {"none", "pending", "accept"}
    BY DEF Packet
  <2>2. CASE Judge(p)
    <3> DEFINE m == IF Final(p) THEN "accept"
                    ELSE IF p.fresh THEN "pending" ELSE mark[p.conn]
    <3>1. m \in {"none", "pending", "accept"}
      BY <2>1
    <3>2. /\ queue' = queue \ {p} /\ UNCHANGED <<Tables, dpi>>
          /\ Deliver(p, m) \/ UNCHANGED <<Kernel, answered, History>>
      BY <2>2 DEF Judge
    <3> HIDE DEF m
    <3> QED BY <1>1, <2>1, <3>1, <3>2
  <2>3. CASE Lose(p)
    BY <2>3 DEF Lose
  <2> QED BY <1>5, <2>2, <2>3
<1>6. ASSUME NEW c \in Conn, Forget(c) PROVE TypeOK'
  BY <1>6 DEF Forget
<1>7. ASSUME DeleteTable \/ Detach PROVE TypeOK'
  BY <1>7 DEF DeleteTable, Detach
<1>8. ASSUME NEW r \in Config, LoadTable(r) \/ Attach(r) PROVE TypeOK'
  BY <1>8 DEF LoadTable, Attach, Blocks
<1>9. ASSUME NEW a \in Addr, Grant(a) \/ Expire(a) PROVE TypeOK'
  BY <1>9 DEF Grant, Expire
<1>10. CASE UNCHANGED vars
  BY <1>10 DEF vars
<1> QED BY <1>3, <1>4, <1>5, <1>6, <1>7, <1>8, <1>9, <1>10 DEF Next

\* Entries, marks and what is queued are what they are declared to be.
THEOREM TypeCorrect == Spec => []TypeOK
<1>1. Init => TypeOK
  BY DEF Init, TypeOK
<1> QED BY <1>1, TypeStep, PTL DEF Spec

----------------------------------------------------------------------------
(* The invariant is kept *)

\* A packet that may be delivered is.
LEMMA DeliverKeeps ==
  ASSUME TypeOK, Rest, NEW p \in Packet, NEW m \in {"none", "pending", "accept"},
         Deliver(p, m), p.ct # "invalid", queue' \subseteq queue,
         track[p.conn] = "none" => p.may,
         p.conn.hook = "output" => m = "none",
         m = "none" => p.conn \in exempt',
         m = "accept" => Unblocked(p.conn),
         p.data /\ p.way = "original" =>
           p.conn \in exempt' \/ (Unblocked(p.conn) /\ m # "pending"),
         p.conn \in carried /\ m = "pending" => p.conn \in exempt'
  PROVE  Rest'
<1> DEFINE c == p.conn
<1>0. c \in Conn
  BY DEF Packet
<1>1. /\ track' = [track EXCEPT ![c] = IF @ = "none" THEN "new" ELSE @]
      /\ mark' = [mark EXCEPT ![c] = m]
      /\ admitted' = IF p.may /\ track[c] = "none" THEN admitted \cup {c} ELSE admitted
      /\ carried' = IF p.data /\ p.way = "original" THEN carried \cup {c} ELSE carried
      /\ exempt \subseteq exempt'
  BY DEF Deliver
<1>2. /\ \A d \in Conn : track'[d] # "none" <=> track[d] # "none" \/ d = c
      /\ \A d \in Conn : mark'[d] = IF d = c THEN m ELSE mark[d]
  BY <1>0, <1>1 DEF TypeOK
<1>3. Queued'
  BY <1>2 DEF TypeOK, Rest, Queued, Packet
<1>4. Untracked'
  BY <1>1, <1>2 DEF Rest, Untracked
<1>5. Unmarked'
  BY <1>1, <1>2 DEF Rest, Unmarked
<1>6. Passed'
  BY <1>2 DEF Rest, Passed, Unblocked
<1>7. Served'
  <2> SUFFICES ASSUME NEW d \in carried', mark'[d] = "pending" PROVE d \in exempt'
    BY DEF Served
  <2>1. d \in Conn /\ (d \in carried \/ (d = c /\ p.data /\ p.way = "original"))
    BY <1>0, <1>1 DEF TypeOK
  <2>2. CASE d = c
    <3>1. m = "pending"
      BY <1>2, <2>1, <2>2
    <3>2. CASE d \in carried
      BY <2>2, <3>1, <3>2
    <3>3. CASE p.data /\ p.way = "original"
      BY <2>2, <3>1, <3>3
    <3> QED BY <2>1, <3>2, <3>3
  <2>3. CASE d # c
    BY <1>1, <1>2, <2>1, <2>3 DEF Rest, Served
  <2> QED BY <2>2, <2>3
<1>8. Outgoing'
  BY <1>2 DEF Rest, Outgoing
<1>9. OnlyAdmitted'
  BY <1>1, <1>2 DEF Rest, OnlyAdmitted
<1>10. BlockedStaysOut'
  BY <1>1 DEF Rest, BlockedStaysOut, Unblocked
<1> QED BY <1>3, <1>4, <1>5, <1>6, <1>7, <1>8, <1>9, <1>10 DEF Rest

\* A packet that the DPI is to judge is handed to it.
LEMMA EnqueueKeeps ==
  ASSUME TypeOK, Rest, NEW p \in Packet, Enqueue(p),
         track' \in [Conn -> {"none", "new", "established"}],
         \A d \in Conn : track'[d] = "none" <=> track[d] = "none",
         IF p.fresh THEN p.may /\ p.way = "original" ELSE track[p.conn] # "none",
         p.ct # "invalid", p.conn.hook # "output", p.mark # "accept", p.mark = mark[p.conn]
  PROVE  Rest'
<1> DEFINE c == p.conn
<1>0. c \in Conn /\ p.fresh \in BOOLEAN
  BY DEF Packet
<1>1. /\ mark' = [mark EXCEPT ![c] = IF p.fresh THEN @ ELSE "pending"]
      /\ queue' = queue \cup {[p EXCEPT !.mark = "pending"]} \/ queue' = queue
      /\ UNCHANGED <<admitted, carried, exempt>>
  BY DEF Enqueue
<1>2. \A d \in Conn : mark'[d] = IF d = c /\ ~p.fresh THEN "pending" ELSE mark[d]
  BY <1>0, <1>1 DEF TypeOK
<1>3. Queued'
  <2> DEFINE q == [p EXCEPT !.mark = "pending"]
  <2>1. q.conn = p.conn /\ q.fresh = p.fresh /\ q.may = p.may /\ q.way = p.way
        /\ q.ct = p.ct
    BY DEF Packet
  <2>2. \A o \in queue' : o \in queue \/ o = q
    BY <1>1
  <2>3. \A o \in queue : o.conn \in Conn
    BY DEF TypeOK, Packet
  <2> HIDE DEF q
  <2> QED BY <1>0, <2>1, <2>2, <2>3 DEF Rest, Queued
<1>4. Untracked'
  BY <1>1, <1>2 DEF Rest, Untracked
<1>5. Unmarked'
  BY <1>1, <1>2 DEF Rest, Unmarked
<1>6. Passed'
  BY <1>2 DEF Rest, Passed, Unblocked
<1>7. Served'
  <2>1. ASSUME c \in carried, ~p.fresh PROVE c \in exempt
    <3>1. mark[c] = "none" \/ mark[c] = "pending"
      BY <1>0 DEF TypeOK
    <3>2. track[c] # "none"
      BY <2>1
    <3> QED BY <1>0, <2>1, <3>1, <3>2 DEF Rest, Served, Unmarked
  <2> QED BY <1>1, <1>2, <2>1 DEF TypeOK, Rest, Served
<1>8. Outgoing'
  BY <1>2 DEF Rest, Outgoing
<1>9. OnlyAdmitted' /\ BlockedStaysOut'
  BY <1>1 DEF Rest, OnlyAdmitted, BlockedStaysOut
<1> QED BY <1>3, <1>4, <1>5, <1>6, <1>7, <1>8, <1>9 DEF Rest

\* Packets that get nowhere, and what happens to tables and the DPI.
LEMMA StillKeeps ==
  ASSUME TypeOK, Rest, queue' \subseteq queue, UNCHANGED <<mark, History>>,
         \A d \in Conn : track'[d] = "none" <=> track[d] = "none"
  PROVE  Rest'
<1>1. \A p \in queue' : p \in queue /\ p.conn \in Conn
  BY DEF TypeOK, Packet
<1>2. Queued'
  BY <1>1 DEF Rest, Queued
<1> QED
  BY <1>2 DEF Rest, Untracked, Unmarked, Passed, Unblocked, Served, Outgoing,
    OnlyAdmitted, BlockedStaysOut

LEMMA SendKeeps ==
  ASSUME TypeOK, Rest, NEW c \in Conn, NEW data \in BOOLEAN, NEW invalid \in BOOLEAN,
         Send(c, data, invalid)
  PROVE  Rest'
<1> DEFINE p == [conn |-> c, way |-> "original", data |-> data,
                 ct |-> IF invalid THEN "invalid"
                        ELSE IF track[c] = "established" THEN "established" ELSE "new",
                 mark |-> IF invalid THEN "none" ELSE mark[c],
                 fresh |-> track[c] = "none", may |-> MayBegin(rules, leases, c)]
           v == Verdict(rules, leases, p)
<1>0. MayBegin(rules, leases, c) \in BOOLEAN
  BY DEF MayBegin
<1>1. p \in Packet
  BY <1>0 DEF TypeOK, Packet
<1>2. /\ p.conn = c /\ p.way = "original" /\ p.data = data /\ p.may = MayBegin(rules, leases, c)
      /\ p.fresh <=> track[c] = "none"
      /\ p.ct = "invalid" <=> invalid
      /\ ~invalid => p.mark = mark[c]
      /\ invalid => p.mark = "none"
      /\ p.ct = "established" => track[c] = "established"
      /\ track[c] = "none" /\ ~invalid => p.ct = "new"
  OBVIOUS
<1>3. \/ v = "accept" /\ Deliver(p, p.mark) /\ UNCHANGED queue
      \/ v = "queue" /\ Enqueue(p) /\ UNCHANGED track
      \/ UNCHANGED <<Kernel, answered, queue, History>>
  BY DEF Send
<1>4. rules \in Config \cup {None} /\ leases \in SUBSET Addr
  BY DEF TypeOK
<1> HIDE DEF p
<1>5. p.mark \in {"none", "pending", "accept"}
  BY <1>1 DEF Packet
<1>6. ASSUME v # "drop", ~invalid, track[c] = "none"
      PROVE  p.may
  <2>1. p.mark = "none" /\ p.ct = "new"
    BY <1>2, <1>6 DEF Rest, Untracked
  <2> QED BY <1>1, <1>2, <1>4, <1>6, <2>1, ChainsArePolicy
<1>7. CASE UNCHANGED <<Kernel, History>> /\ queue' \subseteq queue
  BY <1>7, StillKeeps
<1>8. CASE v = "accept" /\ Deliver(p, p.mark) /\ UNCHANGED queue /\ ~invalid
  <2>1. exempt \subseteq exempt'
        /\ (~Inspects(rules, c) /\ (data \/ track[c] = "none") => c \in exempt')
    BY <1>2, <1>8 DEF Deliver
  <2>2. Inspects(rules, c) =>
          mark[c] = "accept" \/ (track[c] = "established" /\ mark[c] = "none")
    BY <1>1, <1>2, <1>8, AcceptedInspected
  <2>3. track[c] = "established" /\ mark[c] = "none" => c \in exempt'
    BY <2>1 DEF Rest, Unmarked
  <2>4. mark[c] = "none" => c \in exempt'
    BY <2>1, <2>2 DEF Rest, Unmarked
  <2>5. mark[c] = "accept" => Unblocked(c)
    BY DEF Rest, Passed
  <2>6. data => c \in exempt' \/ (Unblocked(c) /\ mark[c] # "pending")
    BY <2>1, <2>2, <2>3, <2>5
  <2>7. c \in carried /\ mark[c] = "pending" => c \in exempt'
    BY <2>1 DEF Rest, Served
  <2>8. c.hook = "output" => mark[c] = "none"
    BY DEF Rest, Outgoing
  <2>9. p.ct # "invalid" /\ p.mark = mark[c]
    BY <1>2, <1>8
  <2> QED
    BY <1>1, <1>2, <1>5, <1>6, <1>8, <2>4, <2>5, <2>6, <2>7, <2>8, <2>9, DeliverKeeps
<1>9. CASE v = "accept" /\ Deliver(p, p.mark) /\ UNCHANGED queue /\ invalid
  BY <1>2, <1>9, <1>7 DEF Deliver
<1>10. CASE v = "queue" /\ Enqueue(p) /\ UNCHANGED track
  <2>1. p.mark # "accept" /\ (p.mark = "pending" \/ p.ct = "new") /\ c.hook # "output"
    BY <1>1, <1>2, <1>10, QueuedUnjudged
  <2>2. ~invalid
    BY <1>2, <2>1
  <2>3. IF p.fresh THEN p.may /\ p.way = "original" ELSE track[p.conn] # "none"
    BY <1>2, <1>6, <1>10, <2>2
  <2>4. track' \in [Conn -> {"none", "new", "established"}]
    BY <1>10 DEF TypeOK
  <2> QED BY <1>1, <1>2, <1>10, <2>1, <2>2, <2>3, <2>4, EnqueueKeeps
<1> QED BY <1>3, <1>7, <1>8, <1>9, <1>10

LEMMA ReplyKeeps ==
  ASSUME TypeOK, Rest, NEW c \in Conn, NEW data \in BOOLEAN, Reply(c, data)
  PROVE  Rest'
<1> DEFINE p == [conn |-> c, way |-> "reply", data |-> data, ct |-> "established",
                 mark |-> mark[c], fresh |-> FALSE, may |-> FALSE]
           v == Verdict(rules, leases, p)
<1>1. p \in Packet
  BY DEF TypeOK, Packet
<1>2. /\ p.conn = c /\ p.way = "reply" /\ p.ct = "established" /\ p.mark = mark[c]
      /\ p.fresh = FALSE
  OBVIOUS
<1>3. /\ track[c] # "none"
      /\ track' = [track EXCEPT ![c] = "established"]
      /\ \/ UNCHANGED <<mark, queue, History>>
         \/ v = "queue" /\ Enqueue(p)
  BY DEF Reply
<1> HIDE DEF p
<1>4. /\ track' \in [Conn -> {"none", "new", "established"}]
      /\ \A d \in Conn : track'[d] = "none" <=> track[d] = "none"
  BY <1>3 DEF TypeOK
<1>5. CASE UNCHANGED <<mark, queue, History>>
  BY <1>4, <1>5, StillKeeps
<1>6. CASE v = "queue" /\ Enqueue(p)
  <2>1. p.mark # "accept" /\ p.mark = "pending"
    BY <1>1, <1>2, <1>6, QueuedUnjudged
  <2>2. c.hook # "output"
    BY <1>2, <2>1 DEF Rest, Outgoing
  <2> QED BY <1>1, <1>2, <1>3, <1>4, <1>6, <2>1, <2>2, EnqueueKeeps
<1> QED BY <1>3, <1>5, <1>6

LEMMA JudgeKeeps ==
  ASSUME TypeOK, Rest, NEW p \in queue, Judge(p)
  PROVE  Rest'
<1> DEFINE c == p.conn
           m == IF Final(p) THEN "accept" ELSE IF p.fresh THEN "pending" ELSE mark[c]
           lost == \/ c.proto = "tcp" /\ p.data /\ c.app \in dpi
                   \/ c.proto = "tcp" /\ p.fresh /\ track[c] # "none"
<1>1. p \in Packet /\ c \in Conn /\ mark[c] \in {"none", "pending", "accept"}
  BY DEF TypeOK, Packet
<1>2. /\ IF p.fresh THEN p.may /\ p.way = "original" ELSE track[c] # "none"
      /\ p.ct # "invalid" /\ c.hook # "output"
  BY DEF Rest, Queued
<1>3. /\ queue' = queue \ {p}
      /\ IF lost THEN UNCHANGED <<Kernel, answered, History>> ELSE Deliver(p, m)
  BY DEF Judge
<1>4. CASE lost
  BY <1>3, <1>4, StillKeeps
<1>5. CASE ~lost
  <2>1. Deliver(p, m) /\ exempt \subseteq exempt'
    BY <1>3, <1>5 DEF Deliver
  <2>2. m \in {"none", "pending", "accept"}
    BY <1>1
  <2>3. Final(p) => Unblocked(c)
    <3>1. PICK r \in Config : dpi = r.block /\ r.block # {}
      BY DEF Judge, TypeOK
    <3> QED BY <1>5, <3>1 DEF Final, Unblocked, Blocks
  <2>4. m = "accept" => Unblocked(c)
    BY <1>1, <2>3 DEF Rest, Passed
  <2>5. m = "none" => c \in exempt'
    BY <1>1, <1>2, <2>1 DEF Rest, Unmarked
  <2>6. p.data => Final(p)
    BY DEF Final
  <2>7. c \in carried /\ m = "pending" => c \in exempt'
    <3>1. ASSUME ~Final(p), p.fresh PROVE c \notin carried
      BY <1>1, <1>5, <3>1 DEF Final, Rest, Untracked
    <3> QED BY <1>1, <2>1, <3>1 DEF Rest, Served
  <2>8. track[c] = "none" => p.may
    BY <1>2
  <2>9. p.data /\ p.way = "original" => Unblocked(c) /\ m # "pending"
    BY <2>3, <2>6
  <2> HIDE DEF m
  <2> QED
    BY <1>1, <1>2, <1>3, <2>1, <2>2, <2>4, <2>5, <2>7, <2>8, <2>9, DeliverKeeps
<1> QED BY <1>4, <1>5

LEMMA ForgetKeeps ==
  ASSUME TypeOK, Rest, NEW c \in Conn, Forget(c)
  PROVE  Rest'
<1>1. /\ \A d \in Conn : d # c => track'[d] = track[d] /\ mark'[d] = mark[d]
      /\ track'[c] = "none" /\ mark'[c] = "none"
  BY DEF TypeOK, Forget
<1>2. /\ queue' = queue /\ \A p \in queue : p.conn # c /\ p.conn \in Conn
      /\ admitted' = admitted \ {c} /\ carried' = carried \ {c} /\ exempt' = exempt \ {c}
  BY DEF TypeOK, Forget, Packet
<1>3. Queued'
  BY <1>1, <1>2 DEF Rest, Queued
<1>4. Untracked' /\ Unmarked' /\ Outgoing' /\ OnlyAdmitted'
  BY <1>1, <1>2 DEF Rest, Untracked, Unmarked, Outgoing, OnlyAdmitted
<1>5. Passed' /\ BlockedStaysOut'
  BY <1>1, <1>2 DEF Rest, Passed, Unblocked, BlockedStaysOut
<1>6. Served'
  BY <1>1, <1>2 DEF TypeOK, Rest, Served
<1> QED BY <1>3, <1>4, <1>5, <1>6 DEF Rest

LEMMA Invariant == Spec => [](TypeOK /\ Rest)
<1>1. Init => TypeOK /\ Rest
  <2> SUFFICES ASSUME Init PROVE TypeOK /\ Rest
    OBVIOUS
  <2>1. TypeOK
    BY DEF Init, TypeOK
  <2> QED
    BY <2>1 DEF Init, Rest, Queued, Untracked, Unmarked, Passed, Served, Outgoing,
      OnlyAdmitted, BlockedStaysOut
<1>2. TypeOK /\ Rest /\ [Next]_vars => TypeOK' /\ Rest'
  <2> SUFFICES ASSUME TypeOK, Rest, [Next]_vars PROVE Rest'
    BY TypeStep
  <2>1. ASSUME NEW p \in queue, Lose(p) PROVE Rest'
    BY <2>1, StillKeeps DEF Lose
  <2>2. CASE DeleteTable \/ Detach
    BY <2>2, StillKeeps DEF DeleteTable, Detach
  <2>3. ASSUME NEW r \in Config, LoadTable(r) \/ Attach(r) PROVE Rest'
    BY <2>3, StillKeeps DEF LoadTable, Attach
  <2>4. ASSUME NEW a \in Addr, Grant(a) \/ Expire(a) PROVE Rest'
    BY <2>4, StillKeeps DEF Grant, Expire
  <2>5. CASE UNCHANGED vars
    BY <2>5, StillKeeps DEF vars
  <2> QED
    BY <2>1, <2>2, <2>3, <2>4, <2>5, SendKeeps, ReplyKeeps, JudgeKeeps, ForgetKeeps DEF Next
<1> QED BY <1>1, <1>2, PTL DEF Spec

----------------------------------------------------------------------------
(* The properties *)

\* Connections exist only if the policy let them begin.
THEOREM PolicyDecides == Spec => []OnlyAdmitted
<1>1. Rest => OnlyAdmitted
  BY DEF Rest
<1> QED BY <1>1, Invariant, PTL

\* What every configuration blocks is not served where it is to be blocked.
THEOREM BlockingHolds == Spec => []BlockedStaysOut
<1>1. Rest => BlockedStaysOut
  BY DEF Rest
<1> QED BY <1>1, Invariant, PTL

\* A session that is served is not cut by other rules.
THEOREM ReloadsSpare == Spec => []SessionsSurvive
<1>1. Rest => SessionsSurvive
  BY EstablishedPasses DEF Rest, Served, SessionsSurvive
<1> QED BY <1>1, Invariant, PTL

\* Services of the host and those it asks are heard.
THEOREM RepliesHeard == Spec => []RepliesPass
<1>1. TypeOK /\ Rest => RepliesPass
  <2> SUFFICES ASSUME TypeOK, Rest, NEW c \in Conn, c.hook # "forward" PROVE Heard(c)
    BY DEF RepliesPass
  <2> DEFINE p == [conn |-> c, way |-> "reply", data |-> FALSE, ct |-> "established",
                   mark |-> mark[c], fresh |-> FALSE, may |-> FALSE]
  <2>1. CASE c.hook = "output"
    <3>1. p.ct = "established" /\ p.mark # "pending"
      BY <2>1 DEF Rest, Outgoing
    <3> HIDE DEF p
    <3>2. Verdict(rules, leases, p) = "accept"
      BY <3>1, EstablishedPasses
    <3> USE DEF p
    <3> QED BY <3>2 DEF Heard
  <2>2. CASE c.hook = "input"
    BY <2>2 DEF Heard, Verdict, Egress
  <2> QED BY <2>1, <2>2, FilterAssumption DEF Connection
<1> QED BY <1>1, Invariant, PTL
=============================================================================
