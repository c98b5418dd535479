---------------------------- MODULE LeaseProofs ----------------------------
(***************************************************************************)
(* Theorems about Lease, for any number of requests and deliveries, any    *)
(* window and any clock.                                                   *)
(***************************************************************************)
EXTENDS Lease, TLAPS

\* What keeps requests from taking effect twice: no sender's clock is so far
\* ahead that its request outlives the nonce its first delivery records, not
\* even with the time a handler takes to look for that nonce.
Synchronised == \A s \in Skew : s + Stall <= 0

Adding(c, r) == pc[c] = "add" /\ job[c].req = r

\* Too old for any handler to be still at work on.
Dead(r) == clock > msg[r].ts + Window + Stall

\* A handler at work made its checks a short time ago, and they held then.
Timely ==
  \A c \in Handling :
    /\ job[c].req \in sent
    /\ job[c].at <= clock /\ clock <= job[c].at + Stall
    /\ job[c].at <= msg[job[c].req].ts + Window

\* A request was signed in the past, going by its own time.
Signed == \A r \in sent : msg[r].ts + Stall <= clock
CheckedLater == \A c \in Handling : msg[job[c].req].ts + Stall <= job[c].at

\* A nonce is kept until its request is too old to be at work on.
Kept ==
  \A r \in recorded : r \in sent /\ msg[r].ts + Window + Stall <= expires[r]

\* One handler at most is about to write a request, or it was written; then
\* its nonce is recorded, or no longer needed.
Single ==
  \A r \in Req :
    /\ granted[r] <= 1
    /\ \A c \in Conn : Adding(c, r) => granted[r] = 0
    /\ \A c, d \in Conn : Adding(c, r) /\ Adding(d, r) => c = d
    /\ granted[r] > 0 \/ (\E c \in Conn : Adding(c, r))
         => r \in sent /\ (r \in recorded \/ Dead(r))

IInv == TypeOK /\ Timely /\ Signed /\ CheckedLater /\ Kept /\ Single

USE LeaseAssumption

LEMMA InitType == Init => TypeOK
  BY DEF Init, TypeOK, PC

LEMMA TypeInductive == TypeOK /\ [Next]_vars => TypeOK'
<1> SUFFICES ASSUME TypeOK, [Next]_vars PROVE TypeOK'
  OBVIOUS
<1> USE DEF TypeOK, PC
<1>1. CASE Tick
  BY <1>1 DEF Tick, Sender, Store, Table
<1>2. ASSUME NEW r \in Req, NEW skew \in Skew, Send(r, skew) PROVE TypeOK'
  BY <1>2 DEF Send, Store, Table
<1>3. ASSUME NEW c \in Conn, NEW r \in Req, Verify(c, r) PROVE TypeOK'
  BY <1>3 DEF Verify, Goto, Sender, Store, Table
<1>4. ASSUME NEW c \in Conn, Purge(c) PROVE TypeOK'
  BY <1>4 DEF Purge, Goto, Sender, Table
<1>5. ASSUME NEW c \in Conn, Insert(c) PROVE TypeOK'
  <2>1. job[c].req \in Req /\ job[c].at + Window \in Int
    OBVIOUS
  <2>2. recorded' \in SUBSET Req /\ expires' \in [Req -> Int]
    BY <1>5, <2>1 DEF Insert, Store
  <2>3. pc' \in [Conn -> PC]
    BY <1>5 DEF Insert, Goto
  <2>4. QED
    BY <1>5, <2>2, <2>3 DEF Insert, Sender, Table
<1>6. ASSUME NEW c \in Conn, AddLease(c) PROVE TypeOK'
  <2>1. job[c].req \in Req /\ msg[job[c].req].prefix \in Prefix
        /\ msg[job[c].req].ttl \in Nat
    OBVIOUS
  <2>2. lease' \in [Prefix -> Nat]
    BY <1>6, <2>1 DEF AddLease
  <2>3. used' \in [Prefix -> Nat] /\ granted' \in [Req -> Nat]
    BY <1>6, <2>1 DEF AddLease
  <2>4. pc' \in [Conn -> PC]
    BY <1>6 DEF AddLease, Goto
  <2>5. QED
    BY <1>6, <2>2, <2>3, <2>4 DEF AddLease, Sender, Store
<1>7. ASSUME NEW p \in Prefix, Packet(p) PROVE TypeOK'
  BY <1>7 DEF Packet, Sender, Store
<1>8. CASE DropTable \/ LoadTable
  <2>1. lease' \in [Prefix -> Nat]
    BY <1>8 DEF DropTable, LoadTable
  <2>2. QED
    BY <1>8, <2>1 DEF DropTable, LoadTable, Sender, Store
<1>12. CASE TakeSnapshot
  <2>1. \A p \in Prefix : Left(p) \in Nat
    BY DEF Left
  <2>2. snap' \in [Prefix -> Nat]
    BY <1>12, <2>1 DEF TakeSnapshot
  <2>3. QED
    BY <1>12, <2>2 DEF TakeSnapshot, Sender, Store
<1>13. CASE Replay
  <2>1. PICK back \in SUBSET {p \in Prefix : snap[p] > 0} :
          /\ lease' = [p \in Prefix |-> IF p \in back THEN clock + snap[p] ELSE lease[p]]
          /\ used' = [p \in Prefix |-> IF p \in back THEN clock ELSE used[p]]
    BY <1>13 DEF Replay
  <2>2. lease' \in [Prefix -> Nat] /\ used' \in [Prefix -> Nat]
    BY <2>1
  <2>3. QED
    BY <1>13, <2>2 DEF Replay, Sender, Store
<1>9. CASE StopAgent \/ Crash \/ StartAgent
  BY <1>9 DEF StopAgent, Crash, StartAgent, Sender, Store, Table
<1>10. CASE UNCHANGED vars
  BY <1>10 DEF vars
<1>11. QED
  BY <1>1, <1>2, <1>3, <1>4, <1>5, <1>6, <1>7, <1>8, <1>9, <1>10, <1>12, <1>13 DEF Next, Handle

\* The agent's state stays of its types, whatever senders and restarts do.
THEOREM TypeCorrect == Spec => []TypeOK
  BY InitType, TypeInductive, PTL DEF Spec

----------------------------------------------------------------------------
(* Handlers are in time *)

LEMMA TimelyInductive == TypeOK /\ Timely /\ [Next]_vars => Timely'
<1> SUFFICES ASSUME TypeOK, Timely, [Next]_vars PROVE Timely'
  OBVIOUS
<1> USE DEF TypeOK, Timely, Handling
<1>1. CASE Tick
  BY <1>1 DEF Tick, Sender, Store, Table
<1>2. ASSUME NEW r \in Req, NEW skew \in Skew, Send(r, skew) PROVE Timely'
  <2> SUFFICES ASSUME NEW c \in Handling' PROVE
        /\ job'[c].req \in sent'
        /\ job'[c].at <= clock' /\ clock' <= job'[c].at + Stall
        /\ job'[c].at <= msg'[job'[c].req].ts + Window
    OBVIOUS
  <2>1. c \in Handling /\ job[c].req \in sent /\ job[c].req # r
    BY <1>2 DEF Send
  <2>2. msg'[job[c].req] = msg[job[c].req]
    BY <1>2, <2>1 DEF Send
  <2>3. QED
    BY <1>2, <2>1, <2>2 DEF Send
<1>3. ASSUME NEW c \in Conn, NEW r \in Req, Verify(c, r) PROVE Timely'
  <2> SUFFICES ASSUME NEW d \in Handling' PROVE
        /\ job'[d].req \in sent'
        /\ job'[d].at <= clock' /\ clock' <= job'[d].at + Stall
        /\ job'[d].at <= msg'[job'[d].req].ts + Window
    OBVIOUS
  <2>1. CASE d = c
    <3>1. job'[c] = [req |-> r, at |-> clock] /\ pc'[c] \in {"purge", "refused"}
      BY <1>3 DEF Verify, Goto
    <3>2. InWindow(msg[r].ts) /\ r \in sent
      BY <1>3, <2>1, <3>1 DEF Verify, Goto
    <3>3. QED
      BY <1>3, <2>1, <3>1, <3>2 DEF Verify, InWindow, Sender
  <2>2. CASE d # c
    <3>1. d \in Handling /\ job'[d] = job[d]
      BY <1>3, <2>2 DEF Verify, Goto
    <3>2. QED
      BY <1>3, <3>1 DEF Verify, Sender
  <2>3. QED
    BY <2>1, <2>2
<1>4. ASSUME NEW c \in Conn, Purge(c) \/ Insert(c) \/ AddLease(c) PROVE Timely'
  <2>1. Handling' \subseteq Handling /\ UNCHANGED <<clock, sent, msg, job>>
    BY <1>4 DEF Purge, Insert, AddLease, Goto, Sender
  <2>2. QED
    BY <2>1
<1>5. ASSUME NEW p \in Prefix, Packet(p) PROVE Timely'
  BY <1>5 DEF Packet, Sender
<1>6. CASE DropTable \/ LoadTable \/ TakeSnapshot \/ Replay
  BY <1>6 DEF DropTable, LoadTable, TakeSnapshot, Replay, Sender
<1>7. CASE StopAgent \/ Crash \/ StartAgent
  <2>1. Handling' \subseteq Handling /\ UNCHANGED <<clock, sent, msg, job>>
    BY <1>7 DEF StopAgent, Crash, StartAgent, Sender
  <2>2. QED
    BY <2>1
<1>8. CASE UNCHANGED vars
  BY <1>8 DEF vars
<1>9. QED
  BY <1>1, <1>2, <1>3, <1>4, <1>5, <1>6, <1>7, <1>8 DEF Next, Handle

----------------------------------------------------------------------------
(* At most once *)

\* What a step does with the nonces: only Purge forgets, and only old ones.
LEMMA Forgotten ==
  ASSUME TypeOK, Timely, Kept, Next,
         NEW r \in recorded, r \notin recorded'
  PROVE  Dead(r) /\ UNCHANGED <<clock, msg, sent, granted, job>>
<1>1. PICK c \in Conn : Purge(c)
  BY DEF Next, Handle, Tick, Send, Verify, Insert, AddLease, Packet, DropTable,
         LoadTable, TakeSnapshot, Replay, StopAgent, Crash, StartAgent, Store
<1>2. expires[r] < job[c].at /\ c \in Handling
  BY <1>1 DEF Purge, TypeOK, Handling
<1>3. job[c].at <= clock /\ msg[r].ts + Window + Stall <= expires[r]
  BY <1>2 DEF Timely, Kept
<1>4. r \in Req
  BY DEF TypeOK
<1>5. QED
  BY <1>1, <1>2, <1>3, <1>4 DEF Dead, Purge, Sender, TypeOK

\* Steps of the table and of the agent touch neither requests nor nonces.
Background ==
  (\E p \in Prefix : Packet(p)) \/ DropTable \/ LoadTable
  \/ TakeSnapshot \/ Replay \/ StopAgent \/ Crash \/ StartAgent

LEMMA BackgroundFrame ==
  ASSUME TypeOK, Background \/ UNCHANGED vars
  PROVE  /\ UNCHANGED <<clock, sent, msg, recorded, expires, job, granted>>
         /\ Handling' \subseteq Handling
         /\ \A c \in Conn, r \in Req : Adding(c, r)' => Adding(c, r)
  BY DEF Background, Packet, DropTable, LoadTable, TakeSnapshot, Replay, StopAgent, Crash, StartAgent,
         vars, Sender, Store, Handling, Adding, TypeOK

LEMMA SignedInductive ==
  Synchronised /\ TypeOK /\ Timely /\ Signed /\ CheckedLater /\ [Next]_vars
    => Signed' /\ CheckedLater'
<1> SUFFICES ASSUME Synchronised, TypeOK, Timely, Signed, CheckedLater, [Next]_vars
             PROVE  Signed' /\ CheckedLater'
  OBVIOUS
<1> USE DEF TypeOK, Signed, CheckedLater
<1>1. CASE Tick
  BY <1>1 DEF Tick, Sender, Handling
<1>2. ASSUME NEW r \in Req, NEW skew \in Skew, Send(r, skew)
      PROVE  Signed' /\ CheckedLater'
  <2>1. msg'[r].ts = clock + skew /\ skew + Stall <= 0 /\ skew \in Int
    BY <1>2 DEF Send, Synchronised
  <2>2. \A q \in sent : q # r /\ msg'[q] = msg[q]
    BY <1>2 DEF Send
  <2>3. Signed'
    BY <1>2, <2>1, <2>2 DEF Send
  <2>4. Handling' = Handling /\ job' = job /\ \A c \in Handling : job[c].req \in sent
    BY <1>2 DEF Send, Handling, Timely
  <2>5. CheckedLater'
    BY <2>2, <2>4
  <2>6. QED
    BY <2>3, <2>5
<1>3. ASSUME NEW c \in Conn, NEW r \in Req, Verify(c, r)
      PROVE  Signed' /\ CheckedLater'
  <2>1. Signed' /\ msg[r].ts + Stall <= clock
    BY <1>3 DEF Verify, Sender
  <2>2. ASSUME NEW d \in Handling' PROVE msg'[job'[d].req].ts + Stall <= job'[d].at
    <3>1. CASE d = c
      BY <1>3, <2>1, <3>1 DEF Verify, Sender
    <3>2. CASE d # c
      BY <1>3, <3>2 DEF Verify, Goto, Sender, Handling
    <3>3. QED
      BY <3>1, <3>2
  <2>3. QED
    BY <2>1, <2>2
<1>4. ASSUME NEW c \in Conn, Purge(c) \/ Insert(c) \/ AddLease(c)
      PROVE  Signed' /\ CheckedLater'
  <2>1. Handling' \subseteq Handling /\ UNCHANGED <<clock, sent, msg, job>>
    BY <1>4 DEF Purge, Insert, AddLease, Goto, Sender, Handling
  <2>2. QED
    BY <2>1
<1>5. CASE Background \/ UNCHANGED vars
  BY <1>5, BackgroundFrame
<1>6. QED
  BY <1>1, <1>2, <1>3, <1>4, <1>5 DEF Next, Handle, Background

LEMMA KeptInductive ==
  TypeOK /\ Timely /\ CheckedLater /\ Kept /\ [Next]_vars => Kept'
<1> SUFFICES ASSUME TypeOK, Timely, CheckedLater, Kept, [Next]_vars PROVE Kept'
  OBVIOUS
<1> USE DEF TypeOK, Kept
<1>1. CASE Tick
  BY <1>1 DEF Tick, Sender, Store
<1>2. ASSUME NEW r \in Req, NEW skew \in Skew, Send(r, skew) PROVE Kept'
  <2>1. \A q \in recorded : q # r /\ msg'[q] = msg[q]
    BY <1>2 DEF Send
  <2>2. QED
    BY <1>2, <2>1 DEF Send, Store
<1>3. ASSUME NEW c \in Conn, NEW r \in Req, Verify(c, r) PROVE Kept'
  BY <1>3 DEF Verify, Sender, Store
<1>4. ASSUME NEW c \in Conn, Purge(c) PROVE Kept'
  BY <1>4 DEF Purge, Sender
<1>5. ASSUME NEW c \in Conn, Insert(c) PROVE Kept'
  <2> DEFINE r == job[c].req
  <2>1. r \in sent /\ msg[r].ts + Stall <= job[c].at /\ r \in Req
    BY <1>5 DEF Insert, Handling, Timely, CheckedLater
  <2>2. CASE r \in recorded
    BY <1>5, <2>2 DEF Insert, Sender, Store
  <2>3. CASE r \notin recorded
    <3>1. recorded' = recorded \cup {r} /\ UNCHANGED <<sent, msg>>
          /\ expires' = [expires EXCEPT ![r] = job[c].at + Window]
      BY <1>5, <2>3 DEF Insert, Sender
    <3>2. QED
      BY <2>1, <2>3, <3>1
  <2>4. QED
    BY <2>2, <2>3
<1>6. ASSUME NEW c \in Conn, AddLease(c) PROVE Kept'
  BY <1>6 DEF AddLease, Sender, Store
<1>7. CASE Background \/ UNCHANGED vars
  BY <1>7, BackgroundFrame
<1>8. QED
  BY <1>1, <1>2, <1>3, <1>4, <1>5, <1>6, <1>7 DEF Next, Handle, Background

\* Single, of one request.
SingleOf(r) ==
  /\ granted[r] <= 1
  /\ \A c \in Conn : Adding(c, r) => granted[r] = 0
  /\ \A c, d \in Conn : Adding(c, r) /\ Adding(d, r) => c = d
  /\ granted[r] > 0 \/ (\E c \in Conn : Adding(c, r))
       => r \in sent /\ (r \in recorded \/ Dead(r))

LEMMA SingleInductive ==
  TypeOK /\ Timely /\ Kept /\ Single /\ [Next]_vars => Single'
<1> SUFFICES ASSUME TypeOK, Timely, Kept, Single, [Next]_vars, NEW r \in Req
             PROVE  SingleOf(r)'
  BY DEF Single, SingleOf
<1>0. SingleOf(r)
  BY DEF Single, SingleOf
<1> USE DEF TypeOK, SingleOf
<1>1. CASE Tick
  <2>1. UNCHANGED <<sent, msg, recorded, granted, pc, job>> /\ clock' = clock + 1
    BY <1>1 DEF Tick, Sender, Store
  <2>2. Dead(r) => Dead(r)'
    BY <2>1 DEF Dead
  <2>3. QED
    BY <1>0, <2>1, <2>2 DEF Adding
<1>2. ASSUME NEW q \in Req, NEW skew \in Skew, Send(q, skew) PROVE SingleOf(r)'
  <2>1. UNCHANGED <<clock, recorded, granted, pc, job>> /\ sent \subseteq sent'
    BY <1>2 DEF Send, Store
  <2>2. r \in sent => msg'[r] = msg[r]
    BY <1>2 DEF Send
  <2>3. QED
    BY <1>0, <2>1, <2>2 DEF Adding, Dead
<1>3. ASSUME NEW c \in Conn, NEW q \in Req, Verify(c, q) PROVE SingleOf(r)'
  <2>1. UNCHANGED <<clock, sent, msg, recorded, granted>>
    BY <1>3 DEF Verify, Sender, Store
  <2>2. \A d \in Conn : Adding(d, r)' => Adding(d, r)
    BY <1>3 DEF Verify, Goto, Adding
  <2>3. QED
    BY <1>0, <2>1, <2>2 DEF Dead
<1>4. ASSUME NEW c \in Conn, Purge(c) PROVE SingleOf(r)'
  <2>1. UNCHANGED <<clock, sent, msg, granted, job>>
        /\ \A d \in Conn : Adding(d, r)' => Adding(d, r)
    BY <1>4 DEF Purge, Goto, Adding, Sender
  <2>2. r \in recorded => r \in recorded' \/ Dead(r)
    BY <1>4, Forgotten DEF Next, Handle
  <2>3. QED
    BY <1>0, <2>1, <2>2 DEF Dead
<1>5. ASSUME NEW c \in Conn, Insert(c) PROVE SingleOf(r)'
  <2> DEFINE frame == /\ UNCHANGED <<clock, sent, msg, granted, job>>
                      /\ recorded \subseteq recorded'
                      /\ \A d \in Conn : d # c => pc'[d] = pc[d]
  <2>1. frame
    <3>1. CASE job[c].req \in recorded
      BY <1>5, <3>1 DEF Insert, Goto, Sender, Store
    <3>2. CASE job[c].req \notin recorded
      BY <1>5, <3>2 DEF Insert, Goto, Sender
    <3>3. QED
      BY <3>1, <3>2
  <2>2. CASE ~Adding(c, r)'
    <3>1. \A d \in Conn : Adding(d, r)' => Adding(d, r)
      BY <2>1, <2>2 DEF Adding
    <3>2. QED
      BY <1>0, <2>1, <3>1 DEF Dead
  <2>3. CASE Adding(c, r)'
    <3>1. job[c].req = r /\ r \notin recorded /\ r \in recorded' /\ c \in Handling
      BY <1>5, <2>1, <2>3 DEF Insert, Goto, Adding, Handling
    <3>2. r \in sent /\ ~Dead(r)
      BY <3>1 DEF Timely, Dead
    <3>3. granted[r] = 0 /\ \A d \in Conn : ~Adding(d, r)
      BY <1>0, <3>1, <3>2
    <3>4. \A d \in Conn : Adding(d, r)' => d = c
      BY <2>1, <3>3 DEF Adding
    <3>5. granted'[r] = 0 /\ r \in sent' /\ r \in recorded'
      BY <2>1, <3>1, <3>2, <3>3
    <3>6. QED
      BY <3>4, <3>5
  <2>4. QED
    BY <2>2, <2>3
<1>6. ASSUME NEW c \in Conn, AddLease(c) PROVE SingleOf(r)'
  <2>1. /\ UNCHANGED <<clock, sent, msg, recorded, job>>
        /\ \A d \in Conn : Adding(d, r)' => Adding(d, r) /\ d # c
    BY <1>6 DEF AddLease, Goto, Adding, Sender, Store
  <2>2. CASE granted'[r] = granted[r]
    BY <1>0, <2>1, <2>2 DEF Dead
  <2>3. CASE granted'[r] # granted[r]
    <3>1. job[c].req = r /\ granted'[r] = granted[r] + 1 /\ Adding(c, r)
      BY <1>6, <2>3 DEF AddLease, Adding
    <3>2. granted'[r] = 1 /\ \A d \in Conn : ~Adding(d, r)'
      BY <1>0, <2>1, <3>1
    <3>3. QED
      BY <1>0, <2>1, <3>1, <3>2 DEF Dead
  <2>4. QED
    BY <2>2, <2>3
<1>7. CASE Background \/ UNCHANGED vars
  BY <1>0, <1>7, BackgroundFrame DEF Dead
<1>8. QED
  BY <1>1, <1>2, <1>3, <1>4, <1>5, <1>6, <1>7 DEF Next, Handle, Background

LEMMA InitInv == Init => IInv
  BY InitType DEF Init, IInv, Timely, Signed, CheckedLater, Kept, Single,
                  Handling, Adding, TypeOK

LEMMA Inductive == Synchronised /\ IInv /\ [Next]_vars => IInv'
  BY TypeInductive, TimelyInductive, SignedInductive, KeptInductive,
     SingleInductive DEF IInv

LEMMA InvImplies == IInv => AtMostOnce
  BY DEF IInv, Single, AtMostOnce

\* With synchronised senders a request opens the table once at most, for any
\* number of deliveries, handlers and restarts.
THEOREM OnceOnly == Synchronised => (Spec => []AtMostOnce)
<1> SUFFICES ASSUME Synchronised PROVE Spec => []AtMostOnce
  OBVIOUS
<1>1. Init => IInv
  BY InitInv
<1>2. IInv /\ [Next]_vars => IInv'
  BY Inductive
<1>3. QED
  BY <1>1, <1>2, InvImplies, PTL DEF Spec

LEMMA ForgottenStep ==
  IInv /\ [Next]_vars
    => [\A r \in recorded \ recorded' : clock > msg[r].ts + Window + Stall]_vars
<1> SUFFICES ASSUME IInv, Next, NEW r \in recorded \ recorded'
             PROVE  clock > msg[r].ts + Window + Stall
  BY DEF vars
<1>1. Dead(r) /\ r \in Req
  BY Forgotten DEF IInv, TypeOK
<1>2. QED
  BY <1>1 DEF Dead, IInv, TypeOK

\* With synchronised senders no nonce is forgotten while its request could
\* still be verified, or a handler that verified it still be at work.
THEOREM NoncesKept == Synchronised => (Spec => NonceOutlivesRequest)
<1> SUFFICES ASSUME Synchronised PROVE Spec => NonceOutlivesRequest
  OBVIOUS
<1>1. Init => IInv
  BY InitInv
<1>2. IInv /\ [Next]_vars => IInv'
  BY Inductive
<1>3. QED
  BY <1>1, <1>2, ForgottenStep, PTL DEF Spec, NonceOutlivesRequest

----------------------------------------------------------------------------
(* A lease ends *)

\* A lease was given, or last prolonged, when its prefix was last heard of or
\* given back, for no longer than one of its times; what is listed has no more
\* than that left.
Bounded ==
  \A p \in Prefix :
    /\ used[p] <= clock
    /\ lease[p] > 0 => \E t \in Times(p) : lease[p] <= used[p] + t
    /\ snap[p] > 0 => \E t \in Times(p) : snap[p] <= t

LEMMA TimesAreNat == TypeOK => \A p \in Prefix : Times(p) \subseteq Nat
<1> SUFFICES ASSUME TypeOK, NEW p \in Prefix, NEW t \in Times(p) PROVE t \in Nat
  OBVIOUS
<1>1. t = IdleTTL \/ \E r \in Req : t = msg[r].ttl
  BY DEF Times
<1>2. QED
  BY <1>1 DEF TypeOK

\* Once a lease can have a time, it always can.
LEMMA TimesGrow ==
  ASSUME TypeOK, [Next]_vars, NEW p \in Prefix
  PROVE  Times(p) \subseteq Times(p)'
<1>1. \A r \in Req : granted[r] > 0 => granted'[r] > 0
  <2>1. ASSUME NEW c \in Conn, AddLease(c)
        PROVE  \A r \in Req : granted[r] > 0 => granted'[r] > 0
    <3>1. granted' \in {granted, [granted EXCEPT ![job[c].req] = @ + 1]}
      BY <2>1 DEF AddLease
    <3>2. QED
      BY <3>1 DEF TypeOK
  <2>2. CASE UNCHANGED granted
    BY <2>2
  <2>3. QED
    BY <2>1, <2>2
       DEF Next, Handle, Tick, Send, Verify, Purge, Insert, Packet, DropTable, LoadTable,
           TakeSnapshot, Replay, StopAgent, Crash, StartAgent, vars
<1>2. \A r \in Req : msg'[r].prefix = msg[r].prefix /\ msg'[r].ttl = msg[r].ttl
  BY DEF Next, Handle, Tick, Send, Verify, Purge, Insert, AddLease, Packet, DropTable,
         LoadTable, TakeSnapshot, Replay, StopAgent, Crash, StartAgent, Sender, TypeOK, vars
<1>3. QED
  BY <1>1, <1>2 DEF Times

\* Bounded, of one prefix.
BoundedOf(p) ==
  /\ used[p] <= clock
  /\ lease[p] > 0 => \E t \in Times(p) : lease[p] <= used[p] + t
  /\ snap[p] > 0 => \E t \in Times(p) : snap[p] <= t

LEMMA BoundedInductive == TypeOK /\ Bounded /\ [Next]_vars => Bounded'
<1> SUFFICES ASSUME TypeOK, Bounded, [Next]_vars, NEW p \in Prefix PROVE BoundedOf(p)'
  BY DEF Bounded, BoundedOf
<1>0. BoundedOf(p) /\ Times(p) \subseteq Times(p)' /\ Times(p) \subseteq Nat
  BY TimesGrow, TimesAreNat DEF Bounded, BoundedOf
<1>1. CASE Tick
  <2>1. clock' = clock + 1 /\ UNCHANGED <<lease, used, snap>> /\ clock \in Nat /\ used[p] \in Nat
    BY <1>1 DEF Tick, Table, TypeOK
  <2>2. QED
    BY <1>0, <2>1 DEF BoundedOf
<1>2. CASE UNCHANGED <<clock, lease, used, snap>>
  BY <1>0, <1>2 DEF BoundedOf
<1>3. ASSUME NEW c \in Conn, AddLease(c) PROVE BoundedOf(p)'
  <2> DEFINE r == job[c].req
             q == msg[r].prefix
             ttl == msg[r].ttl
  <2>1. r \in Req /\ q \in Prefix /\ ttl \in Nat /\ UNCHANGED <<clock, snap, msg>>
    BY <1>3 DEF AddLease, TypeOK, Sender
  <2>2. CASE UNCHANGED <<lease, used>>
    BY <1>0, <2>1, <2>2 DEF BoundedOf
  <2>3. CASE /\ used' = [used EXCEPT ![q] = clock]
             /\ lease' \in {lease, [lease EXCEPT ![q] = clock + ttl]}
             /\ granted' = [granted EXCEPT ![r] = @ + 1]
    <3>1. used'[p] <= clock' /\ used[p] <= used'[p] /\ used[p] \in Nat /\ used'[p] \in Nat
      BY <1>0, <2>1, <2>3 DEF BoundedOf, TypeOK
    <3>2. CASE lease'[p] = lease[p]
      <4>1. lease[p] > 0 => \E t \in Times(p)' : lease'[p] <= used'[p] + t
        BY <1>0, <3>1, <3>2 DEF BoundedOf, TypeOK
      <4>2. QED
        BY <1>0, <2>1, <3>1, <3>2, <4>1 DEF BoundedOf
    <3>3. CASE lease'[p] # lease[p]
      <4>1. p = q /\ lease'[p] = clock + ttl /\ used'[p] = clock
        BY <2>1, <2>3, <3>3 DEF TypeOK
      <4>2. granted'[r] > 0
        BY <2>1, <2>3 DEF TypeOK
      <4>3. ttl \in Times(p)'
        BY <2>1, <4>1, <4>2 DEF Times
      <4>4. QED
        BY <1>0, <2>1, <3>1, <4>1, <4>3 DEF BoundedOf, TypeOK
    <3>4. QED
      BY <3>2, <3>3
  <2>4. QED
    BY <1>3, <2>2, <2>3 DEF AddLease
<1>4. ASSUME NEW q \in Prefix, Packet(q) PROVE BoundedOf(p)'
  <2>1. /\ lease' = [lease EXCEPT ![q] = clock + IdleTTL]
        /\ used' = [used EXCEPT ![q] = clock] /\ UNCHANGED <<clock, snap>>
    BY <1>4 DEF Packet
  <2>2. IdleTTL \in Times(p)'
    BY DEF Times
  <2>3. CASE p = q
    <3>1. lease'[p] = clock + IdleTTL /\ used'[p] = clock /\ clock \in Nat
      BY <2>1, <2>3 DEF TypeOK
    <3>2. QED
      BY <1>0, <2>1, <2>2, <3>1 DEF BoundedOf
  <2>4. CASE p # q
    BY <1>0, <2>1, <2>4 DEF BoundedOf, TypeOK
  <2>5. QED
    BY <2>3, <2>4
<1>5. CASE DropTable
  BY <1>0, <1>5 DEF DropTable, BoundedOf
<1>6. CASE TakeSnapshot
  <2>1. snap'[p] = Left(p) /\ UNCHANGED <<clock, lease, used>>
    BY <1>6 DEF TakeSnapshot
  <2>2. snap'[p] > 0 => \E t \in Times(p) : snap'[p] <= t
    <3>1. SUFFICES ASSUME snap'[p] > 0 PROVE \E t \in Times(p) : snap'[p] <= t
      OBVIOUS
    <3>2. clock < lease[p] /\ snap'[p] = lease[p] - clock
      BY <2>1, <3>1 DEF Left
    <3>3. PICK t \in Times(p) : lease[p] <= used[p] + t
      BY <1>0, <3>2 DEF BoundedOf, TypeOK
    <3>4. QED
      BY <1>0, <3>2, <3>3 DEF BoundedOf, TypeOK
  <2>3. QED
    BY <1>0, <2>1, <2>2 DEF BoundedOf
<1>7. CASE Replay
  <2>1. PICK back \in SUBSET {q \in Prefix : snap[q] > 0} :
          /\ lease' = [q \in Prefix |-> IF q \in back THEN clock + snap[q] ELSE lease[q]]
          /\ used' = [q \in Prefix |-> IF q \in back THEN clock ELSE used[q]]
    BY <1>7 DEF Replay
  <2>2. UNCHANGED <<clock, snap>>
    BY <1>7 DEF Replay
  <2>3. CASE p \in back
    <3>1. lease'[p] = clock + snap[p] /\ used'[p] = clock /\ snap[p] > 0
      BY <2>1, <2>3
    <3>2. PICK t \in Times(p) : snap[p] <= t
      BY <1>0, <3>1 DEF BoundedOf
    <3>3. lease'[p] <= used'[p] + t
      BY <1>0, <3>1, <3>2 DEF TypeOK
    <3>4. used'[p] <= clock'
      BY <2>2, <3>1 DEF TypeOK
    <3>5. QED
      BY <1>0, <2>2, <3>2, <3>3, <3>4 DEF BoundedOf
  <2>4. CASE p \notin back
    BY <1>0, <2>1, <2>2, <2>4 DEF BoundedOf
  <2>5. QED
    BY <2>3, <2>4
<1>8. QED
  BY <1>1, <1>2, <1>3, <1>4, <1>5, <1>6, <1>7
     DEF Next, Handle, Send, Verify, Purge, Insert, LoadTable, StopAgent, Crash,
         StartAgent, Table, vars

\* A lease that is not used ends after the global idle_ttl or that of a request
\* that opened it, counted from its last use or from the replay that brought it
\* back, whatever requests, deliveries and replaced tables there are.
THEOREM IdleEnds == Spec => []EndsWhenIdle
<1>1. Init => Bounded
  BY DEF Init, Bounded
<1>2. TypeOK /\ Bounded => EndsWhenIdle
  <2> SUFFICES ASSUME TypeOK, Bounded, NEW p \in Prefix, InForce(p)
               PROVE  \E t \in Times(p) : clock < used[p] + t
    BY DEF EndsWhenIdle
  <2>1. clock < lease[p] /\ clock \in Nat /\ lease[p] \in Nat /\ used[p] \in Nat
    BY DEF InForce, TypeOK
  <2>2. PICK t \in Times(p) : lease[p] <= used[p] + t
    BY <2>1 DEF Bounded
  <2>3. t \in Nat
    BY TimesAreNat
  <2>4. QED
    BY <2>1, <2>2, <2>3
<1>3. QED
  BY <1>1, <1>2, InitType, TypeInductive, BoundedInductive, PTL DEF Spec

----------------------------------------------------------------------------
(* The agent is a gate *)

LEMMA GateInit == Init => G!Init
  BY DEF Init, G!Init

\* Steps that open, prolong and close nothing are none of the gate's.
LEMMA GateStutter ==
  ASSUME UNCHANGED <<clock, sent, msg, granted, lease, snap>>
  PROVE  UNCHANGED G!vars
  BY DEF G!vars

LEMMA GateStep == TypeOK /\ Timely /\ Single /\ [Next]_vars => [G!Next]_(G!vars)
<1> SUFFICES ASSUME TypeOK, Timely, Single, [Next]_vars PROVE [G!Next]_(G!vars)
  OBVIOUS
<1>1. CASE Tick
  BY <1>1 DEF Tick, Sender, Table, G!Next, G!Pass
<1>2. ASSUME NEW r \in Req, NEW skew \in Skew, Send(r, skew) PROVE G!Next
  <2>1. G!Issue(r, skew)
    BY <1>2 DEF Send, Table, G!Issue
  <2>2. QED
    BY <2>1 DEF G!Next
<1>3. ASSUME NEW c \in Conn, NEW r \in Req, job[c].req = r, AddLease(c)
      PROVE  [G!Next]_(G!vars)
  <2> DEFINE p == msg[r].prefix
  <2>1. /\ c \in Handling /\ pc[c] = "add"
        /\ UNCHANGED <<clock, sent, msg, snap>>
    BY <1>3 DEF AddLease, TypeOK, Handling, Sender
  <2>2. CASE ~ table
    BY <1>3, <2>1, <2>2, GateStutter DEF AddLease
  <2>3. CASE table
    <3>1. r \in sent /\ clock <= msg[r].ts + (Window + Stall)
      <4>1. job[c].req = r
        BY <1>3
      <4>2. /\ job[c].req \in sent /\ clock <= job[c].at + Stall
            /\ job[c].at <= msg[job[c].req].ts + Window
        BY <2>1 DEF Timely
      <4>3. clock \in Nat /\ job[c].at \in Int /\ msg[r].ts \in Int
        BY DEF TypeOK
      <4>4. Window \in Int /\ Stall \in Int
        BY LeaseAssumption
      <4>5. QED
        BY <4>1, <4>2, <4>3, <4>4
    <3>2. granted[r] = 0 /\ granted' = [granted EXCEPT ![r] = granted[r] + 1]
      BY <1>3, <2>1, <2>3 DEF AddLease, Single, Adding
    <3>3. {q \in Req : granted'[q] > 0} = {q \in Req : granted[q] > 0} \cup {r}
          /\ r \notin {q \in Req : granted[q] > 0}
      BY <2>1, <3>2 DEF TypeOK
    <3>4. \/ lease' = [lease EXCEPT ![p] = clock + msg[r].ttl]
          \/ clock < lease[p] /\ lease' = lease
      BY <1>3, <2>3 DEF AddLease, InForce
    <3>5. G!Admit(r)
      BY <2>1, <3>1, <3>3, <3>4 DEF G!Admit, G!Open
    <3>6. QED
      BY <3>5 DEF G!Next
  <2>4. QED
    BY <2>2, <2>3
<1>4. ASSUME NEW p \in Prefix, Packet(p) PROVE G!Next
  <2>1. G!Use(p)
    BY <1>4 DEF Packet, InForce, Sender, G!Use, G!Open
  <2>2. QED
    BY <2>1 DEF G!Next
<1>5. CASE DropTable
  BY <1>5 DEF DropTable, Sender, G!Next, G!CloseAll
<1>6. CASE UNCHANGED <<clock, sent, msg, granted, lease, snap>>
  BY <1>6, GateStutter
<1>9. CASE TakeSnapshot
  BY <1>9 DEF TakeSnapshot, Left, Sender, G!Next, G!Note, G!Open
<1>10. CASE Replay
  <2>1. G!PutBack
    BY <1>10 DEF Replay, Sender, G!PutBack
  <2>2. QED
    BY <2>1 DEF G!Next
<1>7. \A c \in Conn : job[c].req \in Req
  BY DEF TypeOK
<1>8. QED
  BY <1>1, <1>2, <1>3, <1>4, <1>5, <1>6, <1>7, <1>9, <1>10
     DEF Next, Handle, Verify, Purge, Insert, LoadTable, StopAgent, Crash, StartAgent,
         Sender, Table, vars

\* With synchronised senders the agent, with all its handlers, nonces, restarts
\* and tables, implements the gate: it opens a prefix for a request it has not
\* been opened for, in time, or gives one the time back it had when the rules
\* were listed, and in no other way.
THEOREM ImplementsGate == Synchronised => (Spec => Gated)
<1> SUFFICES ASSUME Synchronised PROVE Spec => Gated
  OBVIOUS
<1>1. Init => IInv
  BY InitInv
<1>2. IInv /\ [Next]_vars => IInv'
  BY Inductive
<1>3. IInv /\ [Next]_vars => [G!Next]_(G!vars)
  BY GateStep DEF IInv
<1>4. QED
  BY <1>1, <1>2, <1>3, GateInit, PTL DEF Spec, Gated, G!Spec
=============================================================================
