------------------------------- MODULE Lease -------------------------------
(***************************************************************************)
(* Temporary leases (internal/lease/lease.go, RecordNonce of               *)
(* internal/store/store.go, AddLeasePrefix of internal/nft/exec.go and the *)
(* lease rules of internal/nft/render.go).                                 *)
(*                                                                         *)
(* A sender signs a request with its own clock and a new nonce.  The agent *)
(* verifies it, records the nonce in the store and writes the source       *)
(* prefix into a timed set of the nftables table; every packet of that     *)
(* prefix refreshes its time.  Connections are handled by goroutines that  *)
(* nobody waits for.  A reload stops the agent, replaces the table and     *)
(* starts another agent on the same store; a countdown that undoes a trial *)
(* replays the listing of an earlier table, with the leases it shows.      *)
(*                                                                         *)
(* The clock is the agent's, in seconds.  A request is named by its nonce. *)
(* RecordNonce takes the time it compares with before its first statement, *)
(* so a handler's checks and its expiry are of one time; its statements    *)
(* may be executed later.                                                  *)
(***************************************************************************)
EXTENDS Integers

CONSTANTS
  Req,        \* the requests that will be sent
  Forged,     \* those with a wrong signature, version or peer
  Barred,     \* those no route, source list, TTL or mask rule lets through
  Conn,       \* the connections that will deliver them
  Prefix,     \* the source prefixes
  Window,     \* lease.ts_window_sec
  Skew,       \* how many seconds the sender's clock may be ahead, or behind
  Stall,      \* a handler takes at most this long from its checks to its end
  TTL,        \* the idle_ttl of requests and routes
  IdleTTL,    \* lease.idle_ttl, which the rules refresh with
  MaxClock    \* bound on the clock

ASSUME LeaseAssumption ==
  /\ Forged \subseteq Req /\ Barred \subseteq Req
  /\ Window \in Nat \ {0} /\ Stall \in Nat
  /\ Skew \subseteq Int
  /\ TTL \subseteq Nat /\ IdleTTL \in Nat /\ MaxClock \in Nat

VARIABLES
  clock,     \* the agent's clock
  sent,      \* the requests signed so far
  msg,       \* what a request says: the sender's time, prefix and TTL
  agent,     \* whether an agent is running
  table,     \* whether the nftables table is there
  expires,   \* lease_nonces: when a recorded nonce expires
  recorded,  \* lease_nonces: the nonces recorded
  pc,        \* the next step of a connection's handler
  job,       \* its request, and the time it made its checks at
  lease,     \* when the element of a prefix expires; in the past: no element
  snap,      \* nft_snapshot: the time a listed element had left; 0: not listed
  granted,   \* history: how many times a request was written to the table
  used       \* history: when a prefix was last granted a lease, given one back
             \* by a replay, or last sent

vars == <<clock, sent, msg, agent, table, expires, recorded, pc, job, lease,
          snap, granted, used>>

Store == <<expires, recorded>>
Table == <<table, lease, snap, used>>
Sender == <<sent, msg>>

PC == {"new", "purge", "insert", "add", "ok", "refused", "failed"}

TypeOK ==
  /\ clock \in Nat
  /\ sent \in SUBSET Req
  /\ msg \in [Req -> [ts : Int, prefix : Prefix, ttl : TTL]]
  /\ agent \in BOOLEAN /\ table \in BOOLEAN
  /\ expires \in [Req -> Int]
  /\ recorded \in SUBSET Req
  /\ pc \in [Conn -> PC]
  /\ job \in [Conn -> [req : Req, at : Nat]]
  /\ lease \in [Prefix -> Nat] /\ snap \in [Prefix -> Nat]
  /\ granted \in [Req -> Nat]
  /\ used \in [Prefix -> Nat]

----------------------------------------------------------------------------
(* Helpers *)

Handling == {c \in Conn : pc[c] \in {"purge", "insert", "add"}}
InForce(p) == table /\ clock < lease[p]
Left(p) == IF clock < lease[p] THEN lease[p] - clock ELSE 0

Goto(c, step) == pc' = [pc EXCEPT ![c] = step]

\* verifyRequest's comparison of the sender's time with the agent's.
InWindow(t) == clock - t <= Window /\ t - clock <= Window

----------------------------------------------------------------------------

Init ==
  /\ clock = 0
  /\ sent = {}
  /\ msg \in [Req -> [ts : {0}, prefix : Prefix, ttl : TTL]]  \* all but ts
  /\ agent = TRUE /\ table = TRUE
  /\ expires = [r \in Req |-> 0]
  /\ recorded = {}
  /\ pc = [c \in Conn |-> "new"]
  /\ \E r \in Req : job = [c \in Conn |-> [req |-> r, at |-> 0]]
  /\ lease = [p \in Prefix |-> 0] /\ snap = [p \in Prefix |-> 0]
  /\ granted = [r \in Req |-> 0]
  /\ used = [p \in Prefix |-> 0]

\* A second passes, if no handler would take too long.
Tick ==
  /\ clock < MaxClock
  /\ \A c \in Handling : clock < job[c].at + Stall
  /\ clock' = clock + 1
  /\ UNCHANGED <<Sender, agent, Table, Store, pc, job, granted>>

\* NewSignedRequest, of the trigger or of `lease send`.
Send(r, skew) ==
  /\ r \notin sent
  /\ sent' = sent \cup {r}
  /\ msg' = [msg EXCEPT ![r].ts = clock + skew]
  /\ UNCHANGED <<clock, agent, Table, Store, pc, job, granted>>

----------------------------------------------------------------------------
(* The handler of a connection: Agent.handle *)

\* A request arrives, for the first time or again, and is verified.
Verify(c, r) ==
  /\ agent
  /\ pc[c] = "new"
  /\ r \in sent
  /\ job' = [job EXCEPT ![c] = [req |-> r, at |-> clock]]
  /\ Goto(c, IF InWindow(msg[r].ts) /\ r \notin Forged THEN "purge" ELSE "refused")
  /\ UNCHANGED <<clock, Sender, agent, Table, Store, granted>>

\* Wrong: a nonce is deleted in the second it expires.
PurgeEarly(c) ==
  /\ pc[c] = "purge"
  /\ recorded' = {r \in recorded : expires[r] > job[c].at}
  /\ Goto(c, "insert")
  /\ UNCHANGED <<clock, Sender, agent, Table, expires, job, granted>>

\* RecordNonce: DELETE FROM lease_nonces WHERE expires_at < now.
Purge(c) ==
  /\ pc[c] = "purge"
  /\ recorded' = {r \in recorded : expires[r] >= job[c].at}
  /\ Goto(c, "insert")
  /\ UNCHANGED <<clock, Sender, agent, Table, expires, job, granted>>

\* RecordNonce: INSERT OR IGNORE.  A replay is refused, and so are requests
\* that fail the checks of the route, whose nonces are used up.
Insert(c) ==
  /\ pc[c] = "insert"
  /\ LET r == job[c].req IN
     IF r \in recorded
     THEN Goto(c, "refused") /\ UNCHANGED Store
     ELSE /\ recorded' = recorded \cup {r}
          /\ expires' = [expires EXCEPT ![r] = job[c].at + Window]
          /\ Goto(c, IF r \in Barred THEN "refused" ELSE "add")
  /\ UNCHANGED <<clock, Sender, agent, Table, job, granted>>

\* addLease, at whatever time the handler gets to it.  An element that is there
\* keeps its time or takes the new one, as the kernel has it; without a table
\* nft fails.
AddLease(c) ==
  /\ pc[c] = "add"
  /\ LET r == job[c].req
         p == msg[r].prefix
         renewed == [lease EXCEPT ![p] = clock + msg[r].ttl]
     IN IF table
        THEN /\ lease' \in {renewed} \cup IF InForce(p) THEN {lease} ELSE {}
             /\ used' = [used EXCEPT ![p] = clock]
             /\ granted' = [granted EXCEPT ![r] = @ + 1]
             /\ Goto(c, "ok")
        ELSE Goto(c, "failed") /\ UNCHANGED <<lease, used, granted>>
  /\ UNCHANGED <<clock, Sender, agent, table, snap, Store, job>>

----------------------------------------------------------------------------
(* The table and the agent *)

\* Wrong: every packet adds to the time that is left.
PacketExtends(p) ==
  /\ InForce(p)
  /\ lease' = [lease EXCEPT ![p] = @ + IdleTTL]
  /\ used' = [used EXCEPT ![p] = clock]
  /\ UNCHANGED <<clock, Sender, agent, table, snap, Store, pc, job, granted>>

\* A packet of a leased prefix: `update @lease { ... timeout IdleTTL }`.
Packet(p) ==
  /\ InForce(p)
  /\ lease' = [lease EXCEPT ![p] = clock + IdleTTL]
  /\ used' = [used EXCEPT ![p] = clock]
  /\ UNCHANGED <<clock, Sender, agent, table, snap, Store, pc, job, granted>>

\* A command or the daemon deletes the table, with the leases in it.
DropTable ==
  /\ table
  /\ table' = FALSE
  /\ lease' = [p \in Prefix |-> 0]
  /\ UNCHANGED <<clock, Sender, agent, snap, used, Store, pc, job, granted>>

\* A rendered ruleset has empty sets.
LoadTable ==
  /\ ~table
  /\ table' = TRUE
  /\ UNCHANGED <<clock, Sender, agent, lease, snap, used, Store, pc, job, granted>>

\* nft.Snapshot lists an element with its timeout and the time it has left.
TakeSnapshot ==
  /\ table
  /\ snap' = [p \in Prefix |-> Left(p)]
  /\ UNCHANGED <<clock, Sender, agent, table, lease, used, Store, pc, job, granted>>

\* Wrong: an element that is listed is put back for a whole idle_ttl.
ReplayWhole ==
  /\ table' = TRUE
  /\ \E back \in SUBSET {p \in Prefix : snap[p] > 0} :
       /\ \A p \in Prefix \ back : snap[p] > 0 => clock < lease[p]
       /\ lease' = [p \in Prefix |-> IF p \in back THEN clock + IdleTTL ELSE lease[p]]
       /\ used' = [p \in Prefix |-> IF p \in back THEN clock ELSE used[p]]
  /\ UNCHANGED <<clock, Sender, agent, snap, Store, pc, job, granted>>

\* ApplySnapshot's replay: what was listed has again the time it had left then.
\* The deletes before it may have failed: an element that is there keeps its
\* time or takes the listed one, as the kernel has it.
Replay ==
  /\ table' = TRUE
  /\ \E back \in SUBSET {p \in Prefix : snap[p] > 0} :
       /\ \A p \in Prefix \ back : snap[p] > 0 => clock < lease[p]
       /\ lease' = [p \in Prefix |-> IF p \in back THEN clock + snap[p] ELSE lease[p]]
       /\ used' = [p \in Prefix |-> IF p \in back THEN clock ELSE used[p]]
  /\ UNCHANGED <<clock, Sender, agent, snap, Store, pc, job, granted>>

\* The agent stops, in a reload: it closes the store under its handlers, and
\* those past it go on.
StopAgent ==
  /\ agent
  /\ agent' = FALSE
  /\ pc' = [c \in Conn |-> IF pc[c] \in {"purge", "insert"} THEN "failed" ELSE pc[c]]
  /\ UNCHANGED <<clock, Sender, Table, Store, job, granted>>

\* The daemon is killed, and the handlers with it.
Crash ==
  /\ agent
  /\ agent' = FALSE
  /\ pc' = [c \in Conn |-> IF c \in Handling THEN "failed" ELSE pc[c]]
  /\ UNCHANGED <<clock, Sender, Table, Store, job, granted>>

\* Wrong: nonces are kept in memory.
StartAgentEmpty ==
  /\ ~agent
  /\ agent' = TRUE
  /\ recorded' = {}
  /\ UNCHANGED <<clock, Sender, Table, expires, pc, job, granted>>

\* NewAgentWithStore.
StartAgent ==
  /\ ~agent
  /\ agent' = TRUE
  /\ UNCHANGED <<clock, Sender, Table, Store, pc, job, granted>>

----------------------------------------------------------------------------

Handle(c) == (\E r \in Req : Verify(c, r)) \/ Purge(c) \/ Insert(c) \/ AddLease(c)

Next ==
  \/ Tick
  \/ \E r \in Req, skew \in Skew : Send(r, skew)
  \/ \E c \in Conn : Handle(c)
  \/ \E p \in Prefix : Packet(p)
  \/ DropTable \/ LoadTable \/ TakeSnapshot \/ Replay
  \/ StopAgent \/ Crash \/ StartAgent

Spec == Init /\ [][Next]_vars

----------------------------------------------------------------------------
(* Properties *)

\* However often and late a request is delivered, and whatever restarts in
\* between, it opens the table once at most.
AtMostOnce == \A r \in Req : granted[r] <= 1

\* A nonce is forgotten only when its request is too old to be verified, or to
\* be at work on still by a handler that verified it in time.
NonceOutlivesRequest ==
  [][\A r \in recorded \ recorded' : clock > msg[r].ts + Window + Stall]_vars

\* The times a lease of a prefix can have been given for: the idle_ttl of a
\* request that opened it, or that of the rules.
Times(p) == {msg[r].ttl : r \in {q \in Req : granted[q] > 0 /\ msg[q].prefix = p}} \cup {IdleTTL}

\* A lease nobody uses ends: at the latest one of its times after it was
\* granted, used, or given back by the roll-back of a trial, which may bring a
\* lease back that had ended.
EndsWhenIdle ==
  \A p \in Prefix : InForce(p) => \E t \in Times(p) : clock < used[p] + t

\* The global idle_ttl is "used when a route has no ttl of its own"
\* (tui/lease_views.go:224): a lease ends an idle_ttl of one of its requests
\* after it was last used.  The code does not keep to it: LeaseOwn.cfg has the
\* counterexample.
OwnTimeGoverns ==
  \A p \in Prefix : InForce(p) =>
    \E r \in Req : granted[r] > 0 /\ msg[r].prefix = p /\ clock < used[p] + msg[r].ttl

\* The agent is a gate: taken together, its connections, nonces, restarts and
\* tables open a prefix as Gate does, and in no other way.
G == INSTANCE Gate WITH issued <- sent, order <- msg, closes <- lease, noted <- snap,
                        spent <- {r \in Req : granted[r] > 0}, Late <- Window + Stall

Gated == G!Spec
=============================================================================
