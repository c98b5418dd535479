-------------------------------- MODULE Gate --------------------------------
(***************************************************************************)
(* What the lease agent promises its operator, without connections,        *)
(* nonces, restarts and tables: a signed request opens the host to a       *)
(* prefix once, not long after it was signed, and the prefix is closed     *)
(* when nothing came from it for a while.  One exception: a roll-back of   *)
(* the rules gives prefixes the time back that they had when the rules     *)
(* were noted.  Lease implements it, as long as no sender's clock is       *)
(* ahead.                                                                  *)
(***************************************************************************)
EXTENDS Integers

CONSTANTS
  Req,      \* the requests
  Prefix,   \* the source prefixes
  TTL,      \* what a request may ask for
  IdleTTL,  \* how long a packet keeps a prefix open
  Skew,     \* what the sender's clock is off by
  Late      \* how old a request that opens may be

VARIABLES
  clock,    \* the host's clock
  issued,   \* the requests signed
  order,    \* what they say
  spent,    \* those that opened a prefix
  closes,   \* when a prefix closes
  noted     \* the time it had left when the rules were noted, 0 if closed

vars == <<clock, issued, order, spent, closes, noted>>

Open(p) == clock < closes[p]

Init ==
  /\ clock = 0
  /\ issued = {} /\ spent = {}
  /\ order \in [Req -> [ts : {0}, prefix : Prefix, ttl : TTL]]
  /\ closes = [p \in Prefix |-> 0] /\ noted = [p \in Prefix |-> 0]

Pass ==
  /\ clock' = clock + 1
  /\ UNCHANGED <<issued, order, spent, closes, noted>>

Issue(r, skew) ==
  /\ r \notin issued /\ issued' = issued \cup {r}
  /\ order' = [order EXCEPT ![r].ts = clock + skew]
  /\ UNCHANGED <<clock, spent, closes, noted>>

\* A prefix that is open may be left as it is.
Admit(r) ==
  /\ r \in issued \ spent
  /\ clock <= order[r].ts + Late
  /\ spent' = spent \cup {r}
  /\ LET p == order[r].prefix IN
     \/ closes' = [closes EXCEPT ![p] = clock + order[r].ttl]
     \/ Open(p) /\ UNCHANGED closes
  /\ UNCHANGED <<clock, issued, order, noted>>

Use(p) ==
  /\ Open(p)
  /\ closes' = [closes EXCEPT ![p] = clock + IdleTTL]
  /\ UNCHANGED <<clock, issued, order, spent, noted>>

\* Every prefix is closed at once, as when the rules are replaced.
CloseAll ==
  /\ closes' = [p \in Prefix |-> 0]
  /\ UNCHANGED <<clock, issued, order, spent, noted>>

Note ==
  /\ noted' = [p \in Prefix |-> IF Open(p) THEN closes[p] - clock ELSE 0]
  /\ UNCHANGED <<clock, issued, order, spent, closes>>

\* Prefixes that were noted as open are open again, for no longer than noted;
\* those that are open anyway may be left as they are.
PutBack ==
  /\ \E back \in SUBSET {p \in Prefix : noted[p] > 0} :
       closes' = [p \in Prefix |-> IF p \in back THEN clock + noted[p] ELSE closes[p]]
  /\ UNCHANGED <<clock, issued, order, spent, noted>>

Next ==
  \/ Pass
  \/ \E r \in Req, skew \in Skew : Issue(r, skew)
  \/ \E r \in Req : Admit(r)
  \/ \E p \in Prefix : Use(p)
  \/ CloseAll \/ Note \/ PutBack

Spec == Init /\ [][Next]_vars
=============================================================================
