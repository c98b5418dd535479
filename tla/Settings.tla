------------------------------ MODULE Settings ------------------------------
(***************************************************************************)
(* The configuration: what is valid, how it is stored and loaded, and what *)
(* the commands change in it (internal/conf, internal/store, internal/cli).*)
(*                                                                         *)
(* A configuration is a record with one field per table of the store.      *)
(* Addresses, labels and terms are values nothing looks into; ports are    *)
(* numbers because ranges of them are.  A term stands for the settings of  *)
(* a lease (idle_ttl and prefix lengths) that Validate may refuse.         *)
(***************************************************************************)
EXTENDS Naturals, Sequences, FiniteSets

CONSTANTS
  Port,        \* the ports commands name; 0 and those above 65535 are invalid
  Address,     \* addresses and prefixes, in canonical form
  Province,
  City,
  ProvinceOf,  \* the province of a city in the embedded library
  Label,       \* labels of routes and tokens of trigger routes
  Term,
  BadTerm,     \* the terms Validate refuses
  Listen,      \* addresses the trigger may listen on
  DefaultListen,
  Lived,       \* configurations of stores that have been in use
  None

MaxPort == 65535
ValidPort(p) == p \in 1 .. MaxPort

Mode == {"off", "all", "provinces"}
Policy == [mode : Mode, provinces : SUBSET Province, cities : SUBSET City]

ASSUME SettingsAssumption ==
  /\ Port \subseteq Nat
  /\ \A p, q \in Port : ValidPort(p) /\ ValidPort(q) => p .. q \subseteq Port
  /\ ProvinceOf \in [City -> Province]
  /\ BadTerm \subseteq Term /\ BadTerm # Term
  /\ DefaultListen \in Listen /\ None \notin Listen /\ None \notin Term /\ None \notin Policy

Switch == {"enabled", "guard_all", "http", "tls", "socks"}
Range == Port \X Port
Row == [on : BOOLEAN, mode : Mode]

\* The tables in the order in which LoadConfig reads them.
Order == << "protect", "openPorts", "openPortRanges", "guardedPorts", "skipPorts",
            "ingress", "provinces", "cities", "cidrs", "policies",
            "egress", "egressProvinces", "egressCidrs",
            "lease", "relays", "routes", "trigger", "proxies", "triggerRoutes" >>

Config ==
  [ protect : SUBSET Switch,
    openPorts : SUBSET Port, openPortRanges : SUBSET Range,
    guardedPorts : SUBSET Port, skipPorts : SUBSET Port,
    ingress : Row, provinces : SUBSET Province, cities : SUBSET City, cidrs : SUBSET Address,
    policies : [Port -> {None} \cup Policy],
    egress : Row, egressProvinces : SUBSET Province, egressCidrs : SUBSET Address,
    lease : Term, relays : SUBSET Address, routes : [Label -> {None} \cup Term],
    trigger : [on : BOOLEAN, listen : {None} \cup Listen],
    proxies : SUBSET Address, triggerRoutes : [Label -> {None} \cup Term] ]
-----------------------------------------------------------------------------
(* Ports and ranges                                                        *)

\* expandPortRanges: the ports of a set of ranges.
Expand(ranges) == UNION { r[1] .. r[2] : r \in ranges }

\* A mutant: the last run is not added.
CompressUnended(ports) ==
  { r \in ports \X ports :
      /\ r[1] <= r[2] /\ r[1] .. r[2] \subseteq ports
      /\ r[2] + 1 \notin ports
      /\ \A p \in ports : p + 1 # r[1]
      /\ \E p \in ports : p > r[2] }

\* compressPortsToRanges: the longest runs of consecutive ports.
Compress(ports) ==
  { r \in ports \X ports :
      /\ r[1] <= r[2] /\ r[1] .. r[2] \subseteq ports
      /\ r[2] + 1 \notin ports
      /\ \A p \in ports : p + 1 # r[1] }
-----------------------------------------------------------------------------
(* Loading and storing                                                     *)

\* Only the trigger's listening address is ever stored empty.
ApplyFallbacks(c) ==
  IF c.trigger.on /\ c.trigger.listen = None
    THEN [c EXCEPT !.trigger.listen = DefaultListen] ELSE c

Validate(c) ==
  /\ \A p \in c.openPorts \cup c.guardedPorts \cup c.skipPorts : ValidPort(p)
  /\ \A r \in c.openPortRanges : ValidPort(r[1]) /\ ValidPort(r[2]) /\ r[1] <= r[2]
  /\ \A p \in Port : c.policies[p] # None => ValidPort(p)
  /\ c.lease \notin BadTerm
  /\ \A l \in Label : c.routes[l] \notin BadTerm /\ c.triggerRoutes[l] \notin BadTerm
  /\ c.trigger.on => c.trigger.listen # None

\* What a process makes of the rows it has read.
Loaded(rows) ==
  ApplyFallbacks(
    IF rows.openPortRanges = {} THEN [rows EXCEPT !.openPortRanges = Compress(rows.openPorts)]
                                ELSE rows)

\* currentOpenPortRanges
CurrentRanges(rows) ==
  IF rows.openPortRanges = {} THEN Compress(rows.openPorts) ELSE rows.openPortRanges

\* Of two lists that disagree the one that was changed since it was loaded wins.
NormalizeProtect(c, rows) ==
  IF Expand(c.openPortRanges) = c.openPorts THEN c
  ELSE IF c.openPortRanges = {} \/ c.openPortRanges = CurrentRanges(rows)
    THEN [c EXCEPT !.openPortRanges = Compress(c.openPorts)]
    ELSE [c EXCEPT !.openPorts = Expand(c.openPortRanges)]

\* saveProtectTx stores the ports the ranges stand for.
SaveProtect(c) ==
  LET ranges == IF c.openPortRanges = {} THEN Compress(c.openPorts) ELSE c.openPortRanges
  IN  [c EXCEPT !.openPortRanges = ranges, !.openPorts = Expand(ranges)]

\* dropCoveredCityCodes: a selected province stands for its cities.
Uncovered(provinces, cities) == { x \in cities : ProvinceOf[x] \notin provinces }

NormalizeIngress(c) ==
  [c EXCEPT
     !.cities = Uncovered(c.provinces, c.cities),
     !.policies = [p \in Port |->
        IF c.policies[p] = None THEN None
        ELSE [c.policies[p] EXCEPT
                !.cities = Uncovered(c.policies[p].provinces, c.policies[p].cities)]]]

\* SaveConfig as one function of the configuration and the rows of the moment.
Prepared(c, rows) == NormalizeProtect(ApplyFallbacks(c), rows)
Stored(c, rows) == NormalizeIngress(SaveProtect(Prepared(c, rows)))
\* Provinces are selected only where the mode is to let them in.
Regions(c) ==
  /\ c.provinces # {} => c.ingress.mode = "provinces"
  /\ c.egressProvinces # {} => c.egress.mode = "provinces"
  /\ \A p \in Port : (c.policies[p] # None /\ c.policies[p].provinces # {})
                       => c.policies[p].mode = "provinces"

\* What a save leaves.
ASSUME LivedAssumption ==
  \A c \in Lived : c \in Config /\ Validate(c) /\ Regions(c) /\ Stored(Loaded(c), c) = c
-----------------------------------------------------------------------------
(* The rows of a new store                                                 *)

Empty ==
  [ protect |-> {"guard_all"}, openPorts |-> {}, openPortRanges |-> {},
    guardedPorts |-> {}, skipPorts |-> {},
    ingress |-> [on |-> FALSE, mode |-> "off"], provinces |-> {}, cities |-> {}, cidrs |-> {},
    policies |-> [p \in Port |-> None],
    egress |-> [on |-> FALSE, mode |-> "all"], egressProvinces |-> {}, egressCidrs |-> {},
    lease |-> CHOOSE t \in Term : t \notin BadTerm, relays |-> {},
    routes |-> [l \in Label |-> None],
    trigger |-> [on |-> TRUE, listen |-> DefaultListen], proxies |-> {},
    triggerRoutes |-> [l \in Label |-> None] ]
-----------------------------------------------------------------------------
(* The commands: each gives the configurations it may leave, none when it  *)
(* refuses its arguments.                                                  *)

Some(S) == (SUBSET S) \ {{}}
Few(S) == {{}} \cup { {x} : x \in S }
Good == { p \in Port : ValidPort(p) }

Put(c, field, value) == [c EXCEPT ![field] = value]
Turn(c, switch, on) ==
  Put(c, "protect", IF on THEN c.protect \cup {switch} ELSE c.protect \ {switch})

\* removeValues, removePort: an absent value refuses the whole command.
Remove(c, field, values) ==
  IF values \subseteq c[field] THEN {Put(c, field, c[field] \ values)} ELSE {}

AddOrDel(c, field, values) ==
  UNION { {Put(c, field, c[field] \cup S)} \cup Remove(c, field, S) : S \in Some(values) }

ProtectEnable(c)  == {Turn(c, "enabled", TRUE)}
ProtectDisable(c) == {Turn(c, "enabled", FALSE)}

\* The ranges are made anew from the ports, whichever options are given.
Configured(c, clear, new, more, guard) ==
  LET open == (IF "open" \in clear THEN {} ELSE c.openPorts) \cup new
  IN  [ Turn(c, "guard_all", guard) EXCEPT
          !.openPorts = open, !.openPortRanges = Compress(open),
          !.guardedPorts = (IF "guarded" \in clear THEN {} ELSE c.guardedPorts) \cup more ]

ProtectConfig(c) ==
  { Configured(c, clear, new, more, guard)
    : clear \in SUBSET {"open", "guarded"}, new \in Few(Good), more \in Few(Good),
      guard \in BOOLEAN }

DPI(c) == { Turn(c, s, on) : s \in {"http", "tls", "socks"}, on \in BOOLEAN }

\* The only command that leaves it to Validate to refuse a port.
DPISkipPort(c) ==
  UNION { {Put(c, "skipPorts", c.skipPorts \cup {p})} \cup Remove(c, "skipPorts", {p}) : p \in Port }

\* enable and disable of ingress and of egress.
OnOff(c, field) == { [c EXCEPT ![field].on = on] : on \in BOOLEAN }

\* A mutant: turning a list off keeps what was selected.
CNKeeps(c, field, chosen) ==
  { [c EXCEPT ![field].mode = m] : m \in {"off", "all"} }
    \cup { [c EXCEPT ![field].mode = "provinces", ![chosen] = S] : S \in Some(Province) }

\* cn off|all|select of ingress and of egress.
CN(c, field, chosen) ==
  { [c EXCEPT ![field].mode = m, ![chosen] = {}] : m \in {"off", "all"} }
    \cup { [c EXCEPT ![field].mode = "provinces", ![chosen] = S] : S \in Some(Province) }

IngressCity(c) == AddOrDel(c, "cities", City)

\* portPolicyBaseFrom: the port's own policy, or a copy of the global one.
PolicyBase(c, p) ==
  IF c.policies[p] # None THEN c.policies[p]
  ELSE [mode |-> c.ingress.mode, provinces |-> c.provinces, cities |-> c.cities]

Policies(c, new) ==
  Put(c, "policies", [p \in Port |-> IF p \in DOMAIN new THEN new[p] ELSE c.policies[p]])

IngressPortClear(c) ==
  { Policies(c, [p \in ports |-> None])
    : ports \in { S \in Some(Good) : \A p \in S : c.policies[p] # None } }

PortCN(c, ports, mode, S) ==
  Policies(c, [p \in ports |-> [PolicyBase(c, p) EXCEPT !.mode = mode, !.provinces = S]])

IngressPortCN(c) ==
  { PortCN(c, ports, m, {}) : ports \in Some(Good), m \in {"off", "all"} }
    \cup { PortCN(c, ports, "provinces", S) : ports \in Some(Good), S \in Some(Province) }

IngressPortCity(c) ==
  { Policies(c, [p \in ports |-> [PolicyBase(c, p) EXCEPT !.cities = @ \cup S]])
    : ports \in Some(Good), S \in Some(City) }
  \cup
  { Policies(c, [p \in a[1] |-> [PolicyBase(c, p) EXCEPT !.cities = @ \ a[2]]])
    : a \in { b \in Some(Good) \X Some(City) :
                \A p \in b[1] : b[2] \subseteq PolicyBase(c, p).cities } }

\* lease server set and lease trigger set clear a list before they add to it.
Relist(c, field) ==
  { Put(c, field, (IF clear THEN {} ELSE c[field]) \cup S)
    : clear \in BOOLEAN, S \in SUBSET Address }

LeaseServer(c) == UNION { Relist(Put(c, "lease", t), "relays") : t \in Term }

LeaseTrigger(c) ==
  LET enabled == IF c.trigger.listen = None THEN DefaultListen ELSE c.trigger.listen
      rows == { c.trigger, [on |-> FALSE, listen |-> None], [on |-> TRUE, listen |-> enabled] }
                \cup [on : {TRUE}, listen : Listen]
  IN  UNION { Relist(Put(c, "trigger", r), "proxies") : r \in rows }

\* lease route and lease trigger-route: add replaces the route of that name.
Route(c, field) ==
  { [c EXCEPT ![field][l] = t] : l \in Label, t \in Term }
    \cup { [c EXCEPT ![field][l] = None] : l \in { x \in Label : c[field][x] # None } }
=============================================================================
