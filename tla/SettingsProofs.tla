--------------------------- MODULE SettingsProofs ---------------------------
(***************************************************************************)
(* Proofs about Config and Tui, for any processes, commands, screens,      *)
(* settings and stores.  The two share Settings: what a port selection, a  *)
(* list and the regions of a store are, and the lemmas about them.         *)
(***************************************************************************)
EXTENDS Config, Tui, WellFoundedInduction, TLAPS

----------------------------------------------------------------------------
(* Ports and ranges *)

\* The natural numbers are well-ordered.
LEMMA Least ==
  ASSUME NEW T \in SUBSET Nat, T # {}
  PROVE  \E x \in T : \A y \in T : x <= y
<1> DEFINE R == {ss \in Nat \X Nat : ss[1] < ss[2]}
<1>1. IsWellFoundedOn(R, Nat)
  BY NatLessThanWellFounded, Zenon DEF OpToRel
<1>2. \A x, y \in Nat : y < x => <<y, x>> \in R
  OBVIOUS
<1> HIDE DEF R
<1>3. PICK x \in T : \A y \in T : ~ (<<y, x>> \in R)
  BY <1>1, WFMin
<1>4. \A y \in T : ~ (y < x)
  BY <1>2, <1>3
<1>5. \A y \in T : x <= y
  BY <1>4
<1>6. QED
  BY <1>5

LEMMA MaxPortType == MaxPort \in Nat
  BY SMT DEF MaxPort

Valid(S) == \A p \in S : ValidPort(p)

\* Every port of a set is in one of its longest runs, and nothing else is.
LEMMA ExpandCompress ==
  ASSUME NEW S, Valid(S)
  PROVE  Expand(Compress(S)) = S
<1>1. S \in SUBSET (1 .. MaxPort) /\ MaxPort \in Nat
  BY MaxPortType DEF Valid, ValidPort
<1>2. ASSUME NEW x \in Expand(Compress(S)) PROVE x \in S
  BY <1>2 DEF Expand, Compress
<1>3. ASSUME NEW x \in S PROVE x \in Expand(Compress(S))
  <2> DEFINE T == {a \in Nat : a <= x /\ a .. x \subseteq S}
             U == {b \in Nat : x < b /\ b \notin S}
  <2>1. x \in Nat /\ x \in T /\ MaxPort + 1 \in U
    BY <1>1
  <2>2. PICK a \in T : \A y \in T : a <= y
    BY <2>1, Least
  <2>3. PICK u \in U : \A y \in U : u <= y
    BY <2>1, Least
  <2>4. a \in Nat /\ u \in Nat /\ a <= x /\ x < u /\ a \in S /\ u \notin S /\ u - 1 \in Nat
    BY <2>1, <2>2
  <2>5. a .. x \subseteq S
    BY <2>2
  <2>6. \A y \in Nat : x < y /\ y < u => y \in S
    BY <2>1, <2>3
  <2>7. a .. (u - 1) \subseteq S /\ u - 1 \in S
    <3>1. \A y \in a .. (u - 1) : y \in a .. x \/ (y \in Nat /\ x < y /\ y < u)
      BY <2>1, <2>4
    <3>2. u - 1 \in a .. (u - 1)
      BY <2>1, <2>4
    <3>3. QED
      BY <2>5, <2>6, <3>1, <3>2
  <2>8. ASSUME NEW p \in S, p + 1 = a PROVE FALSE
    <3>1. p \in Nat /\ p <= x /\ ~ (a <= p)
      BY <1>1, <2>1, <2>4, <2>8
    <3>2. \A y \in p .. x : y = p \/ y \in a .. x
      BY <2>1, <2>4, <2>8, <3>1
    <3>3. p \in T
      BY <2>5, <3>1, <3>2
    <3>4. QED
      BY <2>2, <3>1, <3>3
  <2>9. <<a, u - 1>> \in Compress(S)
    BY <2>1, <2>4, <2>7, <2>8 DEF Compress
  <2>10. x \in a .. (u - 1)
    BY <2>1, <2>4
  <2>11. QED
    BY <2>9, <2>10 DEF Expand
<1>4. QED
  BY <1>2, <1>3

ValidRanges(R) == \A r \in R : ValidPort(r[1]) /\ ValidPort(r[2]) /\ r[1] <= r[2]

LEMMA CompressValid ==
  ASSUME NEW S, Valid(S)
  PROVE  ValidRanges(Compress(S))
  BY DEF Compress, ValidRanges, Valid

LEMMA ExpandValid ==
  ASSUME NEW R, ValidRanges(R)
  PROVE  Valid(Expand(R)) /\ (R # {} => Expand(R) # {})
<1>1. \A r \in R : r[1] \in r[1] .. r[2]
  BY MaxPortType DEF ValidRanges, ValidPort
<1>2. QED
  BY <1>1, MaxPortType DEF Expand, ValidRanges, Valid, ValidPort

LEMMA ExpandType ==
  ASSUME NEW R \in SUBSET Range, ValidRanges(R)
  PROVE  Expand(R) \in SUBSET Port
<1> SUFFICES ASSUME NEW x \in Expand(R) PROVE x \in Port
  OBVIOUS
<1>1. PICK r \in R : x \in r[1] .. r[2]
  BY DEF Expand
<1>2. r[1] \in Port /\ r[2] \in Port /\ ValidPort(r[1]) /\ ValidPort(r[2])
  BY DEF Range, ValidRanges
<1>3. QED
  BY <1>1, <1>2, SettingsAssumption

LEMMA EmptyLists == Compress({}) = {} /\ Expand({}) = {}
  BY DEF Compress, Expand

----------------------------------------------------------------------------
(* Configurations as records *)

Field == { Order[i] : i \in 1 .. Len(Order) }

LEMMA FieldNames ==
  Field = {"protect", "openPorts", "openPortRanges", "guardedPorts", "skipPorts",
           "ingress", "provinces", "cities", "cidrs", "policies",
           "egress", "egressProvinces", "egressCidrs",
           "lease", "relays", "routes", "trigger", "proxies", "triggerRoutes"}
  BY DEF Field, Order

\* The values a field may have.
Values(f) ==
  CASE f = "protect" -> SUBSET Switch
    [] f \in {"openPorts", "guardedPorts", "skipPorts"} -> SUBSET Port
    [] f = "openPortRanges" -> SUBSET Range
    [] f \in {"ingress", "egress"} -> Row
    [] f \in {"provinces", "egressProvinces"} -> SUBSET Province
    [] f = "cities" -> SUBSET City
    [] f \in {"cidrs", "egressCidrs", "relays", "proxies"} -> SUBSET Address
    [] f = "policies" -> [Port -> {None} \cup Policy]
    [] f = "lease" -> Term
    [] f \in {"routes", "triggerRoutes"} -> [Label -> {None} \cup Term]
    [] f = "trigger" -> [on : BOOLEAN, listen : {None} \cup Listen]

LEMMA ConfigIsRecord ==
  ASSUME NEW c \in Config
  PROVE  /\ c = [f \in Field |-> c[f]]
         /\ \A f \in Field : c[f] \in Values(f)
<1>1. c = [f \in Field |-> c[f]]
  BY FieldNames DEF Config
<1>2. \A f \in Field : c[f] \in Values(f)
  BY FieldNames DEF Config, Values
<1>3. QED
  BY <1>1, <1>2

LEMMA RecordIsConfig ==
  ASSUME NEW c, c = [f \in Field |-> c[f]], \A f \in Field : c[f] \in Values(f)
  PROVE  c \in Config
<1>1. DOMAIN c = Field
  OBVIOUS
<1>2. QED
  BY <1>1, FieldNames DEF Config, Values

Kept(c, d, F) == \A f \in Field \ F : d[f] = c[f]

LEMMA PutConfig ==
  ASSUME NEW c \in Config, NEW f \in Field, NEW v \in Values(f)
  PROVE  Put(c, f, v) \in Config /\ Put(c, f, v)[f] = v /\ Kept(c, Put(c, f, v), {f})
<1> DEFINE d == Put(c, f, v)
<1>1. /\ c = [g \in Field |-> c[g]]
      /\ \A g \in Field : c[g] \in Values(g)
  BY ConfigIsRecord
<1>2. DOMAIN c = Field
  BY <1>1
<1>3. /\ d = [g \in Field |-> d[g]] /\ d[f] = v
      /\ \A g \in Field : g # f => d[g] = c[g]
  BY <1>2 DEF Put
<1>4. \A g \in Field : d[g] \in Values(g)
  BY <1>1, <1>3
<1> HIDE DEF d
<1>5. d \in Config
  BY <1>3, <1>4, RecordIsConfig
<1>6. QED
  BY <1>3, <1>5 DEF d, Kept

LEMMA SameConfig ==
  ASSUME NEW c \in Config, NEW d \in Config, \A f \in Field : c[f] = d[f]
  PROVE  c = d
<1>1. c = [f \in Field |-> c[f]] /\ d = [f \in Field |-> d[f]]
  BY ConfigIsRecord
<1>2. QED
  BY <1>1

\* What Validate asks of each field.
ValidField(f, v) ==
  CASE f \in {"openPorts", "guardedPorts", "skipPorts"} -> Valid(v)
    [] f = "openPortRanges" -> ValidRanges(v)
    [] f = "policies" -> \A p \in Port : v[p] # None => ValidPort(p)
    [] f = "lease" -> v \notin BadTerm
    [] f \in {"routes", "triggerRoutes"} -> \A l \in Label : v[l] \notin BadTerm
    [] f = "trigger" -> v.on => v.listen # None
    [] OTHER -> TRUE

\* A configuration that is put together of valid fields is valid.
LEMMA ValidByField ==
  ASSUME NEW c
  PROVE  Validate(c) <=> \A f \in Field : ValidField(f, c[f])
<1>1. Validate(c) => \A f \in Field : ValidField(f, c[f])
  BY FieldNames DEF Validate, ValidField, Valid, ValidRanges
<1>2. ASSUME \A f \in Field : ValidField(f, c[f]) PROVE Validate(c)
  <2>1. Valid(c.openPorts) /\ Valid(c.guardedPorts) /\ Valid(c.skipPorts)
    BY <1>2, FieldNames DEF ValidField
  <2>2. ValidRanges(c.openPortRanges) /\ (\A p \in Port : c.policies[p] # None => ValidPort(p))
    BY <1>2, FieldNames DEF ValidField
  <2>3. c.lease \notin BadTerm /\ (c.trigger.on => c.trigger.listen # None)
    BY <1>2, FieldNames DEF ValidField
  <2>4. \A l \in Label : c.routes[l] \notin BadTerm /\ c.triggerRoutes[l] \notin BadTerm
    BY <1>2, FieldNames DEF ValidField
  <2>5. QED
    BY <2>1, <2>2, <2>3, <2>4 DEF Validate, Valid, ValidRanges
<1>3. QED
  BY <1>1, <1>2

----------------------------------------------------------------------------
(* Loading and storing *)

LEMMA FallbacksConfig ==
  ASSUME NEW c \in Config
  PROVE  /\ ApplyFallbacks(c) \in Config /\ Kept(c, ApplyFallbacks(c), {"trigger"})
         /\ ApplyFallbacks(c).trigger.on = c.trigger.on
         /\ c.trigger.on => ApplyFallbacks(c).trigger.listen # None
         /\ ~c.trigger.on \/ c.trigger.listen # None => ApplyFallbacks(c) = c
<1>1. CASE c.trigger.on /\ c.trigger.listen = None
  <2>1. /\ ApplyFallbacks(c) = Put(c, "trigger", [c.trigger EXCEPT !.listen = DefaultListen])
        /\ [c.trigger EXCEPT !.listen = DefaultListen] \in Values("trigger")
        /\ [c.trigger EXCEPT !.listen = DefaultListen].on = c.trigger.on
        /\ [c.trigger EXCEPT !.listen = DefaultListen].listen # None
    BY <1>1, SettingsAssumption DEF ApplyFallbacks, Config, Values, Put
  <2>2. "trigger" \in Field
    BY FieldNames
  <2>3. QED
    <3> DEFINE v == [c.trigger EXCEPT !.listen = DefaultListen]
    <3>1. /\ Put(c, "trigger", v) \in Config /\ Kept(c, Put(c, "trigger", v), {"trigger"})
          /\ Put(c, "trigger", v)["trigger"] = v
      BY <2>1, <2>2, PutConfig
    <3>2. Put(c, "trigger", v).trigger = v
      BY <3>1
    <3> HIDE DEF v
    <3>3. ApplyFallbacks(c) = Put(c, "trigger", v) /\ v.on = c.trigger.on /\ v.listen # None
      BY <2>1 DEF v
    <3> HIDE DEF Put
    <3>4. ApplyFallbacks(c).trigger = v
      BY <3>2, <3>3
    <3>5. ApplyFallbacks(c) \in Config /\ Kept(c, ApplyFallbacks(c), {"trigger"})
      BY <3>1, <3>3
    <3>6. QED
      BY <1>1, <3>3, <3>4, <3>5
<1>2. CASE ~ (c.trigger.on /\ c.trigger.listen = None)
  BY <1>2 DEF ApplyFallbacks, Kept
<1>3. QED
  BY <1>1, <1>2

\* What is valid stays so where only the trigger's address is filled in.
LEMMA FallbacksValid ==
  ASSUME NEW c \in Config, \A f \in Field \ {"trigger"} : ValidField(f, c[f])
  PROVE  Validate(ApplyFallbacks(c))
<1>1. /\ Kept(c, ApplyFallbacks(c), {"trigger"})
      /\ ApplyFallbacks(c).trigger.on => ApplyFallbacks(c).trigger.listen # None
  BY FallbacksConfig
<1>2. ValidField("trigger", ApplyFallbacks(c).trigger)
  BY <1>1 DEF ValidField
<1>3. \A f \in Field : ValidField(f, ApplyFallbacks(c)[f])
  BY <1>1, <1>2 DEF Kept
<1>4. QED
  BY <1>3, ValidByField

LEMMA LoadedConfig ==
  ASSUME NEW c \in Config, Validate(c)
  PROVE  /\ Loaded(c) \in Config /\ Validate(Loaded(c))
         /\ Kept(c, Loaded(c), {"openPortRanges", "trigger"})
         /\ Loaded(c).openPortRanges = CurrentRanges(c)
<1> DEFINE d == IF c.openPortRanges = {} THEN [c EXCEPT !.openPortRanges = Compress(c.openPorts)]
                ELSE c
<1>1. Valid(c.openPorts) /\ ValidRanges(c.openPortRanges) /\ c.openPorts \in SUBSET Port
  BY DEF Validate, Valid, ValidRanges, Config
<1>2. Compress(c.openPorts) \in SUBSET Range /\ ValidRanges(Compress(c.openPorts))
  BY <1>1, CompressValid DEF Compress, Range
<1>3. /\ d \in Config /\ Kept(c, d, {"openPortRanges"}) /\ d.openPortRanges = CurrentRanges(c)
      /\ ValidRanges(d.openPortRanges)
  <2>1. CASE c.openPortRanges = {}
    <3>1. d = Put(c, "openPortRanges", Compress(c.openPorts))
      BY <2>1 DEF Put
    <3>2. Compress(c.openPorts) \in Values("openPortRanges") /\ "openPortRanges" \in Field
      BY <1>2, FieldNames DEF Values
    <3> HIDE DEF d
    <3>3. d \in Config /\ d["openPortRanges"] = Compress(c.openPorts)
          /\ Kept(c, d, {"openPortRanges"})
      BY <3>1, <3>2, PutConfig
    <3>4. QED
      BY <1>2, <2>1, <3>3 DEF CurrentRanges
  <2>2. CASE c.openPortRanges # {}
    BY <1>1, <2>2 DEF Kept, CurrentRanges
  <2>3. QED
    BY <2>1, <2>2
<1>4. \A f \in Field : ValidField(f, d[f])
  <2>1. \A f \in Field : ValidField(f, c[f])
    BY ValidByField
  <2>2. ValidField("openPortRanges", d["openPortRanges"])
    BY <1>3 DEF ValidField
  <2>3. QED
    BY <1>3, <2>1, <2>2 DEF Kept
<1>5. Loaded(c) = ApplyFallbacks(d)
  BY DEF Loaded
<1> HIDE DEF d
<1>6. ApplyFallbacks(d) \in Config /\ Kept(d, ApplyFallbacks(d), {"trigger"})
  BY <1>3, FallbacksConfig
<1>7. Validate(ApplyFallbacks(d))
  BY <1>3, <1>4, FallbacksValid
<1>8. Kept(c, ApplyFallbacks(d), {"openPortRanges", "trigger"})
  BY <1>3, <1>6 DEF Kept
<1>9. ApplyFallbacks(d).openPortRanges = d.openPortRanges
  BY <1>6, FieldNames DEF Kept
<1>10. QED
  BY <1>3, <1>5, <1>6, <1>7, <1>8, <1>9

LEMMA SaveProtectConfig ==
  ASSUME NEW c \in Config, Validate(c)
  PROVE  /\ SaveProtect(c) \in Config /\ Validate(SaveProtect(c))
         /\ Kept(c, SaveProtect(c), {"openPorts", "openPortRanges"})
         /\ SaveProtect(c).openPorts = Expand(SaveProtect(c).openPortRanges)
<1> DEFINE R == CurrentRanges(c)
<1>1. Valid(c.openPorts) /\ ValidRanges(c.openPortRanges) /\ c.openPorts \in SUBSET Port
      /\ c.openPortRanges \in SUBSET Range
  BY DEF Validate, Valid, ValidRanges, Config
<1>2. R \in SUBSET Range /\ ValidRanges(R)
  BY <1>1, CompressValid DEF Compress, Range, CurrentRanges
<1>3. SaveProtect(c) = [c EXCEPT !.openPortRanges = R, !.openPorts = Expand(R)]
  BY DEF SaveProtect, CurrentRanges
<1> HIDE DEF R
<1>4. Expand(R) \in SUBSET Port /\ Valid(Expand(R))
  BY <1>2, ExpandType, ExpandValid
<1> DEFINE d == [c EXCEPT !.openPortRanges = R]
           e == [d EXCEPT !.openPorts = Expand(R)]
<1>5. d \in Config /\ d.openPortRanges = R /\ Kept(c, d, {"openPortRanges"})
  <2>1. R \in Values("openPortRanges") /\ "openPortRanges" \in Field
    BY <1>2, FieldNames DEF Values
  <2>2. d = Put(c, "openPortRanges", R)
    BY DEF Put
  <2> HIDE DEF d
  <2>3. QED
    BY <2>1, <2>2, PutConfig
<1> HIDE DEF d
<1>6. e \in Config /\ e.openPorts = Expand(R) /\ Kept(d, e, {"openPorts"})
  <2>1. Expand(R) \in Values("openPorts") /\ "openPorts" \in Field
    BY <1>4, FieldNames DEF Values
  <2>2. e = Put(d, "openPorts", Expand(R))
    BY DEF Put
  <2> HIDE DEF e
  <2>3. QED
    BY <1>5, <2>1, <2>2, PutConfig
<1>7. SaveProtect(c) = e
  BY <1>3 DEF d
<1> HIDE DEF e
<1>8. e.openPortRanges = R /\ Kept(c, e, {"openPorts", "openPortRanges"})
  BY <1>5, <1>6, FieldNames DEF Kept
<1>9. \A f \in Field : ValidField(f, e[f])
  <2>1. \A f \in Field : ValidField(f, c[f])
    BY ValidByField
  <2>2. ValidField("openPorts", e.openPorts) /\ ValidField("openPortRanges", e.openPortRanges)
    BY <1>2, <1>4, <1>6, <1>8 DEF ValidField
  <2>3. QED
    BY <1>8, <2>1, <2>2 DEF Kept
<1>10. QED
  BY <1>6, <1>7, <1>8, <1>9, ValidByField

LEMMA NormalizeIngressConfig ==
  ASSUME NEW c \in Config
  PROVE  /\ NormalizeIngress(c) \in Config /\ (Validate(c) => Validate(NormalizeIngress(c)))
         /\ Kept(c, NormalizeIngress(c), {"cities", "policies"})
         /\ \A p \in Port :
              /\ NormalizeIngress(c).policies[p] = None <=> c.policies[p] = None
              /\ c.policies[p] # None =>
                   /\ NormalizeIngress(c).policies[p].mode = c.policies[p].mode
                   /\ NormalizeIngress(c).policies[p].provinces = c.policies[p].provinces
<1> DEFINE C == Uncovered(c.provinces, c.cities)
           P == [p \in Port |->
                   IF c.policies[p] = None THEN None
                   ELSE [c.policies[p] EXCEPT
                           !.cities = Uncovered(c.policies[p].provinces, c.policies[p].cities)]]
           d == [c EXCEPT !.cities = C]
           e == [d EXCEPT !.policies = P]
<1>1. C \in SUBSET City
  BY DEF Uncovered, Config
<1>2. \A p \in Port : c.policies[p] \in {None} \cup Policy
  BY DEF Config
<1>3. ASSUME NEW p \in Port, c.policies[p] # None
      PROVE  /\ P[p] \in Policy
             /\ P[p].mode = c.policies[p].mode /\ P[p].provinces = c.policies[p].provinces
  <2>1. c.policies[p] \in Policy
    BY <1>2, <1>3
  <2>2. QED
    BY <1>3, <2>1 DEF Policy, Uncovered
<1>4. P \in [Port -> {None} \cup Policy]
  BY <1>2, <1>3
<1>5. NormalizeIngress(c) = e
  BY DEF NormalizeIngress
<1> HIDE DEF C, P
<1>6. d \in Config /\ Kept(c, d, {"cities"})
  <2>1. C \in Values("cities") /\ "cities" \in Field
    BY <1>1, FieldNames DEF Values
  <2>2. d = Put(c, "cities", C)
    BY DEF Put
  <2> HIDE DEF d
  <2>3. QED
    BY <2>1, <2>2, PutConfig
<1>7. e \in Config /\ Kept(d, e, {"policies"}) /\ e.policies = P
  <2>1. P \in Values("policies") /\ "policies" \in Field
    BY <1>4, FieldNames DEF Values
  <2>2. e = Put(d, "policies", P)
    BY DEF Put
  <2> HIDE DEF e
  <2>3. QED
    BY <1>6, <2>1, <2>2, PutConfig
<1> HIDE DEF e
<1>8. Kept(c, e, {"cities", "policies"})
  BY <1>6, <1>7 DEF Kept
<1>9. \A p \in Port : P[p] = None <=> c.policies[p] = None
  BY <1>3, SettingsAssumption DEF P
<1>10. Validate(c) => Validate(e)
  <2> SUFFICES ASSUME Validate(c) PROVE \A f \in Field : ValidField(f, e[f])
    BY ValidByField
  <2>1. \A f \in Field : ValidField(f, c[f])
    BY ValidByField
  <2>2. ValidField("policies", e.policies) /\ ValidField("cities", e.cities)
    BY <1>7, <1>9, <2>1, FieldNames DEF ValidField
  <2>3. QED
    BY <1>8, <2>1, <2>2 DEF Kept
<1>11. QED
  BY <1>3, <1>5, <1>7, <1>8, <1>9, <1>10
----------------------------------------------------------------------------
(* Commands *)

\* The list of ranges stays, or is made from the ports.
Lists(c, d) ==
  \/ d.openPorts = c.openPorts /\ d.openPortRanges = c.openPortRanges
  \/ Valid(d.openPorts) /\ d.openPortRanges = Compress(d.openPorts)

EditOK(c, d) == d \in Config /\ Lists(c, d) /\ (Regions(c) => Regions(d))

\* The fields Regions does not speak of, apart from the two lists.
Plain == Field \ {"openPorts", "openPortRanges", "ingress", "provinces", "policies",
                  "egress", "egressProvinces"}

LEMMA PlainNames ==
  /\ Plain \subseteq Field
  /\ {"protect", "guardedPorts", "skipPorts", "cities", "cidrs", "egressCidrs",
      "lease", "relays", "routes", "trigger", "proxies", "triggerRoutes"}
       \subseteq Plain
  BY FieldNames DEF Plain

LEMMA KeptRegions ==
  ASSUME NEW c, NEW d, Kept(c, d, Plain \cup {"openPorts", "openPortRanges"})
  PROVE  Regions(c) <=> Regions(d)
<1>1. /\ d.ingress = c.ingress /\ d.provinces = c.provinces /\ d.policies = c.policies
      /\ d.egress = c.egress /\ d.egressProvinces = c.egressProvinces
  BY FieldNames DEF Kept, Plain
<1>2. QED
  BY <1>1 DEF Regions

LEMMA PlainPut ==
  ASSUME NEW c \in Config, NEW f \in Plain, NEW v \in Values(f)
  PROVE  EditOK(c, Put(c, f, v)) /\ Put(c, f, v)[f] = v /\ Kept(c, Put(c, f, v), {f})
<1>1. Put(c, f, v) \in Config /\ Put(c, f, v)[f] = v /\ Kept(c, Put(c, f, v), {f})
  BY PutConfig, PlainNames
<1>2. Lists(c, Put(c, f, v))
  BY <1>1, FieldNames DEF Kept, Plain, Lists
<1>3. Kept(c, Put(c, f, v), Plain \cup {"openPorts", "openPortRanges"})
  BY <1>1 DEF Kept
<1>4. Regions(c) <=> Regions(Put(c, f, v))
  BY <1>3, KeptRegions
<1>5. QED
  BY <1>1, <1>2, <1>4 DEF EditOK

LEMMA EditTwice ==
  ASSUME NEW c, NEW d, NEW e, EditOK(c, d), EditOK(d, e)
  PROVE  EditOK(c, e)
  BY DEF EditOK, Lists

LEMMA TurnOK ==
  ASSUME NEW c \in Config, NEW s \in Switch, NEW on
  PROVE  EditOK(c, Turn(c, s, on)) /\ Kept(c, Turn(c, s, on), {"protect"})
<1> DEFINE v == IF on THEN c.protect \cup {s} ELSE c.protect \ {s}
<1>1. v \in Values("protect") /\ "protect" \in Plain
  BY PlainNames DEF Config, Values
<1> HIDE DEF v
<1>2. EditOK(c, Put(c, "protect", v)) /\ Kept(c, Put(c, "protect", v), {"protect"})
  BY <1>1, PlainPut
<1>3. QED
  BY <1>2 DEF Turn, v

LEMMA RemoveOK ==
  ASSUME NEW c \in Config, NEW f \in Plain, NEW U, Values(f) = SUBSET U,
         NEW S, NEW d \in Remove(c, f, S)
  PROVE  EditOK(c, d)
<1>1. c[f] \in SUBSET U
  BY ConfigIsRecord, PlainNames
<1>2. c[f] \ S \in Values(f) /\ d = Put(c, f, c[f] \ S)
  BY <1>1 DEF Remove
<1>3. QED
  BY <1>2, PlainPut

LEMMA AddOK ==
  ASSUME NEW c \in Config, NEW f \in Plain, NEW U, Values(f) = SUBSET U, NEW S \in SUBSET U
  PROVE  EditOK(c, Put(c, f, c[f] \cup S))
<1>1. c[f] \in SUBSET U
  BY ConfigIsRecord, PlainNames
<1>2. c[f] \cup S \in Values(f)
  BY <1>1
<1>3. QED
  BY <1>2, PlainPut

LEMMA AddOrDelOK ==
  ASSUME NEW c \in Config, NEW f \in Plain, NEW U, Values(f) = SUBSET U,
         NEW d \in AddOrDel(c, f, U)
  PROVE  EditOK(c, d)
<1>1. PICK S \in SUBSET U : d = Put(c, f, c[f] \cup S) \/ d \in Remove(c, f, S)
  BY DEF AddOrDel, Some
<1>2. QED
  BY <1>1, AddOK, RemoveOK

LEMMA RelistOK ==
  ASSUME NEW c \in Config, NEW f \in Plain, Values(f) = SUBSET Address, NEW d \in Relist(c, f)
  PROVE  EditOK(c, d)
<1>1. c[f] \in SUBSET Address
  BY ConfigIsRecord, PlainNames
<1> DEFINE Listed(clear, S) == (IF clear THEN {} ELSE c[f]) \cup S
<1>2. Relist(c, f) = { Put(c, f, Listed(clear, S)) : clear \in BOOLEAN, S \in SUBSET Address }
  BY DEF Relist
<1>3. \A clear \in BOOLEAN, S \in SUBSET Address : Listed(clear, S) \in Values(f)
  BY <1>1
<1> HIDE DEF Listed
<1>4. PICK clear \in BOOLEAN, S \in SUBSET Address : d = Put(c, f, Listed(clear, S))
  BY <1>2
<1>5. QED
  BY <1>3, <1>4, PlainPut

LEMMA RouteOK ==
  ASSUME NEW c \in Config, NEW f \in {"routes", "triggerRoutes"}, NEW d \in Route(c, f)
  PROVE  EditOK(c, d)
<1>1. f \in Plain /\ Values(f) = [Label -> {None} \cup Term]
  BY PlainNames DEF Values
<1>2. c[f] \in [Label -> {None} \cup Term]
  BY <1>1, ConfigIsRecord, PlainNames
<1>3. PICK l \in Label, t \in {None} \cup Term : d = [c EXCEPT ![f][l] = t]
  BY DEF Route
<1>4. [c[f] EXCEPT ![l] = t] \in Values(f)
  BY <1>1, <1>2, <1>3
<1>5. d = Put(c, f, [c[f] EXCEPT ![l] = t])
  BY <1>3 DEF Put
<1>6. QED
  BY <1>1, <1>4, <1>5, PlainPut

LEMMA ProtectConfigOK ==
  ASSUME NEW c \in Config, Validate(c), NEW d \in ProtectConfig(c)
  PROVE  EditOK(c, d)
<1>1. PICK clear \in SUBSET {"open", "guarded"}, new \in Few(Good), more \in Few(Good),
           guard \in BOOLEAN : d = Configured(c, clear, new, more, guard)
  BY DEF ProtectConfig
<1> DEFINE open == (IF "open" \in clear THEN {} ELSE c.openPorts) \cup new
           guarded == (IF "guarded" \in clear THEN {} ELSE c.guardedPorts) \cup more
           t == Turn(c, "guard_all", guard)
           d1 == Put(t, "openPorts", open)
           d2 == Put(d1, "openPortRanges", Compress(open))
<1>2. /\ new \in SUBSET Port /\ Valid(new)
      /\ more \in SUBSET Port
  BY DEF Few, Good, Valid
<1>3. /\ open \in SUBSET Port /\ Valid(open)
      /\ guarded \in SUBSET Port
  BY <1>2 DEF Validate, Valid, Config
<1>4. Compress(open) \in SUBSET Range
  BY <1>3 DEF Compress, Range
<1>5. d = Put(d2, "guardedPorts", guarded)
  BY <1>1 DEF Put, Configured
<1> HIDE DEF open, guarded, t
<1>6. t \in Config /\ (Regions(c) => Regions(t))
  BY TurnOK DEF t, Switch, EditOK
<1>7. /\ open \in Values("openPorts") /\ Compress(open) \in Values("openPortRanges")
      /\ guarded \in Values("guardedPorts")
      /\ "openPorts" \in Field /\ "openPortRanges" \in Field /\ "guardedPorts" \in Plain
  BY <1>3, <1>4, FieldNames, PlainNames DEF Values
<1>8. d1 \in Config /\ d1["openPorts"] = open /\ Kept(t, d1, {"openPorts"})
  BY <1>6, <1>7, PutConfig
<1> HIDE DEF d1
<1>9. d2 \in Config /\ d2["openPortRanges"] = Compress(open) /\ Kept(d1, d2, {"openPortRanges"})
  BY <1>7, <1>8, PutConfig
<1> HIDE DEF d2
<1>10. Kept(t, d2, Plain \cup {"openPorts", "openPortRanges"})
  BY <1>8, <1>9 DEF Kept
<1>11. Regions(t) => Regions(d2)
  BY <1>10, KeptRegions
<1>12. d2.openPorts = open
  BY <1>8, <1>9, <1>7 DEF Kept
<1>13. EditOK(c, d2)
  BY <1>3, <1>6, <1>9, <1>11, <1>12 DEF EditOK, Lists
<1>14. EditOK(d2, d)
  BY <1>5, <1>7, <1>9, PlainPut
<1>15. QED
  BY <1>13, <1>14, EditTwice

\* A command on ingress or egress touches no list of ports.
LEMMA IngressKeeps ==
  ASSUME NEW c \in Config, NEW d \in Config,
         Kept(c, d, {"ingress", "provinces", "policies", "egress", "egressProvinces"})
  PROVE  Lists(c, d)
  BY FieldNames DEF Kept, Lists

LEMMA OnOffOK ==
  ASSUME NEW c \in Config, NEW f \in {"ingress", "egress"}, NEW d \in OnOff(c, f)
  PROVE  EditOK(c, d)
<1>1. PICK on \in BOOLEAN : d = [c EXCEPT ![f].on = on]
  BY DEF OnOff
<1> DEFINE r == [c[f] EXCEPT !.on = on]
<1>2. c[f] \in Row /\ Values(f) = Row /\ f \in Field
  BY FieldNames DEF Config, Values
<1>3. r \in Values(f) /\ r.mode = c[f].mode /\ d = Put(c, f, r)
  BY <1>1, <1>2 DEF Row, Put
<1> HIDE DEF r
<1>4. d \in Config /\ d[f] = r /\ Kept(c, d, {f})
  BY <1>2, <1>3, PutConfig
<1>5. Lists(c, d)
  BY <1>4, IngressKeeps, FieldNames DEF Kept, Lists
<1>6. /\ d.ingress.mode = c.ingress.mode /\ d.provinces = c.provinces /\ d.policies = c.policies
      /\ d.egress.mode = c.egress.mode /\ d.egressProvinces = c.egressProvinces
  BY <1>3, <1>4, FieldNames DEF Kept
<1>7. QED
  BY <1>4, <1>5, <1>6 DEF EditOK, Regions

LEMMA IngressCNOK ==
  ASSUME NEW c \in Config, NEW d \in CN(c, "ingress", "provinces")
  PROVE  EditOK(c, d)
<1>1. PICK m \in Mode, S \in SUBSET Province :
        /\ d = [c EXCEPT !["ingress"].mode = m, !["provinces"] = S]
        /\ m = "provinces" \/ S = {}
  BY DEF CN, Some, Mode
<1> DEFINE r == [c.ingress EXCEPT !.mode = m]
           b == Put(c, "ingress", r)
<1>2. r \in Values("ingress") /\ S \in Values("provinces")
      /\ "ingress" \in Field /\ "provinces" \in Field
  BY FieldNames DEF Config, Values, Row
<1>3. r.mode = m /\ d = Put(b, "provinces", S)
  BY <1>1 DEF Put, Config, Row
<1> HIDE DEF r
<1>4. b \in Config /\ b["ingress"] = r /\ Kept(c, b, {"ingress"})
  BY <1>2, PutConfig
<1> HIDE DEF b
<1>5. d \in Config /\ d["provinces"] = S /\ Kept(b, d, {"provinces"})
  BY <1>2, <1>3, <1>4, PutConfig
<1>6. Kept(c, d, {"ingress", "provinces"})
  BY <1>4, <1>5 DEF Kept
<1>7. /\ d.ingress = r /\ d.policies = c.policies
      /\ d.egress = c.egress /\ d.egressProvinces = c.egressProvinces
  BY <1>4, <1>5, <1>6, FieldNames DEF Kept
<1>8. Lists(c, d)
  BY <1>5, <1>6, IngressKeeps DEF Kept
<1>9. Regions(c) => Regions(d)
  BY <1>1, <1>3, <1>5, <1>7 DEF Regions
<1>10. QED
  BY <1>5, <1>8, <1>9 DEF EditOK

LEMMA EgressCNOK ==
  ASSUME NEW c \in Config, NEW d \in CN(c, "egress", "egressProvinces")
  PROVE  EditOK(c, d)
<1>1. PICK m \in Mode, S \in SUBSET Province :
        /\ d = [c EXCEPT !["egress"].mode = m, !["egressProvinces"] = S]
        /\ m = "provinces" \/ S = {}
  BY DEF CN, Some, Mode
<1> DEFINE r == [c.egress EXCEPT !.mode = m]
           b == Put(c, "egress", r)
<1>2. r \in Values("egress") /\ S \in Values("egressProvinces")
      /\ "egress" \in Field /\ "egressProvinces" \in Field
  BY FieldNames DEF Config, Values, Row
<1>3. r.mode = m /\ d = Put(b, "egressProvinces", S)
  BY <1>1 DEF Put, Config, Row
<1> HIDE DEF r
<1>4. b \in Config /\ b["egress"] = r /\ Kept(c, b, {"egress"})
  BY <1>2, PutConfig
<1> HIDE DEF b
<1>5. d \in Config /\ d["egressProvinces"] = S /\ Kept(b, d, {"egressProvinces"})
  BY <1>2, <1>3, <1>4, PutConfig
<1>6. Kept(c, d, {"egress", "egressProvinces"})
  BY <1>4, <1>5 DEF Kept
<1>7. /\ d.egress = r /\ d.policies = c.policies
      /\ d.ingress = c.ingress /\ d.provinces = c.provinces
  BY <1>4, <1>5, <1>6, FieldNames DEF Kept
<1>8. Lists(c, d)
  BY <1>5, <1>6, IngressKeeps DEF Kept
<1>9. Regions(c) => Regions(d)
  BY <1>1, <1>3, <1>5, <1>7 DEF Regions
<1>10. QED
  BY <1>5, <1>8, <1>9 DEF EditOK

\* The policy a command on ports may leave.
Lawful(c, v) ==
  /\ v \in {None} \cup Policy
  /\ Regions(c) => (v # None /\ v.provinces # {} => v.mode = "provinces")

LEMMA PoliciesOK ==
  ASSUME NEW c \in Config, NEW new, \A p \in DOMAIN new : Lawful(c, new[p])
  PROVE  EditOK(c, Policies(c, new))
<1> DEFINE P == [p \in Port |-> IF p \in DOMAIN new THEN new[p] ELSE c.policies[p]]
<1>1. c.policies \in [Port -> {None} \cup Policy]
  BY DEF Config
<1>2. P \in Values("policies") /\ "policies" \in Field
  BY <1>1, FieldNames DEF Values, Lawful
<1>3. \A p \in Port : P[p] = c.policies[p] \/ Lawful(c, P[p])
  BY DEF Lawful
<1> HIDE DEF P
<1> DEFINE d == Put(c, "policies", P)
<1>4. d \in Config /\ d["policies"] = P /\ Kept(c, d, {"policies"})
  BY <1>2, PutConfig
<1>5. Policies(c, new) = d
  BY DEF Policies, P
<1> HIDE DEF d
<1>6. Lists(c, d)
  BY <1>4, IngressKeeps DEF Kept
<1>7. /\ d.ingress = c.ingress /\ d.provinces = c.provinces
      /\ d.egress = c.egress /\ d.egressProvinces = c.egressProvinces
  BY <1>4, FieldNames DEF Kept
<1>8. Regions(c) => Regions(d)
  BY <1>3, <1>4, <1>7 DEF Regions, Lawful
<1>9. QED
  BY <1>4, <1>5, <1>6, <1>8 DEF EditOK

LEMMA BaseLawful ==
  ASSUME NEW c \in Config, NEW p \in Port
  PROVE  /\ PolicyBase(c, p) \in Policy
         /\ Regions(c) => (PolicyBase(c, p).provinces # {} => PolicyBase(c, p).mode = "provinces")
<1>1. c.policies[p] \in {None} \cup Policy
  BY DEF Config
<1>2. c.ingress.mode \in Mode /\ c.provinces \in SUBSET Province /\ c.cities \in SUBSET City
  BY DEF Config, Row
<1>3. CASE c.policies[p] # None
  BY <1>1, <1>3 DEF PolicyBase, Regions
<1>4. CASE c.policies[p] = None
  BY <1>2, <1>4 DEF PolicyBase, Regions, Policy
<1>5. QED
  BY <1>3, <1>4

LEMMA IngressPortClearOK ==
  ASSUME NEW c \in Config, NEW d \in IngressPortClear(c)
  PROVE  EditOK(c, d)
<1>1. PICK ports \in SUBSET Port : d = Policies(c, [p \in ports |-> None])
  BY DEF IngressPortClear, Some, Good
<1> DEFINE new == [p \in ports |-> None]
<1>2. \A p \in DOMAIN new : Lawful(c, new[p])
  BY DEF Lawful
<1>3. QED
  BY <1>1, <1>2, PoliciesOK

LEMMA IngressPortCNOK ==
  ASSUME NEW c \in Config, NEW d \in IngressPortCN(c)
  PROVE  EditOK(c, d)
<1>1. PICK ports \in Some(Good), m \in Mode, S \in SUBSET Province :
        d = PortCN(c, ports, m, S) /\ (m = "provinces" \/ S = {})
  <2>1. \/ \E ports \in Some(Good), m \in {"off", "all"} : d = PortCN(c, ports, m, {})
        \/ \E ports \in Some(Good), S \in Some(Province) : d = PortCN(c, ports, "provinces", S)
    BY DEF IngressPortCN
  <2>2. Some(Province) \subseteq SUBSET Province
    BY DEF Some
  <2>3. CASE \E ports \in Some(Good), m \in {"off", "all"} : d = PortCN(c, ports, m, {})
    <3>1. PICK ports \in Some(Good), m \in {"off", "all"} : d = PortCN(c, ports, m, {})
      BY <2>3
    <3>2. m \in Mode /\ {} \in SUBSET Province
      BY DEF Mode
    <3>3. QED
      BY <3>1, <3>2
  <2>4. CASE \E ports \in Some(Good), S \in Some(Province) :
                d = PortCN(c, ports, "provinces", S)
    BY <2>2, <2>4 DEF Mode
  <2>5. QED
    BY <2>1, <2>3, <2>4
<1>2. ports \in SUBSET Port
  BY DEF Some, Good
<1> DEFINE new == [p \in ports |-> [PolicyBase(c, p) EXCEPT !.mode = m, !.provinces = S]]
<1>3. ASSUME NEW p \in ports PROVE Lawful(c, new[p])
  <2>1. PolicyBase(c, p) \in Policy
    BY <1>2, BaseLawful
  <2>2. new[p] \in Policy /\ new[p].mode = m /\ new[p].provinces = S
    BY <2>1 DEF Policy
  <2>3. QED
    BY <1>1, <2>2 DEF Lawful
<1>4. \A p \in DOMAIN new : Lawful(c, new[p])
  BY <1>3
<1>5. QED
  BY <1>1, <1>4, PoliciesOK DEF PortCN

LEMMA IngressPortCityOK ==
  ASSUME NEW c \in Config, NEW d \in IngressPortCity(c)
  PROVE  EditOK(c, d)
<1> DEFINE Added(ports, S) ==
             Policies(c, [p \in ports |-> [PolicyBase(c, p) EXCEPT !.cities = @ \cup S]])
           Removed(ports, S) ==
             Policies(c, [p \in ports |-> [PolicyBase(c, p) EXCEPT !.cities = @ \ S]])
           Present == { b \in Some(Good) \X Some(City) :
                          \A p \in b[1] : b[2] \subseteq PolicyBase(c, p).cities }
<1>0. IngressPortCity(c) = { Added(ports, S) : ports \in Some(Good), S \in Some(City) }
                             \cup { Removed(a[1], a[2]) : a \in Present }
  BY DEF IngressPortCity
<1>a. \A a \in Present : a[1] \in Some(Good) /\ a[2] \in Some(City)
  OBVIOUS
<1> HIDE DEF Added, Removed, Present
<1>1. PICK ports \in SUBSET Port, S \in SUBSET City :
        d = Added(ports, S) \/ d = Removed(ports, S)
  BY <1>0, <1>a DEF Some, Good
<1> DEFINE added == [p \in ports |-> [PolicyBase(c, p) EXCEPT !.cities = @ \cup S]]
           removed == [p \in ports |-> [PolicyBase(c, p) EXCEPT !.cities = @ \ S]]
<1>2. ASSUME NEW p \in ports PROVE Lawful(c, added[p]) /\ Lawful(c, removed[p])
  <2>1. PolicyBase(c, p) \in Policy
    BY BaseLawful
  <2>2. /\ added[p] \in Policy /\ added[p].mode = PolicyBase(c, p).mode
        /\ added[p].provinces = PolicyBase(c, p).provinces
    BY <2>1 DEF Policy
  <2>3. /\ removed[p] \in Policy /\ removed[p].mode = PolicyBase(c, p).mode
        /\ removed[p].provinces = PolicyBase(c, p).provinces
    BY <2>1 DEF Policy
  <2>4. QED
    BY <2>2, <2>3, BaseLawful DEF Lawful
<1>3. \A p \in DOMAIN added : Lawful(c, added[p])
  BY <1>2
<1>4. \A p \in DOMAIN removed : Lawful(c, removed[p])
  BY <1>2
<1>5. QED
  BY <1>1, <1>3, <1>4, PoliciesOK DEF Added, Removed

LEMMA LeaseServerOK ==
  ASSUME NEW c \in Config, NEW d \in LeaseServer(c)
  PROVE  EditOK(c, d)
<1>1. PICK t \in Term : d \in Relist(Put(c, "lease", t), "relays")
  BY DEF LeaseServer
<1>2. /\ t \in Values("lease") /\ Values("relays") = SUBSET Address
      /\ "lease" \in Plain /\ "relays" \in Plain
  BY PlainNames DEF Values
<1>3. EditOK(c, Put(c, "lease", t))
  BY <1>2, PlainPut
<1>4. EditOK(Put(c, "lease", t), d)
  BY <1>1, <1>2, <1>3, RelistOK DEF EditOK
<1>5. QED
  BY <1>3, <1>4, EditTwice

LEMMA LeaseTriggerOK ==
  ASSUME NEW c \in Config, NEW d \in LeaseTrigger(c)
  PROVE  EditOK(c, d)
<1>1. c.trigger \in Values("trigger")
  BY DEF Config, Values
<1>2. /\ Values("trigger") = [on : BOOLEAN, listen : {None} \cup Listen]
      /\ Values("proxies") = SUBSET Address
      /\ "trigger" \in Plain /\ "proxies" \in Plain
  BY PlainNames DEF Values
<1>3. PICK r \in Values("trigger") : d \in Relist(Put(c, "trigger", r), "proxies")
  <2> DEFINE enabled == IF c.trigger.listen = None THEN DefaultListen ELSE c.trigger.listen
             rows == { c.trigger, [on |-> FALSE, listen |-> None], [on |-> TRUE, listen |-> enabled] }
                       \cup [on : {TRUE}, listen : Listen]
  <2>1. enabled \in Listen
    <3>1. c.trigger.listen \in {None} \cup Listen
      BY DEF Config
    <3>2. QED
      BY <3>1, SettingsAssumption
  <2>2. rows \subseteq Values("trigger")
    BY <1>1, <1>2, <2>1
  <2>3. LeaseTrigger(c) = UNION { Relist(Put(c, "trigger", r), "proxies") : r \in rows }
    BY DEF LeaseTrigger
  <2> HIDE DEF rows
  <2>4. QED
    BY <2>2, <2>3
<1>4. EditOK(c, Put(c, "trigger", r))
  BY <1>2, PlainPut
<1>5. EditOK(Put(c, "trigger", r), d)
  BY <1>2, <1>3, <1>4, RelistOK DEF EditOK
<1>6. QED
  BY <1>4, <1>5, EditTwice

LEMMA EditsOK ==
  ASSUME NEW c \in Config, Validate(c), NEW d \in Edits(c)
  PROVE  EditOK(c, d)
<1>1. /\ Values("cities") = SUBSET City /\ Values("cidrs") = SUBSET Address
      /\ Values("egressCidrs") = SUBSET Address
      /\ Values("skipPorts") = SUBSET Port
      /\ {"cities", "cidrs", "egressCidrs", "skipPorts"} \subseteq Plain
  BY PlainNames DEF Values
<1>2. CASE d \in ProtectEnable(c) \cup ProtectDisable(c) \cup DPI(c)
  <2>1. CASE d \in DPI(c)
    <3>1. PICK s \in {"http", "tls", "socks"}, on \in BOOLEAN : d = Turn(c, s, on)
      BY <2>1 DEF DPI
    <3>2. s \in Switch
      BY DEF Switch
    <3>3. QED
      BY <3>1, <3>2, TurnOK
  <2>2. CASE d \in ProtectEnable(c) \cup ProtectDisable(c)
    <3>1. d = Turn(c, "enabled", TRUE) \/ d = Turn(c, "enabled", FALSE)
      BY <2>2 DEF ProtectEnable, ProtectDisable
    <3>2. "enabled" \in Switch
      BY DEF Switch
    <3>3. QED
      BY <3>1, <3>2, TurnOK
  <2>3. QED
    BY <1>2, <2>1, <2>2
<1>3. CASE d \in ProtectConfig(c)
  BY <1>3, ProtectConfigOK
<1>4. CASE d \in DPISkipPort(c)
  <2>1. PICK p \in Port : \/ d = Put(c, "skipPorts", c.skipPorts \cup {p})
                          \/ d \in Remove(c, "skipPorts", {p})
    BY <1>4 DEF DPISkipPort
  <2>2. "skipPorts" \in Plain /\ Values("skipPorts") = SUBSET Port /\ {p} \in SUBSET Port
    BY <1>1
  <2>3. EditOK(c, Put(c, "skipPorts", c["skipPorts"] \cup {p}))
    BY <2>2, AddOK
  <2>4. d \in Remove(c, "skipPorts", {p}) => EditOK(c, d)
    BY <2>2, RemoveOK
  <2>5. QED
    BY <2>1, <2>3, <2>4
<1>5. CASE d \in OnOff(c, "ingress") \cup OnOff(c, "egress")
  BY <1>5, OnOffOK
<1>6. CASE d \in CN(c, "ingress", "provinces")
  BY <1>6, IngressCNOK
<1>7. CASE d \in CN(c, "egress", "egressProvinces")
  BY <1>7, EgressCNOK
<1>8. CASE d \in IngressCity(c) \cup AddOrDel(c, "cidrs", Address)
                   \cup AddOrDel(c, "egressCidrs", Address)
  BY <1>1, <1>8, AddOrDelOK DEF IngressCity
<1>9. CASE d \in IngressPortClear(c) \cup IngressPortCN(c) \cup IngressPortCity(c)
  BY <1>9, IngressPortClearOK, IngressPortCNOK, IngressPortCityOK
<1>10. CASE d \in LeaseServer(c) \cup LeaseTrigger(c)
  BY <1>10, LeaseServerOK, LeaseTriggerOK
<1>11. CASE d \in Route(c, "routes") \cup Route(c, "triggerRoutes")
  BY <1>11, RouteOK
<1>12. QED
  BY <1>2, <1>3, <1>4, <1>5, <1>6, <1>7, <1>8, <1>9, <1>10, <1>11 DEF Edits

\* Two lists that say the same are left as they are.
LEMMA PreparedConfig ==
  ASSUME NEW c \in Config, NEW rows \in Config, ValidRanges(c.openPortRanges)
  PROVE  /\ Prepared(c, rows) \in Config
         /\ Kept(c, Prepared(c, rows), {"trigger", "openPorts", "openPortRanges"})
         /\ Expand(c.openPortRanges) = c.openPorts => Prepared(c, rows) = ApplyFallbacks(c)
<1> DEFINE f == ApplyFallbacks(c)
           v == Compress(f.openPorts)
           w == Expand(f.openPortRanges)
<1>1. f \in Config /\ Kept(c, f, {"trigger"})
  BY FallbacksConfig
<1>2. Prepared(c, rows) \in {f, Put(f, "openPortRanges", v), Put(f, "openPorts", w)}
      /\ (Expand(f.openPortRanges) = f.openPorts => Prepared(c, rows) = f)
  BY DEF Prepared, NormalizeProtect, Put
<1> HIDE DEF f
<1>3. f.openPorts = c.openPorts /\ f.openPortRanges = c.openPortRanges
  BY <1>1, FieldNames DEF Kept
<1>4. /\ v \in Values("openPortRanges") /\ w \in Values("openPorts")
      /\ "openPorts" \in Field /\ "openPortRanges" \in Field
  <2>1. w \in SUBSET Port
    BY <1>1, <1>3, ExpandType DEF Config
  <2>2. v \in SUBSET Range
    BY <1>1 DEF Compress, Range, Config
  <2>3. QED
    BY <2>1, <2>2, FieldNames DEF Values
<1> HIDE DEF v, w
<1>5. Put(f, "openPortRanges", v) \in Config
      /\ Kept(f, Put(f, "openPortRanges", v), {"openPortRanges"})
  BY <1>1, <1>4, PutConfig
<1>6. Put(f, "openPorts", w) \in Config /\ Kept(f, Put(f, "openPorts", w), {"openPorts"})
  BY <1>1, <1>4, PutConfig
<1>7. Prepared(c, rows) \in Config
      /\ Kept(f, Prepared(c, rows), {"openPorts", "openPortRanges"})
  BY <1>1, <1>2, <1>5, <1>6 DEF Kept
<1>8. QED
  BY <1>1, <1>2, <1>3, <1>7 DEF Kept, f

\* What is valid stays so when the two lists are made to agree.
LEMMA PreparedValid ==
  ASSUME NEW c \in Config, Validate(c), NEW rows \in Config
  PROVE  Validate(Prepared(c, rows))
<1> DEFINE f == ApplyFallbacks(c)
           v == Compress(f.openPorts)
           w == Expand(f.openPortRanges)
<1>1. \A g \in Field : ValidField(g, c[g])
  BY ValidByField
<1>2. f \in Config /\ Validate(f)
  BY <1>1, FallbacksConfig, FallbacksValid
<1>3. Prepared(c, rows) \in {f, Put(f, "openPortRanges", v), Put(f, "openPorts", w)}
  BY DEF Prepared, NormalizeProtect, Put
<1> HIDE DEF f
<1>4. /\ Valid(f.openPorts) /\ ValidRanges(f.openPortRanges)
      /\ f.openPorts \in SUBSET Port /\ f.openPortRanges \in SUBSET Range
  BY <1>2 DEF Validate, Valid, ValidRanges, Config
<1>5. /\ v \in SUBSET Range /\ ValidRanges(v) /\ w \in SUBSET Port /\ Valid(w)
  BY <1>4, CompressValid, ExpandValid, ExpandType DEF Compress, Range
<1>6. /\ v \in Values("openPortRanges") /\ ValidField("openPortRanges", v)
      /\ w \in Values("openPorts") /\ ValidField("openPorts", w)
      /\ "openPorts" \in Field /\ "openPortRanges" \in Field
  BY <1>5, FieldNames DEF Values, ValidField
<1> HIDE DEF v, w
<1>7. \A g \in Field : ValidField(g, f[g])
  BY <1>2, ValidByField
<1>8. Validate(Put(f, "openPortRanges", v))
  <2> DEFINE d == Put(f, "openPortRanges", v)
  <2>1. d["openPortRanges"] = v /\ Kept(f, d, {"openPortRanges"})
    BY <1>2, <1>6, PutConfig
  <2> HIDE DEF d
  <2>2. \A g \in Field : ValidField(g, d[g])
    BY <1>6, <1>7, <2>1 DEF Kept
  <2>3. QED
    BY <2>2, ValidByField DEF d
<1>9. Validate(Put(f, "openPorts", w))
  <2> DEFINE d == Put(f, "openPorts", w)
  <2>1. d["openPorts"] = w /\ Kept(f, d, {"openPorts"})
    BY <1>2, <1>6, PutConfig
  <2> HIDE DEF d
  <2>2. \A g \in Field : ValidField(g, d[g])
    BY <1>6, <1>7, <2>1 DEF Kept
  <2>3. QED
    BY <2>2, ValidByField DEF d
<1>10. QED
  BY <1>2, <1>3, <1>8, <1>9

LEMMA StoredConfig ==
  ASSUME NEW c \in Config, Validate(c)
  PROVE  /\ NormalizeIngress(SaveProtect(c)) \in Config
         /\ Validate(NormalizeIngress(SaveProtect(c)))
         /\ Regions(c) => Regions(NormalizeIngress(SaveProtect(c)))
         /\ NormalizeIngress(SaveProtect(c)).openPorts
              = Expand(NormalizeIngress(SaveProtect(c)).openPortRanges)
<1> DEFINE s == SaveProtect(c)
           d == NormalizeIngress(s)
<1>1. /\ s \in Config /\ Validate(s) /\ Kept(c, s, {"openPorts", "openPortRanges"})
      /\ s.openPorts = Expand(s.openPortRanges)
  BY SaveProtectConfig
<1> HIDE DEF s
<1>2. /\ d \in Config /\ Validate(d) /\ Kept(s, d, {"cities", "policies"})
      /\ \A p \in Port :
           /\ d.policies[p] = None <=> s.policies[p] = None
           /\ s.policies[p] # None => /\ d.policies[p].mode = s.policies[p].mode
                                      /\ d.policies[p].provinces = s.policies[p].provinces
  BY <1>1, NormalizeIngressConfig
<1> HIDE DEF d
<1>3. Kept(c, s, Plain \cup {"openPorts", "openPortRanges"})
  BY <1>1 DEF Kept
<1>4. Regions(c) <=> Regions(s)
  BY <1>3, KeptRegions
<1>5. /\ d.ingress = s.ingress /\ d.provinces = s.provinces
      /\ d.egress = s.egress /\ d.egressProvinces = s.egressProvinces
      /\ d.openPorts = s.openPorts /\ d.openPortRanges = s.openPortRanges
  BY <1>2, FieldNames DEF Kept
<1>6. Regions(s) => Regions(d)
  BY <1>2, <1>5 DEF Regions
<1>7. QED
  BY <1>1, <1>2, <1>4, <1>5, <1>6 DEF s, d

\* Saving and loading change nothing where the two lists agree.
LEMMA SavedSame ==
  ASSUME NEW c \in Config, c.openPorts = Expand(c.openPortRanges)
  PROVE  SaveProtect(c) = c
<1>1. (IF c.openPortRanges = {} THEN Compress(c.openPorts) ELSE c.openPortRanges)
        = c.openPortRanges
  BY EmptyLists
<1>2. SaveProtect(c) = Put(Put(c, "openPortRanges", c.openPortRanges), "openPorts",
                           Expand(c.openPortRanges))
  BY <1>1 DEF SaveProtect, Put
<1>3. c = [g \in Field |-> c[g]]
  BY ConfigIsRecord
<1>4. Put(c, "openPortRanges", c.openPortRanges) = c /\ Put(c, "openPorts", c.openPorts) = c
  BY <1>3 DEF Put
<1>5. QED
  BY <1>2, <1>4

LEMMA LoadedSame ==
  ASSUME NEW c \in Config, c.openPorts = Expand(c.openPortRanges),
         c.trigger.on => c.trigger.listen # None
  PROVE  Loaded(c) = c
<1>1. ApplyFallbacks(c) = c
  BY DEF ApplyFallbacks
<1>2. CASE c.openPortRanges # {}
  BY <1>1, <1>2 DEF Loaded
<1>3. CASE c.openPortRanges = {}
  <2>1. Compress(c.openPorts) = c.openPortRanges
    BY <1>3, EmptyLists
  <2>2. c = [g \in Field |-> c[g]]
    BY ConfigIsRecord
  <2>3. [c EXCEPT !.openPortRanges = c.openPortRanges] = c
    BY <2>2
  <2>4. QED
    BY <1>1, <1>3, <2>1, <2>3 DEF Loaded
<1>4. QED
  BY <1>2, <1>3

\* Reading, changing and saving do to the two lists what the command says, and
\* nothing else, where they agreed before.
LEMMA SaveIsEdit ==
  ASSUME NEW r \in Config, Validate(r),
         r.openPortRanges # {} => r.openPorts = Expand(r.openPortRanges),
         NEW c \in Edits(Loaded(r))
  PROVE  Loaded(NormalizeIngress(SaveProtect(Prepared(c, r)))) = Intended(c)
<1> DEFINE l == Loaded(r)
           f == ApplyFallbacks(c)
           d == NormalizeIngress(f)
           n == NormalizeIngress(c)
<1>1. /\ l \in Config /\ Validate(l) /\ l.openPortRanges = CurrentRanges(r)
      /\ l.openPorts = r.openPorts
  BY LoadedConfig, FieldNames DEF Kept
<1>2. Valid(r.openPorts) /\ ValidRanges(l.openPortRanges)
  BY <1>1 DEF Validate, Valid, ValidRanges
<1>3. l.openPorts = Expand(l.openPortRanges)
  BY <1>1, <1>2, ExpandCompress DEF CurrentRanges
<1>4. EditOK(l, c)
  BY <1>1, EditsOK
<1>5. c \in Config /\ c.openPorts = Expand(c.openPortRanges) /\ ValidRanges(c.openPortRanges)
  BY <1>2, <1>3, <1>4, ExpandCompress, CompressValid DEF EditOK, Lists
<1>6. Prepared(c, r) = f
  BY <1>5, PreparedConfig
<1>7. f \in Config /\ Kept(c, f, {"trigger"}) /\ (f.trigger.on => f.trigger.listen # None)
  BY <1>5, FallbacksConfig
<1>8. f.openPorts = Expand(f.openPortRanges)
      /\ f.openPorts = c.openPorts /\ f.openPortRanges = c.openPortRanges
  BY <1>5, <1>7, FieldNames DEF Kept
<1>9. d \in Config /\ Kept(f, d, {"cities", "policies"})
  BY <1>7, NormalizeIngressConfig
<1>10. n \in Config /\ Kept(c, n, {"cities", "policies"})
  BY <1>5, NormalizeIngressConfig
<1>11. SaveProtect(f) = f
  BY <1>7, <1>8, SavedSame
<1>12. Loaded(d) = d
  <2>1. /\ d.trigger = f.trigger /\ d.openPorts = f.openPorts
        /\ d.openPortRanges = f.openPortRanges
    BY <1>9, FieldNames DEF Kept
  <2>2. QED
    BY <1>7, <1>8, <1>9, <2>1, LoadedSame
<1>13. Intended(c) = d
  <2>1. ApplyFallbacks(n) \in Config /\ Kept(n, ApplyFallbacks(n), {"trigger"})
    BY <1>10, FallbacksConfig
  <2>2. n.trigger = c.trigger
    BY <1>10, FieldNames DEF Kept
  <2>3. ApplyFallbacks(n).trigger = f.trigger
    <3>1. "trigger" \in DOMAIN n /\ "trigger" \in DOMAIN c
      BY <1>5, <1>10, ConfigIsRecord, FieldNames
    <3> HIDE DEF n
    <3>2. QED
      BY <2>2, <3>1 DEF ApplyFallbacks
  <2>4. d.trigger = f.trigger
    BY <1>9, FieldNames DEF Kept
  <2>5. d.cities = n.cities /\ d.policies = n.policies
    <3>1. f.cities = c.cities /\ f.provinces = c.provinces /\ f.policies = c.policies
      BY <1>7, FieldNames DEF Kept
    <3>2. QED
      BY <3>1, <1>5, <1>7 DEF NormalizeIngress, Config
  <2>6. \A g \in Field : d[g] = ApplyFallbacks(n)[g]
    BY <1>7, <1>9, <1>10, <2>1, <2>3, <2>4, <2>5 DEF Kept
  <2>7. QED
    BY <1>9, <2>1, <2>6, SameConfig DEF Intended
<1>14. QED
  BY <1>6, <1>11, <1>12, <1>13

----------------------------------------------------------------------------
(* The invariants *)

Filling == {"ports", "insertPorts", "skip", "insertSkip", "mark"}
Filled == {"skip", "insertSkip", "mark"}

\* Defaults are filled in before a process reads, and never before it saves.
Control ==
  \A p \in Process :
    /\ pc[p] \in {"read", "loaded", "locked"} \cup Filling => goal[p] = "read"
    /\ pc[p] \in {"write", "commit"} => goal[p] = "write"
    /\ pc[p] \in {"read", "loaded", "locked", "write", "commit"} => seeded
    /\ pc[p] = "flag" /\ goal[p] = "write" => seeded
    /\ (pc[p] = "flag" /\ goal[p] = "read") \/ pc[p] \in {"idle"} \cup Filling => at[p] = 0

\* Nothing that is not valid is stored, and so nothing that is not valid is read.
Accepted ==
  /\ Validate(db)
  /\ \A p \in Process :
       /\ pc[p] # "locked"
       /\ goal[p] = "read" \/ pc[p] \in {"idle", "commit"} => Validate(copy[p])
       /\ ValidRanges(copy[p].openPortRanges)

\* What a process that nobody overlapped with has in memory.
Derived(p) ==
  /\ pc[p] = "read" => \A i \in 1 .. at[p] : copy[p][Order[i]] = db[Order[i]]
  /\ pc[p] = "loaded" => copy[p] = Loaded(db)
  /\ (pc[p] = "flag" /\ goal[p] = "write") \/ pc[p] = "write"
       => copy[p] = asked[p] /\ asked[p] \in Edits(Loaded(db))
  /\ pc[p] = "commit" => copy[p] = Prepared(asked[p], db) /\ asked[p] \in Edits(Loaded(db))

Serial == \A p \in Process : ~stale[p] => Derived(p)

\* The port that is opened on a new store is opened once.
Seeding ==
  /\ ~seeded /\ (\E q \in Process : pc[q] \in Filled) => db.openPorts # {}
  /\ \A p \in Process : ~stale[p] =>
       /\ pc[p] \in {"ports", "insertPorts"} /\ seeded => db.openPorts # {}
       /\ pc[p] = "insertPorts" => db.openPorts = {}

InForce == clean => Regions(db) /\ ListsAgree

Inv == TypeOK /\ Control /\ Accepted /\ Serial /\ Seeding /\ InForce
----------------------------------------------------------------------------
(* What the steps do to a configuration *)

LEMMA GrownConfig ==
  ASSUME NEW c \in Config, Validate(c), NEW f \in {"openPorts", "skipPorts"}
  PROVE  /\ Put(c, f, c[f] \cup {DefaultPort}) \in Config
         /\ Validate(Put(c, f, c[f] \cup {DefaultPort}))
         /\ Kept(c, Put(c, f, c[f] \cup {DefaultPort}), {f})
         /\ Put(c, f, c[f] \cup {DefaultPort})[f] = c[f] \cup {DefaultPort}
<1> DEFINE v == c[f] \cup {DefaultPort}
           d == Put(c, f, v)
<1>1. \A g \in Field : ValidField(g, c[g])
  BY ValidByField
<1>2. c[f] \in SUBSET Port /\ f \in Field /\ Values(f) = SUBSET Port
  BY FieldNames DEF Config, Values
<1>3. v \in Values(f) /\ ValidField(f, v)
  <2>1. Valid(c[f])
    BY <1>1, <1>2 DEF ValidField
  <2>2. Valid(v) /\ v \in SUBSET Port
    BY <1>2, <2>1, ConfigAssumption DEF Valid
  <2>3. QED
    BY <1>2, <2>2 DEF ValidField
<1> HIDE DEF v
<1>4. d \in Config /\ d[f] = v /\ Kept(c, d, {f})
  BY <1>2, <1>3, PutConfig
<1> HIDE DEF d
<1>5. \A g \in Field : ValidField(g, d[g])
  BY <1>1, <1>3, <1>4 DEF Kept
<1>6. QED
  BY <1>4, <1>5, ValidByField DEF d, v

LEMMA ReadConfig ==
  ASSUME NEW c \in Config, NEW r \in Config, Validate(c), Validate(r), NEW f \in Field
  PROVE  /\ Put(c, f, r[f]) \in Config /\ Validate(Put(c, f, r[f]))
         /\ Kept(c, Put(c, f, r[f]), {f}) /\ Put(c, f, r[f])[f] = r[f]
<1> DEFINE d == Put(c, f, r[f])
<1>1. r[f] \in Values(f)
  BY ConfigIsRecord
<1>2. d \in Config /\ d[f] = r[f] /\ Kept(c, d, {f})
  BY <1>1, PutConfig
<1> HIDE DEF d
<1>3. \A g \in Field : ValidField(g, c[g]) /\ ValidField(g, r[g])
  BY ValidByField
<1>4. \A g \in Field : ValidField(g, d[g])
  BY <1>2, <1>3 DEF Kept
<1>5. QED
  BY <1>2, <1>4, ValidByField DEF d

LEMMA EmptyConfig == Empty \in Config /\ Validate(Empty) /\ Regions(Empty)
<1>1. Empty.lease \in Term /\ Empty.lease \notin BadTerm
  <2>1. \E t \in Term : t \notin BadTerm
    BY SettingsAssumption
  <2>2. QED
    BY <2>1 DEF Empty
<1>2. Empty \in Config
  BY <1>1, SettingsAssumption DEF Empty, Config, Switch, Row, Mode
<1>3. None \notin BadTerm /\ DefaultListen # None
  BY SettingsAssumption
<1>4. Validate(Empty)
  BY <1>1, <1>3 DEF Empty, Validate
<1>5. Regions(Empty)
  BY DEF Empty, Regions
<1>6. QED
  BY <1>2, <1>4, <1>5

\* A store that has been in use holds what a save has left.
LEMMA LivedConfig ==
  ASSUME NEW c \in Lived
  PROVE  c \in Config /\ Validate(c) /\ Regions(c) /\ c.openPorts = Expand(c.openPortRanges)
<1> DEFINE l == Loaded(c)
           q == Prepared(l, c)
<1>1. c \in Config /\ Validate(c) /\ Regions(c) /\ Stored(l, c) = c
  BY LivedAssumption
<1>2. l \in Config /\ Validate(l) /\ ValidRanges(l.openPortRanges)
  BY <1>1, LoadedConfig DEF Validate, ValidRanges
<1> HIDE DEF l
<1>3. q \in Config /\ Validate(q)
  BY <1>1, <1>2, PreparedConfig, PreparedValid
<1> HIDE DEF q
<1>4. c = NormalizeIngress(SaveProtect(q))
  BY <1>1 DEF Stored, q
<1>5. c.openPorts = Expand(c.openPortRanges)
  BY <1>3, <1>4, StoredConfig
<1>6. QED
  BY <1>1, <1>5

LEMMA ValidConfig ==
  ASSUME NEW c, Validate(c)
  PROVE  ValidRanges(c.openPortRanges) /\ Valid(c.openPorts)
  BY DEF Validate, ValidRanges, Valid

\* What is left of a valid configuration by a command has valid ranges.
LEMMA EditedRanges ==
  ASSUME NEW c \in Config, Validate(c), NEW d \in Edits(c)
  PROVE  d \in Config /\ ValidRanges(d.openPortRanges)
  BY EditsOK, ValidConfig, CompressValid DEF EditOK, Lists

----------------------------------------------------------------------------
(* Steps *)

Move(p) ==
  \/ Start(p) \/ Stop(p)
  \/ ReadFlag(p) \/ CheckPorts(p) \/ InsertPorts(p) \/ CheckSkip(p) \/ InsertSkip(p) \/ Mark(p)
  \/ Read(p) \/ EndRead(p) \/ Prepare(p) \/ Commit(p)
  \/ Edit(p, Edits(copy[p]))

\* Every command is one of the edits.
LEMMA Moves ==
  ASSUME [Next]_vars
  PROVE  (\E p \in Process : Move(p)) \/ UNCHANGED vars
<1>1. ASSUME NEW p \in Process, NEW S, S \subseteq Edits(copy[p]), Edit(p, S)
      PROVE  Edit(p, Edits(copy[p]))
  BY <1>1 DEF Edit
<1>2. ASSUME NEW p \in Process, RunProtect(p) \/ RunDPI(p)
      PROVE  Edit(p, Edits(copy[p]))
  BY <1>1, <1>2 DEF RunProtect, RunDPI, Edits
<1>3. ASSUME NEW p \in Process, RunIngress(p)
      PROVE  Edit(p, Edits(copy[p]))
  BY <1>1, <1>3 DEF RunIngress, Edits
<1>4. ASSUME NEW p \in Process, RunEgress(p) \/ RunLease(p)
      PROVE  Edit(p, Edits(copy[p]))
  BY <1>1, <1>4 DEF RunEgress, RunLease, Edits
<1>5. QED
  BY <1>2, <1>3, <1>4 DEF Next, Move

\* The data a process puts in its own memory or in the store.
LEMMA EditData ==
  ASSUME Inv, NEW p \in Process, Edit(p, Edits(copy[p]))
  PROVE  \E c \in Edits(copy[p]) : /\ copy' = [copy EXCEPT ![p] = c] /\ c \in Config
                                   /\ asked' = [asked EXCEPT ![p] = c]
                                   /\ ValidRanges(c.openPortRanges)
<1>1. copy[p] \in Config /\ Validate(copy[p])
  BY DEF Inv, TypeOK, Accepted, Control, Edit
<1>2. PICK c \in Edits(copy[p]) : copy' = [copy EXCEPT ![p] = c] /\ asked' = [asked EXCEPT ![p] = c]
  BY DEF Edit
<1>3. QED
  BY <1>1, <1>2, EditedRanges

LEMMA ReadData ==
  ASSUME Inv, NEW p \in Process, Read(p)
  PROVE  \E f \in Field :
           /\ f = Order[at[p] + 1] /\ at[p] + 1 \in 1 .. Len(Order)
           /\ copy' = [copy EXCEPT ![p] = Put(copy[p], f, db[f])]
           /\ copy'[p] \in Config /\ Validate(copy'[p]) /\ copy'[p][f] = db[f]
           /\ Kept(copy[p], copy'[p], {f})
<1> DEFINE f == Order[at[p] + 1]
<1>1. at[p] + 1 \in 1 .. Len(Order) /\ f \in Field
  <2>1. Len(Order) \in Nat
    BY DEF Order
  <2>2. at[p] \in 0 .. Len(Order) /\ at[p] < Len(Order)
    BY DEF Inv, TypeOK, Read
  <2>3. QED
    BY <2>1, <2>2 DEF Field
<1>2. /\ copy[p] \in Config /\ db \in Config /\ Validate(copy[p]) /\ Validate(db)
      /\ copy \in [Process -> Config]
  BY DEF Inv, TypeOK, Accepted, Control, Read
<1>3. copy' = [copy EXCEPT ![p] = Put(copy[p], f, db[f])]
  BY <1>2 DEF Read, Put
<1>4. copy'[p] = Put(copy[p], f, db[f])
  BY <1>2, <1>3
<1> HIDE DEF f
<1>5. /\ copy'[p] \in Config /\ Validate(copy'[p]) /\ copy'[p][f] = db[f]
      /\ Kept(copy[p], copy'[p], {f})
  <2> DEFINE d == Put(copy[p], f, db[f])
  <2>1. d \in Config /\ Validate(d) /\ d[f] = db[f] /\ Kept(copy[p], d, {f})
    BY <1>1, <1>2, ReadConfig
  <2>2. copy'[p] = d
    BY <1>4
  <2> HIDE DEF d
  <2>3. QED
    BY <2>1, <2>2
<1>6. QED
  BY <1>1, <1>3, <1>5 DEF f

LEMMA PrepareData ==
  ASSUME Inv, NEW p \in Process, Prepare(p)
  PROVE  /\ copy' = [copy EXCEPT ![p] = Prepared(copy[p], db)] /\ Prepared(copy[p], db) \in Config
         /\ Validate(Prepared(copy[p], db))
<1>1. copy[p] \in Config /\ db \in Config /\ ValidRanges(copy[p].openPortRanges)
  BY DEF Inv, TypeOK, Accepted
<1>2. QED
  BY <1>1, PreparedConfig DEF Prepare

LEMMA EndReadData ==
  ASSUME Inv, NEW p \in Process, EndRead(p)
  PROVE  /\ copy' = [copy EXCEPT ![p] = Loaded(copy[p])] /\ Loaded(copy[p]) \in Config
         /\ Validate(Loaded(copy[p]))
<1>1. copy[p] \in Config /\ Validate(copy[p])
  BY DEF Inv, TypeOK, Accepted, Control, EndRead
<1>2. QED
  BY <1>1, LoadedConfig DEF EndRead

\* What the store holds after a step.
LEMMA StoreData ==
  ASSUME Inv, NEW p \in Process, Move(p)
  PROVE  /\ db' \in Config /\ Validate(db')
         /\ db' = db \/ InsertPorts(p) \/ InsertSkip(p) \/ Commit(p)
         /\ InsertPorts(p) => /\ Kept(db, db', {"openPorts"})
                              /\ db'.openPorts = db.openPorts \cup {DefaultPort}
         /\ InsertSkip(p) => Kept(db, db', {"skipPorts"})
         /\ Commit(p) => /\ Regions(copy[p]) => Regions(db')
                         /\ db'.openPorts = Expand(db'.openPortRanges)
<1>1. db \in Config /\ Validate(db) /\ copy[p] \in Config
  BY DEF Inv, TypeOK, Accepted
<1>2. CASE InsertPorts(p)
  <2>1. db' = Put(db, "openPorts", db["openPorts"] \cup {DefaultPort})
    BY <1>2 DEF InsertPorts, Change, Put
  <2>2. /\ db' \in Config /\ Validate(db') /\ Kept(db, db', {"openPorts"})
        /\ db'.openPorts = db.openPorts \cup {DefaultPort}
    BY <1>1, <2>1, GrownConfig
  <2>3. ~InsertSkip(p) /\ ~Commit(p)
    BY <1>2 DEF InsertPorts, InsertSkip, Commit
  <2>4. QED
    BY <1>2, <2>2, <2>3
<1>3. CASE InsertSkip(p)
  <2>1. db' = Put(db, "skipPorts", db["skipPorts"] \cup {DefaultPort})
    BY <1>3 DEF InsertSkip, Change, Put
  <2>2. db' \in Config /\ Validate(db') /\ Kept(db, db', {"skipPorts"})
    BY <1>1, <2>1, GrownConfig
  <2>3. ~InsertPorts(p) /\ ~Commit(p)
    BY <1>3 DEF InsertPorts, InsertSkip, Commit
  <2>4. QED
    BY <1>3, <2>2, <2>3
<1>4. CASE Commit(p)
  <2>1. db' = NormalizeIngress(SaveProtect(copy[p])) /\ Validate(copy[p])
    BY <1>4 DEF Commit, Change, Inv, Accepted
  <2>2. ~InsertPorts(p) /\ ~InsertSkip(p)
    BY <1>4 DEF InsertPorts, InsertSkip, Commit
  <2>3. QED
    BY <1>1, <1>4, <2>1, <2>2, StoredConfig
<1>5. CASE ~ (InsertPorts(p) \/ InsertSkip(p) \/ Commit(p))
  <2>1. db' = db
    BY <1>5 DEF Move, Start, Stop, ReadFlag, CheckPorts, CheckSkip, Mark, Read, EndRead, Prepare,
                Edit, KeepStore
  <2>2. QED
    BY <1>1, <1>5, <2>1
<1>6. QED
  BY <1>2, <1>3, <1>4, <1>5

----------------------------------------------------------------------------
(* The invariant is inductive *)

LEMMA InitInv == Init => Inv
<1> SUFFICES ASSUME Init PROVE Inv
  OBVIOUS
<1>1. db \in Config /\ Validate(db) /\ Regions(db) /\ ListsAgree
  <2>1. CASE db = Empty
    BY <2>1, EmptyConfig DEF ListsAgree, Empty
  <2>2. CASE db \in Lived
    BY <2>2, LivedConfig DEF ListsAgree
  <2>3. QED
    BY <2>1, <2>2 DEF Init
<1>2. Empty \in Config /\ Validate(Empty) /\ ValidRanges(Empty.openPortRanges)
  BY EmptyConfig, ValidConfig
<1>3. TypeOK
  <2>1. 0 \in 0 .. Len(Order) /\ 0 \in 0 .. MaxCommands
    BY ConfigAssumption DEF Order
  <2>2. QED
    BY <1>1, <1>2, <2>1 DEF Init, TypeOK, Step
<1>4. Control
  BY DEF Init, Control, Filling
<1>5. Accepted
  BY <1>1, <1>2 DEF Init, Accepted
<1>6. Serial
  BY DEF Init, Serial, Derived
<1>7. Seeding
  BY DEF Init, Seeding, Filled
<1>8. QED
  BY <1>1, <1>3, <1>4, <1>5, <1>6, <1>7 DEF Inv, InForce

LEMMA TypeMoves ==
  ASSUME Inv, NEW p \in Process, Move(p)
  PROVE  TypeOK'
<1> USE DEF Go, End, KeepStore, Change, Step
<1>1. TypeOK /\ Control
  BY DEF Inv
<1>2. db' \in Config
  BY StoreData
<1>3. Empty \in Config
  BY EmptyConfig
<1>4. 0 \in 0 .. Len(Order)
  BY DEF Order
<1>5. CASE Start(p)
  BY <1>1, <1>2, <1>5, ConfigAssumption DEF Start, TypeOK
<1>6. CASE Stop(p)
  BY <1>1, <1>2, <1>3, <1>4, <1>6 DEF Stop, TypeOK
<1>7. CASE ReadFlag(p)
  <2>1. goal[p] \in {"read", "write"}
    BY <1>1 DEF TypeOK
  <2>2. QED
    BY <1>1, <1>2, <1>7, <2>1 DEF ReadFlag, TypeOK
<1>8. CASE CheckPorts(p) \/ CheckSkip(p)
  BY <1>1, <1>2, <1>8 DEF CheckPorts, CheckSkip, TypeOK
<1>9. CASE InsertPorts(p)
  BY <1>1, <1>2, <1>9 DEF InsertPorts, TypeOK
<1>10. CASE InsertSkip(p)
  BY <1>1, <1>2, <1>10 DEF InsertSkip, TypeOK
<1>11. CASE Mark(p)
  BY <1>1, <1>2, <1>11 DEF Mark, TypeOK
<1>12. CASE Read(p)
  <2>1. copy' \in [Process -> Config]
    BY <1>1, <1>12, ReadData DEF TypeOK
  <2>2. at' \in [Process -> 0 .. Len(Order)]
    BY <1>1, <1>12, ReadData DEF TypeOK, Read, Order
  <2>3. QED
    BY <1>1, <1>2, <1>12, <2>1, <2>2 DEF Read, TypeOK
<1>13. CASE EndRead(p)
  BY <1>1, <1>2, <1>13, EndReadData DEF EndRead, TypeOK
<1>14. CASE Edit(p, Edits(copy[p]))
  <2>1. copy' \in [Process -> Config] /\ asked' \in [Process -> Config]
    <3>1. PICK c \in Config : /\ copy' = [copy EXCEPT ![p] = c]
                              /\ asked' = [asked EXCEPT ![p] = c]
      BY <1>14, EditData
    <3>2. QED
      BY <1>1, <3>1 DEF TypeOK
  <2>2. QED
    BY <1>1, <1>2, <1>14, <2>1 DEF Edit, TypeOK
<1>15. CASE Prepare(p)
  BY <1>1, <1>2, <1>15, PrepareData DEF Prepare, TypeOK
<1>16. CASE Commit(p)
  BY <1>1, <1>2, <1>3, <1>4, <1>16 DEF Commit, TypeOK
<1>17. QED
  BY <1>5, <1>6, <1>7, <1>8, <1>9, <1>10, <1>11, <1>12, <1>13, <1>14, <1>15, <1>16 DEF Move

LEMMA ControlMoves ==
  ASSUME Inv, NEW p \in Process, Move(p)
  PROVE  Control'
<1> USE DEF Go, End, KeepStore
<1>1. TypeOK /\ Control
  BY DEF Inv
<1>2. goal[p] \in {"read", "write"} /\ pc[p] \in Step
  BY <1>1 DEF TypeOK
<1>3. CASE Start(p)
  BY <1>1, <1>3 DEF Start, TypeOK, Control, Filling
<1>4. CASE Stop(p)
  BY <1>1, <1>4 DEF Stop, TypeOK, Control, Filling
<1>5. CASE ReadFlag(p)
  BY <1>1, <1>2, <1>5 DEF ReadFlag, TypeOK, Control, Filling
<1>6. CASE CheckPorts(p) \/ CheckSkip(p)
  BY <1>1, <1>6 DEF CheckPorts, CheckSkip, TypeOK, Control, Filling
<1>7. CASE InsertPorts(p) \/ InsertSkip(p)
  BY <1>1, <1>7 DEF InsertPorts, InsertSkip, TypeOK, Control, Filling
<1>8. CASE Mark(p)
  BY <1>1, <1>2, <1>8 DEF Mark, TypeOK, Control, Filling
<1>9. CASE Read(p)
  BY <1>1, <1>9 DEF Read, TypeOK, Control, Filling
<1>10. CASE EndRead(p)
  BY <1>1, <1>10 DEF EndRead, TypeOK, Control, Filling
<1>11. CASE Edit(p, Edits(copy[p]))
  BY <1>1, <1>11 DEF Edit, TypeOK, Control, Filling
<1>12. CASE Prepare(p)
  BY <1>1, <1>12 DEF Prepare, TypeOK, Control, Filling
<1>13. CASE Commit(p)
  BY <1>1, <1>13 DEF Commit, TypeOK, Control, Filling
<1>14. QED
  BY <1>3, <1>4, <1>5, <1>6, <1>7, <1>8, <1>9, <1>10, <1>11, <1>12, <1>13 DEF Move

LEMMA AcceptedMoves ==
  ASSUME Inv, NEW p \in Process, Move(p)
  PROVE  Accepted'
<1> USE DEF Go, End, KeepStore
<1>1. TypeOK /\ Control /\ Accepted
  BY DEF Inv
<1>2. Validate(db')
  BY StoreData
<1>3. Validate(Empty) /\ ValidRanges(Empty.openPortRanges)
  BY EmptyConfig, ValidConfig
<1>5. CASE Start(p)
  <2>1. pc[p] = "idle"
    BY <1>5 DEF Start
  <2>2. QED
    BY <1>1, <1>2, <1>5 DEF Start, TypeOK, Accepted
<1>6. CASE Stop(p)
  BY <1>1, <1>2, <1>3, <1>6 DEF Stop, TypeOK, Accepted
<1>7. CASE ReadFlag(p)
  BY <1>1, <1>2, <1>7 DEF ReadFlag, TypeOK, Accepted
<1>8. CASE CheckPorts(p) \/ CheckSkip(p)
  BY <1>1, <1>2, <1>8 DEF CheckPorts, CheckSkip, TypeOK, Accepted
<1>9. CASE InsertPorts(p) \/ InsertSkip(p)
  BY <1>1, <1>2, <1>9 DEF InsertPorts, InsertSkip, TypeOK, Accepted
<1>10. CASE Mark(p)
  BY <1>1, <1>2, <1>10 DEF Mark, TypeOK, Accepted
<1>11. CASE Read(p)
  <2>1. PICK f \in Field : /\ copy' = [copy EXCEPT ![p] = Put(copy[p], f, db[f])]
                           /\ Validate(copy'[p])
    BY <1>11, ReadData
  <2>2. ValidRanges(copy'[p].openPortRanges)
    BY <2>1, ValidConfig
  <2>3. \A q \in Process : q # p => copy'[q] = copy[q]
    BY <1>1, <2>1 DEF TypeOK
  <2>4. UNCHANGED << pc, goal >>
    BY <1>11 DEF Read
  <2>5. QED
    BY <1>1, <1>2, <2>1, <2>2, <2>3, <2>4 DEF Accepted
<1>12. CASE EndRead(p)
  <2>1. /\ copy' = [copy EXCEPT ![p] = Loaded(copy[p])] /\ Validate(Loaded(copy[p]))
        /\ ValidRanges(Loaded(copy[p]).openPortRanges)
    BY <1>12, EndReadData, ValidConfig
  <2>2. pc' = [pc EXCEPT ![p] = "loaded"] /\ goal' = goal
    BY <1>12, <2>1 DEF EndRead
  <2>3. QED
    BY <1>1, <1>2, <2>1, <2>2 DEF TypeOK, Accepted
<1>13. CASE Edit(p, Edits(copy[p]))
  <2>1. PICK c \in Edits(copy[p]) : /\ copy' = [copy EXCEPT ![p] = c]
                                    /\ ValidRanges(c.openPortRanges)
    BY <1>13, EditData
  <2>2. pc' = [pc EXCEPT ![p] = "flag"] /\ goal' = [goal EXCEPT ![p] = "write"]
    BY <1>13 DEF Edit
  <2>3. QED
    BY <1>1, <1>2, <2>1, <2>2 DEF TypeOK, Accepted
<1>14. CASE Prepare(p)
  <2>1. /\ copy' = [copy EXCEPT ![p] = Prepared(copy[p], db)]
        /\ Validate(Prepared(copy[p], db)) /\ ValidRanges(Prepared(copy[p], db).openPortRanges)
    BY <1>14, PrepareData, ValidConfig
  <2>2. pc' = [pc EXCEPT ![p] = "commit"] /\ goal' = goal
    BY <1>14 DEF Prepare
  <2>3. QED
    BY <1>1, <1>2, <2>1, <2>2 DEF TypeOK, Accepted
<1>15. CASE Commit(p)
  BY <1>1, <1>2, <1>3, <1>15 DEF Commit, TypeOK, Accepted
<1>16. QED
  BY <1>5, <1>6, <1>7, <1>8, <1>9, <1>10, <1>11, <1>12, <1>13, <1>14, <1>15 DEF Move

LEMMA SeedingMoves ==
  ASSUME Inv, NEW p \in Process, Move(p)
  PROVE  Seeding'
<1> USE DEF Go, End, KeepStore
<1>1. TypeOK /\ Control /\ Seeding
  BY DEF Inv
<1>2. goal[p] \in {"read", "write"} /\ pc[p] \in Step
  BY <1>1 DEF TypeOK
<1>3. CASE Start(p)
  BY <1>1, <1>3 DEF Start, TypeOK, Seeding, Filled
<1>4. CASE Stop(p)
  BY <1>1, <1>4 DEF Stop, TypeOK, Seeding, Filled
<1>5. CASE ReadFlag(p)
  BY <1>1, <1>2, <1>5 DEF ReadFlag, TypeOK, Seeding, Filled
<1>6. CASE CheckPorts(p)
  BY <1>1, <1>6 DEF CheckPorts, TypeOK, Seeding, Filled
<1>7. CASE CheckSkip(p)
  BY <1>1, <1>7 DEF CheckSkip, TypeOK, Seeding, Filled
<1>8. CASE InsertPorts(p)
  <2>1. db'.openPorts # {}
    BY <1>8, StoreData
  <2>2. \A q \in Process : ~stale'[q] => q = p \/ (~stale[q] /\ db' = db)
    BY <1>1, <1>8 DEF InsertPorts, Change, TypeOK
  <2>3. \A q \in Process : q # p => pc'[q] = pc[q]
    BY <1>1, <1>8 DEF InsertPorts, TypeOK
  <2>4. pc'[p] = "skip" /\ UNCHANGED << saved, seeded >>
    BY <1>1, <1>8 DEF InsertPorts, TypeOK
  <2>5. QED
    BY <1>1, <2>1, <2>2, <2>3, <2>4 DEF Seeding
<1>9. CASE InsertSkip(p)
  <2>1. db'.openPorts = db.openPorts
    BY <1>9, StoreData, FieldNames DEF Kept
  <2>2. \A q \in Process : ~stale'[q] => q = p \/ ~stale[q]
    BY <1>1, <1>9 DEF InsertSkip, Change, TypeOK
  <2>3. \A q \in Process : q # p => pc'[q] = pc[q]
    BY <1>1, <1>9 DEF InsertSkip, TypeOK
  <2>4. pc[p] = "insertSkip" /\ pc'[p] = "mark" /\ UNCHANGED << saved, seeded >>
    BY <1>1, <1>9 DEF InsertSkip, TypeOK
  <2>5. QED
    BY <1>1, <2>1, <2>2, <2>3, <2>4 DEF Seeding, Filled
<1>10. CASE Mark(p)
  BY <1>1, <1>2, <1>10 DEF Mark, TypeOK, Control, Seeding, Filled
<1>11. CASE Read(p)
  BY <1>1, <1>11 DEF Read, TypeOK, Seeding, Filled
<1>12. CASE EndRead(p)
  BY <1>1, <1>12 DEF EndRead, TypeOK, Seeding, Filled
<1>13. CASE Edit(p, Edits(copy[p]))
  BY <1>1, <1>13 DEF Edit, TypeOK, Seeding, Filled
<1>14. CASE Prepare(p)
  BY <1>1, <1>14 DEF Prepare, TypeOK, Seeding, Filled
<1>15. CASE Commit(p)
  <2>1. seeded /\ seeded' = seeded
    BY <1>1, <1>15 DEF Commit, Control
  <2>2. \A q \in Process : ~stale'[q] => q = p \/ (~stale[q] /\ db' = db)
    BY <1>1, <1>15 DEF Commit, Change, TypeOK
  <2>3. \A q \in Process : q # p => pc'[q] = pc[q]
    BY <1>1, <1>15 DEF Commit, TypeOK
  <2>4. pc'[p] = "idle"
    BY <1>1, <1>15 DEF Commit, TypeOK
  <2>5. QED
    BY <1>1, <2>1, <2>2, <2>3, <2>4 DEF Seeding
<1>16. QED
  BY <1>3, <1>4, <1>5, <1>6, <1>7, <1>8, <1>9, <1>10, <1>11, <1>12, <1>13, <1>14, <1>15 DEF Move

\* A step of one process leaves the others alone, unless it changes the store.
LEMMA Others ==
  ASSUME Inv, NEW p \in Process, Move(p), NEW q \in Process, q # p
  PROVE  /\ pc'[q] = pc[q] /\ goal'[q] = goal[q] /\ at'[q] = at[q] /\ copy'[q] = copy[q]
         /\ asked'[q] = asked[q]
         /\ ~stale'[q] => ~stale[q] /\ db' = db
<1> USE DEF Go, End, KeepStore
<1>1. TypeOK
  BY DEF Inv
<1>2. CASE Start(p) \/ Stop(p)
  BY <1>1, <1>2 DEF Start, Stop, TypeOK
<1>3. CASE ReadFlag(p) \/ CheckPorts(p) \/ CheckSkip(p) \/ Mark(p)
  BY <1>1, <1>3 DEF ReadFlag, CheckPorts, CheckSkip, Mark, TypeOK
<1>4. CASE InsertPorts(p) \/ InsertSkip(p) \/ Commit(p)
  BY <1>1, <1>4 DEF InsertPorts, InsertSkip, Commit, Change, TypeOK
<1>5. CASE Read(p)
  <2>1. copy'[q] = copy[q]
    BY <1>1, <1>5, ReadData DEF TypeOK
  <2>2. QED
    BY <1>1, <1>5, <2>1 DEF Read, TypeOK
<1>6. CASE EndRead(p) \/ Prepare(p) \/ Edit(p, Edits(copy[p]))
  BY <1>1, <1>6 DEF EndRead, Prepare, Edit, TypeOK
<1>7. QED
  BY <1>2, <1>3, <1>4, <1>5, <1>6 DEF Move

LEMMA SerialMoves ==
  ASSUME Inv, NEW p \in Process, Move(p)
  PROVE  Serial'
<1> USE DEF Go, End, KeepStore
<1>1. TypeOK /\ Control /\ Serial
  BY DEF Inv
<1>2. goal[p] \in {"read", "write"} /\ pc[p] \in Step
  BY <1>1 DEF TypeOK
<1>3. ASSUME NEW q \in Process, q # p, ~stale'[q] PROVE Derived(q)'
  <2>1. /\ pc'[q] = pc[q] /\ goal'[q] = goal[q] /\ at'[q] = at[q] /\ copy'[q] = copy[q]
        /\ asked'[q] = asked[q] /\ ~stale[q] /\ db' = db
    BY <1>3, Others
  <2>2. Derived(q)
    BY <1>1, <2>1 DEF Serial
  <2>3. QED
    BY <2>1, <2>2 DEF Derived
<1>4. ASSUME ~stale'[p] PROVE Derived(p)'
  <2>1. CASE pc'[p] \in {"idle"} \cup Filling \/ (pc'[p] = "flag" /\ goal'[p] = "read")
    BY <2>1 DEF Derived, Filling
  <2>2. CASE Start(p)
    BY <1>1, <2>1, <2>2 DEF Start, TypeOK
  <2>3. CASE Stop(p) \/ Commit(p)
    BY <1>1, <2>1, <2>3 DEF Stop, Commit, TypeOK
  <2>4. CASE CheckPorts(p) \/ CheckSkip(p) \/ InsertPorts(p) \/ InsertSkip(p)
    <3>1. pc'[p] \in Filling
      BY <1>1, <2>4 DEF CheckPorts, CheckSkip, InsertPorts, InsertSkip, TypeOK, Filling
    <3>2. QED
      BY <2>1, <3>1
  <2>5. CASE ReadFlag(p)
    <3>1. /\ ~stale[p] /\ pc[p] = "flag" /\ UNCHANGED << db, copy, asked, at, goal >>
          /\ pc'[p] = IF seeded THEN goal[p] ELSE "ports"
      BY <1>1, <1>4, <2>5 DEF ReadFlag, TypeOK
    <3>2. CASE ~seeded
      BY <2>1, <3>1, <3>2 DEF Filling
    <3>3. CASE seeded /\ goal[p] = "read"
      <4>1. at[p] = 0
        BY <1>1, <3>1, <3>3 DEF Control
      <4>2. QED
        BY <3>1, <3>3, <4>1 DEF Derived
    <3>4. CASE seeded /\ goal[p] = "write"
      <4>1. copy[p] = asked[p] /\ asked[p] \in Edits(Loaded(db))
        BY <1>1, <3>1, <3>4 DEF Serial, Derived
      <4>2. QED
        BY <3>1, <3>4, <4>1 DEF Derived
    <3>5. QED
      BY <1>2, <3>2, <3>3, <3>4
  <2>6. CASE Mark(p)
    <3>1. at[p] = 0 /\ goal[p] = "read" /\ at' = at /\ pc'[p] = "read"
      BY <1>1, <2>6 DEF Mark, Control, Filling, TypeOK
    <3>2. QED
      BY <3>1 DEF Derived
  <2>7. CASE Read(p)
    <3>1. PICK f \in Field : /\ f = Order[at[p] + 1] /\ at[p] + 1 \in 1 .. Len(Order)
                             /\ copy'[p][f] = db[f] /\ Kept(copy[p], copy'[p], {f})
      BY <2>7, ReadData
    <3>2. /\ ~stale[p] /\ pc[p] = "read" /\ pc'[p] = "read" /\ at'[p] = at[p] + 1 /\ db' = db
      BY <1>1, <1>4, <2>7 DEF Read, TypeOK
    <3>3. at[p] \in Nat /\ Len(Order) \in Nat /\ at[p] + 1 <= Len(Order)
      BY <1>1, <3>1 DEF TypeOK, Order
    <3>4. ASSUME NEW i \in 1 .. at'[p] PROVE copy'[p][Order[i]] = db[Order[i]]
      <4>1. CASE Order[i] = f
        BY <3>1, <4>1
      <4>2. CASE Order[i] # f
        <5>1. i \in 1 .. at[p] /\ i \in 1 .. Len(Order)
          BY <3>1, <3>2, <3>3, <4>2
        <5>2. copy[p][Order[i]] = db[Order[i]]
          BY <1>1, <3>2, <5>1 DEF Serial, Derived
        <5>3. QED
          BY <3>1, <4>2, <5>1, <5>2 DEF Kept, Field
      <4>3. QED
        BY <4>1, <4>2
    <3>5. QED
      BY <3>2, <3>4 DEF Derived
  <2>8. CASE EndRead(p)
    <3>1. /\ ~stale[p] /\ pc[p] = "read" /\ at[p] = Len(Order) /\ db' = db
          /\ copy[p] \in Config /\ db \in Config
      BY <1>1, <1>4, <2>8 DEF EndRead, TypeOK
    <3>2. copy' = [copy EXCEPT ![p] = Loaded(copy[p])] /\ pc'[p] = "loaded"
      BY <1>1, <2>8, EndReadData DEF EndRead, TypeOK
    <3>3. \A i \in 1 .. Len(Order) : copy[p][Order[i]] = db[Order[i]]
      BY <1>1, <3>1 DEF Serial, Derived
    <3>4. copy[p] = db
      BY <3>1, <3>3, SameConfig DEF Field
    <3>5. QED
      BY <1>1, <3>1, <3>2, <3>4 DEF Derived, TypeOK
  <2>9. CASE Edit(p, Edits(copy[p]))
    <3>1. PICK c \in Edits(copy[p]) : /\ copy' = [copy EXCEPT ![p] = c]
                                      /\ asked' = [asked EXCEPT ![p] = c]
      BY <2>9, EditData
    <3>2. ~stale[p] /\ pc[p] = "loaded" /\ pc'[p] = "flag" /\ db' = db
      BY <1>1, <1>4, <2>9 DEF Edit, TypeOK
    <3>3. copy[p] = Loaded(db) /\ copy'[p] = c /\ asked'[p] = c
      BY <1>1, <3>1, <3>2 DEF Serial, Derived, TypeOK
    <3>4. QED
      BY <3>1, <3>2, <3>3 DEF Derived
  <2>10. CASE Prepare(p)
    <3>1. /\ ~stale[p] /\ pc[p] = "write" /\ pc'[p] = "commit" /\ db' = db
          /\ copy'[p] = Prepared(copy[p], db) /\ asked' = asked
      BY <1>1, <1>4, <2>10 DEF Prepare, TypeOK
    <3>2. copy[p] = asked[p] /\ asked[p] \in Edits(Loaded(db))
      BY <1>1, <3>1 DEF Serial, Derived
    <3>3. QED
      BY <3>1, <3>2 DEF Derived
  <2>11. QED
    BY <2>2, <2>3, <2>4, <2>5, <2>6, <2>7, <2>8, <2>9, <2>10 DEF Move
<1>5. QED
  BY <1>3, <1>4 DEF Serial

LEMMA InForceMoves ==
  ASSUME Inv, NEW p \in Process, Move(p)
  PROVE  InForce'
<1>1. TypeOK /\ Accepted /\ Serial /\ Seeding /\ InForce
  BY DEF Inv
<1> SUFFICES ASSUME clean' PROVE Regions(db') /\ ListsAgree'
  BY DEF InForce
<1>2. clean
  BY DEF Move, Start, Stop, ReadFlag, CheckPorts, InsertPorts, CheckSkip, InsertSkip, Mark, Read,
         EndRead, Prepare, Commit, Edit, KeepStore, Change
<1>3. Regions(db) /\ ListsAgree /\ db \in Config /\ Validate(db)
  BY <1>1, <1>2 DEF InForce, TypeOK, Accepted
<1>4. CASE db' = db
  BY <1>3, <1>4 DEF ListsAgree
<1>5. CASE InsertPorts(p) /\ db' # db
  <2>1. ~stale[p] /\ pc[p] = "insertPorts"
    BY <1>1, <1>5 DEF InsertPorts, Change, TypeOK
  <2>2. db.openPorts = {}
    BY <1>1, <2>1 DEF Seeding
  <2>3. db.openPortRanges = {}
    BY <1>3, <2>2, ValidConfig, ExpandValid DEF ListsAgree
  <2>4. Kept(db, db', {"openPorts"})
    BY <1>5, StoreData
  <2>5. db'.openPortRanges = {}
    BY <2>3, <2>4, FieldNames DEF Kept
  <2>6. Kept(db, db', Plain \cup {"openPorts", "openPortRanges"})
    BY <2>4 DEF Kept
  <2>7. QED
    BY <1>3, <2>5, <2>6, KeptRegions DEF ListsAgree
<1>6. CASE InsertSkip(p)
  <2>1. Kept(db, db', {"skipPorts"})
    BY <1>6, StoreData
  <2>2. Kept(db, db', Plain \cup {"openPorts", "openPortRanges"})
    BY <2>1, PlainNames DEF Kept
  <2>3. db'.openPorts = db.openPorts /\ db'.openPortRanges = db.openPortRanges
    BY <2>1, FieldNames DEF Kept
  <2>4. QED
    BY <1>3, <2>2, <2>3, KeptRegions DEF ListsAgree
<1>7. CASE Commit(p) /\ db' # db
  <2>1. ~stale[p] /\ pc[p] = "commit"
    BY <1>1, <1>7 DEF Commit, Change, TypeOK
  <2>2. PICK c \in Edits(Loaded(db)) : copy[p] = Prepared(c, db)
    BY <1>1, <2>1 DEF Serial, Derived
  <2>3. /\ Loaded(db) \in Config /\ Validate(Loaded(db))
        /\ Kept(db, Loaded(db), {"openPortRanges", "trigger"})
    BY <1>3, LoadedConfig
  <2>4. Kept(db, Loaded(db), Plain \cup {"openPorts", "openPortRanges"})
    BY <2>3, PlainNames DEF Kept
  <2>5. Regions(Loaded(db))
    BY <1>3, <2>4, KeptRegions
  <2>6. c \in Config /\ Regions(c) /\ ValidRanges(c.openPortRanges)
    BY <2>3, <2>5, EditsOK, EditedRanges DEF EditOK
  <2>7. Kept(c, copy[p], {"trigger", "openPorts", "openPortRanges"})
    BY <1>3, <2>2, <2>6, PreparedConfig
  <2>8. Kept(c, copy[p], Plain \cup {"openPorts", "openPortRanges"})
    BY <2>7, PlainNames DEF Kept
  <2>9. Regions(copy[p])
    BY <2>6, <2>8, KeptRegions
  <2>10. QED
    BY <1>7, <2>9, StoreData DEF ListsAgree
<1>8. QED
  BY <1>4, <1>5, <1>6, <1>7, StoreData

THEOREM Inductive == Spec => []Inv
<1>1. Init => Inv
  BY InitInv
<1>2. Inv /\ [Next]_vars => Inv'
  <2> SUFFICES ASSUME Inv, [Next]_vars PROVE Inv'
    OBVIOUS
  <2>1. CASE UNCHANGED vars
    <3>1. UNCHANGED << db, seeded, pc, goal, at, copy, commands, asked, stale, saved, clean >>
      BY <2>1 DEF vars
    <3>2. TypeOK' /\ Control' /\ Accepted'
      BY <3>1 DEF Inv, TypeOK, Control, Accepted
    <3>3. Serial' /\ Seeding' /\ InForce'
      BY <3>1 DEF Inv, Serial, Derived, Seeding, InForce, ListsAgree
    <3>4. QED
      BY <3>2, <3>3 DEF Inv
  <2>2. CASE \E p \in Process : Move(p)
    BY <2>2, TypeMoves, ControlMoves, AcceptedMoves, SerialMoves, SeedingMoves, InForceMoves
       DEF Inv
  <2>3. QED
    BY <2>1, <2>2, Moves
<1>3. QED
  BY <1>1, <1>2, PTL DEF Spec
----------------------------------------------------------------------------
(* Theorems *)

\* Whatever the commands and however they overlap, the store and every copy of
\* it are configurations.
THEOREM TypeCorrect == Spec => []TypeOK
  BY Inductive, PTL DEF Inv

\* No command is ever locked out by what another one stored (SaveConfig checks
\* what it stores, LoadConfig what it has read, and the two checks agree even on
\* a load that saw half of a save).
THEOREM NobodyLocked == Spec => []NeverLocked
<1>1. Inv => NeverLocked
  BY DEF Inv, Accepted, NeverLocked
<1>2. QED
  BY <1>1, Inductive, PTL

\* Selected provinces are in force as long as no overlapped process has written.
THEOREM RegionsStayInForce == Spec => []RegionsInForce
<1>1. Inv => RegionsInForce
  BY DEF Inv, InForce, RegionsInForce
<1>2. QED
  BY <1>1, Inductive, PTL

\* The list of ports and the list of ranges, which are stored apart, can only
\* come to disagree by a process that was overlapped: where none was, the
\* condition of EditIsAtomic holds.
THEOREM ListsStayEqual == Spec => [](clean => ListsAgree)
<1>1. Inv => (clean => ListsAgree)
  BY DEF Inv, InForce
<1>2. QED
  BY <1>1, Inductive, PTL

\* A command that nobody overlapped with has the effect of one step: what it
\* made of its copy is what the next command loads.
THEOREM CommandsAreAtomic == Spec => EditIsAtomic
<1>1. ASSUME Inv, NEW p \in Process, Commit(p), ~stale[p], ListsAgree
      PROVE  asked[p] \in Edits(Loaded(db)) /\ Loaded(db') = Intended(asked[p])
  <2>1. pc[p] = "commit" /\ db' = NormalizeIngress(SaveProtect(copy[p]))
    BY <1>1 DEF Commit, Change
  <2>2. asked[p] \in Edits(Loaded(db)) /\ copy[p] = Prepared(asked[p], db)
    BY <1>1, <2>1 DEF Inv, Serial, Derived
  <2>3. db \in Config /\ Validate(db)
    BY <1>1 DEF Inv, TypeOK, Accepted
  <2>4. Loaded(db') = Intended(asked[p])
    BY <1>1, <2>1, <2>2, <2>3, SaveIsEdit DEF ListsAgree
  <2>5. QED
    BY <2>2, <2>4
<1>2. Inv => \A p \in Process :
               (Commit(p) /\ ~stale[p] /\ ListsAgree)
                 => asked[p] \in Edits(Loaded(db)) /\ Loaded(db') = Intended(asked[p])
  BY <1>1
<1>3. QED
  BY <1>2, Inductive, PTL DEF EditIsAtomic
----------------------------------------------------------------------------
(* One store *)

\* What a load makes of a store that is valid.
LEMMA LoadedValid ==
  ASSUME NEW c \in Config, Validate(c)
  PROVE  /\ Loaded(c) \in Config /\ Validate(Loaded(c))
         /\ Kept(c, Loaded(c), {"openPortRanges"})
         /\ Loaded(c).openPortRanges = CurrentRanges(c)
<1>1. /\ Loaded(c) \in Config /\ Validate(Loaded(c))
      /\ Kept(c, Loaded(c), {"openPortRanges", "trigger"})
      /\ Loaded(c).openPortRanges = CurrentRanges(c)
  BY LoadedConfig
<1>2. c.trigger.on => c.trigger.listen # None
  BY DEF Validate
<1>3. Loaded(c).trigger = c.trigger
  <2>1. CASE c.openPortRanges # {}
    BY <1>2, <2>1 DEF Loaded, ApplyFallbacks
  <2>2. CASE c.openPortRanges = {}
    <3> DEFINE d == [c EXCEPT !.openPortRanges = Compress(c.openPorts)]
    <3>1. d.trigger = c.trigger
      OBVIOUS
    <3>2. Loaded(c) = ApplyFallbacks(d)
      BY <2>2 DEF Loaded
    <3> HIDE DEF d
    <3>3. QED
      BY <1>2, <3>1, <3>2 DEF ApplyFallbacks
  <2>3. QED
    BY <2>1, <2>2
<1>4. QED
  BY <1>1, <1>3 DEF Kept

LEMMA CompressOne ==
  ASSUME NEW n \in Port, ValidPort(n)
  PROVE  Compress({n}) = {<<n, n>>}
<1>1. n \in Nat
  BY SettingsAssumption
<1>2. n .. n = {n} /\ n + 1 # n
  BY <1>1
<1>3. <<n, n>> \in Compress({n})
  BY <1>1, <1>2 DEF Compress
<1>4. \A r \in Compress({n}) : r = <<n, n>>
  BY DEF Compress
<1>5. QED
  BY <1>3, <1>4

\* The list of skipped ports is filled in as the list of open ones is.
Skipping ==
  /\ ~seeded /\ (\E q \in Process : pc[q] = "mark") => db.skipPorts # {}
  /\ \A p \in Process : ~stale[p] =>
       /\ pc[p] \in Filling \ {"mark"} /\ seeded => db.skipPorts # {}
       /\ pc[p] = "insertSkip" => db.skipPorts = {}

LEMMA SkippingMoves ==
  ASSUME Inv, Skipping, NEW p \in Process, Move(p)
  PROVE  Skipping'
<1> USE DEF Go, End, KeepStore
<1>1. TypeOK /\ Control /\ Skipping
  BY DEF Inv
<1>2. goal[p] \in {"read", "write"} /\ pc[p] \in Step
  BY <1>1 DEF TypeOK
<1>3. CASE Start(p)
  BY <1>1, <1>3 DEF Start, TypeOK, Skipping, Filling
<1>4. CASE Stop(p)
  BY <1>1, <1>4 DEF Stop, TypeOK, Skipping, Filling
<1>5. CASE ReadFlag(p)
  BY <1>1, <1>2, <1>5 DEF ReadFlag, TypeOK, Skipping, Filling
<1>6. CASE CheckPorts(p)
  BY <1>1, <1>6 DEF CheckPorts, TypeOK, Skipping, Filling
<1>7. CASE CheckSkip(p)
  BY <1>1, <1>7 DEF CheckSkip, TypeOK, Skipping, Filling
<1>8. CASE InsertPorts(p)
  <2>1. db'.skipPorts = db.skipPorts
    BY <1>8, StoreData, FieldNames DEF Kept
  <2>2. \A q \in Process : ~stale'[q] => q = p \/ ~stale[q]
    BY <1>1, <1>8 DEF InsertPorts, Change, TypeOK
  <2>3. \A q \in Process : q # p => pc'[q] = pc[q]
    BY <1>1, <1>8 DEF InsertPorts, TypeOK
  <2>4. /\ pc[p] = "insertPorts" /\ pc'[p] = "skip" /\ UNCHANGED seeded
        /\ ~stale'[p] => ~stale[p]
    BY <1>1, <1>8 DEF InsertPorts, Change, TypeOK
  <2>5. QED
    BY <1>1, <2>1, <2>2, <2>3, <2>4 DEF Skipping, Filling
<1>9. CASE InsertSkip(p)
  <2>1. db'.skipPorts # {}
    <3>1. db' = [db EXCEPT !.skipPorts = db.skipPorts \cup {DefaultPort}] /\ db \in Config
      BY <1>1, <1>9 DEF InsertSkip, Change, TypeOK
    <3>2. QED
      BY <3>1 DEF Config
  <2>2. \A q \in Process : ~stale'[q] => q = p \/ (~stale[q] /\ db' = db)
    BY <1>1, <1>9 DEF InsertSkip, Change, TypeOK
  <2>3. \A q \in Process : q # p => pc'[q] = pc[q]
    BY <1>1, <1>9 DEF InsertSkip, TypeOK
  <2>4. pc'[p] = "mark" /\ UNCHANGED seeded
    BY <1>1, <1>9 DEF InsertSkip, TypeOK
  <2>5. QED
    BY <1>1, <2>1, <2>2, <2>3, <2>4 DEF Skipping, Filling
<1>10. CASE Mark(p)
  BY <1>1, <1>2, <1>10 DEF Mark, TypeOK, Control, Skipping, Filling
<1>11. CASE Read(p)
  BY <1>1, <1>11 DEF Read, TypeOK, Skipping, Filling
<1>12. CASE EndRead(p)
  BY <1>1, <1>12 DEF EndRead, TypeOK, Skipping, Filling
<1>13. CASE Edit(p, Edits(copy[p]))
  BY <1>1, <1>13 DEF Edit, TypeOK, Skipping, Filling
<1>14. CASE Prepare(p)
  BY <1>1, <1>14 DEF Prepare, TypeOK, Skipping, Filling
<1>15. CASE Commit(p)
  <2>1. seeded /\ seeded' = seeded
    BY <1>1, <1>15 DEF Commit, Control
  <2>2. \A q \in Process : ~stale'[q] => q = p \/ (~stale[q] /\ db' = db)
    BY <1>1, <1>15 DEF Commit, Change, TypeOK
  <2>3. \A q \in Process : q # p => pc'[q] = pc[q]
    BY <1>1, <1>15 DEF Commit, TypeOK
  <2>4. pc'[p] = "idle"
    BY <1>1, <1>15 DEF Commit, TypeOK
  <2>5. QED
    BY <1>1, <2>1, <2>2, <2>3, <2>4 DEF Skipping, Filling
<1>16. QED
  BY <1>3, <1>4, <1>5, <1>6, <1>7, <1>8, <1>9, <1>10, <1>11, <1>12, <1>13, <1>14, <1>15 DEF Move

\* Where nobody was overlapped a new store has no port in either list.
LEMMA InsertIsOpen ==
  ASSUME Inv, NEW p \in Process, Move(p), InsertPorts(p), ~stale[p], clean
  PROVE  Promise!OpenDefault
<1> DEFINE a == Loaded(db)
           b == Loaded(db')
           e == Put(Put(a, "openPorts", {DefaultPort}),
                    "openPortRanges", {<<DefaultPort, DefaultPort>>})
<1>1. /\ db \in Config /\ Validate(db) /\ db' \in Config /\ Validate(db')
      /\ Kept(db, db', {"openPorts"})
      /\ db'.openPorts = db.openPorts \cup {DefaultPort}
  BY StoreData DEF Inv, TypeOK, Accepted
<1>2. pc[p] = "insertPorts" /\ seeded' = seeded /\ clean' = clean
  BY DEF InsertPorts, Change
<1>3. db.openPorts = {} /\ ~seeded /\ ListsAgree
  BY <1>2 DEF Inv, Seeding, InForce
<1>4. db.openPortRanges = {}
  <2> SUFFICES ASSUME NEW r \in db.openPortRanges PROVE FALSE
    OBVIOUS
  <2>1. r \in Range /\ ValidPort(r[1]) /\ ValidPort(r[2]) /\ r[1] <= r[2]
    BY <1>1 DEF Config, Validate
  <2>2. r[1] \in Nat /\ r[2] \in Nat
    BY <2>1, SettingsAssumption DEF Range
  <2>3. r[1] \in r[1] .. r[2]
    BY <2>1, <2>2
  <2>4. r[1] \in Expand(db.openPortRanges)
    BY <2>3 DEF Expand
  <2>5. QED
    BY <1>3, <2>4 DEF ListsAgree
<1>5. db'.openPorts = {DefaultPort} /\ db'.openPortRanges = {}
  BY <1>1, <1>3, <1>4, FieldNames DEF Kept
<1>6. CurrentRanges(db') = {<<DefaultPort, DefaultPort>>}
  BY <1>5, CompressOne, ConfigAssumption DEF CurrentRanges
<1>7. /\ a \in Config /\ Kept(db, a, {"openPortRanges"})
      /\ b \in Config /\ Kept(db', b, {"openPortRanges"})
      /\ b.openPortRanges = {<<DefaultPort, DefaultPort>>}
  BY <1>1, <1>6, LoadedValid
<1>8. /\ "openPorts" \in Field /\ "openPortRanges" \in Field
      /\ {DefaultPort} \in Values("openPorts")
      /\ {<<DefaultPort, DefaultPort>>} \in Values("openPortRanges")
  BY FieldNames, ConfigAssumption DEF Values, Range
<1> HIDE DEF a, b
<1>9. b = e
  <2> DEFINE d == Put(a, "openPorts", {DefaultPort})
  <2>1. d \in Config /\ d["openPorts"] = {DefaultPort} /\ Kept(a, d, {"openPorts"})
    BY <1>7, <1>8, PutConfig
  <2>2. e = Put(d, "openPortRanges", {<<DefaultPort, DefaultPort>>})
    OBVIOUS
  <2> HIDE DEF d, e
  <2>3. /\ e \in Config /\ e["openPortRanges"] = {<<DefaultPort, DefaultPort>>}
        /\ Kept(d, e, {"openPortRanges"})
    BY ZenonT(40), <1>8, <2>1, <2>2, PutConfig
  <2>4. ASSUME NEW f \in Field PROVE b[f] = e[f]
    <3>1. CASE f = "openPortRanges"
      BY <1>7, <2>3, <3>1
    <3>2. CASE f = "openPorts"
      <4>1. e[f] = {DefaultPort}
        BY <2>1, <2>3, <3>2 DEF Kept
      <4>2. b[f] = db'[f] /\ db'[f] = {DefaultPort}
        BY <1>5, <1>7, <3>2 DEF Kept
      <4>3. QED
        BY <4>1, <4>2
    <3>3. CASE f \notin {"openPorts", "openPortRanges"}
      BY <1>1, <1>7, <2>1, <2>3, <3>3 DEF Kept
    <3>4. QED
      BY <3>1, <3>2, <3>3
  <2>5. QED
    BY <1>7, <2>3, <2>4, SameConfig
<1>10. a.openPorts = {}
  BY <1>3, <1>7, FieldNames DEF Kept
<1>11. b = [a EXCEPT !.openPorts = {DefaultPort},
                     !.openPortRanges = {<<DefaultPort, DefaultPort>>}]
  BY <1>9 DEF Put
<1>12. QED
  BY <1>2, <1>3, <1>10, <1>11 DEF Promise!OpenDefault, a, b

LEMMA InsertIsSkip ==
  ASSUME Inv, Skipping, NEW p \in Process, Move(p), InsertSkip(p), ~stale[p], clean
  PROVE  Promise!SkipDefault
<1> DEFINE a == Loaded(db)
           b == Loaded(db')
<1>1. /\ db \in Config /\ Validate(db) /\ db' \in Config /\ Validate(db')
      /\ Kept(db, db', {"skipPorts"})
  BY StoreData DEF Inv, TypeOK, Accepted
<1>2. pc[p] = "insertSkip" /\ seeded' = seeded /\ clean' = clean
  BY DEF InsertSkip, Change
<1>3. db.skipPorts = {} /\ ~seeded
  BY <1>2 DEF Skipping, Filling
<1>4. db'.skipPorts = {DefaultPort}
  <2>1. db' = [db EXCEPT !.skipPorts = db.skipPorts \cup {DefaultPort}]
    BY DEF InsertSkip, Change
  <2>2. QED
    BY <1>1, <1>3, <2>1 DEF Config
<1>5. CurrentRanges(db') = CurrentRanges(db)
  BY <1>1, FieldNames DEF Kept, CurrentRanges
<1>6. /\ a \in Config /\ Kept(db, a, {"openPortRanges"})
      /\ b \in Config /\ Kept(db', b, {"openPortRanges"})
      /\ b.openPortRanges = a.openPortRanges
  BY <1>1, <1>5, LoadedValid
<1>7. "skipPorts" \in Field /\ {DefaultPort} \in Values("skipPorts")
  BY FieldNames, ConfigAssumption DEF Values
<1> HIDE DEF a, b
<1>8. b = Put(a, "skipPorts", {DefaultPort})
  <2> DEFINE e == Put(a, "skipPorts", {DefaultPort})
  <2>1. e \in Config /\ e["skipPorts"] = {DefaultPort} /\ Kept(a, e, {"skipPorts"})
    BY <1>6, <1>7, PutConfig
  <2> HIDE DEF e
  <2>2. ASSUME NEW f \in Field PROVE b[f] = e[f]
    <3>1. CASE f = "openPortRanges"
      BY <1>6, <2>1, <3>1 DEF Kept
    <3>2. CASE f = "skipPorts"
      <4>1. b[f] = db'[f] /\ db'[f] = {DefaultPort}
        BY <1>4, <1>6, <3>2 DEF Kept
      <4>2. QED
        BY <2>1, <3>2, <4>1
    <3>3. CASE f \notin {"skipPorts", "openPortRanges"}
      BY <1>1, <1>6, <2>1, <3>3 DEF Kept
    <3>4. QED
      BY <3>1, <3>2, <3>3
  <2>3. QED
    BY <1>6, <2>1, <2>2, SameConfig DEF e
<1>9. a.skipPorts = {}
  BY <1>3, <1>6, FieldNames DEF Kept
<1>10. b = [a EXCEPT !.skipPorts = {DefaultPort}]
  BY <1>8 DEF Put
<1>11. QED
  BY <1>2, <1>3, <1>9, <1>10 DEF Promise!SkipDefault, a, b

LEMMA MarkIsComplete ==
  ASSUME Inv, Skipping, NEW p \in Process, Mark(p), ~seeded
  PROVE  Promise!Complete
<1>1. pc[p] = "mark" /\ seeded' = TRUE /\ UNCHANGED << db, clean >>
  BY DEF Mark, KeepStore
<1>2. db.openPorts # {} /\ db.skipPorts # {}
  BY <1>1 DEF Inv, Seeding, Skipping, Filled
<1>3. Kept(db, Loaded(db), {"openPortRanges"})
  BY LoadedValid DEF Inv, TypeOK, Accepted
<1>4. Loaded(db).openPorts # {} /\ Loaded(db).skipPorts # {}
  BY <1>2, <1>3, FieldNames DEF Kept
<1>5. QED
  BY <1>1, <1>4 DEF Promise!Complete

\* A save of what was loaded and changed is the command, in one step.
LEMMA CommitIsCommand ==
  ASSUME Inv, NEW p \in Process, Move(p), Commit(p), ~stale[p], clean
  PROVE  Promise!Command \/ UNCHANGED Promise!vars
<1>1. /\ pc[p] = "commit" /\ db' = NormalizeIngress(SaveProtect(copy[p]))
      /\ seeded' = seeded /\ clean' = clean
  BY DEF Commit, Change
<1>2. PICK c \in Edits(Loaded(db)) : copy[p] = Prepared(c, db)
  BY <1>1 DEF Inv, Serial, Derived
<1>3. db \in Config /\ Validate(db) /\ ListsAgree /\ seeded
  BY <1>1 DEF Inv, TypeOK, Accepted, InForce, Control
<1>4. Loaded(db') = Intended(c)
  BY <1>1, <1>2, <1>3, SaveIsEdit DEF ListsAgree
<1>5. Loaded(db') \in Acceptable
  BY StoreData, LoadedConfig DEF Acceptable
<1>6. (~seeded)' = ~seeded
  BY <1>1
<1>7. CASE Loaded(db') = Loaded(db)
  BY <1>1, <1>6, <1>7 DEF Promise!vars
<1>8. CASE Loaded(db') # Loaded(db)
  <2>1. Loaded(db') \in Outcomes(Loaded(db))
    BY <1>4 DEF Outcomes
  <2>2. QED
    BY <1>1, <1>3, <1>5, <1>6, <1>8, <2>1 DEF Promise!Command
<1>9. QED
  BY <1>7, <1>8

LEMMA StoreStep ==
  ASSUME Inv, Skipping, NEW p \in Process, Move(p)
  PROVE  [Promise!Next]_(Promise!vars)
<1>1. CASE db' = db /\ seeded' = seeded /\ clean' = clean
  BY <1>1 DEF Promise!vars
<1>2. CASE Mark(p)
  <2>1. CASE seeded
    BY <1>2, <2>1 DEF Mark, KeepStore, Promise!vars
  <2>2. QED
    BY <1>2, <2>1, MarkIsComplete DEF Promise!Next
<1>3. CASE InsertPorts(p) \/ InsertSkip(p) \/ Commit(p)
  <2>1. seeded' = seeded
    BY <1>3 DEF InsertPorts, InsertSkip, Commit
  <2>2. clean' = (clean /\ ~(stale[p] /\ db' # db))
    BY <1>3 DEF InsertPorts, InsertSkip, Commit, Change
  <2>3. CASE db' = db
    BY <2>1, <2>2, <2>3, <1>1 DEF Inv, TypeOK
  <2>4. CASE clean' = FALSE
    <3>1. Loaded(db') \in Acceptable
      BY StoreData, LoadedConfig DEF Acceptable
    <3>2. (~seeded)' = ~seeded
      BY <2>1
    <3>3. Promise!Overlapped
      BY <2>4, <3>1, <3>2 DEF Promise!Overlapped
    <3>4. QED
      BY <3>3 DEF Promise!Next
  <2>5. CASE clean /\ ~stale[p]
    BY <1>3, <2>5, InsertIsOpen, InsertIsSkip, CommitIsCommand DEF Promise!Next
  <2>6. QED
    BY <2>2, <2>3, <2>4, <2>5 DEF Inv, TypeOK
<1>4. CASE ~ (Mark(p) \/ InsertPorts(p) \/ InsertSkip(p) \/ Commit(p))
  <2>1. db' = db /\ seeded' = seeded /\ clean' = clean
    BY <1>4 DEF Move, Start, Stop, ReadFlag, CheckPorts, CheckSkip, Read, EndRead, Prepare,
                Edit, KeepStore
  <2>2. QED
    BY <1>1, <2>1
<1>5. QED
  BY <1>2, <1>3, <1>4

\* Any number of processes that load and save table by table, are killed and
\* fill in defaults implement one store that commands change in single steps,
\* until one of them writes that was overlapped.
THEOREM ImplementsStore == Spec => Atomic
<1>1. Init => Skipping /\ Promise!Init
  <2> SUFFICES ASSUME Init PROVE Skipping /\ Promise!Init
    OBVIOUS
  <2>1. \A p \in Process : pc[p] = "idle"
    BY DEF Init
  <2>2. Skipping
    BY <2>1 DEF Skipping, Filling
  <2>3. db \in {Empty} \cup Lived /\ seeded \in BOOLEAN /\ clean = TRUE
    BY DEF Init
  <2>4. Loaded(db) \in First
    BY <2>3 DEF First
  <2>5. (~seeded) \in BOOLEAN
    BY <2>3
  <2>6. QED
    BY <2>2, <2>3, <2>4, <2>5 DEF Promise!Init
<1>2. Inv /\ Skipping /\ [Next]_vars => Skipping'
  <2> SUFFICES ASSUME Inv, Skipping, [Next]_vars PROVE Skipping'
    OBVIOUS
  <2>1. CASE UNCHANGED vars
    BY <2>1 DEF vars, Skipping
  <2>2. QED
    BY <2>1, SkippingMoves, Moves
<1>3. Inv /\ Skipping /\ [Next]_vars => [Promise!Next]_(Promise!vars)
  <2> SUFFICES ASSUME Inv, Skipping, [Next]_vars PROVE [Promise!Next]_(Promise!vars)
    OBVIOUS
  <2>1. CASE UNCHANGED vars
    BY <2>1 DEF vars, Promise!vars
  <2>2. QED
    BY <2>1, StoreStep, Moves
<1>4. QED
  BY <1>1, <1>2, <1>3, Inductive, PTL DEF Spec, Atomic, Promise!Spec
----------------------------------------------------------------------------
(* The screens: what a session saves                                       *)

\* What a save leaves.
Canon(c) ==
  /\ c.openPorts = Expand(c.openPortRanges)
  /\ c.trigger.on => c.trigger.listen # None
  /\ NormalizeIngress(c) = c

LEMMA NormalizeTwice ==
  ASSUME NEW c \in Config
  PROVE  NormalizeIngress(NormalizeIngress(c)) = NormalizeIngress(c)
<1> DEFINE d == NormalizeIngress(c)
           e == NormalizeIngress(d)
           Trim(v) == [v EXCEPT !.cities = Uncovered(v.provinces, v.cities)]
<1>1. \A P, C : Uncovered(P, Uncovered(P, C)) = Uncovered(P, C)
  BY DEF Uncovered
<1>2. \A v \in Policy : Trim(v) \in Policy /\ Trim(Trim(v)) = Trim(v)
  <2> SUFFICES ASSUME NEW v \in Policy PROVE Trim(v) \in Policy /\ Trim(Trim(v)) = Trim(v)
    OBVIOUS
  <2>1. Uncovered(v.provinces, v.cities) \in SUBSET City
    BY DEF Uncovered, Policy
  <2> DEFINE C == Uncovered(v.provinces, v.cities)
  <2>2. /\ Trim(v) \in Policy /\ Trim(v).provinces = v.provinces /\ Trim(v).cities = C
        /\ Trim(v) = [mode |-> v.mode, provinces |-> v.provinces, cities |-> C]
    BY <2>1 DEF Policy
  <2>3. Uncovered(v.provinces, C) = C
    BY <1>1
  <2> HIDE DEF C
  <2>4. Trim(Trim(v)) = [Trim(v) EXCEPT !.cities = C]
    BY <2>2, <2>3
  <2>5. QED
    BY <2>2, <2>4
<1> HIDE DEF Trim
<1>3. \A x \in Config :
        /\ NormalizeIngress(x).cities = Uncovered(x.provinces, x.cities)
        /\ NormalizeIngress(x).policies
             = [p \in Port |-> IF x.policies[p] = None THEN None ELSE Trim(x.policies[p])]
  BY DEF NormalizeIngress, Config, Trim
<1>4. /\ d \in Config /\ Kept(c, d, {"cities", "policies"})
      /\ e \in Config /\ Kept(d, e, {"cities", "policies"})
  BY NormalizeIngressConfig
<1> HIDE DEF d, e
<1>5. e.cities = d.cities
  <2>1. d.cities = Uncovered(c.provinces, c.cities) /\ e.cities = Uncovered(d.provinces, d.cities)
    BY <1>3, <1>4 DEF d, e
  <2>2. d.provinces = c.provinces
    BY <1>4, FieldNames DEF Kept
  <2>3. QED
    BY <1>1, <2>1, <2>2
<1>6. e.policies = d.policies
  <2>1. c.policies \in [Port -> {None} \cup Policy]
    BY DEF Config
  <2>2. d.policies = [p \in Port |-> IF c.policies[p] = None THEN None ELSE Trim(c.policies[p])]
    BY <1>3 DEF d
  <2>3. e.policies = [p \in Port |-> IF d.policies[p] = None THEN None ELSE Trim(d.policies[p])]
    BY <1>3, <1>4 DEF e
  <2>4. None \notin Policy
    BY SettingsAssumption
  <2>5. \A p \in Port : e.policies[p] = d.policies[p]
    BY <1>2, <2>1, <2>2, <2>3, <2>4
  <2>6. QED
    BY <2>2, <2>3, <2>5
<1>7. \A f \in Field : e[f] = d[f]
  BY <1>4, <1>5, <1>6 DEF Kept
<1>8. QED
  BY <1>4, <1>7, SameConfig DEF d, e

LEMMA CanonSame ==
  ASSUME NEW c \in Config, Canon(c)
  PROVE  /\ Loaded(c) = c
         /\ \A r \in Config : ValidRanges(c.openPortRanges) => Prepared(c, r) = c /\ Stored(c, r) = c
<1>1. Loaded(c) = c
  BY LoadedSame DEF Canon
<1>2. ASSUME NEW r \in Config, ValidRanges(c.openPortRanges)
      PROVE  Prepared(c, r) = c /\ Stored(c, r) = c
  <2>1. ApplyFallbacks(c) = c /\ SaveProtect(c) = c
    BY FallbacksConfig, SavedSame DEF Canon
  <2>2. Prepared(c, r) = c
    BY <1>2, <2>1, PreparedConfig DEF Canon
  <2>3. QED
    BY <2>1, <2>2 DEF Stored, Canon
<1>3. QED
  BY <1>1, <1>2

\* Whatever is saved, when it passes Validate.
LEMMA StoredSound ==
  ASSUME NEW c \in Config, NEW r \in Config, ValidRanges(c.openPortRanges), Validate(Prepared(c, r))
  PROVE  /\ Stored(c, r) \in Config /\ Validate(Stored(c, r)) /\ Canon(Stored(c, r))
         /\ Regions(c) => Regions(Stored(c, r))
<1> DEFINE b == Prepared(c, r)
           s == SaveProtect(b)
           d == NormalizeIngress(s)
<1>1. b \in Config /\ Validate(b) /\ Kept(c, b, {"trigger", "openPorts", "openPortRanges"})
  BY PreparedConfig
<1> HIDE DEF b
<1>2. /\ d \in Config /\ Validate(d) /\ (Regions(b) => Regions(d))
      /\ d.openPorts = Expand(d.openPortRanges)
  BY <1>1, StoredConfig
<1>3. s \in Config
  BY <1>1, SaveProtectConfig
<1> HIDE DEF s
<1>4. NormalizeIngress(d) = d
  BY <1>3, NormalizeTwice
<1> HIDE DEF d
<1>5. Kept(c, b, Plain \cup {"openPorts", "openPortRanges"})
  BY <1>1, PlainNames DEF Kept
<1>6. Regions(c) => Regions(b)
  BY <1>5, KeptRegions
<1>7. d.trigger.on => d.trigger.listen # None
  BY <1>2 DEF Validate
<1>8. Stored(c, r) = d
  BY DEF Stored, b, s, d
<1>9. QED
  BY <1>2, <1>4, <1>6, <1>7, <1>8 DEF Canon

\* The tables a save may change beside those that were edited.
Closed(G) ==
  /\ "openPorts" \in G <=> "openPortRanges" \in G
  /\ "provinces" \in G => "cities" \in G

LEMMA StoredKept ==
  ASSUME NEW c \in Config, Canon(c), NEW e \in Config, NEW r \in Config, NEW G,
         Closed(G), Kept(c, e, G), ValidRanges(e.openPortRanges), Validate(Prepared(e, r))
  PROVE  Kept(c, Stored(e, r), G)
<1> DEFINE b == Prepared(e, r)
           s == SaveProtect(b)
           d == NormalizeIngress(s)
<1>1. /\ b \in Config /\ Validate(b) /\ Kept(e, b, {"trigger", "openPorts", "openPortRanges"})
      /\ Expand(e.openPortRanges) = e.openPorts => b = ApplyFallbacks(e)
  BY PreparedConfig
<1>2. /\ ApplyFallbacks(e) \in Config /\ Kept(e, ApplyFallbacks(e), {"trigger"})
      /\ ~e.trigger.on \/ e.trigger.listen # None => ApplyFallbacks(e) = e
  BY FallbacksConfig
<1>3. "trigger" \in G \/ b.trigger = e.trigger
  <2>1. CASE "trigger" \notin G
    <3>1. e.trigger = c.trigger
      BY <2>1, FieldNames DEF Kept
    <3>2. ApplyFallbacks(e) = e
      BY <1>2, <3>1 DEF Canon
    <3>3. b.trigger = e.trigger
      BY <3>2, <1>2, FieldNames DEF Prepared, NormalizeProtect, Config
    <3>4. QED
      BY <3>3
  <2>2. QED
    BY <2>1
<1>4. "openPorts" \in G \/ (b.openPorts = e.openPorts /\ b.openPortRanges = e.openPortRanges
                            /\ e.openPorts = c.openPorts /\ e.openPortRanges = c.openPortRanges)
  <2>1. CASE "openPorts" \notin G
    <3>1. e.openPorts = c.openPorts /\ e.openPortRanges = c.openPortRanges
      BY <2>1, FieldNames DEF Kept, Closed
    <3>2. b = ApplyFallbacks(e)
      BY <1>1, <3>1 DEF Canon
    <3>3. QED
      BY <1>2, <3>1, <3>2, FieldNames DEF Kept
  <2>2. QED
    BY <2>1
<1> HIDE DEF b
<1>5. s \in Config /\ Kept(b, s, {"openPorts", "openPortRanges"})
  BY <1>1, SaveProtectConfig
<1>6. "openPorts" \in G \/ s = b
  BY <1>1, <1>4, SavedSame DEF Canon
<1> HIDE DEF s
<1>7. d \in Config /\ Kept(s, d, {"cities", "policies"})
  BY <1>5, NormalizeIngressConfig
<1>8. s.provinces = e.provinces /\ s.cities = e.cities /\ s.policies = e.policies
  BY <1>1, <1>5, FieldNames DEF Kept
<1>9. "cities" \in G \/ d.cities = c.cities
  <2>1. CASE "cities" \notin G
    <3>1. s.provinces = c.provinces /\ s.cities = c.cities
      BY <1>8, <2>1, FieldNames DEF Kept, Closed
    <3>2. d.cities = NormalizeIngress(c).cities
      BY <1>5, <3>1 DEF NormalizeIngress, Config
    <3>3. QED
      BY <3>2 DEF Canon
  <2>2. QED
    BY <2>1
<1>10. "policies" \in G \/ d.policies = c.policies
  <2>1. CASE "policies" \notin G
    <3>1. s.policies = c.policies
      BY <1>8, <2>1, FieldNames DEF Kept
    <3>2. d.policies = NormalizeIngress(c).policies
      BY <1>5, <3>1 DEF NormalizeIngress, Config
    <3>3. QED
      BY <3>2 DEF Canon
  <2>2. QED
    BY <2>1
<1> HIDE DEF d
<1>11. ASSUME NEW f \in Field \ G PROVE d[f] = c[f]
  <2>1. CASE f \in {"cities", "policies"}
    BY <1>9, <1>10, <1>11, <2>1
  <2>2. CASE f \notin {"cities", "policies"}
    <3>1. d[f] = s[f] /\ e[f] = c[f]
      BY <1>7, <1>11, <2>2 DEF Kept
    <3>2. s[f] = b[f]
      BY <1>5, <1>6, <1>11 DEF Kept, Closed
    <3>3. b[f] = e[f]
      BY <1>1, <1>3, <1>4, <1>11 DEF Kept, Closed
    <3>4. QED
      BY <3>1, <3>2, <3>3
  <2>3. QED
    BY <2>1, <2>2
<1>12. QED
  BY <1>11 DEF Kept, Stored, b, s, d

----------------------------------------------------------------------------
(* The screens: what their keys do to the session's copy                   *)

\* What the session holds of a configuration, whatever has failed.
Fit(c, t) == ValidRanges(c.openPortRanges) /\ (t \/ Regions(c))

Edited(c, e, G) == e \in Config /\ Kept(c, e, G) /\ (\A t \in BOOLEAN : Fit(c, t) => Fit(e, t))

LEMMA FitPut ==
  ASSUME NEW c \in Config, NEW f \in Plain, NEW v \in Values(f)
  PROVE  Edited(c, Put(c, f, v), {f})
<1>1. EditOK(c, Put(c, f, v)) /\ Kept(c, Put(c, f, v), {f})
  BY PlainPut
<1>2. Put(c, f, v).openPortRanges = c.openPortRanges
  BY <1>1, FieldNames DEF Kept, Plain
<1>3. QED
  BY <1>1, <1>2 DEF Edited, Fit, EditOK

LEMMA FitTurn ==
  ASSUME NEW c \in Config, NEW s \in Switch, NEW on
  PROVE  Edited(c, Turn(c, s, on), {"protect"})
<1>1. EditOK(c, Turn(c, s, on)) /\ Kept(c, Turn(c, s, on), {"protect"})
  BY TurnOK
<1>2. Turn(c, s, on).openPortRanges = c.openPortRanges
  BY <1>1, FieldNames DEF Kept
<1>3. QED
  BY <1>1, <1>2 DEF Edited, Fit, EditOK

\* The two lists, changed together.
LEMMA FitRanges ==
  ASSUME NEW c \in Config, NEW R \in SUBSET Range, ValidRanges(R)
  PROVE  Edited(c, OpenRanges(c, R), {"openPorts", "openPortRanges"})
<1> DEFINE b == Put(c, "openPortRanges", R)
           e == Put(b, "openPorts", Expand(R))
<1>1. /\ R \in Values("openPortRanges") /\ "openPortRanges" \in Field /\ "openPorts" \in Field
      /\ Expand(R) \in Values("openPorts")
  BY ExpandType, FieldNames DEF Values
<1>2. b \in Config /\ b["openPortRanges"] = R /\ Kept(c, b, {"openPortRanges"})
  BY <1>1, PutConfig
<1> HIDE DEF b
<1>3. e \in Config /\ Kept(b, e, {"openPorts"})
  BY <1>1, <1>2, PutConfig
<1> HIDE DEF e
<1>4. e = OpenRanges(c, R)
  BY DEF OpenRanges, b, e, Put
<1>5. Kept(c, e, {"openPorts", "openPortRanges"}) /\ e.openPortRanges = R
  BY <1>2, <1>3, FieldNames DEF Kept
<1>6. Kept(c, e, Plain \cup {"openPorts", "openPortRanges"})
  BY <1>5 DEF Kept
<1>7. Regions(c) <=> Regions(e)
  BY <1>6, KeptRegions
<1>8. QED
  BY <1>3, <1>4, <1>5, <1>7 DEF Edited, Fit

\* The settings of ingress, changed together.
Ingress(c, r, P, C) == [c EXCEPT !.ingress = r, !.provinces = P, !.cities = C]

LEMMA FitIngress ==
  ASSUME NEW c \in Config, NEW r \in Row, NEW P \in SUBSET Province, NEW C \in SUBSET City,
         Regions(c) => (P # {} => r.mode = "provinces")
  PROVE  Edited(c, Ingress(c, r, P, C), {"ingress", "provinces", "cities"})
<1> DEFINE a == Put(c, "ingress", r)
           b == Put(a, "provinces", P)
           e == Put(b, "cities", C)
<1>1. /\ r \in Values("ingress") /\ P \in Values("provinces") /\ C \in Values("cities")
      /\ {"ingress", "provinces", "cities"} \subseteq Field
  BY FieldNames DEF Values
<1>2. a \in Config /\ a["ingress"] = r /\ Kept(c, a, {"ingress"})
  BY <1>1, PutConfig
<1> HIDE DEF a
<1>3. b \in Config /\ b["provinces"] = P /\ Kept(a, b, {"provinces"})
  BY <1>1, <1>2, PutConfig
<1> HIDE DEF b
<1>4. e \in Config /\ Kept(b, e, {"cities"})
  BY <1>1, <1>3, PutConfig
<1> HIDE DEF e
<1>5. e = Ingress(c, r, P, C)
  BY DEF Ingress, a, b, e, Put
<1>6. Kept(c, e, {"ingress", "provinces", "cities"})
  BY <1>2, <1>3, <1>4 DEF Kept
<1>7. /\ e.ingress = r /\ e.provinces = P /\ e.policies = c.policies
      /\ e.egress = c.egress /\ e.egressProvinces = c.egressProvinces
      /\ e.openPortRanges = c.openPortRanges
  BY <1>2, <1>3, <1>4, <1>6, FieldNames DEF Kept
<1>8. \A t \in BOOLEAN : Fit(c, t) => Fit(e, t)
  BY <1>7 DEF Fit, Regions
<1>9. QED
  BY <1>4, <1>5, <1>6, <1>8 DEF Edited

Egress(c, r, P) == [c EXCEPT !.egress = r, !.egressProvinces = P]

LEMMA FitEgress ==
  ASSUME NEW c \in Config, NEW r \in Row, NEW P \in SUBSET Province,
         Regions(c) => (P # {} => r.mode = "provinces")
  PROVE  Edited(c, Egress(c, r, P), {"egress", "egressProvinces"})
<1> DEFINE a == Put(c, "egress", r)
           e == Put(a, "egressProvinces", P)
<1>1. /\ r \in Values("egress") /\ P \in Values("egressProvinces")
      /\ {"egress", "egressProvinces"} \subseteq Field
  BY FieldNames DEF Values
<1>2. a \in Config /\ a["egress"] = r /\ Kept(c, a, {"egress"})
  BY <1>1, PutConfig
<1> HIDE DEF a
<1>3. e \in Config /\ e["egressProvinces"] = P /\ Kept(a, e, {"egressProvinces"})
  BY <1>1, <1>2, PutConfig
<1> HIDE DEF e
<1>4. e = Egress(c, r, P)
  BY DEF Egress, a, e, Put
<1>5. Kept(c, e, {"egress", "egressProvinces"})
  BY <1>2, <1>3 DEF Kept
<1>6. /\ e.egress = r /\ e.egressProvinces = P /\ e.policies = c.policies
      /\ e.ingress = c.ingress /\ e.provinces = c.provinces
      /\ e.openPortRanges = c.openPortRanges
  BY <1>2, <1>3, <1>5, FieldNames DEF Kept
<1>7. \A t \in BOOLEAN : Fit(c, t) => Fit(e, t)
  BY <1>6 DEF Fit, Regions
<1>8. QED
  BY <1>3, <1>4, <1>5, <1>7 DEF Edited

LEMMA FitPolicies ==
  ASSUME NEW c \in Config, NEW P \in [Port -> {None} \cup Policy],
         \A p \in Port : P[p] = c.policies[p] \/ Lawful(c, P[p])
  PROVE  Edited(c, Put(c, "policies", P), {"policies"})
<1> DEFINE e == Put(c, "policies", P)
<1>1. P \in Values("policies") /\ "policies" \in Field
  BY FieldNames DEF Values
<1>2. e \in Config /\ e["policies"] = P /\ Kept(c, e, {"policies"})
  BY <1>1, PutConfig
<1> HIDE DEF e
<1>3. /\ e.policies = P /\ e.ingress = c.ingress /\ e.provinces = c.provinces
      /\ e.egress = c.egress /\ e.egressProvinces = c.egressProvinces
      /\ e.openPortRanges = c.openPortRanges
  BY <1>2, FieldNames DEF Kept
<1>4. \A t \in BOOLEAN : Fit(c, t) => Fit(e, t)
  BY <1>3 DEF Fit, Regions, Lawful
<1>5. QED
  BY <1>2, <1>4 DEF Edited, e

LEMMA FitSame == ASSUME NEW c \in Config, NEW G PROVE Edited(c, c, G)
  BY DEF Edited, Kept

LEMMA ScreenNames ==
  /\ DOMAIN PortScreen = {"guardedPorts", "skipPorts"}
  /\ PortScreen["guardedPorts"] = "guardedPorts" /\ PortScreen["skipPorts"] = "skipPorts"
  /\ DOMAIN CidrScreen = {"ingressCidrs", "egressCidrs", "relays", "proxies"}
  /\ CidrScreen["ingressCidrs"] = "cidrs" /\ CidrScreen["egressCidrs"] = "egressCidrs"
  /\ CidrScreen["relays"] = "relays" /\ CidrScreen["proxies"] = "proxies"
  /\ DOMAIN RouteScreen = {"routes", "triggerRoutes"}
  /\ RouteScreen["routes"] = "routes" /\ RouteScreen["triggerRoutes"] = "triggerRoutes"
  BY DEF PortScreen, CidrScreen, RouteScreen

\* The screens of lists, and the table each owns.
LEMMA PortScreens ==
  ASSUME screen \in DOMAIN PortScreen
  PROVE  /\ ListField = PortScreen[screen] /\ Owned = {ListField}
         /\ ListField \in Plain /\ Values(ListField) = SUBSET Port
<1>1. CASE screen = "guardedPorts"
  BY <1>1, ScreenNames, PlainNames DEF ListField, Owned, Values
<1>2. CASE screen = "skipPorts"
  BY <1>2, ScreenNames, PlainNames DEF ListField, Owned, Values
<1>3. QED
  BY <1>1, <1>2, ScreenNames

LEMMA CidrScreens ==
  ASSUME screen \in DOMAIN CidrScreen
  PROVE  /\ ListField = CidrScreen[screen] /\ Owned = {ListField}
         /\ ListField \in Plain /\ Values(ListField) = SUBSET Address
<1>1. CASE screen = "ingressCidrs"
  BY <1>1, ScreenNames, PlainNames DEF ListField, Owned, Values
<1>2. CASE screen = "egressCidrs"
  BY <1>2, ScreenNames, PlainNames DEF ListField, Owned, Values
<1>3. CASE screen = "relays"
  BY <1>3, ScreenNames, PlainNames DEF ListField, Owned, Values
<1>4. CASE screen = "proxies"
  BY <1>4, ScreenNames, PlainNames DEF ListField, Owned, Values
<1>5. QED
  BY <1>1, <1>2, <1>3, <1>4, ScreenNames

LEMMA RouteScreens ==
  ASSUME screen \in DOMAIN RouteScreen
  PROVE  /\ Owned = {RouteScreen[screen]} /\ RouteScreen[screen] \in Plain
         /\ Values(RouteScreen[screen]) = [Label -> {None} \cup Term]
<1>1. CASE screen = "routes"
  BY <1>1, ScreenNames, PlainNames DEF Owned, Values
<1>2. CASE screen = "triggerRoutes"
  BY <1>2, ScreenNames, PlainNames DEF Owned, Values
<1>3. QED
  BY <1>1, <1>2, ScreenNames

LEMMA OwnedClosed == Closed(Owned)
<1>1. CASE screen \in DOMAIN PortScreen \cup DOMAIN CidrScreen
  BY <1>1, PortScreens, CidrScreens DEF Closed, Plain, Owned
<1>2. CASE screen \in DOMAIN RouteScreen
  BY <1>2, RouteScreens DEF Closed, Plain
<1>3. CASE screen \notin DOMAIN PortScreen \cup DOMAIN CidrScreen \cup DOMAIN RouteScreen
  BY <1>3 DEF Closed, Owned
<1>4. QED
  BY <1>1, <1>2, <1>3

LEMMA IngressKeysFit ==
  ASSUME NEW c \in Config, NEW e \in IngressKeys(c)
  PROVE  Edited(c, e, {"ingress", "provinces", "cities"})
<1>1. /\ c.ingress \in Row /\ c.provinces \in SUBSET Province /\ c.cities \in SUBSET City
      /\ DOMAIN c = Field
  BY ConfigIsRecord DEF Config
<1>2. Regions(c) => (c.provinces # {} => c.ingress.mode = "provinces")
  BY DEF Regions
<1>3. CASE e = [c EXCEPT !.ingress.on = ~@]
  <2> DEFINE r == [c.ingress EXCEPT !.on = ~c.ingress.on]
  <2>1. r \in Row /\ r.mode = c.ingress.mode
    BY <1>1 DEF Row
  <2>2. e = [c EXCEPT !.ingress = r]
    BY <1>3
  <2> HIDE DEF r
  <2>3. e = Ingress(c, r, c.provinces, c.cities)
    BY <1>1, <2>2, FieldNames DEF Ingress
  <2>4. QED
    BY <1>1, <1>2, <2>1, <2>3, FitIngress
<1>4. CASE e = Cycle(c, "ingress", "provinces")
  <2> DEFINE r == [c.ingress EXCEPT !.mode = NextMode(c.ingress.mode)]
             P == IF r.mode = "provinces" THEN c.provinces ELSE {}
             d == [c EXCEPT !.ingress = r]
  <2>1. r \in Row /\ P \in SUBSET Province /\ (P # {} => r.mode = "provinces")
    BY <1>1 DEF Row, Mode, NextMode
  <2>2. e = IF d.ingress.mode = "provinces" THEN d ELSE Put(d, "provinces", {})
    BY <1>4 DEF Cycle, Clear
  <2>3. d.ingress = r
    BY <1>1, FieldNames
  <2> HIDE DEF r
  <2>4. e = Ingress(c, r, P, c.cities)
    <3>1. CASE r.mode = "provinces"
      BY <1>1, <2>2, <2>3, <3>1, FieldNames DEF Ingress, Put
    <3>2. CASE r.mode # "provinces"
      BY <1>1, <2>2, <2>3, <3>2, FieldNames DEF Ingress, Put
    <3>3. QED
      BY <3>1, <3>2
  <2> HIDE DEF P
  <2>5. QED
    BY <1>1, <2>1, <2>4, FitIngress
<1>5. CASE e = [c EXCEPT !.provinces = {}, !.cities = {}]
  <2>1. e = Ingress(c, c.ingress, {}, {})
    BY <1>1, <1>5, FieldNames DEF Ingress
  <2>2. QED
    BY <1>1, <2>1, FitIngress
<1>6. QED
  BY <1>3, <1>4, <1>5 DEF IngressKeys

LEMMA ProvinceKeysFit ==
  ASSUME NEW c \in Config, NEW p \in Province, NEW e \in {ToggleProvince(c, p)} \cup ToggleCities(c, p)
  PROVE  Edited(c, e, {"ingress", "provinces", "cities"})
<1> DEFINE r == [c.ingress EXCEPT !.mode = "provinces"]
<1>1. /\ c.ingress \in Row /\ c.provinces \in SUBSET Province /\ c.cities \in SUBSET City
      /\ DOMAIN c = Field
  BY ConfigIsRecord DEF Config
<1>2. Regions(c) => (c.provinces # {} => c.ingress.mode = "provinces")
  BY DEF Regions
<1>3. r \in Row /\ r.mode = "provinces"
  BY <1>1 DEF Row, Mode
<1>4. CASE e = ToggleProvince(c, p) /\ p \in c.provinces
  <2>1. e = Ingress(c, c.ingress, c.provinces \ {p}, c.cities)
    BY <1>1, <1>4, FieldNames DEF ToggleProvince, Put, Ingress
  <2>2. c.provinces \ {p} \in SUBSET Province
    BY <1>1
  <2>3. Regions(c) => (c.provinces \ {p} # {} => c.ingress.mode = "provinces")
    BY <1>2
  <2>4. QED
    BY <1>1, <2>1, <2>2, <2>3, FitIngress
<1>5. CASE e = ToggleProvince(c, p) /\ p \notin c.provinces
  <2>1. e = Ingress(c, r, c.provinces \cup {p}, Uncovered({p}, c.cities))
    BY <1>5 DEF ToggleProvince, Ingress
  <2>2. c.provinces \cup {p} \in SUBSET Province /\ Uncovered({p}, c.cities) \in SUBSET City
    BY <1>1 DEF Uncovered
  <2> HIDE DEF r
  <2>3. QED
    BY <1>1, <1>3, <2>1, <2>2, FitIngress
<1>6. CASE e \in ToggleCities(c, p)
  <2>1. PICK x \in City : e = [c EXCEPT !.ingress.mode = "provinces",
                                        !.cities = IF x \in @ THEN @ \ {x} ELSE @ \cup {x}]
    BY <1>6 DEF ToggleCities
  <2> DEFINE C == IF x \in c.cities THEN c.cities \ {x} ELSE c.cities \cup {x}
  <2>2. C \in SUBSET City
    BY <1>1
  <2>3. e = [c EXCEPT !.ingress = r, !.cities = C]
    BY <1>1, <2>1, FieldNames
  <2> HIDE DEF r, C
  <2>4. e = Ingress(c, r, c.provinces, C)
    BY <1>1, <2>3, FieldNames DEF Ingress
  <2>5. QED
    BY <1>1, <1>3, <2>2, <2>4, FitIngress
<1>7. QED
  BY <1>4, <1>5, <1>6

LEMMA EgressKeysFit ==
  ASSUME NEW c \in Config, NEW e \in EgressKeys(c) \cup { ToggleEgress(c, p) : p \in Province }
  PROVE  Edited(c, e, {"egress", "egressProvinces"})
<1>1. c.egress \in Row /\ c.egressProvinces \in SUBSET Province /\ DOMAIN c = Field
  BY ConfigIsRecord DEF Config
<1>2. Regions(c) => (c.egressProvinces # {} => c.egress.mode = "provinces")
  BY DEF Regions
<1>3. CASE e = [c EXCEPT !.egress.on = ~@]
  <2> DEFINE r == [c.egress EXCEPT !.on = ~c.egress.on]
  <2>1. r \in Row /\ r.mode = c.egress.mode
    BY <1>1 DEF Row
  <2>2. e = [c EXCEPT !.egress = r]
    BY <1>3
  <2> HIDE DEF r
  <2>3. e = Egress(c, r, c.egressProvinces)
    BY <1>1, <2>2, FieldNames DEF Egress
  <2>4. QED
    BY <1>1, <1>2, <2>1, <2>3, FitEgress
<1>4. CASE e = Cycle(c, "egress", "egressProvinces")
  <2> DEFINE r == [c.egress EXCEPT !.mode = NextMode(c.egress.mode)]
             P == IF r.mode = "provinces" THEN c.egressProvinces ELSE {}
             d == [c EXCEPT !.egress = r]
  <2>1. r \in Row /\ P \in SUBSET Province /\ (P # {} => r.mode = "provinces")
    BY <1>1 DEF Row, Mode, NextMode
  <2>2. e = IF d.egress.mode = "provinces" THEN d ELSE Put(d, "egressProvinces", {})
    BY <1>4 DEF Cycle, Clear
  <2>3. d.egress = r
    BY <1>1, FieldNames
  <2> HIDE DEF r
  <2>4. e = Egress(c, r, P)
    <3>1. CASE r.mode = "provinces"
      BY <1>1, <2>2, <2>3, <3>1, FieldNames DEF Egress, Put
    <3>2. CASE r.mode # "provinces"
      BY <1>1, <2>2, <2>3, <3>2, FieldNames DEF Egress, Put
    <3>3. QED
      BY <3>1, <3>2
  <2> HIDE DEF P
  <2>5. QED
    BY <1>1, <2>1, <2>4, FitEgress
<1>5. CASE e = Put(c, "egressProvinces", {})
  <2>1. e = Egress(c, c.egress, {})
    BY <1>1, <1>5, FieldNames DEF Egress, Put
  <2>2. QED
    BY <1>1, <2>1, FitEgress
<1>6. CASE e \in { ToggleEgress(c, p) : p \in Province }
  <2>1. PICK p \in Province : e = ToggleEgress(c, p)
    BY <1>6
  <2> DEFINE r == [c.egress EXCEPT !.mode = "provinces"]
             P == IF p \in c.egressProvinces THEN c.egressProvinces \ {p}
                                             ELSE c.egressProvinces \cup {p}
  <2>2. r \in Row /\ r.mode = "provinces" /\ P \in SUBSET Province
    BY <1>1 DEF Row, Mode
  <2>3. e = Egress(c, r, P)
    BY <2>1 DEF ToggleEgress, Egress
  <2> HIDE DEF r, P
  <2>4. QED
    BY <2>2, <2>3, FitEgress
<1>7. QED
  BY <1>3, <1>4, <1>5, <1>6 DEF EgressKeys

LEMMA FlipFit ==
  ASSUME NEW c \in Config, NEW s \in Switch
  PROVE  Edited(c, Flip(c, s), {"protect"})
  BY FitTurn DEF Flip

\* Every key that saves at once changes what its screen owns.
LEMMA KeysFit ==
  ASSUME NEW c \in Config, screen = "province" => province \in Province, NEW e \in KeyEdits(c)
  PROVE  Edited(c, e, Owned)
<1>1. CASE screen \in {"protect", "dpi"}
  <2>1. Owned = {"protect"}
    BY <1>1, ScreenNames DEF Owned
  <2>2. e \in ProtectKeys(c) \cup DpiKeys(c)
    BY <1>1, ScreenNames DEF KeyEdits
  <2>3. PICK s \in Switch : e = Flip(c, s)
    BY <2>2 DEF ProtectKeys, DpiKeys, Switch
  <2>4. QED
    BY <2>1, <2>3, FlipFit
<1>2. CASE screen = "openPorts"
  <2>1. Owned = {"openPorts", "openPortRanges"}
    BY <1>2, ScreenNames DEF Owned
  <2>2. e = [c EXCEPT !.openPorts = {}, !.openPortRanges = {}]
    BY <1>2, ScreenNames DEF KeyEdits
  <2>3. DOMAIN c = Field
    BY ConfigIsRecord
  <2>4. e = OpenRanges(c, {})
    BY <2>2, <2>3, EmptyLists, FieldNames DEF OpenRanges
  <2>5. ValidRanges({}) /\ {} \in SUBSET Range
    BY DEF ValidRanges
  <2>6. QED
    BY <2>1, <2>4, <2>5, FitRanges
<1>3. CASE screen \in DOMAIN PortScreen \cup DOMAIN CidrScreen
  <2>1. e = Put(c, ListField, {})
    BY <1>3, ScreenNames DEF KeyEdits
  <2>2. Owned = {ListField} /\ ListField \in Plain /\ {} \in Values(ListField)
    BY <1>3, PortScreens, CidrScreens
  <2>3. QED
    BY <2>1, <2>2, FitPut
<1>4. CASE screen = "ingress"
  <2>1. Owned = {"ingress", "provinces", "cities"} /\ e \in IngressKeys(c)
    BY <1>4, ScreenNames DEF Owned, KeyEdits
  <2>2. QED
    BY <2>1, IngressKeysFit
<1>5. CASE screen = "province"
  <2>1. /\ Owned = {"ingress", "provinces", "cities"}
        /\ e \in {ToggleProvince(c, province)} \cup ToggleCities(c, province)
    BY <1>5, ScreenNames DEF Owned, KeyEdits
  <2>2. QED
    BY <1>5, <2>1, ProvinceKeysFit
<1>6. CASE screen \in {"egress", "egressRegions"}
  <2>1. /\ Owned = {"egress", "egressProvinces"}
        /\ e \in EgressKeys(c) \cup { ToggleEgress(c, p) : p \in Province }
    BY <1>6, ScreenNames DEF Owned, KeyEdits
  <2>2. QED
    BY <2>1, EgressKeysFit
<1>7. CASE screen = "lease"
  <2> DEFINE t == [on |-> FALSE, listen |-> None]
  <2>1. Owned = {"lease", "trigger"} /\ e = Put(c, "trigger", t)
    BY <1>7, ScreenNames DEF Owned, KeyEdits, TriggerOff, Put
  <2>2. t \in Values("trigger") /\ "trigger" \in Plain
    BY PlainNames DEF Values
  <2> HIDE DEF t
  <2>3. Edited(c, e, {"trigger"})
    BY <2>1, <2>2, FitPut
  <2>4. QED
    BY <2>1, <2>3 DEF Edited, Kept
<1>8. CASE screen \notin {"protect", "dpi", "openPorts", "ingress", "province", "egress",
                          "egressRegions", "lease"} \cup DOMAIN PortScreen \cup DOMAIN CidrScreen
  BY <1>8 DEF KeyEdits
<1>9. QED
  BY <1>1, <1>2, <1>3, <1>4, <1>5, <1>6, <1>7, <1>8

LEMMA RouteFit ==
  ASSUME NEW c \in Config, screen \in DOMAIN RouteScreen,
         NEW R \in [Label -> {None} \cup Term]
  PROVE  Edited(c, Put(c, RouteScreen[screen], R), Owned)
  BY RouteScreens, FitPut

LEMMA PolicyScreens ==
  ASSUME screen \in {"ingressPorts", "portMode", "portRegions", "portProvince"}
  PROVE  Owned = {"policies"}
  BY ScreenNames DEF Owned

\* The row d deletes.
LEMMA DeleteFit ==
  ASSUME NEW c \in Config, screen \in DOMAIN RouteScreen \cup {"ingressPorts"}, NEW r
  PROVE  Edited(c, IF screen = "ingressPorts" THEN [c EXCEPT !.policies[r] = None]
                                              ELSE [c EXCEPT ![RouteScreen[screen]][r] = None],
                Owned)
<1>1. CASE screen = "ingressPorts"
  <2> DEFINE P == [c.policies EXCEPT ![r] = None]
  <2>1. c.policies \in [Port -> {None} \cup Policy]
    BY DEF Config
  <2>2. P \in [Port -> {None} \cup Policy] /\ \A p \in Port : P[p] = c.policies[p] \/ P[p] = None
    BY <2>1
  <2>3. \A p \in Port : P[p] = c.policies[p] \/ Lawful(c, P[p])
    BY <2>2 DEF Lawful
  <2>4. [c EXCEPT !.policies[r] = None] = Put(c, "policies", P)
    BY DEF Put
  <2> HIDE DEF P
  <2>5. Edited(c, Put(c, "policies", P), {"policies"})
    BY <2>2, <2>3, FitPolicies
  <2>6. QED
    BY <1>1, <2>4, <2>5, PolicyScreens
<1>2. CASE screen # "ingressPorts"
  <2> DEFINE f == RouteScreen[screen]
             R == [c[f] EXCEPT ![r] = None]
  <2>1. f \in Plain /\ Values(f) = [Label -> {None} \cup Term]
    BY <1>2, RouteScreens
  <2> HIDE DEF f
  <2>2. c[f] \in [Label -> {None} \cup Term]
    BY <2>1, ConfigIsRecord, PlainNames
  <2>3. R \in [Label -> {None} \cup Term]
    BY <2>2
  <2>4. [c EXCEPT ![f][r] = None] = Put(c, f, R)
    BY DEF Put
  <2> HIDE DEF R
  <2>5. Edited(c, Put(c, f, R), Owned)
    BY <1>2, <2>3, RouteFit DEF f
  <2>6. QED
    BY <1>2, <2>4, <2>5 DEF f
<1>3. QED
  BY <1>1, <1>2

----------------------------------------------------------------------------
(* The screens: the invariant                                              *)

Sound(s, t) == s \in Session /\ Validate(s.c) /\ Canon(s.c) /\ (t \/ Regions(s.c))
Held(m, t) == m \in Session /\ Fit(m.c, t)

\* The session's copy, or the goroutine's while one runs, is what is stored.
Current == IF job = None THEN mem ELSE job.m

Copies ==
  /\ torn \in BOOLEAN
  /\ Sound(stored, torn) /\ Held(mem, torn)
  /\ job # None => job \in Job /\ Held(job.m, torn)
  /\ ~failed /\ ~foreign => Current = Shown(stored)

Draft == [old : Port \cup {None}, ports : SUBSET Port, policy : Policy]

\* A prompt is answered on the screen it was opened on.
Dialogue ==
  /\ screen \in Screen /\ draft \in Draft /\ prompt \in {None} \cup Prompt
  /\ screen \in {"province", "portProvince"} => province \in Province
  /\ job # None => screen = "status"
  /\ prompt # None =>
       /\ prompt.form = "confirm" => screen = "status"
       /\ screen \in DOMAIN PortScreen => prompt.values \subseteq Port
       /\ screen \in DOMAIN CidrScreen => prompt.values \subseteq Address

ScreenInv == Copies /\ Dialogue

\* What ScreenWritesItsOwn says of a step.
OwnStep ==
  ~failed /\ ~foreign /\ ~foreign' /\ alive = "on"
    => \A f \in DOMAIN stored.c : stored'.c[f] = stored.c[f] \/ f \in Owned
----------------------------------------------------------------------------
(* The screens: saving and loading                                         *)

LEMMA SessionIsRecord ==
  ASSUME NEW s \in Session, NEW c \in Config
  PROVE  /\ [s EXCEPT !.c = c] \in Session /\ [s EXCEPT !.c = c].c = c
         /\ [s EXCEPT !.c = c].dm = s.dm /\ [s EXCEPT !.c = c].targets = s.targets
         /\ s.c \in Config /\ [s EXCEPT !.c = s.c] = s
         /\ \A d \in Config : [[s EXCEPT !.c = c] EXCEPT !.c = d] = [s EXCEPT !.c = d]
  BY DEF Session

LEMMA SoundShown ==
  ASSUME NEW s, Sound(s, torn)
  PROVE  Shown(s) = s /\ Held(s, torn)
<1>1. s \in Session /\ s.c \in Config /\ Canon(s.c) /\ Validate(s.c) /\ (torn \/ Regions(s.c))
  BY DEF Sound, Session
<1>2. Loaded(s.c) = s.c /\ [s EXCEPT !.c = s.c] = s
  BY <1>1, CanonSame, SessionIsRecord
<1>3. Fit(s.c, torn)
  BY <1>1, ValidConfig DEF Fit
<1>4. QED
  BY <1>1, <1>2, <1>3 DEF Shown, Held

\* What a save leaves is sound, and differs where the copy was edited.
LEMMA SavedSound ==
  ASSUME NEW r, Sound(r, torn), NEW c \in Config, Fit(c, torn), NEW s \in Saved(c, r)
  PROVE  /\ Sound(s, torn) /\ s = [r EXCEPT !.c = Stored(c, r.c)]
         /\ s.c = Stored(c, r.c) /\ Validate(Prepared(c, r.c))
<1>1. /\ r \in Session /\ r.c \in Config /\ Canon(r.c)
      /\ ValidRanges(c.openPortRanges) /\ (torn \/ Regions(c))
  BY DEF Sound, Fit, Session
<1>2. Validate(Prepared(c, r.c)) /\ s = [r EXCEPT !.c = Stored(c, r.c)]
  BY DEF Saved
<1>3. /\ Stored(c, r.c) \in Config /\ Validate(Stored(c, r.c))
      /\ Canon(Stored(c, r.c)) /\ (torn \/ Regions(Stored(c, r.c)))
  BY <1>1, <1>2, StoredSound
<1>4. s \in Session /\ s.c = Stored(c, r.c)
  BY <1>1, <1>2, <1>3, SessionIsRecord
<1>5. QED
  BY <1>2, <1>3, <1>4 DEF Sound

LEMMA ConfigOfSound ==
  ASSUME Sound(stored, torn), NEW m, Held(m, torn), NEW s \in ConfigOf(m)
  PROVE  /\ Sound(s, torn) /\ s = [stored EXCEPT !.c = Stored(m.c, stored.c)]
         /\ s.c = Stored(m.c, stored.c)
         /\ Kept(stored.c, m.c, Owned) => Kept(stored.c, s.c, Owned)
<1>1. m.c \in Config /\ Fit(m.c, torn) /\ stored.c \in Config /\ Canon(stored.c)
  BY DEF Sound, Held, Session
<1>2. /\ Sound(s, torn) /\ s = [stored EXCEPT !.c = Stored(m.c, stored.c)]
      /\ s.c = Stored(m.c, stored.c) /\ Validate(Prepared(m.c, stored.c))
  BY <1>1, SavedSound DEF ConfigOf
<1>3. Kept(stored.c, m.c, Owned) => Kept(stored.c, Stored(m.c, stored.c), Owned)
  BY <1>1, <1>2, StoredKept, OwnedClosed DEF Fit
<1>4. QED
  BY <1>2, <1>3

\* The targets are not part of the configuration.
LEMMA TargetsSound ==
  ASSUME NEW s, Sound(s, torn), NEW T \in SUBSET Host
  PROVE  Sound([s EXCEPT !.targets = T], torn) /\ [s EXCEPT !.targets = T].c = s.c
<1>1. [s EXCEPT !.targets = T] \in Session /\ [s EXCEPT !.targets = T].c = s.c
  BY DEF Sound, Session
<1>2. QED
  BY <1>1 DEF Sound

\* What another process makes of the store is as sound as what it found.
LEMMA WrittenSound ==
  ASSUME NEW r, Sound(r, torn), NEW d \in Written(r)
  PROVE  Sound(d, torn)
<1>1. /\ r \in Session /\ r.c \in Config /\ Validate(r.c) /\ Canon(r.c) /\ (torn \/ Regions(r.c))
      /\ Loaded(r.c) = r.c
  BY CanonSame DEF Sound, Session
<1>2. CASE \E h \in r.targets : d = [r EXCEPT !.targets = r.targets \ {h}]
  <2>1. PICK h : d = [r EXCEPT !.targets = r.targets \ {h}]
    BY <1>2
  <2>2. r.targets \ {h} \in SUBSET Host
    BY <1>1 DEF Session
  <2>3. QED
    BY <2>1, <2>2, TargetsSound
<1>3. ASSUME NEW c \in ProtectEnable(r.c) \cup ProtectDisable(r.c)
                          \cup CN(r.c, "ingress", "provinces")
                          \cup CN(r.c, "egress", "egressProvinces"),
             d \in Saved(c, r)
      PROVE  Sound(d, torn)
  <2>1. c \in Edits(r.c)
    BY <1>3 DEF Edits
  <2>2. c \in Config /\ ValidRanges(c.openPortRanges) /\ (Regions(r.c) => Regions(c))
    BY <1>1, <2>1, EditsOK, EditedRanges DEF EditOK
  <2>3. Fit(c, torn)
    BY <1>1, <2>2 DEF Fit
  <2>4. QED
    BY <1>3, <2>2, <2>3, SavedSound
<1>4. QED
  <2>1. \/ \E h \in r.targets : d = [r EXCEPT !.targets = r.targets \ {h}]
        \/ \E c \in ProtectEnable(r.c) \cup ProtectDisable(r.c)
                     \cup CN(r.c, "ingress", "provinces") \cup CN(r.c, "egress", "egressProvinces") :
              d \in Saved(c, r)
    <3>1. Loaded(r.c) = r.c
      BY <1>1
    <3> DEFINE E == (ProtectEnable(r.c) \cup ProtectDisable(r.c))
                      \cup CN(r.c, "ingress", "provinces") \cup CN(r.c, "egress", "egressProvinces")
               S == UNION { Saved(c, r) : c \in E }
               D == { [r EXCEPT !.targets = r.targets \ {h}] : h \in r.targets }
    <3>2. Written(r) = S \cup D
      BY <3>1 DEF Written
    <3>3. d \in D => \E h \in r.targets : d = [r EXCEPT !.targets = r.targets \ {h}]
      BY Zenon DEF D
    <3> HIDE DEF E
    <3>4. d \in S => \E c \in E : d \in Saved(c, r)
      OBVIOUS
    <3> HIDE DEF D, S
    <3>5. d \in D \/ d \in S
      BY <3>2
    <3>6. QED
      BY <3>3, <3>4, <3>5 DEF E
  <2>2. CASE \E h \in r.targets : d = [r EXCEPT !.targets = r.targets \ {h}]
    BY <1>2, <2>2
  <2>3. QED
    BY <1>3, <2>1, <2>2

\* A load that another process's write falls into may show provinces with a mode
\* of before, but nothing that is not valid.
LEMMA SeenHeld ==
  ASSUME NEW r, Sound(r, TRUE), NEW d, Sound(d, TRUE), NEW i
  PROVE  Held(Shown(Seen(r, d, i)), TRUE)
<1> DEFINE v == Seen(r, d, i)
           c == [f \in DOMAIN d.c |-> IF \E j \in 1 .. i : Order[j] = f THEN r.c[f] ELSE d.c[f]]
<1>1. /\ r \in Session /\ d \in Session /\ r.c \in Config /\ d.c \in Config
      /\ Validate(r.c) /\ Validate(d.c)
  BY DEF Sound, Session
<1>2. DOMAIN d.c = Field
  BY <1>1, ConfigIsRecord
<1>3. \A f \in Field : c[f] = r.c[f] \/ c[f] = d.c[f]
  BY <1>2
<1>4. c = [f \in Field |-> c[f]] /\ \A f \in Field : c[f] \in Values(f)
  <2>1. c = [f \in Field |-> c[f]]
    BY <1>2
  <2>2. \A f \in Field : r.c[f] \in Values(f) /\ d.c[f] \in Values(f)
    BY <1>1, ConfigIsRecord
  <2> HIDE DEF c
  <2>3. QED
    BY <1>3, <2>1, <2>2
<1>5. v = [d EXCEPT !.c = c]
  BY DEF Seen
<1> HIDE DEF c, v
<1>6. c \in Config
  BY <1>4, RecordIsConfig
<1>7. Validate(c)
  BY <1>1, <1>3, ValidByField
<1>8. v \in Session /\ v.c = c
  BY <1>1, <1>5, <1>6, SessionIsRecord
<1>9. Loaded(c) \in Config /\ Validate(Loaded(c))
  BY <1>6, <1>7, LoadedConfig
<1>10. Shown(v) \in Session /\ Shown(v).c = Loaded(c)
  BY <1>8, <1>9, SessionIsRecord DEF Shown
<1>11. QED
  BY <1>9, <1>10, ValidConfig DEF Held, Fit, v

LEMMA LoadKeeps ==
  ASSUME torn \in BOOLEAN, job = None, job' = None, NEW s, Sound(s, torn), Load(s)
  PROVE  Copies' /\ (foreign' \/ stored' = s)
<1>1. CASE stored' = s /\ mem' = Shown(s) /\ torn' = torn
  <2>1. Shown(s) = s /\ Held(s, torn)
    BY SoundShown
  <2>2. Sound(stored', torn') /\ Held(mem', torn') /\ mem' = Shown(stored')
    BY <1>1, <2>1
  <2>3. QED
    BY <1>1, <2>2 DEF Copies, Current
<1>2. ASSUME NEW d \in Written(s), NEW i, stored' = d, mem' = Shown(Seen(s, d, i)),
             foreign' = TRUE, torn' = TRUE
      PROVE  Copies' /\ foreign'
  <2>1. Sound(s, TRUE) /\ Sound(d, TRUE)
    BY <1>2, WrittenSound DEF Sound
  <2>2. Sound(stored', torn') /\ Held(mem', torn')
    BY <1>2, <2>1, SeenHeld
  <2>3. QED
    BY <1>2, <2>2 DEF Copies
<1>3. QED
  BY <1>1, <1>2 DEF Load

LEMMA FailKeeps ==
  ASSUME Copies, job = None, job' = None, NEW m, Held(m, torn),
         NEW results, \A s \in results : Sound(s, torn), Fail(m, results)
  PROVE  Copies'
<1>1. Sound(stored', torn') /\ Held(mem', torn') /\ failed' /\ torn' = torn
  BY DEF Fail, Copies
<1>2. QED
  BY <1>1 DEF Copies

LEMMA AttemptKeeps ==
  ASSUME Copies, job = None, job' = None, NEW m, Held(m, torn),
         NEW results, \A s \in results : Sound(s, torn), Attempt(m, results)
  PROVE  Copies' /\ (foreign' \/ stored' \in {stored} \cup results)
<1>1. CASE Fail(m, results)
  BY <1>1, FailKeeps DEF Fail
<1>2. CASE \E s \in results : Load(s)
  BY <1>2, LoadKeeps DEF Copies
<1>3. QED
  BY <1>1, <1>2 DEF Attempt

\* A save of what a key has edited.
LEMMA SaveKeeps ==
  ASSUME Copies, job = None, job' = None, NEW e, Edited(mem.c, e, Owned), Save(e)
  PROVE  Copies' /\ OwnStep
<1> DEFINE m == [mem EXCEPT !.c = e]
<1>1. mem \in Session /\ e \in Config /\ Fit(e, torn) /\ Kept(mem.c, e, Owned) /\ Sound(stored, torn)
  BY DEF Copies, Held, Edited
<1>2. m \in Session /\ m.c = e /\ Attempt(m, ConfigOf(m))
  BY <1>1, SessionIsRecord DEF Save
<1> HIDE DEF m
<1>3. Held(m, torn)
  BY <1>1, <1>2 DEF Held
<1>4. \A s \in ConfigOf(m) : Sound(s, torn)
  BY <1>1, <1>3, ConfigOfSound
<1>5. Copies' /\ (foreign' \/ stored' \in {stored} \cup ConfigOf(m))
  BY <1>2, <1>3, <1>4, AttemptKeeps
<1>6. ASSUME ~failed, ~foreign, ~foreign' PROVE Kept(stored.c, stored'.c, Owned)
  <2>1. mem = stored
    BY <1>1, <1>6, SoundShown DEF Copies, Current
  <2>2. CASE stored' = stored
    BY <2>2 DEF Kept
  <2>3. CASE stored' \in ConfigOf(m)
    BY <1>1, <1>2, <1>3, <2>1, <2>3, ConfigOfSound
  <2>4. QED
    BY <1>5, <1>6, <2>2, <2>3
<1>7. DOMAIN stored.c = Field
  BY <1>1, ConfigIsRecord DEF Sound, Session
<1>8. QED
  BY <1>5, <1>6, <1>7 DEF OwnStep, Kept

LEMMA DownmaskKeeps ==
  ASSUME Copies, job = None, NEW t \in {"server", "policy", "ab"}, NEW v \in Setting,
         SaveDownmask(t, v)
  PROVE  Copies' /\ OwnStep
<1> DEFINE m == [mem EXCEPT !.dm[t] = v]
           s == [stored EXCEPT !.dm[t] = v]
<1>1. Sound(stored, torn) /\ Held(mem, torn)
  BY DEF Copies
<1>2. \A x \in Session : [x EXCEPT !.dm[t] = v] \in Session /\ [x EXCEPT !.dm[t] = v].c = x.c
  BY DEF Session
<1>3. Held(m, torn)
  BY <1>1, <1>2 DEF Held
<1>4. Sound(s, torn) /\ s.c = stored.c
  BY <1>1, <1>2 DEF Sound
<1>5. Attempt(m, {s}) /\ job' = None
  BY DEF SaveDownmask, Stay
<1> HIDE DEF m, s
<1>6. Copies' /\ (foreign' \/ stored' \in {stored, s})
  BY <1>3, <1>4, <1>5, AttemptKeeps
<1>7. foreign' \/ stored'.c = stored.c
  BY <1>4, <1>6
<1>8. QED
  BY <1>6, <1>7 DEF OwnStep

LEMMA DataKept ==
  ASSUME Copies, KeepData, job' = job
  PROVE  Copies' /\ OwnStep
  BY DEF KeepData, Copies, Current, OwnStep, Sound, Held

\* Turning a switch leaves everything else as it was.
LEMMA TurnCanon ==
  ASSUME NEW c \in Config, Canon(c), Validate(c), NEW x \in Switch, NEW on
  PROVE  Canon(Turn(c, x, on)) /\ Validate(Turn(c, x, on))
<1> DEFINE e == Turn(c, x, on)
<1>1. e \in Config /\ Kept(c, e, {"protect"})
  BY TurnOK DEF EditOK
<1> HIDE DEF e
<1>2. /\ e.openPorts = c.openPorts /\ e.openPortRanges = c.openPortRanges
      /\ e.trigger = c.trigger /\ e.provinces = c.provinces
      /\ e.cities = c.cities /\ e.policies = c.policies
  BY <1>1, FieldNames DEF Kept
<1>3. NormalizeIngress(e) = e
  <2> DEFINE n == NormalizeIngress(e)
  <2>1. n \in Config /\ Kept(e, n, {"cities", "policies"})
    BY <1>1, NormalizeIngressConfig
  <2>2. n.cities = NormalizeIngress(c).cities /\ n.policies = NormalizeIngress(c).policies
    BY <1>1, <1>2 DEF NormalizeIngress, Config
  <2> HIDE DEF n
  <2>3. n.cities = e.cities /\ n.policies = e.policies
    BY <1>2, <2>2 DEF Canon
  <2>4. \A f \in Field : n[f] = e[f]
    BY <2>1, <2>3 DEF Kept
  <2>5. QED
    BY <1>1, <2>1, <2>4, SameConfig DEF n
<1>4. Validate(e)
  <2>1. \A f \in Field : ValidField(f, c[f])
    BY ValidByField
  <2>2. ValidField("protect", e["protect"])
    BY DEF ValidField
  <2>3. \A f \in Field : ValidField(f, e[f])
    BY <1>1, <2>1, <2>2 DEF Kept
  <2>4. QED
    BY <2>3, ValidByField
<1>5. QED
  BY <1>2, <1>3, <1>4 DEF Canon, e

LEMMA TurnSound ==
  ASSUME NEW s, Sound(s, torn), NEW x \in Switch, NEW on
  PROVE  LET d == [s EXCEPT !.c = Turn(s.c, x, on)]
         IN  Sound(d, torn) /\ d.c = Turn(s.c, x, on) /\ Stored(d.c, s.c) = d.c
<1>1. s \in Session /\ s.c \in Config /\ Validate(s.c) /\ Canon(s.c) /\ (torn \/ Regions(s.c))
  BY DEF Sound, Session
<1> DEFINE e == Turn(s.c, x, on)
<1>2. e \in Config /\ (torn \/ Regions(e))
  BY <1>1, TurnOK DEF EditOK
<1>3. Canon(e) /\ Validate(e)
  BY <1>1, TurnCanon
<1> HIDE DEF e
<1>4. [s EXCEPT !.c = e] \in Session /\ [s EXCEPT !.c = e].c = e
  BY <1>1, <1>2, SessionIsRecord
<1>5. Stored(e, s.c) = e
  BY <1>1, <1>2, <1>3, ValidConfig, CanonSame
<1>6. QED
  BY <1>2, <1>3, <1>4, <1>5 DEF Sound, e

LEMMA EditedMore ==
  ASSUME NEW c, NEW e, NEW G, NEW H, G \subseteq H, Edited(c, e, G)
  PROVE  Edited(c, e, H)
  BY DEF Edited, Kept

LEMMA MemType ==
  ASSUME Copies
  PROVE  /\ mem \in Session /\ mem.c \in Config /\ Fit(mem.c, torn) /\ Sound(stored, torn)
         /\ stored \in Session /\ stored.c \in Config /\ DOMAIN stored.c = Field
<1>1. mem \in Session /\ Fit(mem.c, torn) /\ Sound(stored, torn) /\ stored \in Session
  BY DEF Copies, Held, Sound
<1>2. mem.c \in Config /\ stored.c \in Config
  BY <1>1 DEF Session
<1>3. QED
  BY <1>1, <1>2, ConfigIsRecord

\* Enabling, with the store read before or kept: the copy is what was saved.
LEMMA Enabled ==
  ASSUME torn \in BOOLEAN, NEW x, Held(x, torn), Sound(stored, torn),
         NEW m, m = [x EXCEPT !.c = Turn(x.c, "enabled", TRUE)]
  PROVE  /\ Held(m, torn)
         /\ Kept(x.c, m.c, {"protect"})
         /\ "enabled" \in x.c.protect => m = x
         /\ x = stored => \A s \in ConfigOf(m) : s = m
<1>1. x \in Session /\ x.c \in Config /\ Fit(x.c, torn) /\ "enabled" \in Switch
  BY DEF Held, Session, Switch
<1> DEFINE e == Turn(x.c, "enabled", TRUE)
<1>2. Edited(x.c, e, {"protect"})
  BY <1>1, FitTurn
<1>3. "enabled" \in x.c.protect => e = x.c
  <2>1. CASE "enabled" \in x.c.protect
    <3>1. x.c.protect \cup {"enabled"} = x.c.protect /\ x.c = [f \in Field |-> x.c[f]]
      BY <1>1, <2>1, ConfigIsRecord
    <3>2. e = Put(x.c, "protect", x.c.protect)
      BY <3>1 DEF Turn
    <3>3. QED
      BY <3>1, <3>2 DEF Put
  <2>2. QED
    BY <2>1
<1>4. x = stored => Stored(e, stored.c) = e
  BY ZenonT(40), <1>1, TurnSound
<1> HIDE DEF e
<1>5. m = [x EXCEPT !.c = e] /\ m \in Session /\ m.c = e /\ [x EXCEPT !.c = x.c] = x
  BY <1>1, <1>2, SessionIsRecord DEF Edited, e
<1>6. Held(m, torn) /\ Kept(x.c, m.c, {"protect"})
  BY <1>1, <1>2, <1>5 DEF Held, Edited
<1>7. ASSUME x = stored, NEW s \in ConfigOf(m) PROVE s = m
  <2>1. s = [stored EXCEPT !.c = Stored(m.c, stored.c)]
    BY <1>6, ConfigOfSound
  <2>2. QED
    BY <1>4, <1>5, <1>7, <2>1
<1>8. QED
  BY <1>3, <1>5, <1>6, <1>7

----------------------------------------------------------------------------
(* The screens: what the actions do to the copies                          *)

LEMMA ConfirmKeeps ==
  ASSUME Copies, Confirm
  PROVE  Copies' /\ OwnStep
<1>1. /\ mem' = mem /\ stored' = stored /\ failed' = failed /\ foreign' = foreign
      /\ torn' = torn /\ job = None /\ job' = [m |-> mem, saved |-> FALSE]
  BY DEF Confirm, KeepData
<1>2. Held(mem, torn) /\ Sound(stored, torn) /\ mem \in Session
  BY DEF Copies, Held
<1>3. job' \in Job /\ job'.m = mem
  BY <1>1, <1>2 DEF Job
<1>4. ~failed /\ ~foreign => mem = Shown(stored)
  BY <1>1 DEF Copies, Current
<1>5. Current' = mem \/ job' = None
  BY <1>3 DEF Current
<1>6. Current' = mem
  BY <1>1, <1>5 DEF Current
<1>7. Copies'
  BY <1>1, <1>2, <1>3, <1>4, <1>6 DEF Copies
<1>8. QED
  BY <1>1, <1>7 DEF OwnStep

LEMMA JobSaveKeeps ==
  ASSUME Copies, Dialogue, JobSave
  PROVE  Copies' /\ OwnStep
<1> DEFINE m == [job.m EXCEPT !.c = Turn(job.m.c, "enabled", TRUE)]
<1>1. /\ job # None /\ job \in Job /\ Held(job.m, torn) /\ Sound(stored, torn)
      /\ Held(mem, torn) /\ mem' = mem /\ foreign' = foreign /\ torn' = torn /\ screen = "status"
  BY DEF JobSave, Copies, Dialogue
<1>2. ~failed /\ ~foreign => job.m = stored
  BY <1>1, SoundShown DEF Copies, Current
<1>3. /\ Held(m, torn) /\ Kept(job.m.c, m.c, {"protect"})
      /\ job.m = stored => \A s \in ConfigOf(m) : s = m
  BY <1>1, Enabled DEF Copies
<1>4. Owned = {"protect"} /\ DOMAIN stored.c = Field
  BY <1>1, MemType, ScreenNames DEF Owned
<1>5. CASE "enabled" \in job.m.c.protect
  <2>1. job' = [job EXCEPT !.saved = TRUE] /\ stored' = stored /\ failed' = failed
    BY <1>5 DEF JobSave
  <2>2. job' \in Job /\ job'.m = job.m
    BY <1>1, <2>1 DEF Job
  <2>3. Current' = Current
    BY <1>1, <2>2, JobAssumption DEF Current
  <2>4. Copies'
    BY <1>1, <2>1, <2>2, <2>3 DEF Copies
  <2>5. QED
    BY <2>1, <2>4 DEF OwnStep
<1>6. CASE stored' \in ConfigOf(m) /\ job' = [m |-> m, saved |-> TRUE] /\ failed' = failed
  <2>1. Sound(stored', torn) /\ (Kept(stored.c, m.c, Owned) => Kept(stored.c, stored'.c, Owned))
    BY <1>1, <1>3, <1>6, ConfigOfSound
  <2>2. job' \in Job /\ job'.m = m
    BY <1>3, <1>6 DEF Held, Job
  <2> HIDE DEF m
  <2>3. job' = None \/ Current' = m
    BY <2>2 DEF Current
  <2>4. ~failed' /\ ~foreign' => m = stored' /\ Shown(stored') = stored'
    BY <1>1, <1>2, <1>3, <1>6, <2>1, SoundShown
  <2>5. job' # None => Current' = m
    BY <2>3
  <2>6. ~failed' /\ ~foreign' => Current' = Shown(stored')
    <3>1. CASE job' # None
      BY <2>4, <2>5, <3>1
    <3>2. CASE job' = None
      BY <1>1, <1>6, <2>2, <2>4, <3>2, JobAssumption
    <3>3. QED
      BY <3>1, <3>2
  <2>7. Copies'
    BY <1>1, <1>3, <2>1, <2>2, <2>6 DEF Copies
  <2>8. ~failed /\ ~foreign => Kept(stored.c, stored'.c, Owned)
    BY <1>2, <1>3, <1>4, <2>1
  <2>9. QED
    BY <1>4, <2>7, <2>8 DEF OwnStep, Kept
<1>7. CASE stored' = stored /\ job' = [m |-> m, saved |-> TRUE] /\ failed' = TRUE
  <2>1. job' \in Job /\ job'.m = m
    BY <1>3, <1>7 DEF Held, Job
  <2> HIDE DEF m
  <2>2. Copies'
    BY <1>1, <1>3, <1>7, <2>1 DEF Copies
  <2>3. QED
    BY <1>7, <2>2 DEF OwnStep
<1>8. QED
  BY <1>5, <1>6, <1>7 DEF JobSave

LEMMA JobEndKeeps ==
  ASSUME Copies, JobEnd
  PROVE  Copies' /\ OwnStep
<1>1. /\ job # None /\ mem' = job.m /\ job' = None
      /\ stored' = stored /\ failed' = failed /\ foreign' = foreign /\ torn' = torn
  BY DEF JobEnd
<1>2. Held(mem', torn') /\ Sound(stored', torn') /\ Current' = Current
  BY <1>1 DEF Copies, Current
<1>3. Copies'
  BY <1>1, <1>2 DEF Copies
<1>4. QED
  BY <1>1, <1>3 DEF OwnStep

LEMMA ApplyNowKeeps ==
  ASSUME Copies, ApplyNow
  PROVE  Copies' /\ OwnStep
<1> DEFINE m == [mem EXCEPT !.c = Turn(mem.c, "enabled", TRUE)]
           results == IF "enabled" \in mem.c.protect THEN {stored} ELSE ConfigOf(m)
<1>1. job = None /\ job' = None /\ screen = "status" /\ Held(mem, torn) /\ Sound(stored, torn)
  BY DEF ApplyNow, Key, Stay, Copies
<1>2. Owned = {"protect"} /\ DOMAIN stored.c = Field
  BY <1>1, MemType, ScreenNames DEF Owned
<1>3. ~failed /\ ~foreign => mem = stored
  BY <1>1, SoundShown DEF Copies, Current
<1>4. \/ \E s \in results :
           \/ Load(s)
           \/ stored' = s /\ mem' = m /\ UNCHANGED << prompt, failed, foreign, torn >>
      \/ Fail(m, {})
  BY DEF ApplyNow
<1>5. /\ Held(m, torn) /\ Kept(mem.c, m.c, {"protect"})
      /\ "enabled" \in mem.c.protect => m = mem
      /\ mem = stored => \A s \in ConfigOf(m) : s = m
  BY <1>1, Enabled DEF Copies
<1> HIDE DEF m
<1>6. ASSUME NEW s \in results
      PROVE  /\ Sound(s, torn)
             /\ mem = stored => s = m /\ Kept(stored.c, s.c, {"protect"})
  <2>1. CASE "enabled" \in mem.c.protect
    BY <1>1, <1>5, <1>6, <2>1 DEF Kept
  <2>2. CASE "enabled" \notin mem.c.protect
    BY <1>1, <1>5, <1>6, <2>2, ConfigOfSound
  <2>3. QED
    BY <2>1, <2>2
<1> HIDE DEF results
<1>7. CASE Fail(m, {})
  <2>1. Copies'
    BY <1>1, <1>5, <1>7, FailKeeps
  <2>2. stored' = stored
    BY <1>7 DEF Fail
  <2>3. QED
    BY <2>1, <2>2 DEF OwnStep
<1>8. ASSUME NEW s \in results, Load(s) PROVE Copies' /\ OwnStep
  <2>1. Sound(s, torn)
    BY <1>6, <1>8
  <2>2. Copies' /\ (foreign' \/ stored' = s)
    BY <1>1, <1>8, <2>1, LoadKeeps DEF Copies
  <2>3. QED
    BY <1>2, <1>3, <1>6, <1>8, <2>1, <2>2 DEF OwnStep, Kept
<1>9. ASSUME NEW s \in results, stored' = s, mem' = m, UNCHANGED << prompt, failed, foreign, torn >>
      PROVE  Copies' /\ OwnStep
  <2>1. Sound(stored', torn') /\ Held(mem', torn') /\ Current' = m
    BY <1>1, <1>5, <1>6, <1>9 DEF Current
  <2>2. ~failed' /\ ~foreign' => m = stored' /\ Shown(stored') = stored'
    BY <1>3, <1>6, <1>9, <2>1, SoundShown
  <2>3. Copies'
    BY <1>1, <1>9, <2>1, <2>2 DEF Copies
  <2>4. QED
    BY <1>2, <1>3, <1>6, <1>9, <2>3 DEF OwnStep, Kept
<1>10. QED
  BY <1>4, <1>7, <1>8, <1>9

LEMMA DeleteRowKeeps ==
  ASSUME Copies, DeleteRow
  PROVE  Copies' /\ OwnStep
<1>1. CASE Panic
  BY <1>1, DataKept DEF Panic
<1>2. ASSUME NEW r, SaveHere(IF screen = "ingressPorts" THEN [mem.c EXCEPT !.policies[r] = None]
                             ELSE [mem.c EXCEPT ![RouteScreen[screen]][r] = None])
      PROVE  Copies' /\ OwnStep
  <2> DEFINE e == IF screen = "ingressPorts" THEN [mem.c EXCEPT !.policies[r] = None]
                  ELSE [mem.c EXCEPT ![RouteScreen[screen]][r] = None]
  <2>1. Edited(mem.c, e, Owned)
    BY MemType, DeleteFit DEF DeleteRow
  <2> HIDE DEF e
  <2>2. Save(e) /\ job = None /\ job' = None
    BY <1>2 DEF SaveHere, Stay, DeleteRow, Key, e
  <2>3. QED
    BY <2>1, <2>2, SaveKeeps
<1>3. QED
  BY <1>1, <1>2 DEF DeleteRow

LEMMA DeleteTargetKeeps ==
  ASSUME Copies, DeleteTarget
  PROVE  Copies' /\ OwnStep
<1>1. CASE Panic
  BY <1>1, DataKept DEF Panic
<1>2. ASSUME NEW h, Stay,
             \/ Load([stored EXCEPT !.targets = @ \ {h}])
             \/ Fail(mem, {[stored EXCEPT !.targets = @ \ {h}]})
      PROVE  Copies' /\ OwnStep
  <2> DEFINE left == [stored EXCEPT !.targets = stored.targets \ {h}]
  <2>1. job = None /\ job' = None /\ Held(mem, torn) /\ Sound(stored, torn)
    BY <1>2 DEF DeleteTarget, Key, Stay, Copies
  <2>2. stored.targets \ {h} \in SUBSET Host
    BY <2>1 DEF Sound, Session
  <2>3. Sound(left, torn) /\ left.c = stored.c
    BY <2>1, <2>2, TargetsSound
  <2>4. Attempt(mem, {left})
    BY <1>2 DEF Attempt
  <2> HIDE DEF left
  <2>5. Copies' /\ (foreign' \/ stored' \in {stored, left})
    BY <2>1, <2>3, <2>4, AttemptKeeps
  <2>6. QED
    BY <2>3, <2>5 DEF OwnStep
<1>3. QED
  BY <1>1, <1>2 DEF DeleteTarget

LEMMA SubmitTargetKeeps ==
  ASSUME Copies, SubmitTarget
  PROVE  Copies' /\ OwnStep
<1>1. job = None /\ job' = None /\ Held(mem, torn) /\ Sound(stored, torn) /\ stored.targets \in SUBSET Host
  BY DEF SubmitTarget, Submit, Stay, Copies, Sound, Session
<1>2. PICK h \in Host :
        LET left == IF prompt.old \in {None, h} THEN stored
                    ELSE [stored EXCEPT !.targets = @ \ {prompt.old}]
            done == [left EXCEPT !.targets = @ \cup {h}]
        IN  Load(done) \/ Fail(mem, {left, done})
  BY DEF SubmitTarget
<1> DEFINE left == IF prompt.old \in {None, h} THEN stored
                   ELSE [stored EXCEPT !.targets = stored.targets \ {prompt.old}]
           done == [left EXCEPT !.targets = left.targets \cup {h}]
<1>3. Sound(left, torn) /\ left.c = stored.c
  BY <1>1, TargetsSound
<1>4. left.targets \in SUBSET Host
  BY <1>3 DEF Sound, Session
<1>5. Load(done) \/ Fail(mem, {left, done})
  BY <1>2
<1> HIDE DEF left
<1>6. Sound(done, torn) /\ done.c = stored.c
  BY <1>3, <1>4, TargetsSound
<1> HIDE DEF done
<1>7. CASE Load(done)
  <2>1. Copies' /\ (foreign' \/ stored' = done)
    BY <1>1, <1>6, <1>7, LoadKeeps DEF Copies
  <2>2. QED
    BY <1>6, <2>1 DEF OwnStep
<1>8. CASE Fail(mem, {left, done})
  <2>1. \A s \in {left, done} : Sound(s, torn)
    BY <1>3, <1>6
  <2>2. Copies'
    BY <1>1, <1>8, <2>1, FailKeeps
  <2>3. stored' \in {stored, left, done}
    BY <1>8 DEF Fail
  <2>4. QED
    BY <1>3, <1>6, <2>2, <2>3 DEF OwnStep
<1>9. QED
  BY <1>5, <1>7, <1>8

LEMMA OtherKeeps ==
  ASSUME Copies, Other
  PROVE  Copies' /\ OwnStep
<1>1. /\ mem' = mem /\ job' = job /\ foreign' = TRUE /\ torn' = torn
      /\ Sound(stored, torn) /\ stored' \in Written(stored)
  BY DEF Other, Copies
<1>2. Sound(stored', torn')
  BY <1>1, WrittenSound
<1>3. Copies'
  BY <1>1, <1>2 DEF Copies
<1>4. QED
  BY <1>1, <1>3 DEF OwnStep

LEMMA SavedHere ==
  ASSUME Copies, job = None, NEW e, Edited(mem.c, e, Owned), SaveHere(e)
  PROVE  Copies' /\ OwnStep
<1>1. Save(e) /\ job' = None
  BY DEF SaveHere, Stay
<1>2. QED
  BY <1>1, SaveKeeps

LEMMA DisableNowKeeps ==
  ASSUME Copies, DisableNow
  PROVE  Copies' /\ OwnStep
<1>1. job = None /\ SaveHere(Turn(mem.c, "enabled", FALSE)) /\ screen = "status"
  BY DEF DisableNow, Key
<1>2. Owned = {"protect"} /\ "enabled" \in Switch
  BY <1>1, ScreenNames DEF Owned, Switch
<1>3. Edited(mem.c, Turn(mem.c, "enabled", FALSE), Owned)
  BY <1>2, MemType, FitTurn
<1>4. QED
  BY <1>1, <1>3, SavedHere

LEMMA KeySaveKeeps ==
  ASSUME Copies, Dialogue, KeySave
  PROVE  Copies' /\ OwnStep
<1>1. PICK c \in KeyEdits(mem.c) : SaveHere(c)
  BY DEF KeySave
<1>2. Edited(mem.c, c, Owned)
  BY <1>1, MemType, KeysFit DEF Dialogue
<1>3. QED
  BY <1>1, <1>2, SavedHere DEF KeySave, Key

LEMMA SubmitMenuKeeps ==
  ASSUME Copies, SubmitProtect \/ SubmitLease \/ SubmitLeaseAdvanced
  PROVE  Copies' /\ OwnStep
<1>1. job = None /\ mem.c \in Config
  BY MemType DEF SubmitProtect, SubmitLease, SubmitLeaseAdvanced, Submit
<1>2. CASE Typed(mem.c)
  BY <1>1, <1>2, FitSame, SavedHere DEF Typed
<1>3. CASE SubmitLease /\ \E a \in Listen : Typed([mem.c EXCEPT !.trigger = [on |-> TRUE, listen |-> a]])
  <2>1. PICK a \in Listen : Typed(Put(mem.c, "trigger", [on |-> TRUE, listen |-> a]))
    BY <1>3 DEF Put
  <2> DEFINE t == [on |-> TRUE, listen |-> a]
  <2>2. t \in Values("trigger") /\ "trigger" \in Plain
    BY PlainNames DEF Values
  <2>3. Typed(Put(mem.c, "trigger", t))
    BY <2>1
  <2> HIDE DEF t
  <2>4. {"trigger"} \subseteq Owned
    BY <1>3, ScreenNames DEF SubmitLease, Owned
  <2>5. Edited(mem.c, Put(mem.c, "trigger", t), Owned)
    BY <1>1, <2>2, <2>4, FitPut, EditedMore
  <2>6. QED
    BY <1>1, <2>3, <2>5, SavedHere DEF Typed
<1>4. CASE SubmitLeaseAdvanced /\ \E t \in TypedTerm : Typed(Put(mem.c, "lease", t))
  <2>1. PICK t \in TypedTerm : Typed(Put(mem.c, "lease", t))
    BY <1>4
  <2>2. t \in Values("lease") /\ "lease" \in Plain
    BY PlainNames DEF Values, TypedTerm
  <2>3. {"lease"} \subseteq Owned
    BY <1>4, ScreenNames DEF SubmitLeaseAdvanced, Owned
  <2>4. Edited(mem.c, Put(mem.c, "lease", t), Owned)
    BY <1>1, <2>2, <2>3, FitPut, EditedMore
  <2>5. QED
    BY <1>1, <2>1, <2>4, SavedHere DEF Typed
<1>5. QED
  BY <1>2, <1>3, <1>4 DEF SubmitProtect, SubmitLease, SubmitLeaseAdvanced

LEMMA SubmitOpenPortsKeeps ==
  ASSUME Copies, SubmitOpenPorts
  PROVE  Copies' /\ OwnStep
<1>1. PICK R : /\ SaveHere(OpenRanges(mem.c, R))
               /\ \/ \E r \in Range : ValidRange(r) /\ R = mem.c.openPortRanges \cup {r}
                  \/ R \subseteq mem.c.openPortRanges
  BY DEF SubmitOpenPorts
<1>2. job = None /\ screen = "openPorts" /\ mem.c \in Config /\ ValidRanges(mem.c.openPortRanges)
  BY MemType DEF SubmitOpenPorts, Submit, Fit
<1>3. R \in SUBSET Range /\ ValidRanges(R)
  BY <1>1, <1>2 DEF Config, ValidRanges, ValidRange
<1>4. Owned = {"openPorts", "openPortRanges"}
  BY <1>2, ScreenNames DEF Owned
<1>5. Edited(mem.c, OpenRanges(mem.c, R), Owned)
  BY <1>2, <1>3, <1>4, FitRanges
<1>6. QED
  BY <1>1, <1>2, <1>5, SavedHere

LEMMA SubmitListKeeps ==
  ASSUME Copies, Dialogue, SubmitList
  PROVE  Copies' /\ OwnStep
<1>1. /\ screen \in DOMAIN PortScreen \cup DOMAIN CidrScreen
      /\ job = None /\ prompt # None /\ mem.c \in Config
  BY MemType DEF SubmitList, Submit
<1>2. PICK v : /\ SaveHere(Put(mem.c, ListField, v))
               /\ v \subseteq prompt.values \cup Item
  <2> DEFINE Saves(w) == SaveHere(Put(mem.c, ListField, w))
  <2>1. \/ \E x \in Item : Saves(prompt.values \cup {x})
        \/ \E x \in Item : Saves((prompt.values \ {prompt.old}) \cup {x})
        \/ \E S \in Chosen(prompt.values) : Saves(prompt.values \ S)
    BY DEF SubmitList
  <2> HIDE DEF Saves
  <2>2. \E w : Saves(w) /\ w \subseteq prompt.values \cup Item
    BY <2>1
  <2>3. QED
    BY <2>2 DEF Saves
<1>3. v \in Values(ListField) /\ ListField \in Plain /\ Owned = {ListField}
  <2>1. CASE screen \in DOMAIN PortScreen
    <3>1. Item \subseteq Port /\ prompt.values \subseteq Port
      BY <1>1, <2>1 DEF Item, Good, Dialogue
    <3>2. QED
      BY <1>2, <2>1, <3>1, PortScreens
  <2>2. CASE screen \in DOMAIN CidrScreen
    <3>1. Item = Address /\ prompt.values \subseteq Address
      BY <1>1, <2>2, ScreenNames DEF Item, Dialogue
    <3>2. QED
      BY <1>2, <2>2, <3>1, CidrScreens
  <2>3. QED
    BY <1>1, <2>1, <2>2
<1>4. Edited(mem.c, Put(mem.c, ListField, v), Owned)
  BY <1>1, <1>3, FitPut
<1>5. QED
  BY <1>1, <1>2, <1>4, SavedHere

LEMMA SubmitRouteKeeps ==
  ASSUME Copies, SubmitRoute
  PROVE  Copies' /\ OwnStep
<1> DEFINE f == RouteScreen[screen]
           R(t) == [l \in Label |-> IF l = prompt.name THEN t
                                    ELSE IF l = prompt.old THEN None ELSE mem.c[f][l]]
<1>1. job = None /\ screen \in DOMAIN RouteScreen /\ mem.c \in Config
  BY MemType DEF SubmitRoute, Submit
<1>2. PICK t \in Term : SaveHere(Put(mem.c, f, R(t)))
  BY DEF SubmitRoute, TypedTerm, Put
<1>3. mem.c[f] \in [Label -> {None} \cup Term]
  BY <1>1, RouteScreens, ConfigIsRecord, PlainNames
<1>4. R(t) \in [Label -> {None} \cup Term]
  BY <1>3
<1> HIDE DEF R
<1>5. Edited(mem.c, Put(mem.c, f, R(t)), Owned)
  BY <1>1, <1>4, RouteFit
<1>6. QED
  BY <1>1, <1>2, <1>5, SavedHere

LEMMA SaveDraftKeeps ==
  ASSUME Copies, Dialogue, SaveDraft
  PROVE  Copies' /\ OwnStep
<1> DEFINE policy(mode) == IF mode = "provinces" THEN draft.policy
                           ELSE [mode |-> mode, provinces |-> {}, cities |-> {}]
           ports == IF draft.ports = {} THEN {0} ELSE draft.ports
           P(mode) == [p \in Port |-> IF p \in ports THEN policy(mode)
                                      ELSE IF p = draft.old THEN None ELSE mem.c.policies[p]]
           m(mode) == [mem EXCEPT !.c = Put(mem.c, "policies", P(mode))]
<1>1. /\ job = None /\ job' = None /\ mem \in Session /\ mem.c \in Config /\ Sound(stored, torn)
      /\ screen \in {"portMode", "portRegions", "portProvince"} /\ draft.policy \in Policy
  BY MemType DEF SaveDraft, Key, Dialogue, Draft
<1>2. PICK mode \in IF screen = "portMode" THEN {"off", "all"} ELSE {draft.policy.mode} :
        \/ \E s \in ConfigOf(m(mode)) : Load(s)
        \/ Fail(m(mode), ConfigOf(m(mode)))
  BY DEF SaveDraft, Put
<1>3. /\ policy(mode) \in Policy
      /\ policy(mode).provinces # {} => policy(mode).mode = "provinces"
  <2>1. mode \in Mode /\ (mode = "provinces" => draft.policy.mode = "provinces")
    BY <1>1, <1>2 DEF Policy, Mode
  <2>2. QED
    BY <1>1, <2>1 DEF Policy
<1>4. mem.c.policies \in [Port -> {None} \cup Policy]
  BY <1>1 DEF Config
<1> HIDE DEF policy, ports
<1>5. P(mode) \in [Port -> {None} \cup Policy]
  BY <1>3, <1>4
<1>6. \A p \in Port : P(mode)[p] = mem.c.policies[p] \/ Lawful(mem.c, P(mode)[p])
  BY <1>3 DEF Lawful
<1> HIDE DEF P
<1>7. Edited(mem.c, Put(mem.c, "policies", P(mode)), Owned)
  BY <1>1, <1>5, <1>6, FitPolicies, PolicyScreens
<1>8. Save(Put(mem.c, "policies", P(mode)))
  BY <1>2 DEF Save, Attempt
<1>9. QED
  BY <1>1, <1>7, <1>8, SaveKeeps

LEMMA CopiesMoves ==
  ASSUME ScreenInv, [TuiNext]_tuiVars
  PROVE  Copies' /\ OwnStep
<1>1. Copies /\ Dialogue
  BY DEF ScreenInv
<1>2. CASE UNCHANGED tuiVars
  BY <1>1, <1>2, DataKept DEF tuiVars, KeepData
<1>3. CASE \E s \in Screen : Enter(s)
  BY <1>1, <1>3, DataKept DEF Enter
<1>4. CASE EnterProvince \/ Back \/ MoveCursor \/ Quit \/ Cancel
  BY <1>1, <1>4, DataKept DEF EnterProvince, Back, MoveCursor, Quit, Cancel, Stay
<1>5. CASE AskApply \/ Open \/ EditRow
  BY <1>1, <1>5, DataKept DEF AskApply, Open, EditRow, Panic, Ask, Stay
<1>6. CASE NameRoute \/ NextStep
  BY <1>1, <1>6, DataKept DEF NameRoute, NextStep, Ask, Stay
<1>7. CASE SubmitPorts \/ ChooseProvinces \/ ToggleDraft
  BY <1>1, <1>7, DataKept DEF SubmitPorts, ChooseProvinces, ToggleDraft
<1>8. CASE Confirm
  BY <1>1, <1>8, ConfirmKeeps
<1>9. CASE JobSave
  BY <1>1, <1>9, JobSaveKeeps
<1>10. CASE JobEnd
  BY <1>1, <1>10, JobEndKeeps
<1>11. CASE ApplyNow
  BY <1>1, <1>11, ApplyNowKeeps
<1>12. CASE DisableNow
  BY <1>1, <1>12, DisableNowKeeps
<1>13. CASE Refresh
  <2>1. job = None /\ job' = None /\ Load(stored) /\ Sound(stored, torn)
    BY <1>1, <1>13 DEF Refresh, Key, Stay, Copies
  <2>2. Copies' /\ (foreign' \/ stored' = stored)
    BY <1>1, <2>1, LoadKeeps DEF Copies
  <2>3. QED
    BY <2>1, <2>2 DEF OwnStep
<1>14. CASE KeySave
  BY <1>1, <1>14, KeySaveKeeps
<1>15. CASE ClientKey
  <2>1. PICK t \in {"policy", "ab"} : \E v \in Setting : SaveDownmask(t, v)
    BY <1>15 DEF ClientKey
  <2>2. QED
    BY <1>1, <1>15, <2>1, DownmaskKeeps DEF ClientKey, Key
<1>16. CASE SubmitServer \/ SubmitClient
  <2>1. PICK t \in {"server", "policy", "ab"} : \E v \in Setting : SaveDownmask(t, v)
    BY <1>16 DEF SubmitServer, SubmitClient
  <2>2. QED
    BY <1>1, <1>16, <2>1, DownmaskKeeps DEF SubmitServer, SubmitClient, Submit
<1>17. CASE DeleteRow
  BY <1>1, <1>17, DeleteRowKeeps
<1>18. CASE DeleteTarget
  BY <1>1, <1>18, DeleteTargetKeeps
<1>19. CASE SubmitProtect \/ SubmitLease \/ SubmitLeaseAdvanced
  BY <1>1, <1>19, SubmitMenuKeeps
<1>20. CASE SubmitOpenPorts
  BY <1>1, <1>20, SubmitOpenPortsKeeps
<1>21. CASE SubmitList
  BY <1>1, <1>21, SubmitListKeeps
<1>22. CASE SubmitTarget
  BY <1>1, <1>22, SubmitTargetKeeps
<1>23. CASE SubmitRoute
  BY <1>1, <1>23, SubmitRouteKeeps
<1>24. CASE SaveDraft
  BY <1>1, <1>24, SaveDraftKeeps
<1>25. CASE Other
  BY <1>1, <1>25, OtherKeeps
<1>26. QED
  BY <1>2, <1>3, <1>4, <1>5, <1>6, <1>7, <1>8, <1>9, <1>10, <1>11, <1>12, <1>13, <1>14, <1>15,
     <1>16, <1>17, <1>18, <1>19, <1>20, <1>21, <1>22, <1>23, <1>24, <1>25 DEF TuiNext

----------------------------------------------------------------------------
(* The screens: what the actions do to the dialogue                        *)

LEMMA ScreenSets ==
  /\ DOMAIN Parent = {"status", "protect", "ingress", "egress", "dpi", "lease", "downmask"}
  /\ DOMAIN Sub = {"openPorts", "guardedPorts", "regions", "ingressCidrs", "ingressPorts",
                   "egressRegions", "egressCidrs", "skipPorts", "routes", "relays",
                   "triggerRoutes", "proxies", "leaseAdvanced", "server", "client", "targets",
                   "downmaskStatus"}
  /\ DOMAIN Deep = {"province", "portMode", "portRegions", "portProvince"}
  /\ \A s \in DOMAIN Parent : Parent[s] = "home"
  /\ \A s \in DOMAIN Sub :
       Sub[s] \in {"protect", "ingress", "egress", "dpi", "lease", "downmask"}
  /\ \A s \in DOMAIN Deep : Deep[s] \in {"regions", "ingressPorts", "portMode", "portRegions"}
  BY DEF Parent, Sub, Deep

\* No key leads back to the screens of one province.
LEMMA UpScreen ==
  ASSUME NEW s \in Screen, s # "home"
  PROVE  Up(s) \in Screen /\ Up(s) \notin {"province", "portProvince"}
<1>1. CASE s \in DOMAIN Parent
  BY <1>1, ScreenSets DEF Up, Screen
<1>2. CASE s \in DOMAIN Sub
  BY <1>2, ScreenSets DEF Up, Screen
<1>3. CASE s \in DOMAIN Deep
  BY <1>3, ScreenSets DEF Up, Screen
<1>4. QED
  BY <1>1, <1>2, <1>3 DEF Screen

\* A key that stays where it is; what is open stays open or is closed.
LEMMA SameScreen ==
  ASSUME Dialogue, UNCHANGED << screen, province, draft >>, job' # None => job # None,
         prompt' \in {None, prompt}
  PROVE  Dialogue'
  BY DEF Dialogue

\* No prompt is open, and none opens.
LEMMA NoPrompt ==
  ASSUME Dialogue, prompt' = None, job' = None, screen' \in Screen, draft' \in Draft,
         screen' \in {"province", "portProvince"} => province' \in Province
  PROVE  Dialogue'
  BY DEF Dialogue

\* A prompt opens on the screen that is shown.
LEMMA Asked ==
  ASSUME Dialogue, job = None, NEW p \in Prompt, Ask(p),
         p.form = "confirm" => screen = "status",
         screen \in DOMAIN PortScreen => p.values \subseteq Port,
         screen \in DOMAIN CidrScreen => p.values \subseteq Address
  PROVE  Dialogue'
  BY DEF Dialogue, Ask, Stay

LEMMA ToggledPolicy ==
  ASSUME NEW policy \in Policy, NEW p \in Province, NEW q \in Toggled(policy, p)
  PROVE  q \in Policy
<1>1. /\ policy.provinces \in SUBSET Province /\ policy.cities \in SUBSET City
      /\ Uncovered({p}, policy.cities) \in SUBSET City /\ "provinces" \in Mode
  BY DEF Policy, Uncovered, Mode
<1>2. \A P \in SUBSET Province : [policy EXCEPT !.provinces = P, !.mode = "provinces"] \in Policy
  BY <1>1 DEF Policy
<1>3. \A P \in SUBSET Province, C \in SUBSET City :
        [policy EXCEPT !.provinces = P, !.cities = C, !.mode = "provinces"] \in Policy
  BY <1>1 DEF Policy
<1>4. \A C \in SUBSET City : [policy EXCEPT !.mode = "provinces", !.cities = C] \in Policy
  BY <1>1 DEF Policy
<1>5. CASE p \in policy.provinces
  <2>1. q = [policy EXCEPT !.provinces = policy.provinces \ {p}, !.mode = "provinces"]
    BY <1>5 DEF Toggled
  <2>2. QED
    BY <1>1, <1>2, <2>1
<1>6. CASE p \notin policy.provinces
  <2>1. \/ q = [policy EXCEPT !.provinces = policy.provinces \cup {p},
                              !.cities = Uncovered({p}, policy.cities), !.mode = "provinces"]
        \/ \E x \in City :
             q = [policy EXCEPT !.mode = "provinces",
                                !.cities = IF x \in policy.cities THEN policy.cities \ {x}
                                                                  ELSE policy.cities \cup {x}]
    BY <1>6 DEF Toggled
  <2>2. \A x \in City : (IF x \in policy.cities THEN policy.cities \ {x}
                                                ELSE policy.cities \cup {x}) \in SUBSET City
    BY <1>1
  <2>3. policy.provinces \cup {p} \in SUBSET Province
    BY <1>1
  <2>4. CASE q = [policy EXCEPT !.provinces = policy.provinces \cup {p},
                               !.cities = Uncovered({p}, policy.cities), !.mode = "provinces"]
    BY <1>1, <1>3, <2>3, <2>4
  <2>5. ASSUME NEW x \in City,
               q = [policy EXCEPT !.mode = "provinces",
                                  !.cities = IF x \in policy.cities THEN policy.cities \ {x}
                                                                    ELSE policy.cities \cup {x}]
        PROVE  q \in Policy
    <3> DEFINE C == IF x \in policy.cities THEN policy.cities \ {x} ELSE policy.cities \cup {x}
    <3>1. C \in SUBSET City /\ q = [policy EXCEPT !.mode = "provinces", !.cities = C]
      BY <2>2, <2>5
    <3> HIDE DEF C
    <3>2. QED
      BY <1>4, <3>1
  <2>6. QED
    BY <2>1, <2>4, <2>5
<1>7. QED
  BY <1>5, <1>6

LEMMA NoDraftType == NoDraft \in Draft
  BY DEF NoDraft, Draft, Policy, Mode

LEMMA BlankType ==
  /\ Blank = [form |-> "field", old |-> None, values |-> {}, name |-> None, step |-> 1]
  /\ Blank \in Prompt
<1>1. 1 \in 1 .. 6
  OBVIOUS
<1>2. QED
  BY <1>1 DEF Blank, Prompt

LEMMA BlankForm ==
  ASSUME NEW f \in {"confirm", "add", "delete"}
  PROVE  /\ [Blank EXCEPT !.form = f] \in Prompt /\ [Blank EXCEPT !.form = f].form = f
         /\ [Blank EXCEPT !.form = f].values = {}
  BY BlankType DEF Prompt

LEMMA BlankValues ==
  ASSUME NEW f \in {"add", "delete"}, NEW V \in (SUBSET Address) \cup (SUBSET Port)
  PROVE  /\ [Blank EXCEPT !.form = f, !.values = V] \in Prompt
         /\ [Blank EXCEPT !.form = f, !.values = V].values = V
         /\ [Blank EXCEPT !.form = f, !.values = V].form = f
  BY BlankType DEF Prompt

LEMMA BlankEdit ==
  ASSUME NEW r \in Address \cup Port \cup Label \cup Host, NEW V \in (SUBSET Address) \cup (SUBSET Port)
  PROVE  /\ [Blank EXCEPT !.form = "edit", !.old = r, !.values = V] \in Prompt
         /\ [Blank EXCEPT !.form = "edit", !.old = r, !.values = V].values = V
         /\ [Blank EXCEPT !.form = "edit", !.old = r, !.values = V].form = "edit"
  BY BlankType DEF Prompt

\* The rows of a list.
LEMMA RowsType ==
  ASSUME Copies
  PROVE  /\ screen \in DOMAIN CidrScreen => Rows(mem) \subseteq Address
         /\ screen \in DOMAIN PortScreen => mem.c[PortScreen[screen]] \subseteq Port
         /\ screen \in DOMAIN RouteScreen => Rows(mem) \subseteq Label
         /\ screen = "ingressPorts" =>
              \A r \in Rows(mem) : r \in Port /\ mem.c.policies[r] \in Policy
         /\ screen = "targets" => Rows(mem) \subseteq Host
<1>1. mem.c \in Config /\ mem.targets \in SUBSET Host
  BY MemType DEF Session
<1>2. \A f \in Field : mem.c[f] \in Values(f)
  BY <1>1, ConfigIsRecord
<1>3. ASSUME screen \in DOMAIN CidrScreen PROVE Rows(mem) \subseteq Address
  BY <1>2, <1>3, CidrScreens, PlainNames, ScreenNames DEF Rows
<1>4. ASSUME screen \in DOMAIN PortScreen PROVE mem.c[PortScreen[screen]] \subseteq Port
  BY <1>2, <1>4, PortScreens, PlainNames
<1>5. ASSUME screen \in DOMAIN RouteScreen PROVE Rows(mem) \subseteq Label
  <2>1. mem.c[RouteScreen[screen]] \in [Label -> {None} \cup Term]
    BY <1>2, <1>5, RouteScreens, PlainNames
  <2>2. Rows(mem) = Keys(mem.c[RouteScreen[screen]])
    BY <1>5, ScreenNames DEF Rows
  <2>3. QED
    BY <2>1, <2>2 DEF Keys
<1>6. ASSUME screen = "ingressPorts", NEW r \in Rows(mem)
      PROVE  r \in Port /\ mem.c.policies[r] \in Policy
  <2>1. mem.c.policies \in [Port -> {None} \cup Policy]
    BY <1>1 DEF Config
  <2>2. r \in Keys(mem.c.policies)
    BY <1>6, ScreenNames DEF Rows
  <2>3. QED
    BY <2>1, <2>2 DEF Keys
<1>7. ASSUME screen = "targets" PROVE Rows(mem) \subseteq Host
  BY <1>1, <1>7, ScreenNames DEF Rows
<1>8. QED
  BY <1>3, <1>4, <1>5, <1>6, <1>7

\* A save closes the prompt, or leaves it open when it fails.
LEMMA AttemptPrompt ==
  ASSUME NEW m, NEW results, Attempt(m, results)
  PROVE  prompt' \in {None, prompt}
  BY DEF Attempt, Load, Fail

LEMMA SaveHereDialogue ==
  ASSUME Dialogue, NEW e, SaveHere(e)
  PROVE  Dialogue'
<1>1. UNCHANGED << screen, province, draft, job >> /\ prompt' \in {None, prompt}
  BY AttemptPrompt DEF SaveHere, Save, Stay
<1>2. QED
  BY <1>1, SameScreen

LEMMA SaveDownmaskDialogue ==
  ASSUME Dialogue, NEW t, NEW v, SaveDownmask(t, v)
  PROVE  Dialogue'
<1>1. UNCHANGED << screen, province, draft, job >> /\ prompt' \in {None, prompt}
  BY AttemptPrompt DEF SaveDownmask, Stay
<1>2. QED
  BY <1>1, SameScreen

LEMMA PanicDialogue ==
  ASSUME Dialogue, Panic
  PROVE  Dialogue'
  BY SameScreen DEF Panic

LEMMA OpenDialogue ==
  ASSUME Copies, Dialogue, Open
  PROVE  Dialogue'
<1>1. job = None /\ {} \in (SUBSET Address) \cup (SUBSET Port)
  BY DEF Open, Key
<1>2. CASE Ask(Blank)
  BY <1>1, <1>2, BlankType, Asked
<1>3. CASE screen \in DOMAIN PortScreen
             /\ \E f \in {"add", "delete"} :
                  Ask([Blank EXCEPT !.form = f, !.values = mem.c[PortScreen[screen]]])
  <2> DEFINE V == mem.c[PortScreen[screen]]
  <2>1. V \subseteq Port /\ screen \notin DOMAIN CidrScreen
    BY <1>3, RowsType, ScreenNames
  <2>2. PICK f \in {"add", "delete"} : Ask([Blank EXCEPT !.form = f, !.values = V])
    BY <1>3
  <2> HIDE DEF V
  <2>3. /\ [Blank EXCEPT !.form = f, !.values = V] \in Prompt
        /\ [Blank EXCEPT !.form = f, !.values = V].values = V
        /\ [Blank EXCEPT !.form = f, !.values = V].form # "confirm"
    <3>1. V \in (SUBSET Address) \cup (SUBSET Port)
      BY <2>1
    <3>2. QED
      BY <2>2, <3>1, BlankValues
  <2>4. QED
    BY <1>1, <2>1, <2>2, <2>3, Asked
<1>4. CASE screen \in DOMAIN CidrScreen
             /\ \E f \in {"add", "delete"} : Ask([Blank EXCEPT !.form = f, !.values = Rows(mem)])
  <2> DEFINE V == Rows(mem)
  <2>1. V \subseteq Address /\ screen \notin DOMAIN PortScreen
    BY <1>4, RowsType, ScreenNames
  <2>2. PICK f \in {"add", "delete"} : Ask([Blank EXCEPT !.form = f, !.values = V])
    BY <1>4
  <2> HIDE DEF V
  <2>3. /\ [Blank EXCEPT !.form = f, !.values = V] \in Prompt
        /\ [Blank EXCEPT !.form = f, !.values = V].values = V
        /\ [Blank EXCEPT !.form = f, !.values = V].form # "confirm"
    <3>1. V \in (SUBSET Address) \cup (SUBSET Port)
      BY <2>1
    <3>2. QED
      BY <2>2, <3>1, BlankValues
  <2>4. QED
    BY <1>1, <2>1, <2>2, <2>3, Asked
<1>5. ASSUME NEW f \in {"add", "delete"}, Ask([Blank EXCEPT !.form = f])
      PROVE  Dialogue'
  <2>1. /\ [Blank EXCEPT !.form = f] \in Prompt
        /\ [Blank EXCEPT !.form = f].values = {}
        /\ [Blank EXCEPT !.form = f].form # "confirm"
    BY BlankForm
  <2>2. QED
    BY <1>1, <1>5, <2>1, Asked
<1>6. QED
  BY <1>2, <1>3, <1>4, <1>5 DEF Open

LEMMA EditRowDialogue ==
  ASSUME Copies, Dialogue, EditRow
  PROVE  Dialogue'
<1>1. job = None /\ prompt = None /\ screen \in Indexed /\ draft \in Draft
  BY DEF EditRow, Key, Dialogue
<1>2. CASE Panic
  BY <1>2, PanicDialogue
<1>3. ASSUME NEW r \in Rows(mem), screen = "ingressPorts",
             draft' = [old |-> r, ports |-> {r}, policy |-> mem.c.policies[r]],
             screen' = "portMode", UNCHANGED << prompt, job >>
      PROVE  Dialogue'
  <2>1. r \in Port /\ mem.c.policies[r] \in Policy
    BY <1>3, RowsType
  <2>2. draft' \in Draft
    BY <1>3, <2>1 DEF Draft
  <2>3. screen' \in Screen /\ screen' \notin {"province", "portProvince"}
    BY <1>3, ScreenSets DEF Screen
  <2>4. QED
    BY <1>1, <1>3, <2>2, <2>3, NoPrompt
<1>4. ASSUME NEW r \in Rows(mem), screen # "ingressPorts",
             Ask([Blank EXCEPT !.form = "edit", !.old = r,
                               !.values = IF screen \in DOMAIN CidrScreen THEN Rows(mem) ELSE {}])
      PROVE  Dialogue'
  <2> DEFINE V == IF screen \in DOMAIN CidrScreen THEN Rows(mem) ELSE {}
  <2>1. /\ V \in SUBSET Address /\ screen \notin DOMAIN PortScreen
        /\ r \in Address \cup Port \cup Label \cup Host
    BY <1>1, <1>4, RowsType, ScreenNames DEF Indexed
  <2>2. Ask([Blank EXCEPT !.form = "edit", !.old = r, !.values = V])
    BY <1>4
  <2> HIDE DEF V
  <2>3. /\ [Blank EXCEPT !.form = "edit", !.old = r, !.values = V] \in Prompt
        /\ [Blank EXCEPT !.form = "edit", !.old = r, !.values = V].values = V
        /\ [Blank EXCEPT !.form = "edit", !.old = r, !.values = V].form = "edit"
    BY <2>1, BlankEdit
  <2>4. QED
    BY <1>1, <2>1, <2>2, <2>3, Asked
<1>5. QED
  BY <1>2, <1>3, <1>4 DEF EditRow

LEMMA WizardDialogue ==
  ASSUME Dialogue, NameRoute \/ NextStep
  PROVE  Dialogue'
<1>1. job = None /\ prompt # None /\ prompt \in Prompt /\ screen \in DOMAIN RouteScreen
  BY DEF NameRoute, NextStep, Submit, Dialogue
<1>2. CASE NameRoute
  <2>1. PICK l \in Label : Ask([prompt EXCEPT !.step = 2, !.name = l])
    BY <1>2 DEF NameRoute
  <2>2. /\ [prompt EXCEPT !.step = 2, !.name = l] \in Prompt
        /\ [prompt EXCEPT !.step = 2, !.name = l].form = prompt.form
    <3>1. 2 \in 1 .. 6
      OBVIOUS
    <3>2. QED
      BY <1>1, <3>1 DEF Prompt
  <2>3. prompt.form = "confirm" => screen = "status"
    BY <1>1 DEF Dialogue
  <2>4. QED
    BY <1>1, <2>1, <2>2, <2>3, Asked, ScreenNames
<1>3. CASE NextStep
  <2>1. Ask([prompt EXCEPT !.step = prompt.step + 1]) /\ prompt.step \in 2 .. LastStep[screen] - 1
    BY <1>3 DEF NextStep
  <2>2. LastStep[screen] \in {5, 6}
    BY <1>1, ScreenNames DEF LastStep
  <2>3. prompt.step \in 1 .. 6
    BY <1>1 DEF Prompt
  <2>4. prompt.step + 1 \in 1 .. 6
    BY <2>1, <2>2, <2>3
  <2>5. /\ [prompt EXCEPT !.step = prompt.step + 1] \in Prompt
        /\ [prompt EXCEPT !.step = prompt.step + 1].form = prompt.form
    <3> DEFINE n == prompt.step + 1
    <3>1. n \in 1 .. 6
      BY <2>4
    <3> HIDE DEF n
    <3>2. [prompt EXCEPT !.step = n] \in Prompt /\ [prompt EXCEPT !.step = n].form = prompt.form
      BY <1>1, <3>1 DEF Prompt
    <3>3. QED
      BY <3>2 DEF n
  <2>6. prompt.form = "confirm" => screen = "status"
    BY <1>1 DEF Dialogue
  <2>7. QED
    BY <1>1, <2>1, <2>5, <2>6, Asked, ScreenNames
<1>4. QED
  BY <1>2, <1>3

LEMMA DraftDialogue ==
  ASSUME Dialogue, SubmitPorts \/ ChooseProvinces \/ ToggleDraft \/ SaveDraft
  PROVE  Dialogue'
<1>1. /\ job = None /\ job' = None /\ draft \in Draft /\ province' = province
      /\ prompt' = None
  BY AttemptPrompt DEF SubmitPorts, ChooseProvinces, ToggleDraft, SaveDraft, Submit, Key, Dialogue,
                       Load, Fail
<1>2. CASE SubmitPorts
  <2>1. PICK ports \in SUBSET Port :
          draft' = [NoDraft EXCEPT !.ports = ports, !.policy.mode = "provinces"]
    BY <1>2 DEF SubmitPorts, Some, Good
  <2>2. draft' = [old |-> None, ports |-> ports,
                  policy |-> [mode |-> "provinces", provinces |-> {}, cities |-> {}]]
    BY <2>1 DEF NoDraft
  <2>3. draft' \in Draft
    BY <2>2 DEF Draft, Policy, Mode
  <2>4. screen' = "portMode" /\ screen' \in Screen
    BY <1>2, ScreenSets DEF SubmitPorts, Screen
  <2>5. QED
    BY <1>1, <2>3, <2>4, NoPrompt
<1>3. CASE ChooseProvinces
  <2>1. draft' = [draft EXCEPT !.policy = [draft.policy EXCEPT !.mode = "provinces"]]
    BY <1>3 DEF ChooseProvinces
  <2>2. [draft.policy EXCEPT !.mode = "provinces"] \in Policy
    BY <1>1 DEF Draft, Policy, Mode
  <2>3. draft' \in Draft
    BY <1>1, <2>1, <2>2 DEF Draft
  <2>4. screen' = "portRegions" /\ screen' \in Screen
    BY <1>3, ScreenSets DEF ChooseProvinces, Screen
  <2>5. QED
    BY <1>1, <2>3, <2>4, NoPrompt
<1>4. CASE ToggleDraft
  <2>1. /\ province \in Province /\ screen' = screen /\ screen \in Screen
        /\ draft.policy \in Policy
    BY <1>1, <1>4 DEF ToggleDraft, Dialogue, Draft
  <2>2. PICK q \in Toggled(draft.policy, province) : draft' = [draft EXCEPT !.policy = q]
    BY <1>4 DEF ToggleDraft
  <2>3. q \in Policy
    BY <2>1, ToggledPolicy
  <2>4. draft' \in Draft
    BY <1>1, <2>2, <2>3 DEF Draft
  <2>5. QED
    BY <1>1, <2>1, <2>4, NoPrompt
<1>5. CASE SaveDraft
  <2>1. screen' \in {screen, "ingressPorts"} /\ draft' = NoDraft
    BY <1>5 DEF SaveDraft
  <2>2. "ingressPorts" \in Screen
    BY ScreenSets DEF Screen
  <2>3. screen' \in Screen /\ (screen' \in {"province", "portProvince"} => province' \in Province)
    BY <1>1, <2>1, <2>2 DEF Dialogue
  <2>4. QED
    BY <1>1, <2>1, <2>3, NoDraftType, NoPrompt
<1>6. QED
  BY <1>2, <1>3, <1>4, <1>5

LEMMA DialogueMoves ==
  ASSUME ScreenInv, [TuiNext]_tuiVars
  PROVE  Dialogue'
<1>1. Copies /\ Dialogue
  BY DEF ScreenInv
<1>2. CASE UNCHANGED tuiVars
  BY <1>1, <1>2, SameScreen DEF tuiVars
<1>3. CASE \E s \in Screen : Enter(s)
  <2>1. PICK s \in Screen : Enter(s)
    BY <1>3
  <2>2. /\ prompt' = None /\ job' = None /\ screen' = s /\ draft' \in Draft
        /\ s \notin {"province", "portProvince"}
    BY <1>1, <2>1, ScreenSets DEF Enter, Key, Dialogue
  <2>3. QED
    BY <1>1, <2>2, NoPrompt
<1>4. CASE EnterProvince
  <2>1. "province" \in Screen /\ "portProvince" \in Screen
    BY ScreenSets DEF Screen
  <2>2. QED
    BY <1>1, <1>4, <2>1, NoPrompt DEF EnterProvince, Key, Dialogue
<1>5. CASE Back
  <2>1. /\ prompt' = None /\ job' = None /\ screen' = Up(screen) /\ draft' \in Draft
        /\ screen \in Screen /\ screen # "home"
    BY <1>1, <1>5, NoDraftType DEF Back, Key, Dialogue
  <2>2. QED
    BY <1>1, <2>1, UpScreen, NoPrompt
<1>6. CASE MoveCursor \/ Quit \/ Cancel \/ Other
  BY <1>1, <1>6, SameScreen DEF MoveCursor, Quit, Cancel, Other, Stay
<1>7. CASE AskApply
  <2>1. job = None /\ screen = "status" /\ Ask([Blank EXCEPT !.form = "confirm"])
    BY <1>7 DEF AskApply, Key
  <2>2. [Blank EXCEPT !.form = "confirm"] \in Prompt
    BY BlankForm
  <2>3. QED
    BY <1>1, <2>1, <2>2, ScreenNames, Asked
<1>8. CASE Confirm
  BY <1>1, <1>8 DEF Confirm, Dialogue
<1>9. CASE JobSave
  BY <1>1, <1>9, SameScreen DEF JobSave
<1>10. CASE JobEnd
  <2>1. "status" \in Screen
    BY ScreenSets DEF Screen
  <2>2. QED
    BY <1>1, <1>10, <2>1, NoDraftType, NoPrompt DEF JobEnd
<1>11. CASE ApplyNow \/ Refresh
  BY <1>1, <1>11, SameScreen DEF ApplyNow, Refresh, Load, Fail, Stay
<1>12. CASE DisableNow \/ KeySave
  BY <1>1, <1>12, SaveHereDialogue DEF DisableNow, KeySave
<1>13. CASE ClientKey \/ SubmitServer \/ SubmitClient
  BY <1>1, <1>13, SaveDownmaskDialogue DEF ClientKey, SubmitServer, SubmitClient
<1>14. CASE DeleteRow
  BY <1>1, <1>14, PanicDialogue, SaveHereDialogue DEF DeleteRow
<1>15. CASE DeleteTarget
  BY <1>1, <1>15, PanicDialogue, SameScreen DEF DeleteTarget, Load, Fail, Stay
<1>16. CASE Open
  BY <1>1, <1>16, OpenDialogue
<1>17. CASE EditRow
  BY <1>1, <1>17, EditRowDialogue
<1>18. CASE SubmitProtect \/ SubmitLease \/ SubmitLeaseAdvanced
  BY <1>1, <1>18, SaveHereDialogue DEF SubmitProtect, SubmitLease, SubmitLeaseAdvanced, Typed
<1>19. CASE SubmitOpenPorts \/ SubmitList \/ SubmitRoute
  BY <1>1, <1>19, SaveHereDialogue DEF SubmitOpenPorts, SubmitList, SubmitRoute
<1>20. CASE SubmitTarget
  BY <1>1, <1>20, SameScreen DEF SubmitTarget, Load, Fail, Stay
<1>21. CASE NameRoute \/ NextStep
  BY <1>1, <1>21, WizardDialogue
<1>22. CASE SubmitPorts \/ ChooseProvinces \/ ToggleDraft \/ SaveDraft
  BY <1>1, <1>22, DraftDialogue
<1>23. QED
  BY <1>2, <1>3, <1>4, <1>5, <1>6, <1>7, <1>8, <1>9, <1>10, <1>11, <1>12, <1>13, <1>14, <1>15,
     <1>16, <1>17, <1>18, <1>19, <1>20, <1>21, <1>22 DEF TuiNext
----------------------------------------------------------------------------
(* The screens: theorems                                                   *)

LEMMA LivedCanon ==
  ASSUME NEW c \in Lived
  PROVE  c \in Config /\ Validate(c) /\ Regions(c) /\ Canon(c)
<1> DEFINE l == Loaded(c)
<1>1. c \in Config /\ Validate(c) /\ Regions(c) /\ Stored(l, c) = c
  BY LivedAssumption
<1>2. l \in Config /\ Validate(l) /\ ValidRanges(l.openPortRanges)
  BY <1>1, LoadedConfig, ValidConfig
<1> HIDE DEF l
<1>3. Canon(Stored(l, c))
  BY <1>1, <1>2, PreparedValid, StoredSound
<1>4. QED
  BY <1>1, <1>3

LEMMA ScreenStart == TuiInit => ScreenInv
<1> SUFFICES ASSUME TuiInit PROVE ScreenInv
  OBVIOUS
<1>1. stored \in Session /\ stored.c \in Lived
  <2>1. \A c \in Lived : c \in Config
    BY LivedConfig
  <2> DEFINE v == CHOOSE x \in Setting : TRUE
             d == [t \in {"server", "policy", "ab"} |-> v]
  <2>2. stored.c \in Lived /\ stored = [c |-> stored.c, dm |-> d, targets |-> Host]
    BY DEF TuiInit
  <2>3. v \in Setting
    BY TuiAssumption
  <2>4. QED
    BY <2>1, <2>2, <2>3 DEF Session
<1>2. Sound(stored, torn)
  BY <1>1, LivedCanon DEF Sound
<1>3. Copies
  BY <1>2, SoundShown DEF TuiInit, Copies, Current
<1>4. Dialogue
  BY NoDraftType DEF TuiInit, Dialogue, Screen
<1>5. QED
  BY <1>3, <1>4 DEF ScreenInv

THEOREM ScreensInductive == TuiSpec => []ScreenInv
<1>1. ScreenInv /\ [TuiNext]_tuiVars => ScreenInv'
  BY CopiesMoves, DialogueMoves DEF ScreenInv
<1>2. QED
  BY <1>1, ScreenStart, PTL DEF TuiSpec

\* What the screens show is what the store holds: every key that saves loads
\* again or leaves the copy it has saved, the goroutine of a confirmation brings
\* back the copy it was given and has saved, and no key works meanwhile.
THEOREM ScreensShowTheStore == TuiSpec => []ShownIsStored
<1>1. ScreenInv => ShownIsStored
  BY DEF ScreenInv, Copies, Current, ShownIsStored
<1>2. QED
  BY <1>1, ScreensInductive, PTL

\* Provinces that are selected are in force, on the screens and in the store,
\* whatever saves fail and whatever other processes select between the keys, as
\* long as none of them writes in the midst of a load.
THEOREM SelectionsCount == TuiSpec => []SelectionInForce
<1>1. ScreenInv => SelectionInForce
  BY DEF ScreenInv, Copies, Sound, Held, Fit, SelectionInForce
<1>2. QED
  BY <1>1, ScreensInductive, PTL

\* A save writes every table, and changes only those of its own screen.
THEOREM ScreensKeepToTheirOwn == TuiSpec => ScreenWritesItsOwn
<1>1. ScreenInv /\ [TuiNext]_tuiVars => OwnStep
  BY CopiesMoves
<1>2. TuiSpec => [][OwnStep]_tuiVars
  BY <1>1, ScreensInductive, PTL DEF TuiSpec
<1>3. QED
  BY <1>2 DEF ScreenWritesItsOwn, OwnStep
=============================================================================
