-------------------------------- MODULE Tui --------------------------------
(***************************************************************************)
(* A session of the interactive screens (internal/tui).  The session holds *)
(* a copy of all settings.  A key changes the copy, saves the whole of it  *)
(* and loads everything again; a prompt keeps what it read when it opened; *)
(* applying on trial runs in a goroutine on a copy of the whole session.   *)
(*                                                                         *)
(* A list is a set, and any of its elements may be at a row it has.  Menus *)
(* act on a choice, so that the cursor is kept only on the screens whose   *)
(* code indexes a list with it.                                            *)
(*                                                                         *)
(* Names that Config has too are set apart (TuiInit, MoveCursor...), so    *)
(* that one module can prove about both with the lemmas on Settings.       *)
(***************************************************************************)
EXTENDS Settings

CONSTANTS
  Host,       \* targets of the downlink masking
  Setting,    \* values of the rows of its configuration, policy and client
  MaxEdits,   \* bound: keys that save or open a prompt; the session then only ends
  MaxWrites   \* bound: writes of other processes

ASSUME TuiAssumption ==
  /\ Setting # {}
  /\ None \notin Setting \cup Host \cup Province \cup Address \cup Label
  /\ MaxEdits \in Nat /\ MaxWrites \in Nat

VARIABLES
  stored,    \* the store: configuration, masking settings, masking targets
  mem,       \* the session's copy of it
  screen,
  row,       \* m.cursor, on the screens of Indexed
  province,  \* the province last entered
  prompt,    \* the open prompt, None without one
  draft,     \* portDraft
  job,       \* the session as the goroutine of a confirmation has it
  alive,     \* "on", "off" after a quit, "panic"
  edits,
  writes,    \* of other processes
  \* history
  failed,    \* a save or a load has failed since the copy was last loaded
  foreign,   \* another process has changed the store since
  torn       \* another process has changed the store while the session loaded it

tuiVars == << stored, mem, screen, row, province, prompt, draft, job, alive, edits,
              writes, failed, foreign, torn >>

\* Every screen but home, with the one that leads back from it.
Parent ==
  [ s \in {"status", "protect", "ingress", "egress", "dpi", "lease", "downmask"} |-> "home" ]
Sub ==
  [ openPorts |-> "protect", guardedPorts |-> "protect",
    regions |-> "ingress", ingressCidrs |-> "ingress", ingressPorts |-> "ingress",
    egressRegions |-> "egress", egressCidrs |-> "egress", skipPorts |-> "dpi",
    routes |-> "lease", relays |-> "lease", triggerRoutes |-> "lease", proxies |-> "lease",
    leaseAdvanced |-> "lease",
    server |-> "downmask", client |-> "downmask", targets |-> "downmask",
    downmaskStatus |-> "downmask" ]
Deep ==
  [ province |-> "regions", portMode |-> "ingressPorts",
    portRegions |-> "portMode", portProvince |-> "portRegions" ]

Up(s) == IF s \in DOMAIN Parent THEN Parent[s] ELSE IF s \in DOMAIN Sub THEN Sub[s] ELSE Deep[s]
Screen == {"home"} \cup DOMAIN Parent \cup DOMAIN Sub \cup DOMAIN Deep

\* The lists of addresses, of ports and of routes, and the field each edits.
CidrScreen == [ ingressCidrs |-> "cidrs", egressCidrs |-> "egressCidrs",
                relays |-> "relays", proxies |-> "proxies" ]
PortScreen == [ guardedPorts |-> "guardedPorts", skipPorts |-> "skipPorts" ]
RouteScreen == [ routes |-> "routes", triggerRoutes |-> "triggerRoutes" ]
LastStep == [ routes |-> 5, triggerRoutes |-> 6 ]
Indexed == DOMAIN CidrScreen \cup DOMAIN RouteScreen \cup {"ingressPorts", "targets"}

ListField == IF screen \in DOMAIN PortScreen THEN PortScreen[screen] ELSE CidrScreen[screen]
Keys(f) == { k \in DOMAIN f : f[k] # None }
Rows(m) ==
  CASE screen \in DOMAIN CidrScreen -> m.c[CidrScreen[screen]]
    [] screen \in DOMAIN RouteScreen -> Keys(m.c[RouteScreen[screen]])
    [] screen = "ingressPorts" -> Keys(m.c.policies)
    [] OTHER -> m.targets

Session == [c : Config, dm : [{"server", "policy", "ab"} -> Setting], targets : SUBSET Host]
Job == [m : Session, saved : BOOLEAN]

ASSUME JobAssumption == None \notin Job

NoDraft == [old |-> None, ports |-> {}, policy |-> [mode |-> "off", provinces |-> {}, cities |-> {}]]

Prompt ==
  [ form : {"field", "confirm", "add", "edit", "delete"}, step : 1 .. 6,
    old : {None} \cup Address \cup Port \cup Label \cup Host, name : {None} \cup Label,
    values : (SUBSET Address) \cup (SUBSET Port) ]

TuiTypeOK ==
  /\ stored \in Session /\ mem \in Session /\ job \in {None} \cup Job
  /\ screen \in Screen /\ row \in Nat /\ province \in Province \cup {None}
  /\ prompt \in {None} \cup Prompt
  /\ draft.old \in Port \cup {None} /\ draft.ports \subseteq Port /\ draft.policy \in Policy
  /\ alive \in {"on", "off", "panic"} /\ edits \in 0 .. MaxEdits /\ writes \in 0 .. MaxWrites
  /\ failed \in BOOLEAN /\ foreign \in BOOLEAN /\ torn \in BOOLEAN

Shown(s) == [s EXCEPT !.c = Loaded(s.c)]

TuiInit ==
  /\ stored \in [ c : Lived, dm : {[t \in {"server", "policy", "ab"} |-> CHOOSE v \in Setting : TRUE]},
                  targets : {Host} ]
  /\ mem = Shown(stored)
  /\ screen = "home" /\ row = 0 /\ province = None
  /\ prompt = None /\ draft = NoDraft /\ job = None
  /\ alive = "on" /\ edits = 0 /\ writes = 0 /\ failed = FALSE /\ foreign = FALSE /\ torn = FALSE
-----------------------------------------------------------------------------
(* Saving and loading                                                      *)

\* A mutant: keys are taken while the goroutine runs.
KeyAnyTime == alive = "on" /\ prompt = None /\ edits < MaxEdits

\* A key reaches a screen: nothing runs, and no prompt is open.
Key == alive = "on" /\ job = None /\ prompt = None /\ edits < MaxEdits

\* A key that saves or opens a prompt.
Act == edits' = edits + 1

\* saveConfig makes this of s; nothing when Validate refuses.
Saved(c, s) ==
  IF Validate(Prepared(c, s.c)) THEN {[s EXCEPT !.c = Stored(c, s.c)]} ELSE {}

\* What another process, a command, may make of s.
Written(s) ==
  (UNION { Saved(c, s)
           : c \in ProtectEnable(Loaded(s.c)) \cup ProtectDisable(Loaded(s.c))
                     \cup CN(Loaded(s.c), "ingress", "provinces")
                     \cup CN(Loaded(s.c), "egress", "egressProvinces") })
    \cup { [s EXCEPT !.targets = @ \ {h}] : h \in s.targets }

\* A load that read i tables before another process made d of s.
Seen(s, d, i) ==
  [d EXCEPT !.c = [f \in DOMAIN d.c |-> IF \E j \in 1 .. i : Order[j] = f THEN s.c[f] ELSE d.c[f]]]

\* loadPersistent
Load(s) ==
  /\ \/ stored' = s /\ mem' = Shown(s) /\ foreign' = FALSE /\ UNCHANGED << writes, torn >>
     \/ /\ writes < MaxWrites /\ writes' = writes + 1
        /\ \E d \in Written(s) :
               stored' = d /\ mem' \in { Shown(Seen(s, d, i)) : i \in 0 .. Len(Order) }
        /\ foreign' = TRUE /\ torn' = TRUE
  /\ failed' = FALSE /\ prompt' = None

\* The save or the load after it failed: the edit stays in the copy, and a
\* prompt stays open.
Fail(m, results) ==
  /\ stored' \in {stored} \cup results
  /\ mem' = m /\ failed' = TRUE /\ UNCHANGED << prompt, foreign, writes, torn >>

ConfigOf(m) == Saved(m.c, stored)

Attempt(m, results) == (\E s \in results : Load(s)) \/ Fail(m, results)

Stay == UNCHANGED << screen, province, draft, job, alive >>
KeepData == UNCHANGED << stored, mem, failed, foreign, writes, torn >>

Save(c) == LET m == [mem EXCEPT !.c = c] IN Attempt(m, ConfigOf(m))
SaveHere(c) == Save(c) /\ Stay

\* saveDownmaskConfig, saveDownmaskPolicy, saveDownmaskAB
SaveDownmask(t, v) ==
  /\ Attempt([mem EXCEPT !.dm[t] = v], {[stored EXCEPT !.dm[t] = v]})
  /\ Stay /\ UNCHANGED row

\* The row after a deletion.
Clamp(rows) == IF row >= Cardinality(rows) /\ row > 0 THEN row - 1 ELSE row
-----------------------------------------------------------------------------
(* Moving about                                                            *)

Enter(s) ==
  /\ Key /\ s \in DOMAIN Parent \cup DOMAIN Sub /\ Up(s) = screen
  /\ screen' = s /\ row' = 0
  /\ KeepData /\ UNCHANGED << province, prompt, draft, job, alive, edits >>

\* updateRegions, and updatePortPolicyRegions for a draft.
EnterProvince ==
  /\ Key /\ screen \in {"regions", "portRegions"}
  /\ province' \in Province
  /\ screen' = IF screen = "regions" THEN "province" ELSE "portProvince"
  /\ KeepData /\ UNCHANGED << row, prompt, draft, job, alive, edits >>

\* Leaving the modes of a port drops the draft.
Back ==
  /\ Key /\ screen # "home"
  /\ screen' = Up(screen) /\ row' = 0
  /\ draft' = IF screen = "portMode" THEN NoDraft ELSE draft
  /\ KeepData /\ UNCHANGED << province, prompt, job, alive, edits >>

\* moveCursor
MoveCursor ==
  /\ Key /\ screen \in Indexed
  /\ row' \in {row - 1, row + 1} /\ row' >= 0 /\ row' <= Cardinality(Rows(mem)) - 1
  /\ KeepData /\ Stay /\ UNCHANGED << prompt, edits >>

\* q and Ctrl-C work at any time.
Quit ==
  /\ alive = "on" /\ alive' = "off"
  /\ KeepData /\ UNCHANGED << screen, row, province, prompt, draft, job, edits >>

\* An index beyond the list.
Panic ==
  /\ alive' = "panic"
  /\ KeepData /\ UNCHANGED << screen, row, province, prompt, draft, job >>

Ask(p) == prompt' = p /\ KeepData /\ Stay /\ UNCHANGED row
Blank == [form |-> "field", old |-> None, values |-> {}, name |-> None, step |-> 1]

\* Esc
Cancel ==
  /\ alive = "on" /\ job = None /\ prompt # None
  /\ prompt' = None
  /\ KeepData /\ Stay /\ UNCHANGED << row, edits >>
-----------------------------------------------------------------------------
(* Status, and applying                                                    *)

\* The prompt that asks for Y.
AskApply ==
  /\ Key /\ screen = "status" /\ Act
  /\ Ask([Blank EXCEPT !.form = "confirm"])

\* The goroutine gets a copy of the session; no key counts until it ends.
Confirm ==
  /\ alive = "on" /\ job = None /\ prompt # None /\ prompt.form = "confirm"
  /\ job' = [m |-> mem, saved |-> FALSE] /\ prompt' = None
  /\ KeepData /\ UNCHANGED << screen, row, province, draft, alive, edits >>

\* It turns the protection on and saves, without loading.
JobSave ==
  /\ alive = "on" /\ job # None /\ ~job.saved
  /\ LET m == [job.m EXCEPT !.c = Turn(@, "enabled", TRUE)]
     IN  IF "enabled" \in job.m.c.protect
           THEN /\ job' = [job EXCEPT !.saved = TRUE]
                /\ UNCHANGED << stored, failed >>
           ELSE \/ /\ stored' \in ConfigOf(m)
                   /\ job' = [m |-> m, saved |-> TRUE] /\ UNCHANGED failed
                \/ /\ stored' = stored
                   /\ job' = [m |-> m, saved |-> TRUE] /\ failed' = TRUE
  /\ UNCHANGED << mem, screen, row, province, prompt, draft, alive, edits, foreign, writes, torn >>

\* Applied or not, actionDoneMsg replaces the whole session by the copy.
JobEnd ==
  /\ alive = "on" /\ job # None /\ job.saved
  /\ mem' = job.m /\ job' = None
  /\ screen' = "status" /\ row' = 0 /\ prompt' = None /\ draft' = NoDraft
  /\ UNCHANGED << stored, province, alive, edits, failed, foreign, writes, torn >>

\* Apply and confirm at once: enabled if need be, and everything is loaded when
\* the daemon has been reloaded and answers.
ApplyNow ==
  /\ Key /\ screen = "status" /\ Act
  /\ LET m == [mem EXCEPT !.c = Turn(@, "enabled", TRUE)]
         results == IF "enabled" \in mem.c.protect THEN {stored} ELSE ConfigOf(m)
     IN  \/ \E s \in results :
              \/ Load(s)
              \/ stored' = s /\ mem' = m /\ UNCHANGED << prompt, failed, foreign, writes, torn >>
         \/ "enabled" \notin mem.c.protect /\ Fail(m, {})
  /\ Stay /\ UNCHANGED row

\* Disable first deletes the rules, and stops there when that fails.
DisableNow ==
  /\ Key /\ screen = "status" /\ Act
  /\ SaveHere(Turn(mem.c, "enabled", FALSE)) /\ UNCHANGED row

\* Of the status screen, and r of the masking status.
Refresh ==
  /\ Key /\ screen \in {"status", "downmaskStatus"}
  /\ Load(stored) /\ Stay /\ UNCHANGED << row, edits >>
-----------------------------------------------------------------------------
(* Keys that save at once                                                  *)

Flip(c, switch) == Turn(c, switch, switch \notin c.protect)
NextMode(mode) == CASE mode = "off" -> "all" [] mode = "all" -> "provinces" [] OTHER -> "off"

Clear(c, field, chosen) ==
  IF c[field].mode = "provinces" THEN c ELSE Put(c, chosen, {})
Cycle(c, field, chosen) ==
  Clear([c EXCEPT ![field].mode = NextMode(@)], field, chosen)

\* A mutant: the mode stays what it was.
ToggleProvinceOnly(c, p) ==
  IF p \in c.provinces THEN Put(c, "provinces", c.provinces \ {p})
  ELSE [c EXCEPT !.provinces = @ \cup {p}, !.cities = Uncovered({p}, @)]

\* toggleProvince: choosing one puts the selection in force and drops its cities.
ToggleProvince(c, p) ==
  IF p \in c.provinces THEN Put(c, "provinces", c.provinces \ {p})
  ELSE [c EXCEPT !.ingress.mode = "provinces", !.provinces = @ \cup {p}, !.cities = Uncovered({p}, @)]

\* toggleCity
ToggleCities(c, p) ==
  { [c EXCEPT !.ingress.mode = "provinces",
              !.cities = IF x \in @ THEN @ \ {x} ELSE @ \cup {x}]
    : x \in { y \in City : ProvinceOf[y] = p /\ p \notin c.provinces } }

ToggleEgress(c, p) ==
  [c EXCEPT !.egress.mode = "provinces",
            !.egressProvinces = IF p \in @ THEN @ \ {p} ELSE @ \cup {p}]

ProtectKeys(c) == { Flip(c, s) : s \in {"enabled", "guard_all"} }
DpiKeys(c) == { Flip(c, s) : s \in {"http", "tls", "socks"} }

IngressKeys(c) ==
  { [c EXCEPT !.ingress.on = ~@], Cycle(c, "ingress", "provinces"),
    [c EXCEPT !.provinces = {}, !.cities = {}] }

EgressKeys(c) ==
  { [c EXCEPT !.egress.on = ~@], Cycle(c, "egress", "egressProvinces"), Put(c, "egressProvinces", {}) }

TriggerOff(c) == [c EXCEPT !.trigger = [on |-> FALSE, listen |-> None]]

\* What one key may make of the configuration on each screen; c clears a list.
KeyEdits(c) ==
  CASE screen = "protect" -> ProtectKeys(c)
    [] screen = "openPorts" -> {[c EXCEPT !.openPorts = {}, !.openPortRanges = {}]}
    [] screen \in DOMAIN PortScreen \cup DOMAIN CidrScreen -> {Put(c, ListField, {})}
    [] screen = "ingress" -> IngressKeys(c)
    [] screen = "province" -> {ToggleProvince(c, province)} \cup ToggleCities(c, province)
    [] screen = "egress" -> EgressKeys(c)
    [] screen = "egressRegions" -> { ToggleEgress(c, p) : p \in Province }
    [] screen = "dpi" -> DpiKeys(c)
    [] screen = "lease" -> {TriggerOff(c)}
    [] OTHER -> {}

KeySave ==
  /\ Key /\ Act
  /\ \E c \in KeyEdits(mem.c) : SaveHere(c)
  /\ UNCHANGED row

\* The mode of pulls, and their protocol.
ClientKey ==
  /\ Key /\ screen = "client" /\ Act
  /\ \E t \in {"policy", "ab"} : \E v \in Setting \ {mem.dm[t]} : SaveDownmask(t, v)

\* d on the routes and on the policies of ports: the row at the cursor goes
\* from the copy before it is saved.
DeleteRow ==
  /\ Key /\ screen \in DOMAIN RouteScreen \cup {"ingressPorts"} /\ Rows(mem) # {}
  /\ Act
  /\ IF row >= Cardinality(Rows(mem)) THEN Panic
     ELSE \E r \in Rows(mem) :
            /\ SaveHere(IF screen = "ingressPorts" THEN [mem.c EXCEPT !.policies[r] = None]
                                                   ELSE [mem.c EXCEPT ![RouteScreen[screen]][r] = None])
            /\ row' = Clamp(Rows(mem) \ {r})

\* d on the targets: the row goes from the store before the copy is loaded.
DeleteTarget ==
  /\ Key /\ screen = "targets" /\ mem.targets # {} /\ Act
  /\ IF row >= Cardinality(mem.targets) THEN Panic
     ELSE \E h \in mem.targets :
            LET left == [stored EXCEPT !.targets = @ \ {h}]
            IN  \/ h \in stored.targets /\ Load(left) /\ row' = Clamp(left.targets) /\ Stay
                \/ Fail(mem, {left}) /\ UNCHANGED row /\ Stay
-----------------------------------------------------------------------------
(* Prompts                                                                 *)

\* a, d and the fields of the menus; a prompt of a list remembers the list.
Open ==
  /\ Key /\ Act
  /\ \/ screen \in {"protect", "lease", "leaseAdvanced", "server", "client"} /\ Ask(Blank)
     \/ screen \in DOMAIN PortScreen
          /\ \E f \in {"add", "delete"} :
               Ask([Blank EXCEPT !.form = f, !.values = mem.c[PortScreen[screen]]])
     \/ screen \in DOMAIN CidrScreen
          /\ \E f \in {"add", "delete"} : Ask([Blank EXCEPT !.form = f, !.values = Rows(mem)])
     \/ screen \in DOMAIN RouteScreen \cup {"openPorts", "ingressPorts", "targets"}
          /\ Ask([Blank EXCEPT !.form = "add"])
     \/ screen = "openPorts" /\ mem.c.openPortRanges # {}
          /\ Ask([Blank EXCEPT !.form = "delete"])

\* e: the row at the cursor.
EditRow ==
  /\ Key /\ screen \in Indexed /\ Rows(mem) # {} /\ Act
  /\ IF row >= Cardinality(Rows(mem)) THEN Panic
     ELSE \E r \in Rows(mem) :
       IF screen = "ingressPorts"
         THEN /\ draft' = [old |-> r, ports |-> {r}, policy |-> mem.c.policies[r]]
              /\ screen' = "portMode"
              /\ KeepData /\ UNCHANGED << row, province, prompt, job, alive >>
         ELSE Ask([Blank EXCEPT !.form = "edit", !.old = r,
                                !.values = IF screen \in DOMAIN CidrScreen THEN Rows(mem) ELSE {}])

Submit(form) == alive = "on" /\ job = None /\ prompt # None /\ prompt.form = form
Typed(c) == SaveHere(c) /\ UNCHANGED << row, edits >>

\* The seconds of a roll-back are not part of a Config: the rest is saved with
\* them, as it is with the key, the agent's address and the window below.
SubmitProtect == Submit("field") /\ screen = "protect" /\ Typed(mem.c)

SubmitLease ==
  /\ Submit("field") /\ screen = "lease"
  /\ \/ Typed(mem.c)
     \/ \E a \in Listen : Typed([mem.c EXCEPT !.trigger = [on |-> TRUE, listen |-> a]])

\* validateTTL, parseLeaseV4, parseLeaseV6
TypedTerm == Term \ BadTerm

SubmitLeaseAdvanced ==
  /\ Submit("field") /\ screen = "leaseAdvanced"
  /\ \/ Typed(mem.c)
     \/ \E t \in TypedTerm : Typed(Put(mem.c, "lease", t))

SubmitServer ==
  /\ Submit("field") /\ screen = "server"
  /\ \E v \in Setting : SaveDownmask("server", v)
  /\ UNCHANGED edits

SubmitClient ==
  /\ Submit("field") /\ screen = "client"
  /\ \E t \in {"policy", "ab"}, v \in Setting : SaveDownmask(t, v)
  /\ UNCHANGED edits

\* Positions typed as 1, as 1,2 or as 1-3.
Chosen(rows) == Some(rows)

ValidRange(r) == ValidPort(r[1]) /\ ValidPort(r[2]) /\ r[1] <= r[2]
Apart(ranges) == \A q, r \in ranges : q # r => q[2] < r[1] \/ r[2] < q[1]

OpenRanges(c, ranges) == [c EXCEPT !.openPortRanges = ranges, !.openPorts = Expand(ranges)]

\* Unlike the other lists, this one is read when the prompt is answered.
SubmitOpenPorts ==
  /\ screen = "openPorts"
  /\ \/ /\ Submit("add")
        /\ \E r \in { x \in Range : ValidRange(x) } :
             /\ r \notin mem.c.openPortRanges /\ Apart(mem.c.openPortRanges \cup {r})
             /\ SaveHere(OpenRanges(mem.c, mem.c.openPortRanges \cup {r}))
     \/ /\ Submit("delete")
        /\ \E S \in Chosen(mem.c.openPortRanges) :
             SaveHere(OpenRanges(mem.c, mem.c.openPortRanges \ S))
  /\ UNCHANGED << row, edits >>

\* What may be typed into a list.
Item == IF screen \in DOMAIN PortScreen THEN Good ELSE Address

\* updatePortList and updateCIDRList, from the list as it was when they asked.
SubmitList ==
  /\ screen \in DOMAIN PortScreen \cup DOMAIN CidrScreen
  /\ \/ /\ Submit("add")
        /\ \E x \in Item : SaveHere(Put(mem.c, ListField, prompt.values \cup {x}))
        /\ UNCHANGED row
     \/ /\ Submit("edit")
        /\ \E x \in Item : SaveHere(Put(mem.c, ListField, (prompt.values \ {prompt.old}) \cup {x}))
        /\ UNCHANGED row
     \/ /\ Submit("delete")
        /\ \E S \in Chosen(prompt.values) :
             LET left == prompt.values \ S
             IN  /\ SaveHere(Put(mem.c, ListField, left))
                 /\ row' = IF screen \in DOMAIN PortScreen THEN 0
                           ELSE IF row < Cardinality(left) THEN row
                           ELSE IF left = {} THEN 0 ELSE Cardinality(left) - 1
  /\ UNCHANGED edits

\* A mutant: the route to be replaced goes when its new name is typed.
NameRouteRemoves ==
  /\ screen \in DOMAIN RouteScreen /\ (Submit("add") \/ Submit("edit"))
  /\ prompt.step = 1
  /\ \E l \in Label : prompt' = [prompt EXCEPT !.step = 2, !.name = l]
  /\ mem' = IF prompt.old = None THEN mem
            ELSE [mem EXCEPT !.c[RouteScreen[screen]][prompt.old] = None]
  /\ Stay /\ UNCHANGED << stored, row, edits, failed, foreign, writes, torn >>

\* The wizards of the routes: the name first, and each answer opens the next
\* question.
NameRoute ==
  /\ screen \in DOMAIN RouteScreen /\ (Submit("add") \/ Submit("edit"))
  /\ prompt.step = 1
  /\ \E l \in Label : Ask([prompt EXCEPT !.step = 2, !.name = l])
  /\ UNCHANGED edits

NextStep ==
  /\ screen \in DOMAIN RouteScreen /\ (Submit("add") \/ Submit("edit"))
  /\ prompt.step \in 2 .. LastStep[screen] - 1
  /\ Ask([prompt EXCEPT !.step = @ + 1]) /\ UNCHANGED edits

\* The last answer: what was asked for about the term counts from here.
SubmitRoute ==
  /\ screen \in DOMAIN RouteScreen /\ (Submit("add") \/ Submit("edit"))
  /\ prompt.step = LastStep[screen]
  /\ \E t \in TypedTerm :
       SaveHere([mem.c EXCEPT ![RouteScreen[screen]] =
                   [l \in Label |-> IF l = prompt.name THEN t
                                    ELSE IF l = prompt.old THEN None ELSE @[l]]])
  /\ UNCHANGED << row, edits >>

\* A target that gets another name is first deleted under the old one.
SubmitTarget ==
  /\ screen = "targets" /\ (Submit("add") \/ Submit("edit"))
  /\ \E h \in Host :
       LET left == IF prompt.old \in {None, h} THEN stored
                   ELSE [stored EXCEPT !.targets = @ \ {prompt.old}]
           done == [left EXCEPT !.targets = @ \cup {h}]
       IN  Load(done) \/ Fail(mem, {left, done})
  /\ Stay /\ UNCHANGED << row, edits >>
-----------------------------------------------------------------------------
(* The draft of a policy of ports                                          *)

SubmitPorts ==
  /\ screen = "ingressPorts" /\ Submit("add")
  /\ \E ports \in Some(Good) :
       draft' = [NoDraft EXCEPT !.ports = ports, !.policy.mode = "provinces"]
  /\ screen' = "portMode" /\ row' = 0 /\ prompt' = None
  /\ KeepData /\ UNCHANGED << province, job, alive, edits >>

ChooseProvinces ==
  /\ Key /\ screen = "portMode"
  /\ draft' = [draft EXCEPT !.policy.mode = "provinces"]
  /\ screen' = "portRegions"
  /\ KeepData /\ UNCHANGED << row, province, prompt, job, alive, edits >>

\* togglePortPolicyProvince, togglePortPolicyCity
Toggled(policy, p) ==
  IF p \in policy.provinces
    THEN {[policy EXCEPT !.provinces = @ \ {p}, !.mode = "provinces"]}
    ELSE {[policy EXCEPT !.provinces = @ \cup {p}, !.cities = Uncovered({p}, @), !.mode = "provinces"]}
         \cup { [policy EXCEPT !.mode = "provinces",
                               !.cities = IF x \in @ THEN @ \ {x} ELSE @ \cup {x}]
                : x \in { y \in City : ProvinceOf[y] = p } }

ToggleDraft ==
  /\ Key /\ screen = "portProvince"
  /\ \E policy \in Toggled(draft.policy, province) : draft' = [draft EXCEPT !.policy = policy]
  /\ KeepData /\ UNCHANGED << screen, row, province, prompt, job, alive, edits >>

\* savePortPolicyDraft: the draft is gone before the save, and a draft without
\* ports, which is what a failed save leaves, is one for port 0.
SaveDraft ==
  /\ Key /\ screen \in {"portMode", "portRegions", "portProvince"} /\ Act
  /\ \E mode \in IF screen = "portMode" THEN {"off", "all"} ELSE {draft.policy.mode} :
       LET policy == IF mode = "provinces" THEN draft.policy
                     ELSE [mode |-> mode, provinces |-> {}, cities |-> {}]
           ports == IF draft.ports = {} THEN {0} ELSE draft.ports
           m == [mem EXCEPT !.c.policies =
                   [p \in Port |-> IF p \in ports THEN policy
                                   ELSE IF p = draft.old THEN None ELSE @[p]]]
       IN  \/ /\ \E s \in ConfigOf(m) : Load(s)
              /\ screen' = "ingressPorts" /\ row' = 0
           \/ Fail(m, ConfigOf(m)) /\ UNCHANGED << screen, row >>
  /\ draft' = NoDraft
  /\ UNCHANGED << province, job, alive >>
-----------------------------------------------------------------------------
\* Another process writes, between two keys.
Other ==
  /\ alive = "on" /\ writes < MaxWrites /\ writes' = writes + 1
  /\ stored' \in Written(stored) /\ foreign' = TRUE
  /\ UNCHANGED << mem, screen, row, province, prompt, draft, job, alive, edits, failed, torn >>

TuiNext ==
  \/ \E s \in Screen : Enter(s)
  \/ EnterProvince \/ Back \/ MoveCursor \/ Quit \/ Cancel
  \/ AskApply \/ Confirm \/ JobSave \/ JobEnd \/ ApplyNow \/ DisableNow \/ Refresh
  \/ KeySave \/ ClientKey \/ DeleteRow \/ DeleteTarget
  \/ Open \/ EditRow
  \/ SubmitProtect \/ SubmitLease \/ SubmitLeaseAdvanced \/ SubmitServer \/ SubmitClient
  \/ SubmitOpenPorts \/ SubmitList \/ SubmitTarget
  \/ NameRoute \/ NextStep \/ SubmitRoute
  \/ SubmitPorts \/ ChooseProvinces \/ ToggleDraft \/ SaveDraft
  \/ Other

TuiSpec == TuiInit /\ [][TuiNext]_tuiVars
-----------------------------------------------------------------------------
(* Properties                                                              *)

\* What the screens show is what the store holds, unless a save or a load has
\* failed or another process has written since: the goroutine's copy and the
\* lists prompts remember never bring an older state back.
ShownIsStored == (mem # Shown(stored) /\ alive = "on" /\ job = None) => failed \/ foreign

\* Every save writes all tables from the session's copy.  One that succeeds
\* where none has failed and no other process has written changes no table but
\* those of the screen it was made on.
Owned ==
  CASE screen \in {"status", "protect", "dpi"} -> {"protect"}
    [] screen = "openPorts" -> {"openPorts", "openPortRanges"}
    [] screen \in {"ingress", "province"} -> {"ingress", "provinces", "cities"}
    [] screen \in {"ingressPorts", "portMode", "portRegions", "portProvince"} -> {"policies"}
    [] screen \in {"egress", "egressRegions"} -> {"egress", "egressProvinces"}
    [] screen \in {"lease", "leaseAdvanced"} -> {"lease", "trigger"}
    [] screen \in DOMAIN PortScreen \cup DOMAIN CidrScreen -> {ListField}
    [] screen \in DOMAIN RouteScreen -> {RouteScreen[screen]}
    [] OTHER -> {}

ScreenWritesItsOwn ==
  [][ ~failed /\ ~foreign /\ ~foreign' /\ alive = "on"
        => \A f \in DOMAIN stored.c : stored'.c[f] = stored.c[f] \/ f \in Owned ]_tuiVars

\* Provinces that are selected are in force, on the screens and in the store,
\* whatever saves and loads have failed and whatever other processes have
\* selected between the keys, as long as none of them wrote in the midst of a
\* load: that load may show the mode of before with the provinces of after, and
\* the next save stores it.  Cities are left out: the code keeps those selected
\* when a mode is cycled away from them (config_views.go:203).
SelectionInForce == ~torn => Regions(mem.c) /\ Regions(stored.c)

\* The help of every list offers Enter for the row at the cursor: no key ends
\* the session but those that quit.
KeysKeepSession == alive # "panic"
=============================================================================
