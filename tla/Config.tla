------------------------------- MODULE Config -------------------------------
(***************************************************************************)
(* Processes that share the configuration in the store: every command opens *)
(* the database and fills in defaults, loads the configuration table by     *)
(* table, changes its copy, opens the database again and saves all of it.   *)
(*                                                                         *)
(* internal/store/store.go, internal/cli.  A load is some twenty separate   *)
(* queries and a save is one transaction, so that a load may see part of    *)
(* another process's save.                                                  *)
(***************************************************************************)
EXTENDS Settings

CONSTANTS
  Process,
  DefaultPort,  \* the port a new store opens: 22
  MaxCommands   \* bound: commands in a behaviour

ASSUME ConfigAssumption ==
  /\ DefaultPort \in Port /\ ValidPort(DefaultPort)
  /\ MaxCommands \in Nat

VARIABLES
  db,        \* the rows of the store
  seeded,    \* meta.defaults_initialized
  pc,        \* what a process is about to do
  goal,      \* why it has the database open: "read" or "write"
  at,        \* how many tables it has read
  copy,      \* its copy of the configuration
  commands,
  \* history
  asked,     \* the configuration a command made of its copy
  stale,     \* another process changed the store since this one opened it to read
  saved,     \* some command has saved
  clean      \* no stale process ever changed the store

vars == << db, seeded, pc, goal, at, copy, commands, asked, stale, saved, clean >>

Step == {"idle", "flag", "ports", "insertPorts", "skip", "insertSkip", "mark",
         "read", "loaded", "locked", "write", "commit"}

TypeOK ==
  /\ db \in Config /\ seeded \in BOOLEAN
  /\ pc \in [Process -> Step] /\ goal \in [Process -> {"read", "write"}]
  /\ at \in [Process -> 0 .. Len(Order)] /\ copy \in [Process -> Config]
  /\ asked \in [Process -> Config]
  /\ commands \in 0 .. MaxCommands
  /\ stale \in [Process -> BOOLEAN] /\ saved \in BOOLEAN /\ clean \in BOOLEAN

\* A new store, or one that has been in use.
Init ==
  /\ \/ db = Empty /\ seeded = FALSE
     \/ db \in Lived /\ seeded = TRUE
  /\ pc = [p \in Process |-> "idle"] /\ goal = [p \in Process |-> "read"]
  /\ at = [p \in Process |-> 0] /\ copy = [p \in Process |-> Empty]
  /\ commands = 0 /\ asked = copy
  /\ stale = [p \in Process |-> FALSE] /\ saved = FALSE /\ clean = TRUE
-----------------------------------------------------------------------------
(* Steps                                                                   *)

Go(p, step) == pc' = [pc EXCEPT ![p] = step]

\* One statement, or one transaction, that leaves d in the store.
Change(p, d) ==
  /\ db' = d
  /\ stale' = [q \in Process |-> stale[q] \/ (q # p /\ d # db)]
  /\ clean' = (clean /\ ~(stale[p] /\ d # db))

KeepStore == UNCHANGED << db, stale, clean >>

\* The process ends, and what it had in memory with it.
End(p) ==
  /\ Go(p, "idle")
  /\ at' = [at EXCEPT ![p] = 0] /\ copy' = [copy EXCEPT ![p] = Empty]
  /\ asked' = [asked EXCEPT ![p] = Empty]

\* Open, to load or to save.
Start(p) ==
  /\ pc[p] = "idle" /\ commands < MaxCommands
  /\ commands' = commands + 1
  /\ Go(p, "flag") /\ goal' = [goal EXCEPT ![p] = "read"]
  /\ stale' = [stale EXCEPT ![p] = FALSE]
  /\ UNCHANGED << db, seeded, at, copy, asked, saved, clean >>

\* A mutant: the defaults are marked as complete before they are filled in.
ReadFlagMarks(p) ==
  /\ pc[p] = "flag" /\ seeded' = TRUE
  /\ Go(p, IF seeded THEN goal[p] ELSE "ports")
  /\ KeepStore /\ UNCHANGED << goal, at, copy, asked, commands, saved >>

\* needsDefaultSeed
ReadFlag(p) ==
  /\ pc[p] = "flag"
  /\ Go(p, IF seeded THEN goal[p] ELSE "ports")
  /\ KeepStore /\ UNCHANGED << seeded, goal, at, copy, asked, commands, saved >>

\* tableEmpty, for open_ports and then for skip_ports.
CheckPorts(p) ==
  /\ pc[p] = "ports"
  /\ Go(p, IF db.openPorts = {} THEN "insertPorts" ELSE "skip")
  /\ KeepStore /\ UNCHANGED << seeded, goal, at, copy, asked, commands, saved >>

InsertPorts(p) ==
  /\ pc[p] = "insertPorts" /\ Go(p, "skip")
  /\ Change(p, [db EXCEPT !.openPorts = @ \cup {DefaultPort}])
  /\ UNCHANGED << seeded, goal, at, copy, asked, commands, saved >>

CheckSkip(p) ==
  /\ pc[p] = "skip"
  /\ Go(p, IF db.skipPorts = {} THEN "insertSkip" ELSE "mark")
  /\ KeepStore /\ UNCHANGED << seeded, goal, at, copy, asked, commands, saved >>

InsertSkip(p) ==
  /\ pc[p] = "insertSkip" /\ Go(p, "mark")
  /\ Change(p, [db EXCEPT !.skipPorts = @ \cup {DefaultPort}])
  /\ UNCHANGED << seeded, goal, at, copy, asked, commands, saved >>

Mark(p) ==
  /\ pc[p] = "mark" /\ seeded' = TRUE /\ Go(p, goal[p])
  /\ KeepStore /\ UNCHANGED << goal, at, copy, asked, commands, saved >>

\* LoadConfig: a query at a time; what it has read is then checked as a whole.
Read(p) ==
  /\ pc[p] = "read" /\ at[p] < Len(Order)
  /\ at' = [at EXCEPT ![p] = @ + 1]
  /\ copy' = [copy EXCEPT ![p][Order[at[p] + 1]] = db[Order[at[p] + 1]]]
  /\ KeepStore /\ UNCHANGED << seeded, pc, goal, asked, commands, saved >>

EndRead(p) ==
  /\ pc[p] = "read" /\ at[p] = Len(Order)
  /\ copy' = [copy EXCEPT ![p] = Loaded(copy[p])]
  /\ Go(p, IF Validate(Loaded(copy[p])) THEN "loaded" ELSE "locked")
  /\ KeepStore /\ UNCHANGED << seeded, goal, at, asked, commands, saved >>

\* A command changes its copy and opens the database again.
Edit(p, results) ==
  /\ pc[p] = "loaded"
  /\ \E c \in results : copy' = [copy EXCEPT ![p] = c] /\ asked' = [asked EXCEPT ![p] = c]
  /\ Go(p, "flag") /\ goal' = [goal EXCEPT ![p] = "write"]
  /\ KeepStore /\ UNCHANGED << seeded, at, commands, saved >>

\* A mutant: what was typed is not checked again before it is stored.
PrepareUnchecked(p) ==
  /\ pc[p] = "write"
  /\ copy' = [copy EXCEPT ![p] = Prepared(@, db)] /\ Go(p, "commit")
  /\ KeepStore /\ UNCHANGED << seeded, goal, at, asked, commands, saved >>

\* The part of SaveConfig before its transaction.
Prepare(p) ==
  /\ pc[p] = "write"
  /\ Validate(Prepared(copy[p], db))
  /\ copy' = [copy EXCEPT ![p] = Prepared(@, db)] /\ Go(p, "commit")
  /\ KeepStore /\ UNCHANGED << seeded, goal, at, asked, commands, saved >>

Commit(p) ==
  /\ pc[p] = "commit" /\ End(p)
  /\ Change(p, NormalizeIngress(SaveProtect(copy[p])))
  /\ saved' = TRUE
  /\ UNCHANGED << seeded, goal, commands >>

\* The process ends early: it only shows something, its arguments, the
\* validation or a statement fail, or it is killed.
Stop(p) ==
  /\ pc[p] # "idle" /\ End(p)
  /\ KeepStore /\ UNCHANGED << seeded, goal, commands, saved >>
-----------------------------------------------------------------------------
(* Commands                                                                *)

RunProtect(p) ==
  \/ Edit(p, ProtectEnable(copy[p]))
  \/ Edit(p, ProtectDisable(copy[p]))
  \/ Edit(p, ProtectConfig(copy[p]))

RunDPI(p) ==
  \/ Edit(p, DPI(copy[p]))
  \/ Edit(p, DPISkipPort(copy[p]))

RunIngress(p) ==
  \/ Edit(p, OnOff(copy[p], "ingress"))
  \/ Edit(p, CN(copy[p], "ingress", "provinces"))
  \/ Edit(p, IngressCity(copy[p]))
  \/ Edit(p, AddOrDel(copy[p], "cidrs", Address))
  \/ Edit(p, IngressPortClear(copy[p]))
  \/ Edit(p, IngressPortCN(copy[p]))
  \/ Edit(p, IngressPortCity(copy[p]))

RunEgress(p) ==
  \/ Edit(p, OnOff(copy[p], "egress"))
  \/ Edit(p, CN(copy[p], "egress", "egressProvinces"))
  \/ Edit(p, AddOrDel(copy[p], "egressCidrs", Address))

RunLease(p) ==
  \/ Edit(p, LeaseServer(copy[p]))
  \/ Edit(p, Route(copy[p], "routes"))
  \/ Edit(p, LeaseTrigger(copy[p]))
  \/ Edit(p, Route(copy[p], "triggerRoutes"))

\* What any command may do to a configuration.
Edits(c) ==
  UNION { ProtectEnable(c), ProtectDisable(c), ProtectConfig(c), DPI(c), DPISkipPort(c),
          OnOff(c, "ingress"), CN(c, "ingress", "provinces"), IngressCity(c),
          AddOrDel(c, "cidrs", Address),
          IngressPortClear(c), IngressPortCN(c), IngressPortCity(c),
          OnOff(c, "egress"), CN(c, "egress", "egressProvinces"),
          AddOrDel(c, "egressCidrs", Address),
          LeaseServer(c), Route(c, "routes"), LeaseTrigger(c), Route(c, "triggerRoutes") }

Next ==
  \E p \in Process :
    \/ Start(p) \/ Stop(p)
    \/ ReadFlag(p) \/ CheckPorts(p) \/ InsertPorts(p) \/ CheckSkip(p) \/ InsertSkip(p) \/ Mark(p)
    \/ Read(p) \/ EndRead(p) \/ Prepare(p) \/ Commit(p)
    \/ RunProtect(p) \/ RunDPI(p) \/ RunIngress(p) \/ RunEgress(p) \/ RunLease(p)

Spec == Init /\ [][Next]_vars
-----------------------------------------------------------------------------
(* Properties                                                              *)

\* A command that no other process overlapped with leaves what it would have
\* left had it read, changed and written the configuration in one step: what is
\* loaded after its save is what it made of what was loaded before.  The list of
\* ports and the list of ranges, which are stored apart and made equal by rules
\* of their own, both say it, and no other setting moves with it, except that a
\* city goes when its province is selected.  The two lists agree before, unless
\* a process that was overlapped has opened the default port.
ListsAgree ==
  db.openPortRanges # {} => db.openPorts = Expand(db.openPortRanges)

Intended(c) == ApplyFallbacks(NormalizeIngress(c))

EditIsAtomic ==
  [][ \A p \in Process :
        (Commit(p) /\ ~stale[p] /\ ListsAgree)
          => asked[p] \in Edits(Loaded(db)) /\ Loaded(db') = Intended(asked[p]) ]_vars

\* However loads and saves overlap, and whatever is typed, what can be read of
\* the store is a configuration that is accepted: no command is ever locked out
\* by what another one stored.
NeverLocked == \A p \in Process : pc[p] # "locked"

\* The default port, which keeps SSH reachable on a new host, is opened by
\* nobody but a command once a command has saved: an operator who closes it
\* finds it closed, whoever else was filling in the defaults.  The code does
\* not keep to it: ConfigSeed.cfg has the counterexample.
NotReopened == [][ \A p \in Process : (InsertPorts(p) /\ saved) => db' = db ]_vars

\* While no stale process has written, selected provinces are in force: a city
\* is only dropped for the sake of a province that lets it in.
RegionsInForce == clean => Regions(db)

\* The store as the commands see it is Store's: its defaults are put in once and
\* completed before the first command, each command takes effect in one step, and
\* only a process that was overlapped can do anything else.
First == { Loaded(rows) : rows \in {Empty} \cup Lived }
Acceptable == { c \in Config : Validate(c) }
Outcomes(c) == { Intended(e) : e \in Edits(c) }

Promise == INSTANCE Store WITH conf <- Loaded(db), fresh <- ~seeded, quiet <- clean

Atomic == Promise!Spec
=============================================================================
