------------------------------ MODULE Protect ------------------------------
(***************************************************************************)
(* Putting a ruleset in force on a remote machine, and taking it back      *)
(* (internal/protect/protect.go, internal/nft/exec.go, the protect         *)
(* commands of internal/cli/cli.go and the daemon's apply).                *)
(*                                                                         *)
(* `nwall protect apply` replaces the nftables table and forks a detached  *)
(* countdown that puts the previous table back unless a confirmation is    *)
(* written in time; `apply --confirm`, and the daemon on every reload,     *)
(* replace the table and write that confirmation themselves.  The commands *)
(* and the countdowns are separate processes: they share the kernel table  *)
(* and two rows of runtime_state (nft_snapshot, apply_confirmed_at) and    *)
(* hold no lock over them.                                                 *)
(*                                                                         *)
(* A ruleset is the text Render makes of a configuration.  The table is    *)
(* the set of the rulesets loaded into it since it was last deleted: {} is *)
(* no table, and `nft -f` of a ruleset over an existing table adds to it.  *)
(***************************************************************************)
EXTENDS FiniteSets

CONSTANTS
  Cmd,        \* the commands that will be run, each one once
  DaemonCmd,  \* those of them that are applies of the daemon
  Ruleset,    \* the rulesets a configuration can render to
  StopAt,     \* the steps at which a process may return an error or be killed
  Ignored,    \* the steps that may fail with an error nobody looks at
  Wait        \* what operators wait for: a running command, a countdown

Kind == {"apply", "confirm", "disable"}
Step == {"snapshot", "save", "delete", "load", "confirmAt", "clear", "fork"}
TimerStep == {"counting", "expired", "drop", "redrop", "retry", "replay", "overlay"}

ASSUME ProtectAssumption ==
  /\ DaemonCmd \subseteq Cmd
  /\ StopAt \subseteq Step \cup TimerStep
  /\ Ignored \subseteq {"clear", "check", "drop"}
  /\ Wait \subseteq {"command", "countdown"}

VARIABLES
  enabled,   \* protect.enabled of the stored configuration
  config,    \* the ruleset the stored configuration renders to
  table,     \* the live table inet nwall
  snapshot,  \* runtime_state.nft_snapshot
  sentinel,  \* runtime_state holds apply_confirmed_at
  pc,        \* the next step of a command
  job,       \* a command's kind, its ruleset and the table it found
  timer,     \* the next step of the countdown a command forked
  target,    \* the snapshot a countdown has read
  trial,     \* history: rulesets put in force on trial, not accepted since
  last       \* history: the command started last

vars == <<enabled, config, table, snapshot, sentinel, pc, job, timer, target,
          trial, last>>

DB == <<enabled, config, snapshot, sentinel>>
Timers == <<timer, target>>

PC == {"new", "done", "stopped"} \cup Step
TimerPC == {"off", "restored", "merged", "dead"} \cup TimerStep

TypeOK ==
  /\ enabled \in BOOLEAN
  /\ config \in Ruleset
  /\ table \in SUBSET Ruleset
  /\ snapshot \in SUBSET Ruleset
  /\ sentinel \in BOOLEAN
  /\ pc \in [Cmd -> PC]
  /\ job \in [Cmd -> [kind : Kind, ruleset : Ruleset, found : SUBSET Ruleset]]
  /\ timer \in [Cmd -> TimerPC]
  /\ target \in [Cmd -> SUBSET Ruleset]
  /\ trial \in SUBSET Ruleset
  /\ last \in SUBSET Cmd

----------------------------------------------------------------------------
(* Helpers *)

Busy == {c \in Cmd : pc[c] \in Step}
Live == {c \in Cmd : timer[c] \in TimerStep}

\* No countdown has ever run out.
Calm == \A c \in Cmd : timer[c] \in {"off", "counting"}

\* No command and no countdown is going on: what is in force stays in force.
Quiescent == Busy = {} /\ Live = {}

\* Operators who wait run one command at a time, and neither edit the
\* configuration nor put something new on trial while a countdown goes on.
\* The daemon waits for nobody.
Waited(what, processes) == what \in Wait => processes = {}

MayStart(c, kind) ==
  c \notin DaemonCmd =>
    /\ Waited("command", Busy)
    /\ kind = "apply" => Waited("countdown", Live)

Goto(c, step) == pc' = [pc EXCEPT ![c] = step]
TimerGoto(c, step) == timer' = [timer EXCEPT ![c] = step]

----------------------------------------------------------------------------
(* The stored configuration *)

Init ==
  /\ enabled \in BOOLEAN
  /\ config \in Ruleset
  /\ table \in {{}} \cup {{r} : r \in Ruleset}
  /\ snapshot = {}
  /\ sentinel \in BOOLEAN
  /\ pc = [c \in Cmd |-> "new"]
  /\ job = [c \in Cmd |-> [kind |-> "apply", ruleset |-> config, found |-> {}]]
  /\ timer = [c \in Cmd |-> "off"]
  /\ target = [c \in Cmd |-> {}]
  /\ trial = {}
  /\ last = {}

\* Any command or screen that saves a changed configuration.
EditConfig(r) ==
  /\ Waited("command", Busy) /\ Waited("countdown", Live)
  /\ r # config
  /\ config' = r
  /\ UNCHANGED <<enabled, table, snapshot, sentinel, pc, job, Timers, trial, last>>

----------------------------------------------------------------------------
(* A command *)

\* `protect apply` and `protect enable` load the configuration (enable also
\* saves it with protect.enabled set) and stop when protection is off; what
\* follows uses the configuration loaded here.  The daemon applies when
\* protection is on, always with confirm.
StartApply(c, kind, setEnabled) ==
  /\ pc[c] = "new"
  /\ MayStart(c, kind)
  /\ kind \in {"apply", "confirm"}
  /\ c \in DaemonCmd => kind = "confirm" /\ ~setEnabled
  /\ enabled \/ setEnabled
  /\ enabled' = TRUE
  /\ job' = [job EXCEPT ![c] = [kind |-> kind, ruleset |-> config, found |-> {}]]
  /\ Goto(c, "snapshot")
  /\ last' = {c}
  /\ UNCHANGED <<config, table, snapshot, sentinel, Timers, trial>>

\* `protect disable` saves protect.enabled=false and deletes the table.
StartDisable(c) ==
  /\ pc[c] = "new"
  /\ MayStart(c, "disable")
  /\ c \notin DaemonCmd
  /\ enabled' = FALSE
  /\ job' = [job EXCEPT ![c] = [kind |-> "disable", ruleset |-> config, found |-> {}]]
  /\ Goto(c, "delete")
  /\ last' = {c}
  /\ UNCHANGED <<config, table, snapshot, sentinel, Timers, trial>>

\* nft.Snapshot, once the rendered rules have passed `nft -c`.
TakeSnapshot(c) ==
  /\ pc[c] = "snapshot"
  /\ job' = [job EXCEPT ![c].found = table]
  /\ Goto(c, "save")
  /\ UNCHANGED <<DB, table, Timers, trial, last>>

\* Wrong: the snapshot is taken once and kept by later applies.
SaveSnapshotOnce(c) ==
  /\ pc[c] = "save"
  /\ snapshot' = IF snapshot = {} THEN job[c].found ELSE snapshot
  /\ Goto(c, "delete")
  /\ UNCHANGED <<enabled, config, table, sentinel, job, Timers, trial, last>>

\* SetRuntimeValue(nft_snapshot): one row, whatever it held before.
SaveSnapshot(c) ==
  /\ pc[c] = "save"
  /\ snapshot' = job[c].found
  /\ Goto(c, "delete")
  /\ UNCHANGED <<enabled, config, table, sentinel, job, Timers, trial, last>>

\* Wrong: only `disable` deletes the table.
KeepTable(c) ==
  /\ pc[c] = "delete"
  /\ table' = IF job[c].kind = "disable" THEN {} ELSE table
  /\ Goto(c, IF job[c].kind = "disable" THEN "done" ELSE "load")
  /\ UNCHANGED <<DB, job, Timers, trial, last>>

\* nft.Apply's DeleteTable, a process of its own; for `disable`, all of it.
DeleteTable(c) ==
  /\ pc[c] = "delete"
  /\ table' = {}
  /\ Goto(c, IF job[c].kind = "disable" THEN "done" ELSE "load")
  /\ UNCHANGED <<DB, job, Timers, trial, last>>

\* nft.Apply's `nft -f -`: the rules are added to what the table holds now.
\* Without confirm this puts the ruleset on trial, unless it was in force.
LoadRuleset(c) ==
  /\ pc[c] = "load"
  /\ LET r == job[c].ruleset IN
     /\ table' = table \cup {r}
     /\ trial' = IF job[c].kind = "apply" /\ r \notin job[c].found
                 THEN trial \cup {r} ELSE trial
  /\ Goto(c, IF job[c].kind = "confirm" THEN "confirmAt" ELSE "clear")
  /\ UNCHANGED <<DB, job, Timers, last>>

\* confirmAt.  An operator who confirms has accepted the ruleset; the daemon
\* confirms for nobody.
WriteSentinel(c) ==
  /\ pc[c] = "confirmAt"
  /\ sentinel' = TRUE
  /\ trial' = IF c \in DaemonCmd THEN trial ELSE trial \ {job[c].ruleset}
  /\ Goto(c, "done")
  /\ UNCHANGED <<enabled, config, table, snapshot, job, Timers, last>>

\* Wrong: only the row of a table that was there is deleted.
ClearIfFound(c) ==
  /\ pc[c] = "clear"
  /\ sentinel' = (job[c].found = {} /\ sentinel)
  /\ Goto(c, "fork")
  /\ UNCHANGED <<enabled, config, table, snapshot, job, Timers, trial, last>>

\* startRollbackTimer, clearConfirmSentinel: after the rules are in force.
\* When the store does not open or the delete fails, the row of an earlier
\* confirmation stays and the countdown is started all the same.
ClearSentinel(c) ==
  /\ pc[c] = "clear"
  /\ \/ sentinel' = FALSE
     \/ "clear" \in Ignored /\ sentinel' = sentinel
  /\ Goto(c, "fork")
  /\ UNCHANGED <<enabled, config, table, snapshot, job, Timers, trial, last>>

\* startRollbackTimer, cmd.Start: the countdown outlives the command.
ForkTimer(c) ==
  /\ pc[c] = "fork"
  /\ TimerGoto(c, "counting")
  /\ Goto(c, "done")
  /\ UNCHANGED <<DB, table, job, target, trial, last>>

\* A step fails and its error is returned, or the command is killed there:
\* what was done stays done.
Stop(c) ==
  /\ pc[c] \in StopAt
  /\ Goto(c, "stopped")
  /\ UNCHANGED <<DB, table, job, Timers, trial, last>>

----------------------------------------------------------------------------
(* The countdown of a command: RunRollbackTimer *)

\* A poll, every 500 ms, finds the confirmation.
TimerConfirmed(c) ==
  /\ timer[c] = "counting"
  /\ sentinel
  /\ TimerGoto(c, "off")
  /\ UNCHANGED <<DB, table, pc, job, target, trial, last>>

\* Wrong: the check made after the deadline is dropped.
TimerExpireUnchecked(c) ==
  /\ timer[c] = "counting"
  /\ TimerGoto(c, "expired")
  /\ UNCHANGED <<DB, table, pc, job, target, trial, last>>

\* The deadline has passed and the last check finds no confirmation;
\* confirmed() also says so when the store does not open.
TimerExpire(c) ==
  /\ timer[c] = "counting"
  /\ ~sentinel \/ "check" \in Ignored
  /\ TimerGoto(c, "expired")
  /\ UNCHANGED <<DB, table, pc, job, target, trial, last>>

\* The snapshot is the one stored now, by whichever command.
TimerRead(c) ==
  /\ timer[c] = "expired"
  /\ target' = [target EXCEPT ![c] = snapshot]
  /\ TimerGoto(c, "drop")
  /\ UNCHANGED <<DB, table, pc, job, trial, last>>

\* The table is deleted twice, by RunRollbackTimer ("drop") and by
\* ApplySnapshot ("redrop", "retry"): processes of their own.
TimerDrop(c) ==
  /\ timer[c] \in {"drop", "redrop", "retry"}
  /\ table' = {}
  /\ TimerGoto(c, IF timer[c] = "drop" THEN "redrop" ELSE "replay")
  /\ UNCHANGED <<DB, pc, job, target, trial, last>>

\* Neither looks at the error of its delete: the snapshot is replayed over
\* whatever is there ("overlay" when both have failed).
TimerDropFails(c) ==
  /\ "drop" \in Ignored
  /\ \/ timer[c] = "drop" /\ TimerGoto(c, "retry")
     \/ timer[c] = "redrop" /\ TimerGoto(c, "replay")
     \/ timer[c] = "retry" /\ TimerGoto(c, "overlay")
  /\ UNCHANGED <<DB, table, pc, job, target, trial, last>>

\* Wrong: the rules the command itself has loaded are replayed.
TimerReplayOwn(c) ==
  /\ timer[c] \in {"replay", "overlay"}
  /\ table' = table \cup {job[c].ruleset}
  /\ TimerGoto(c, IF timer[c] = "replay" THEN "restored" ELSE "merged")
  /\ UNCHANGED <<DB, pc, job, target, trial, last>>

\* Wrong: the snapshot is replayed only if it is the stored one still.
TimerReplayIfSame(c) ==
  /\ timer[c] \in {"replay", "overlay"}
  /\ table' = IF target[c] # snapshot THEN {} ELSE table \cup target[c]
  /\ TimerGoto(c, IF timer[c] = "replay" THEN "restored" ELSE "merged")
  /\ UNCHANGED <<DB, pc, job, target, trial, last>>

\* ApplySnapshot's `nft -f -`, all of it or none; the snapshot of no table is
\* a delete.
TimerReplay(c) ==
  /\ timer[c] \in {"replay", "overlay"}
  /\ table' = IF target[c] = {} THEN {} ELSE table \cup target[c]
  /\ TimerGoto(c, IF timer[c] = "replay" THEN "restored" ELSE "merged")
  /\ UNCHANGED <<DB, pc, job, target, trial, last>>

\* The snapshot is not read, its replay fails, or the countdown is killed there:
\* after a delete no table is left.  One killed before it has run out leaves no
\* trace.
TimerStop(c) ==
  /\ timer[c] \in StopAt
  /\ TimerGoto(c, IF timer[c] = "counting" THEN "off" ELSE "dead")
  /\ UNCHANGED <<DB, table, pc, job, target, trial, last>>

----------------------------------------------------------------------------

CmdNext(c) ==
  \/ \E kind \in Kind, setEnabled \in BOOLEAN : StartApply(c, kind, setEnabled)
  \/ StartDisable(c)
  \/ TakeSnapshot(c) \/ SaveSnapshot(c) \/ DeleteTable(c) \/ LoadRuleset(c)
  \/ WriteSentinel(c) \/ ClearSentinel(c) \/ ForkTimer(c)
  \/ Stop(c)

TimerNext(c) ==
  \/ TimerConfirmed(c) \/ TimerExpire(c)
  \/ TimerRead(c) \/ TimerDrop(c) \/ TimerDropFails(c) \/ TimerReplay(c)
  \/ TimerStop(c)

Next ==
  \/ \E r \in Ruleset : EditConfig(r)
  \/ \E c \in Cmd : CmdNext(c) \/ TimerNext(c)

Spec == Init /\ [][Next]_vars

\* A command that has started goes on by itself, and a countdown reaches its
\* deadline; nobody has to start a command.
Proceed(c) == pc[c] # "new" /\ CmdNext(c)

FairSpec ==
  /\ Spec
  /\ \A c \in Cmd : WF_vars(Proceed(c)) /\ WF_vars(TimerNext(c))

----------------------------------------------------------------------------
(* Properties *)

\* An apply that nobody confirmed is rolled back: once every command and every
\* countdown has ended, nothing in force is still on trial.
TrialNeverSettles == Quiescent => table \cap trial = {}

\* If no other command was started since, a countdown whose replay was accepted
\* has put back exactly what its command replaced.  Both of its deletes may
\* have failed unnoticed: then the rules on trial are in force beside what was
\* found, which is whole all the same.
RollbackIsExact ==
  \A c \in Cmd :
    last = {c} =>
      /\ timer[c] = "restored" => table = job[c].found
      /\ timer[c] = "merged" => table \in {job[c].found, job[c].found \cup {job[c].ruleset}}

\* A firewall is not lost to a race: when nobody disabled it, no command failed
\* and every trial began with a table in force, the deletions and loads of a
\* countdown and of a command that cross each other leave a table behind.
FirewallNotLost ==
  /\ Quiescent
  /\ \E c \in Cmd : pc[c] = "done"
  /\ \A c \in Cmd : pc[c] # "stopped" /\ job[c].kind # "disable"
  /\ \A c \in Cmd : pc[c] = "done" /\ job[c].kind = "apply" => job[c].found # {}
  => table # {}

\* `apply --confirm` settles: when it ends, and no countdown has ever run out,
\* its rules alone are in force and nothing but another command changes that:
\* no countdown that is going on runs out afterwards.
ConfirmSettles ==
  [][\A c \in Cmd :
       /\ job[c].kind = "confirm" /\ pc'[c] = "done"
       /\ last = {c} /\ last' = {c} /\ Calm
       => Calm' /\ table' = {job[c].ruleset}]_vars

\* A countdown runs out only on a ruleset that is still on trial: a
\* confirmation that comes before the deadline "cancels the pending countdown"
\* (protect.go:149).
ExpiresOnlyOnTrial ==
  [][\A c \in Cmd : timer[c] = "counting" /\ timer'[c] = "expired"
       => job[c].ruleset \in trial \cup job[c].found]_vars

\* A ruleset on trial does not stay in force for ever without being accepted.
TrialEnds ==
  \A r \in Ruleset : r \in table \cap trial ~> r \notin table \cap trial
=============================================================================
