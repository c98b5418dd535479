--------------------------- MODULE ProtectProofs ---------------------------
(***************************************************************************)
(* Proofs about Protect, for any commands, rulesets and daemon.  When      *)
(* operators wait for commands and countdowns: if no ignored error hides a *)
(* failed clear or delete, no trial settles, a confirmation is seen and    *)
(* the firewall is not lost; and, whatever fails, a roll-back whose replay *)
(* is accepted is exact and, if countdowns can open the store, a           *)
(* confirmation is final.                                                  *)
(***************************************************************************)
EXTENDS Protect, TLAPS

\* What the operators and the machine do in the guarantee below: operators
\* wait, the daemon applies nothing, errors come before anything changed, and
\* the clear and the deletes whose errors are ignored succeed.
Careful ==
  /\ Wait = {"command", "countdown"}
  /\ DaemonCmd = {}
  /\ StopAt \subseteq {"snapshot", "save"}
  /\ Ignored \subseteq {"check"}

\* A confirming command has stored the table it found and will accept config.
Saved == \E d \in Cmd : pc[d] \in {"delete", "load", "confirmAt"} /\ job[d].kind = "confirm"

\* A command that puts rules on trial has loaded them, its countdown not yet.
Launching == \E d \in Cmd : pc[d] \in {"clear", "fork"}

OneAtATime ==
  /\ \A c, d \in Busy : c = d
  /\ \A c, d \in Live : c = d
  /\ \A c \in Busy : job[c].kind = "apply" => Live = {}

PcKind ==
  \A c \in Cmd :
    /\ pc[c] \in {"snapshot", "save", "load"} => job[c].kind \in {"apply", "confirm"}
    /\ pc[c] = "confirmAt" => job[c].kind = "confirm"
    /\ pc[c] \in {"clear", "fork"} => job[c].kind = "apply"

\* Only what the stored configuration renders to can be on trial and in force.
OnlyConfig ==
  /\ table \cap trial \subseteq {config}
  /\ \A c \in Busy : job[c].ruleset = config

CommandInv ==
  \A c \in Cmd :
    /\ pc[c] = "save" => job[c].found \cap trial \subseteq {config}
    /\ pc[c] = "save" /\ job[c].kind = "apply" => job[c].found \cap trial = {}
    /\ pc[c] \in {"delete", "load"} /\ job[c].kind = "apply"
         => snapshot = job[c].found /\ snapshot \cap trial = {}
    /\ pc[c] \in {"clear", "fork"} => snapshot \cap trial = {}
    /\ pc[c] \in {"delete", "load", "confirmAt"} /\ job[c].kind = "confirm"
         => snapshot \cap trial \subseteq {config}
    /\ pc[c] = "fork" => ~sentinel

CountdownInv ==
  \A c \in Cmd :
    /\ timer[c] \in {"counting", "expired"}
         => /\ snapshot \cap trial \subseteq {config}
            /\ ~Saved => snapshot \cap trial = {}
    /\ timer[c] \in {"drop", "redrop", "replay"}
         => /\ target[c] \cap trial \subseteq {config}
            /\ ~Saved => target[c] \cap trial = {}
    /\ timer[c] \notin {"retry", "overlay"}
    /\ timer[c] = "replay" /\ ~Saved => table \cap trial = {}
    /\ timer[c] = "counting" /\ sentinel /\ ~Saved => table \cap trial = {}

NothingOnTrial == ~Saved /\ ~Launching /\ Live = {} => table \cap trial = {}

IInv ==
  /\ TypeOK /\ OneAtATime /\ PcKind /\ OnlyConfig
  /\ CommandInv /\ CountdownInv /\ NothingOnTrial
----------------------------------------------------------------------------
(* Types *)

LEMMA InitType == Init => TypeOK
  BY DEF Init, TypeOK, PC, TimerPC, Kind, Step

LEMMA CmdType ==
  ASSUME NEW c \in Cmd, TypeOK, CmdNext(c)
  PROVE  TypeOK'
<1> USE DEF TypeOK, PC, Step, Kind, Goto, TimerGoto, DB, Timers
<1>1. ASSUME NEW kind \in Kind, NEW e \in BOOLEAN, StartApply(c, kind, e)
      PROVE  TypeOK'
  BY <1>1 DEF StartApply
<1>2. CASE StartDisable(c)
  BY <1>2 DEF StartDisable
<1>3. CASE TakeSnapshot(c)
  BY <1>3 DEF TakeSnapshot
<1>4. CASE SaveSnapshot(c)
  BY <1>4 DEF SaveSnapshot
<1>5. CASE DeleteTable(c)
  BY <1>5 DEF DeleteTable
<1>6. CASE LoadRuleset(c)
  BY <1>6 DEF LoadRuleset
<1>7. CASE WriteSentinel(c)
  BY <1>7 DEF WriteSentinel
<1>8. CASE ClearSentinel(c)
  BY <1>8 DEF ClearSentinel
<1>9. CASE ForkTimer(c)
  BY <1>9 DEF ForkTimer, TimerPC, TimerStep
<1>10. CASE Stop(c)
  BY <1>10 DEF Stop
<1>11. QED
  BY <1>1, <1>2, <1>3, <1>4, <1>5, <1>6, <1>7, <1>8, <1>9, <1>10 DEF CmdNext

LEMMA TimerType ==
  ASSUME NEW c \in Cmd, TypeOK, TimerNext(c)
  PROVE  TypeOK'
<1> USE DEF TypeOK, TimerPC, TimerStep, TimerGoto, DB
<1>1. CASE TimerConfirmed(c)
  BY <1>1 DEF TimerConfirmed
<1>2. CASE TimerExpire(c)
  BY <1>2 DEF TimerExpire
<1>3. CASE TimerRead(c)
  BY <1>3 DEF TimerRead
<1>4. CASE TimerDrop(c)
  BY <1>4 DEF TimerDrop
<1>5. CASE TimerReplay(c)
  BY <1>5 DEF TimerReplay
<1>6. CASE TimerDropFails(c)
  BY <1>6 DEF TimerDropFails
<1>7. CASE TimerStop(c)
  BY <1>7 DEF TimerStop
<1>8. QED
  BY <1>1, <1>2, <1>3, <1>4, <1>5, <1>6, <1>7 DEF TimerNext

\* Every variable keeps its type, whatever the operators do and whatever fails.
THEOREM TypeCorrect == Spec => []TypeOK
<1>1. TypeOK /\ [Next]_vars => TypeOK'
  <2> SUFFICES ASSUME TypeOK, [Next]_vars PROVE TypeOK'
    OBVIOUS
  <2>1. ASSUME NEW r \in Ruleset, EditConfig(r) PROVE TypeOK'
    BY <2>1 DEF EditConfig, TypeOK, Timers
  <2>2. CASE UNCHANGED vars
    BY SMTT(30), <2>2 DEF vars, TypeOK
  <2>3. QED
    BY <2>1, <2>2, CmdType, TimerType DEF Next
<1>2. QED
  BY InitType, <1>1, PTL DEF Spec
----------------------------------------------------------------------------
(* Trials end: IInv is inductive *)

\* What IInv says of the steps of a command, in the order of applyWithStorePath:
\* a table saved by a trial command holds nothing on trial, because nobody else
\* is at work; a table saved by a confirming command may hold the ruleset that
\* command is about to accept, and nothing else on trial.
LEMMA CmdInductive ==
  ASSUME Careful, IInv, NEW c \in Cmd, CmdNext(c)
  PROVE  IInv'
<1>0. TypeOK'
  BY CmdType DEF IInv
<1> USE DEF Careful, TypeOK, IInv, OneAtATime, PcKind, OnlyConfig, CommandInv,
            CountdownInv, NothingOnTrial, Saved, Launching, Busy, Live, Step, TimerStep,
            Kind, Goto, TimerGoto, DB, Timers
<1>1. ASSUME NEW kind \in Kind, NEW e \in BOOLEAN, StartApply(c, kind, e)
      PROVE  IInv'
  <2> USE <1>1 DEF StartApply, MayStart, Waited
  <2>1. OneAtATime' /\ PcKind' /\ OnlyConfig'
    BY <1>0
  <2>2. CommandInv' /\ CountdownInv' /\ NothingOnTrial'
    BY <1>0
  <2>3. QED
    BY <1>0, <2>1, <2>2
<1>2. CASE StartDisable(c)
  <2> USE <1>2 DEF StartDisable, MayStart, Waited
  <2>1. OneAtATime' /\ PcKind' /\ OnlyConfig'
    BY <1>0
  <2>2. CommandInv' /\ CountdownInv' /\ NothingOnTrial'
    BY <1>0
  <2>3. QED
    BY <1>0, <2>1, <2>2
<1>3. CASE TakeSnapshot(c)
  BY <1>0, <1>3 DEF TakeSnapshot
<1>4. CASE SaveSnapshot(c)
  <2> USE <1>4 DEF SaveSnapshot
  <2>1. CommandInv'
    BY <1>0
  <2>2. CountdownInv' /\ NothingOnTrial'
    BY <1>0
  <2>3. QED
    BY <1>0, <2>1, <2>2
<1>5. CASE DeleteTable(c)
  BY <1>0, <1>5 DEF DeleteTable
<1>6. CASE LoadRuleset(c)
  \* A trial begins here: only one command is at work and no countdown.
  <2> USE <1>6 DEF LoadRuleset
  <2>1. OneAtATime' /\ PcKind' /\ OnlyConfig'
    BY <1>0
  <2>2. CommandInv'
    BY <1>0
  <2>3. CountdownInv' /\ NothingOnTrial'
    BY <1>0
  <2>4. QED
    BY <1>0, <2>1, <2>2, <2>3
<1>7. CASE WriteSentinel(c)
  \* What was on trial and in force or saved was config, which is accepted now.
  <2> USE <1>7 DEF WriteSentinel
  <2>1. OneAtATime' /\ PcKind' /\ OnlyConfig'
    BY <1>0
  <2>2. CommandInv'
    BY <1>0
  <2>3. CountdownInv' /\ NothingOnTrial'
    BY <1>0
  <2>4. QED
    BY <1>0, <2>1, <2>2, <2>3
<1>8. CASE ClearSentinel(c)
  BY <1>0, <1>8 DEF ClearSentinel
<1>9. CASE ForkTimer(c)
  \* The confirmation was cleared by the step before.
  <2> USE <1>9 DEF ForkTimer
  <2>1. OneAtATime' /\ PcKind' /\ OnlyConfig' /\ CommandInv'
    BY <1>0
  <2>2. CountdownInv' /\ NothingOnTrial'
    BY <1>0
  <2>3. QED
    BY <1>0, <2>1, <2>2
<1>10. CASE Stop(c)
  BY <1>0, <1>10 DEF Stop
<1>11. QED
  BY SMTT(30), <1>1, <1>2, <1>3, <1>4, <1>5, <1>6, <1>7, <1>8, <1>9, <1>10 DEF CmdNext

LEMMA TimerInductive ==
  ASSUME Careful, IInv, NEW c \in Cmd, TimerNext(c)
  PROVE  IInv'
<1>0. TypeOK'
  BY TimerType DEF IInv
<1> USE DEF Careful, TypeOK, IInv, OneAtATime, PcKind, OnlyConfig, CommandInv,
            CountdownInv, NothingOnTrial, Saved, Launching, Busy, Live, Step, TimerStep,
            Kind, Goto, TimerGoto, DB
<1>1. CASE TimerConfirmed(c)
  BY <1>0, <1>1 DEF TimerConfirmed
<1>2. CASE TimerExpire(c)
  BY <1>0, <1>2 DEF TimerExpire
<1>3. CASE TimerRead(c)
  <2> USE <1>3 DEF TimerRead
  <2>1. OneAtATime' /\ PcKind' /\ OnlyConfig'
    BY <1>0
  <2>2. CommandInv'
    BY <1>0
  <2>3. CountdownInv'
    BY <1>0
  <2>4. NothingOnTrial'
    BY <1>0
  <2>5. QED
    BY <1>0, <2>1, <2>2, <2>3, <2>4
<1>4. CASE TimerDrop(c)
  BY <1>0, <1>4 DEF TimerDrop
<1>5. CASE TimerReplay(c)
  \* Unless a confirming command is about to accept it, nothing on trial is in
  \* the table or in what is added to it.
  <2> USE <1>5 DEF TimerReplay
  <2>1. OneAtATime' /\ PcKind' /\ OnlyConfig'
    BY <1>0
  <2>2. CommandInv' /\ CountdownInv'
    BY <1>0
  <2>3. NothingOnTrial'
    BY <1>0
  <2>4. QED
    BY <1>0, <2>1, <2>2, <2>3
<1>6. ~TimerDropFails(c) /\ ~TimerStop(c)
  BY DEF TimerDropFails, TimerStop, TimerPC, TimerStep
<1>7. QED
  BY <1>1, <1>2, <1>3, <1>4, <1>5, <1>6 DEF TimerNext

LEMMA EditInductive ==
  ASSUME Careful, IInv, NEW r \in Ruleset, EditConfig(r)
  PROVE  IInv'
<1> USE DEF EditConfig, Careful, Waited
<1>1. Busy = {} /\ Live = {}
  OBVIOUS
<1>2. table \cap trial = {}
  BY <1>1 DEF IInv, NothingOnTrial, Saved, Launching, Busy, Step
<1>3. QED
  BY <1>1, <1>2 DEF TypeOK, IInv, OneAtATime, PcKind, OnlyConfig, CommandInv,
     CountdownInv, NothingOnTrial, Saved, Launching, Busy, Live, Step, TimerStep, Timers

LEMMA Inductive == Careful => (Spec => []IInv)
<1> SUFFICES ASSUME Careful PROVE Spec => []IInv
  OBVIOUS
<1>1. Init => IInv
  BY InitType DEF Init, IInv, OneAtATime, PcKind, OnlyConfig, CommandInv,
     CountdownInv, NothingOnTrial, Saved, Launching, Busy, Live, Step, TimerStep
<1>2. IInv /\ [Next]_vars => IInv'
  <2>1. ASSUME IInv, UNCHANGED vars PROVE IInv'
    BY <2>1 DEF vars, TypeOK, IInv, OneAtATime, PcKind, OnlyConfig, CommandInv,
       CountdownInv, NothingOnTrial, Saved, Launching, Busy, Live
  <2>2. QED
    BY <2>1, CmdInductive, TimerInductive, EditInductive DEF Next
<1>3. QED
  BY <1>1, <1>2, PTL DEF Spec

\* With operators who wait, an apply that nobody confirms is rolled back: when
\* all has ended, nothing in force is on trial (any number of commands and
\* rulesets; the countdown may even fail to read the confirmation).
THEOREM TrialsEndCareful == Careful => (Spec => []TrialNeverSettles)
<1>1. IInv => TrialNeverSettles
  BY DEF IInv, NothingOnTrial, TrialNeverSettles, Quiescent, Saved, Launching,
     Busy, Step
<1>2. QED
  BY <1>1, Inductive, PTL
----------------------------------------------------------------------------
(* Countdowns *)

\* A process stops at a step of its own.
LEMMA StopsAtStep ==
  ASSUME TypeOK, NEW c \in Cmd
  PROVE  /\ Stop(c) => pc[c] \in Step
         /\ TimerStop(c) => timer[c] \in TimerStep
  BY ProtectAssumption DEF TypeOK, Stop, TimerStop, PC, TimerPC, Step, TimerStep

\* A countdown is forked by the last step of its command.
Forked == \A c \in Cmd : timer[c] # "off" => pc[c] = "done"

LEMMA ForkedInductive == TypeOK /\ Forked /\ [Next]_vars => Forked'
<1> SUFFICES ASSUME TypeOK, Forked, [Next]_vars PROVE Forked'
  OBVIOUS
<1> USE DEF TypeOK, Forked, Goto, TimerGoto
<1>1. ASSUME NEW c \in Cmd, CmdNext(c) PROVE Forked'
  BY <1>1, StopsAtStep DEF CmdNext, StartApply, StartDisable, TakeSnapshot, SaveSnapshot, DeleteTable,
     LoadRuleset, WriteSentinel, ClearSentinel, ForkTimer, Stop, Timers, Step
<1>2. ASSUME NEW c \in Cmd, TimerNext(c) PROVE Forked'
  BY <1>2, StopsAtStep
     DEF TimerNext, TimerConfirmed, TimerExpire, TimerRead, TimerDrop, TimerDropFails,
         TimerReplay, TimerStop, TimerStep
<1>3. ASSUME NEW r \in Ruleset, EditConfig(r) PROVE Forked'
  BY <1>3 DEF EditConfig, Timers
<1>4. CASE UNCHANGED vars
  BY <1>4 DEF vars
<1>5. QED
  BY <1>1, <1>2, <1>3, <1>4 DEF Next

\* A countdown that a confirmation has not reached is of a ruleset on trial.
OnTrial ==
  \A c \in Cmd :
    pc[c] \in {"clear", "fork"} \/ (timer[c] = "counting" /\ ~sentinel)
      => job[c].ruleset \in trial \cup job[c].found

LEMMA OnTrialInductive ==
  Careful /\ IInv /\ Forked /\ OnTrial /\ [Next]_vars => OnTrial'
<1> SUFFICES ASSUME Careful, IInv, Forked, OnTrial, [Next]_vars PROVE OnTrial'
  OBVIOUS
<1>1. TypeOK /\ OneAtATime /\ PcKind
  BY DEF IInv
<1> USE <1>1 DEF TypeOK, Forked, OnTrial, Goto, TimerGoto
<1>2. ASSUME NEW c \in Cmd, CmdNext(c) PROVE OnTrial'
  <2>1. ASSUME NEW kind \in Kind, NEW e \in BOOLEAN, StartApply(c, kind, e)
        PROVE  OnTrial'
    BY <2>1 DEF StartApply, Timers
  <2>2. CASE StartDisable(c)
    BY <2>2 DEF StartDisable, Timers
  <2>3. CASE TakeSnapshot(c)
    BY <2>3 DEF TakeSnapshot, DB, Timers
  <2>4. CASE SaveSnapshot(c) \/ DeleteTable(c) \/ Stop(c)
    BY <2>4 DEF SaveSnapshot, DeleteTable, Stop, DB, Timers
  <2>5. CASE LoadRuleset(c)
    BY <2>5 DEF LoadRuleset, DB, Timers, PcKind, Kind
  <2>6. CASE WriteSentinel(c)
    <3>1. \A d \in Cmd : pc[d] \notin {"clear", "fork"}
      BY <2>6 DEF WriteSentinel, OneAtATime, Busy, Step
    <3>2. QED
      BY <2>6, <3>1 DEF WriteSentinel, Timers
  <2>7. CASE ClearSentinel(c)
    <3>1. \A d \in Cmd : timer[d] # "counting"
      BY <2>7 DEF ClearSentinel, OneAtATime, PcKind, Busy, Live, Step, TimerStep
    <3>2. QED
      BY <2>7, <3>1 DEF ClearSentinel, Timers
  <2>8. CASE ForkTimer(c)
    BY <2>8 DEF ForkTimer, DB
  <2>9. QED
    BY <1>2, <2>1, <2>2, <2>3, <2>4, <2>5, <2>6, <2>7, <2>8 DEF CmdNext
<1>3. ASSUME NEW c \in Cmd, TimerNext(c) PROVE OnTrial'
  BY <1>3 DEF TimerNext, TimerConfirmed, TimerExpire, TimerRead, TimerDrop, TimerDropFails, TimerReplay, TimerStop, DB
<1>4. ASSUME NEW r \in Ruleset, EditConfig(r) PROVE OnTrial'
  BY <1>4 DEF EditConfig, Timers
<1>5. CASE UNCHANGED vars
  BY <1>5 DEF vars
<1>6. QED
  BY <1>2, <1>3, <1>4, <1>5 DEF Next

LEMMA ExpireStep ==
  Careful /\ "check" \notin Ignored /\ IInv /\ OnTrial /\ [Next]_vars
    => [\A c \in Cmd : timer[c] = "counting" /\ timer'[c] = "expired"
          => job[c].ruleset \in trial \cup job[c].found]_vars
<1> SUFFICES ASSUME Careful, "check" \notin Ignored, IInv, OnTrial, Next, NEW c \in Cmd,
                    timer[c] = "counting", timer'[c] = "expired"
             PROVE  job[c].ruleset \in trial \cup job[c].found
  OBVIOUS
<1>1. ~sentinel
  <2>1. ASSUME NEW d \in Cmd, CmdNext(d) PROVE timer'[c] \in {timer[c], "counting"}
    BY <2>1 DEF CmdNext, StartApply, StartDisable, TakeSnapshot, SaveSnapshot, DeleteTable,
       LoadRuleset, WriteSentinel, ClearSentinel, ForkTimer, Stop, Timers, TimerGoto,
       IInv, TypeOK
  <2>2. ASSUME NEW d \in Cmd, TimerNext(d) PROVE ~sentinel
    BY <2>2 DEF TimerNext, TimerConfirmed, TimerExpire, TimerRead, TimerDrop, TimerDropFails, TimerReplay, TimerStop,
       TimerGoto, IInv, TypeOK
  <2>3. QED
    BY <2>1, <2>2 DEF Next, EditConfig, Timers
<1>2. QED
  BY <1>1 DEF OnTrial

\* With operators who wait and a store that opens, a confirmation before the
\* deadline is seen.
THEOREM ConfirmationSeen == Careful /\ "check" \notin Ignored => (Spec => ExpiresOnlyOnTrial)
<1> SUFFICES ASSUME Careful, "check" \notin Ignored PROVE Spec => ExpiresOnlyOnTrial
  OBVIOUS
<1>1. Init => Forked /\ OnTrial
  BY DEF Init, Forked, OnTrial
<1>2. IInv => TypeOK
  BY DEF IInv
<1>3. Spec => []IInv
  BY Inductive
<1>4. QED
  BY <1>1, <1>2, <1>3, ForkedInductive, OnTrialInductive, ExpireStep, PTL
     DEF Spec, ExpiresOnlyOnTrial
----------------------------------------------------------------------------
(* What one command does when no other one is started *)

\* Operators wait, the daemon applies nothing; anything may fail.
Patient == Wait = {"command", "countdown"} /\ DaemonCmd = {}

\* Whoever is at work started last, and only an apply forks a countdown.
Order ==
  /\ \A c \in Busy : last = {c}
  /\ \A c \in Cmd : timer[c] # "off" => job[c].kind = "apply"

ConfirmOf(c) ==
  last = {c} /\ job[c].kind = "confirm" /\ Calm
    => /\ pc[c] = "load" => table = {}
       /\ pc[c] = "confirmAt" => table = {job[c].ruleset}
       /\ pc[c] = "done" => table = {job[c].ruleset} /\ sentinel

RollbackOf(c) ==
  last = {c} /\ job[c].kind = "apply"
    => /\ Live \subseteq {c}
       /\ pc[c] = "save" => table = job[c].found
       /\ pc[c] \in {"delete", "load", "clear", "fork"} => snapshot = job[c].found
       /\ timer[c] \in {"counting", "expired"} => snapshot = job[c].found
       /\ pc[c] = "load" => table = {}
       /\ pc[c] \in {"clear", "fork"} => table = {job[c].ruleset}
       /\ timer[c] \in {"counting", "expired", "drop", "retry", "overlay"}
            => table = {job[c].ruleset}
       /\ timer[c] \in {"drop", "redrop", "retry", "replay", "overlay"}
            => target[c] = job[c].found
       /\ timer[c] \in {"redrop", "replay"} => table = {}
       /\ timer[c] = "restored" => table = job[c].found
       /\ timer[c] = "merged"
            => table \in {job[c].found, job[c].found \cup {job[c].ruleset}}

ConfirmInv == \A c \in Cmd : ConfirmOf(c)
RollbackInv == \A c \in Cmd : RollbackOf(c)

OneInv == TypeOK /\ Forked /\ PcKind /\ Order /\ ConfirmInv /\ RollbackInv

LEMMA OneCmd ==
  ASSUME Patient, OneInv, NEW c \in Cmd, CmdNext(c)
  PROVE  PcKind' /\ Order' /\ ConfirmInv' /\ RollbackInv'
<1> USE DEF OneInv, TypeOK, Goto, TimerGoto
<1>1. ASSUME NEW kind \in Kind, NEW e \in BOOLEAN, StartApply(c, kind, e)
      PROVE  PcKind' /\ Order' /\ ConfirmInv' /\ RollbackInv'
  <2> USE <1>1 DEF StartApply
  <2>1. Busy = {} /\ (kind = "apply" => Live = {}) /\ kind # "disable"
    BY DEF Patient, MayStart, Waited
  <2>2. timer[c] = "off" /\ timer' = timer
    BY DEF Forked, Timers
  <2>3. PcKind'
    BY DEF PcKind, Kind
  <2>4. Order'
    BY <2>1, <2>2 DEF Order, Busy
  <2>5. ConfirmInv'
    BY <2>2 DEF ConfirmInv, ConfirmOf
  <2>6. RollbackInv'
    BY ZenonT(40), <2>1, <2>2 DEF RollbackInv, RollbackOf, Live
  <2>7. QED
    BY <2>3, <2>4, <2>5, <2>6
<1>2. CASE StartDisable(c)
  <2> USE <1>2 DEF StartDisable
  <2>1. Busy = {}
    BY DEF Patient, MayStart, Waited
  <2>2. timer[c] = "off" /\ timer' = timer
    BY DEF Forked, Timers
  <2>3. PcKind'
    BY DEF PcKind, Kind
  <2>4. Order'
    BY <2>1, <2>2 DEF Order, Busy
  <2>5. \A d \in Cmd : last' = {d} => job'[d].kind = "disable"
    OBVIOUS
  <2>6. ConfirmInv' /\ RollbackInv'
    BY <2>5 DEF ConfirmInv, RollbackInv, ConfirmOf, RollbackOf
  <2>7. QED
    BY <2>3, <2>4, <2>6
\* Any other step is of the one command at work.
<1>3. ASSUME pc[c] \in Step, last' = last,
             (PcKind /\ Order)', pc'[c] \in PC, ConfirmOf(c)', RollbackOf(c)'
      PROVE  PcKind' /\ Order' /\ ConfirmInv' /\ RollbackInv'
  <2>1. last = {c}
    BY <1>3 DEF Order, Busy
  <2>2. \A d \in Cmd : last' = {d} => d = c
    BY <1>3, <2>1
  <2>3. \A d \in Cmd \ {c} : ConfirmOf(d)' /\ RollbackOf(d)'
    BY <2>2 DEF ConfirmOf, RollbackOf
  <2>4. QED
    BY <1>3, <2>3 DEF ConfirmInv, RollbackInv
<1>4. ASSUME pc[c] \in Step
      PROVE  last = {c} /\ timer[c] = "off" /\ ConfirmOf(c) /\ RollbackOf(c)
  BY <1>4 DEF Order, Busy, Forked, ConfirmInv, RollbackInv, Step
<1>5. CASE TakeSnapshot(c)
  <2> USE <1>5 DEF TakeSnapshot
  <2>1. pc[c] \in Step /\ last' = last
    BY DEF Step
  <2>2. PcKind' /\ Order'
    BY <2>1 DEF PcKind, Order, Busy, Step, Kind, Timers
  <2>3. ConfirmOf(c)'
    BY <1>4, <2>1 DEF ConfirmOf, PcKind, Calm, Step, DB, Timers
  <2>4. RollbackOf(c)'
    BY <1>4, <2>1 DEF RollbackOf, PcKind, Live, Step, DB, Timers
  <2>5. QED
    BY <1>3, <2>1, <2>2, <2>3, <2>4 DEF PC, Step
<1>6. CASE SaveSnapshot(c)
  <2> USE <1>6 DEF SaveSnapshot
  <2>1. pc[c] \in Step /\ last' = last
    BY DEF Step
  <2>2. PcKind' /\ Order'
    BY <2>1 DEF PcKind, Order, Busy, Step, Kind, Timers
  <2>3. ConfirmOf(c)'
    BY <1>4, <2>1 DEF ConfirmOf, PcKind, Calm, Step, DB, Timers
  <2>4. RollbackOf(c)'
    BY <1>4, <2>1 DEF RollbackOf, PcKind, Live, Step, DB, Timers
  <2>5. QED
    BY <1>3, <2>1, <2>2, <2>3, <2>4 DEF PC, Step
<1>7. CASE DeleteTable(c)
  <2> USE <1>7 DEF DeleteTable
  <2>1. pc[c] \in Step /\ last' = last
    BY DEF Step
  <2>2. PcKind' /\ Order'
    BY <2>1 DEF PcKind, Order, Busy, Step, Kind, Timers
  <2>3. ConfirmOf(c)'
    BY <1>4, <2>1 DEF ConfirmOf, PcKind, Calm, Step, DB, Timers
  <2>4. RollbackOf(c)'
    BY <1>4, <2>1 DEF RollbackOf, PcKind, Live, Step, DB, Timers
  <2>5. QED
    BY <1>3, <2>1, <2>2, <2>3, <2>4 DEF PC, Step
<1>8. CASE LoadRuleset(c)
  <2> USE <1>8 DEF LoadRuleset
  <2>1. pc[c] \in Step /\ last' = last
    BY DEF Step
  <2>2. PcKind' /\ Order'
    BY <2>1 DEF PcKind, Order, Busy, Step, Kind, Timers
  <2>3. ConfirmOf(c)'
    BY <1>4, <2>1 DEF ConfirmOf, PcKind, Calm, Step, DB, Timers
  <2>4. RollbackOf(c)'
    BY <1>4, <2>1 DEF RollbackOf, PcKind, Live, Step, DB, Timers
  <2>5. QED
    BY <1>3, <2>1, <2>2, <2>3, <2>4 DEF PC, Step
<1>9. CASE WriteSentinel(c)
  <2> USE <1>9 DEF WriteSentinel
  <2>1. pc[c] \in Step /\ last' = last
    BY DEF Step
  <2>2. PcKind' /\ Order'
    BY <2>1 DEF PcKind, Order, Busy, Step, Kind, Timers
  <2>3. ConfirmOf(c)'
    BY <1>4, <2>1 DEF ConfirmOf, PcKind, Calm, Step, DB, Timers
  <2>4. RollbackOf(c)'
    BY <1>4, <2>1 DEF RollbackOf, PcKind, Live, Step, DB, Timers
  <2>5. QED
    BY <1>3, <2>1, <2>2, <2>3, <2>4 DEF PC, Step
<1>10. CASE ClearSentinel(c)
  <2> USE <1>10 DEF ClearSentinel
  <2>1. pc[c] \in Step /\ last' = last
    BY DEF Step
  <2>2. PcKind' /\ Order'
    BY <2>1 DEF PcKind, Order, Busy, Step, Kind, Timers
  <2>3. ConfirmOf(c)'
    BY <1>4, <2>1 DEF ConfirmOf, PcKind, Calm, Step, DB, Timers
  <2>4. RollbackOf(c)'
    BY <1>4, <2>1 DEF RollbackOf, PcKind, Live, Step, DB, Timers
  <2>5. QED
    BY <1>3, <2>1, <2>2, <2>3, <2>4 DEF PC, Step
<1>11. CASE ForkTimer(c)
  <2> USE <1>11 DEF ForkTimer
  <2>1. pc[c] \in Step /\ last' = last
    BY DEF Step
  <2>2. PcKind' /\ Order'
    BY <2>1 DEF PcKind, Order, Busy, Step, Kind, Timers
  <2>3. ConfirmOf(c)'
    BY <1>4, <2>1 DEF ConfirmOf, PcKind, Calm, Step, DB, Timers
  <2>4. RollbackOf(c)'
    BY <1>4, <2>1 DEF RollbackOf, PcKind, Live, Step, DB, Timers
  <2>5. QED
    BY <1>3, <2>1, <2>2, <2>3, <2>4 DEF PC, Step
<1>12. CASE Stop(c)
  <2> USE <1>12 DEF Stop
  <2>1. pc[c] \in Step /\ last' = last
    BY StopsAtStep
  <2>2. PcKind' /\ Order'
    BY <2>1 DEF PcKind, Order, Busy, Step, Kind, Timers
  <2>3. ConfirmOf(c)' /\ RollbackOf(c)'
    BY <1>4, <2>1 DEF ConfirmOf, RollbackOf, Calm, Live, Step, DB, Timers
  <2>4. QED
    BY <1>3, <2>1, <2>2, <2>3 DEF PC, Step
<1>13. QED
  BY <1>1, <1>2, <1>5, <1>6, <1>7, <1>8, <1>9, <1>10, <1>11, <1>12 DEF CmdNext

LEMMA OneTimer ==
  ASSUME Patient, OneInv, NEW c \in Cmd, TimerNext(c)
  PROVE  PcKind' /\ Order' /\ ConfirmInv' /\ RollbackInv'
<1> USE DEF Patient, OneInv, TypeOK, Forked, PcKind, Order, ConfirmInv, RollbackInv, ConfirmOf, RollbackOf, Calm,
            Busy, Live, TimerGoto, DB, Step, TimerStep, Kind
<1>1. CASE TimerConfirmed(c)
  BY <1>1 DEF TimerConfirmed
<1>2. CASE TimerExpire(c)
  BY <1>2 DEF TimerExpire
<1>3. CASE TimerRead(c)
  BY <1>3 DEF TimerRead
<1>4. CASE TimerDrop(c)
  BY <1>4 DEF TimerDrop
<1>5. CASE TimerReplay(c)
  <2> USE <1>5 DEF TimerReplay
  <2>1. PcKind' /\ Order' /\ ~Calm'
    OBVIOUS
  <2>2. ASSUME NEW d \in Cmd, last = {d}, job[d].kind = "apply" PROVE RollbackOf(d)'
    <3>1. d = c
      BY <2>2
    <3>2. /\ target[c] = job[c].found /\ Live \subseteq {c}
          /\ timer[c] = "replay" => table = {}
          /\ timer[c] = "overlay" => table = {job[c].ruleset}
      BY <2>2, <3>1
    <3>3. /\ timer[c] = "replay" => table' = job[c].found
          /\ timer[c] = "overlay" => table' \in {job[c].found, job[c].found \cup {job[c].ruleset}}
      <4>1. table' = IF job[c].found = {} THEN {} ELSE table \cup job[c].found
        BY <3>2
      <4>2. CASE timer[c] = "replay"
        <5>1. table = {}
          BY <3>2, <4>2
        <5>2. table' = IF job[c].found = {} THEN {} ELSE job[c].found
          BY <4>1, <5>1
        <5>3. QED
          BY <4>2, <5>2
      <4>3. CASE timer[c] = "overlay"
        BY <3>2, <4>1, <4>3
      <4>4. QED
        BY <4>2, <4>3
    <3>4. Live' \subseteq {c}
      BY <3>2
    <3>5. /\ pc[c] = "done"
          /\ (timer[c] = "replay" /\ timer'[c] = "restored") \/ (timer[c] = "overlay" /\ timer'[c] = "merged")
      OBVIOUS
    <3>6. QED
      BY <3>1, <3>3, <3>4, <3>5
  <2>3. QED
    BY <2>1, <2>2
<1>6. CASE TimerDropFails(c)
  BY <1>6 DEF TimerDropFails
<1>7. CASE TimerStop(c)
  <2>1. timer[c] \in TimerStep
    BY <1>7, StopsAtStep
  <2>2. PcKind' /\ Order'
    BY <1>7, <2>1 DEF TimerStop
  <2>3. Calm' => Calm
    BY <1>7, <2>1 DEF TimerStop
  <2>4. ConfirmInv'
    BY <1>7, <2>3 DEF TimerStop
  <2>5. RollbackInv'
    BY <1>7, <2>1 DEF TimerStop
  <2>6. QED
    BY <2>2, <2>4, <2>5
<1>8. QED
  BY <1>1, <1>2, <1>3, <1>4, <1>5, <1>6, <1>7 DEF TimerNext

LEMMA OneInductive == Patient => (Spec => []OneInv)
<1> SUFFICES ASSUME Patient PROVE Spec => []OneInv
  OBVIOUS
<1>1. Init => OneInv
  BY InitType DEF Init, OneInv, Forked, PcKind, Order, ConfirmInv, RollbackInv, ConfirmOf, RollbackOf,
     Busy, Step
<1>2. OneInv /\ [Next]_vars => OneInv'
  <2> SUFFICES ASSUME OneInv, [Next]_vars PROVE OneInv'
    OBVIOUS
  <2>1. TypeOK' /\ Forked'
    <3>1. ASSUME NEW r \in Ruleset, EditConfig(r) PROVE TypeOK'
      BY <3>1 DEF EditConfig, OneInv, TypeOK, Timers
    <3>2. CASE UNCHANGED vars
      BY <3>2, ForkedInductive DEF vars, OneInv, TypeOK
    <3>3. QED
      BY <3>1, <3>2, CmdType, TimerType, ForkedInductive DEF Next, OneInv
  <2>2. ASSUME NEW r \in Ruleset, EditConfig(r)
        PROVE  PcKind' /\ Order' /\ ConfirmInv' /\ RollbackInv'
    BY <2>2 DEF EditConfig, OneInv, PcKind, Order, ConfirmInv, RollbackInv, ConfirmOf, RollbackOf, Calm, Busy,
       Live, Timers
  <2>3. CASE UNCHANGED vars
    BY <2>1, <2>3 DEF vars, OneInv, PcKind, Order, ConfirmInv, RollbackInv, ConfirmOf, RollbackOf, Calm, Busy, Live
  <2>4. QED
    BY <2>1, <2>2, <2>3, OneCmd, OneTimer DEF Next, OneInv
<1>3. QED
  BY <1>1, <1>2, PTL DEF Spec

\* What a countdown puts back is what its command found, whatever else fails or
\* is killed: the snapshot is stored before the table is deleted, and a later
\* command would have stored its own.  When both deletes failed unnoticed, the
\* rules of the trial are still beside it.
THEOREM RollsBackExactly == Patient => (Spec => []RollbackIsExact)
<1>1. OneInv => RollbackIsExact
  BY DEF OneInv, Order, RollbackInv, RollbackOf, RollbackIsExact
<1>2. QED
  BY <1>1, OneInductive, PTL

\* A countdown that is going on runs out only if it finds no confirmation.
LEMMA StaysCalm ==
  ASSUME "check" \notin Ignored, OneInv, Calm, [Next]_vars, sentinel
  PROVE  Calm'
<1> USE DEF OneInv, TypeOK, Calm, TimerGoto
<1>1. ASSUME NEW c \in Cmd, CmdNext(c) PROVE Calm'
  BY <1>1 DEF CmdNext, StartApply, StartDisable, TakeSnapshot, SaveSnapshot, DeleteTable,
     LoadRuleset, WriteSentinel, ClearSentinel, ForkTimer, Stop, Timers
<1>2. ASSUME NEW c \in Cmd, TimerNext(c) PROVE Calm'
  <2>1. timer[c] = "counting"
    BY <1>2, StopsAtStep
       DEF TimerNext, TimerConfirmed, TimerExpire, TimerRead, TimerDrop, TimerDropFails,
           TimerReplay, TimerStop, TimerStep
  <2>2. timer' = [timer EXCEPT ![c] = "off"]
    BY <1>2, <2>1
       DEF TimerNext, TimerConfirmed, TimerExpire, TimerRead, TimerDrop, TimerDropFails,
           TimerReplay, TimerStop
  <2>3. QED
    BY <2>2
<1>3. QED
  BY <1>1, <1>2 DEF Next, EditConfig, Timers, vars

LEMMA ConfirmStep ==
  "check" \notin Ignored /\ OneInv /\ OneInv' /\ [Next]_vars
    => [\A c \in Cmd :
          /\ job[c].kind = "confirm" /\ pc'[c] = "done"
          /\ last = {c} /\ last' = {c} /\ Calm
          => Calm' /\ table' = {job[c].ruleset}]_vars
<1> SUFFICES ASSUME "check" \notin Ignored, OneInv, OneInv', Next, NEW c \in Cmd,
                    job[c].kind = "confirm", pc'[c] = "done",
                    last = {c}, last' = {c}, Calm
             PROVE  Calm' /\ table' = {job[c].ruleset}
  OBVIOUS
<1> DEFINE Kept == job'[c].kind = "confirm" /\ job'[c].ruleset = job[c].ruleset
           Mine == pc[c] # "done" => timer' = timer
<1>1. Kept /\ Mine
  <2> USE DEF OneInv, TypeOK, Goto, Timers
  <2>1. ASSUME NEW d \in Cmd, CmdNext(d) PROVE Kept /\ Mine
    <3>1. CASE d = c
      BY <2>1, <3>1 DEF CmdNext, StartApply, StartDisable, TakeSnapshot, SaveSnapshot,
         DeleteTable, LoadRuleset, WriteSentinel, ClearSentinel, ForkTimer, Stop, PcKind
    <3>2. CASE d # c
      BY <2>1, <3>2 DEF CmdNext, StartApply, StartDisable, TakeSnapshot, SaveSnapshot,
         DeleteTable, LoadRuleset, WriteSentinel, ClearSentinel, ForkTimer, Stop
    <3>3. QED
      BY <3>1, <3>2
  <2>2. ASSUME NEW d \in Cmd, TimerNext(d) PROVE Kept /\ Mine
    BY <2>2 DEF TimerNext, TimerConfirmed, TimerExpire, TimerRead, TimerDrop, TimerDropFails,
       TimerReplay, TimerStop
  <2>3. QED
    BY <2>1, <2>2 DEF Next, EditConfig
<1>2. Calm'
  <2>1. CASE pc[c] = "done"
    <3>1. sentinel
      BY <2>1 DEF OneInv, ConfirmInv, ConfirmOf
    <3>2. QED
      BY <3>1, StaysCalm
  <2>2. CASE pc[c] # "done"
    BY <1>1, <2>2 DEF Calm
  <2>3. QED
    BY <2>1, <2>2
<1>3. QED
  BY <1>1, <1>2 DEF OneInv, ConfirmInv, ConfirmOf

\* After `apply --confirm` its rules alone are in force for as long as no other
\* command is started, if countdowns can open the store: one that is going on
\* finds the confirmation.  Commands and countdowns may be killed anywhere.
THEOREM ConfirmIsFinal ==
  Patient /\ "check" \notin Ignored => (Spec => ConfirmSettles)
<1> SUFFICES ASSUME Patient, "check" \notin Ignored PROVE Spec => ConfirmSettles
  OBVIOUS
<1>1. Spec => []OneInv
  BY OneInductive
<1>2. QED
  BY <1>1, ConfirmStep, PTL DEF Spec, ConfirmSettles
----------------------------------------------------------------------------
(* The firewall is not lost *)

\* Nobody disables, no command fails, and every trial begins with a table: what
\* FirewallNotLost asks of the end held at every time before.
Sound ==
  \A c \in Cmd :
    /\ pc[c] # "stopped" /\ job[c].kind # "disable"
    /\ job[c].kind = "apply" /\ pc[c] \in {"save", "delete", "load", "clear", "fork", "done"}
         => job[c].found # {}

Fresh == \A c \in Cmd : pc[c] = "new" => job[c].kind = "apply"

\* There is a table unless somebody is about to load one, or nobody ever has.
Tabled ==
  table = {} => \/ \E c \in Cmd : pc[c] = "load" \/ timer[c] \in {"redrop", "replay"}
                \/ \A c \in Cmd : pc[c] \in {"new", "snapshot", "save", "delete"}

\* What is stored or read to be put back is a table.
Snapped ==
  \A c \in Cmd :
    /\ pc[c] \in {"clear", "fork"} \/ timer[c] \in {"counting", "expired"} => snapshot # {}
    /\ timer[c] \in {"drop", "redrop", "replay"} => target[c] # {}

\* So is what a command is about to store while a countdown may still read it.
Found ==
  \A c, d \in Cmd :
    pc[c] = "save" /\ timer[d] \in {"counting", "expired"} => job[c].found # {}

Held == Tabled /\ Snapped /\ Found

LostInv == Fresh /\ (Sound => Held)

LEMMA LostCmd ==
  ASSUME Careful, IInv, Forked, LostInv, NEW c \in Cmd, CmdNext(c)
  PROVE  LostInv'
<1>1. Fresh'
  BY ProtectAssumption
     DEF LostInv, Fresh, CmdNext, StartApply, StartDisable, TakeSnapshot, SaveSnapshot,
         DeleteTable, LoadRuleset, WriteSentinel, ClearSentinel, ForkTimer, Stop, Goto,
         IInv, TypeOK, Step
<1> SUFFICES ASSUME Sound' PROVE Held'
  BY <1>1 DEF LostInv
<1>2. TypeOK /\ OneAtATime /\ PcKind /\ CommandInv
  BY DEF IInv
<1>3. \A d \in Cmd : pc[d] \in {"snapshot", "save", "delete", "load", "confirmAt", "clear", "fork"}
        => d \in Busy
  BY DEF Busy, Step
<1>4. \A d \in Cmd : timer[d] \in {"counting", "expired", "drop", "redrop", "replay"}
        => d \in Live
  BY DEF Live, TimerStep
<1> USE <1>2 DEF TypeOK, Goto, TimerGoto
<1>5. ASSUME NEW kind \in Kind, NEW e \in BOOLEAN, StartApply(c, kind, e)
      PROVE  Held'
  <2> USE <1>5 DEF StartApply
  <2>1. Sound
    BY DEF Sound, LostInv, Fresh
  <2>2. Held
    BY <2>1 DEF LostInv
  <2>3. timer' = timer /\ target' = target
    BY DEF Timers
  <2>4. Tabled'
    BY <2>2, <2>3 DEF Held, Tabled
  <2>5. Snapped' /\ Found'
    BY <2>2, <2>3 DEF Held, Snapped, Found
  <2>6. QED
    BY <2>4, <2>5 DEF Held
<1>6. CASE StartDisable(c)
  BY <1>6 DEF StartDisable, Sound
<1>7. CASE Stop(c)
  BY <1>7 DEF Stop, Sound
<1>8. CASE TakeSnapshot(c)
  <2> USE <1>8 DEF TakeSnapshot
  <2>1. Sound
    BY DEF Sound
  <2>2. Held
    BY <2>1 DEF LostInv
  <2>3. timer' = timer /\ target' = target /\ table' = table /\ snapshot' = snapshot
    BY DEF Timers, DB
  <2>4. Tabled'
    BY <2>2, <2>3 DEF Held, Tabled
  <2>5. Snapped'
    BY <2>2, <2>3 DEF Held, Snapped
  \* While a countdown goes on, and nobody else is at work, there is a table.
  <2>6. ASSUME NEW d \in Cmd, timer[d] \in {"counting", "expired"} PROVE table # {}
    <3>1. \A f \in Cmd : pc[f] # "load" /\ timer[f] \notin {"redrop", "replay"}
      BY <1>3, <1>4, <2>6 DEF OneAtATime
    <3>2. pc[d] = "done"
      BY <2>6 DEF Forked
    <3>3. QED
      BY <2>2, <3>1, <3>2 DEF Held, Tabled
  <2>7. Found'
    BY <1>3, <2>3, <2>6 DEF Found, OneAtATime
  <2>8. QED
    BY <2>4, <2>5, <2>7 DEF Held
<1>9. CASE SaveSnapshot(c)
  <2> USE <1>9 DEF SaveSnapshot
  <2>1. Sound
    BY DEF Sound
  <2>2. Held
    BY <2>1 DEF LostInv
  <2>3. timer' = timer /\ target' = target /\ table' = table
    BY DEF Timers
  <2>4. Tabled'
    BY <2>2, <2>3 DEF Held, Tabled
  <2>5. \A d \in Cmd : pc'[d] \notin {"clear", "fork"}
    BY <1>3 DEF OneAtATime
  <2>6. Snapped'
    BY <2>2, <2>3, <2>5 DEF Held, Snapped, Found
  <2>7. Found'
    BY <2>2, <2>3 DEF Held, Found
  <2>8. QED
    BY <2>4, <2>6, <2>7 DEF Held
<1>10. CASE DeleteTable(c)
  <2> USE <1>10 DEF DeleteTable
  <2>1. Sound
    BY DEF Sound
  <2>2. Held
    BY <2>1 DEF LostInv
  <2>3. timer' = timer /\ target' = target /\ snapshot' = snapshot /\ pc'[c] = "load"
    BY <2>1 DEF Timers, DB, Sound
  <2>4. Tabled'
    BY <2>3 DEF Tabled
  <2>5. Snapped'
    BY <2>2, <2>3 DEF Held, Snapped
  <2>7. Found'
    BY <2>2, <2>3 DEF Held, Found
  <2>8. QED
    BY <2>4, <2>5, <2>7 DEF Held
<1>11. CASE LoadRuleset(c)
  <2> USE <1>11 DEF LoadRuleset
  <2>1. Sound
    BY DEF Sound
  <2>2. Held
    BY <2>1 DEF LostInv
  <2>3. timer' = timer /\ target' = target /\ snapshot' = snapshot /\ table' # {}
    BY DEF Timers, DB
  <2>4. Tabled'
    BY <2>3 DEF Tabled
  <2>5. job[c].kind = "apply" => snapshot # {}
    BY <2>1 DEF Sound, CommandInv
  <2>6. Snapped'
    BY <2>2, <2>3, <2>5 DEF Held, Snapped, PcKind
  <2>7. Found'
    BY <2>2, <2>3 DEF Held, Found
  <2>8. QED
    BY <2>4, <2>6, <2>7 DEF Held
<1>12. CASE WriteSentinel(c)
  <2> USE <1>12 DEF WriteSentinel
  <2>1. Sound
    BY DEF Sound
  <2>2. Held
    BY <2>1 DEF LostInv
  <2>3. timer' = timer /\ target' = target /\ snapshot' = snapshot /\ table' = table
    BY DEF Timers
  <2>4. Tabled'
    BY <2>2, <2>3 DEF Held, Tabled
  <2>5. Snapped'
    BY <2>2, <2>3 DEF Held, Snapped
  <2>7. Found'
    BY <2>2, <2>3 DEF Held, Found
  <2>8. QED
    BY <2>4, <2>5, <2>7 DEF Held
<1>13. CASE ClearSentinel(c)
  <2> USE <1>13 DEF ClearSentinel
  <2>1. Sound
    BY DEF Sound
  <2>2. Held
    BY <2>1 DEF LostInv
  <2>3. timer' = timer /\ target' = target /\ snapshot' = snapshot /\ table' = table
    BY DEF Timers
  <2>4. Tabled'
    BY <2>2, <2>3 DEF Held, Tabled
  <2>5. Snapped'
    BY <2>2, <2>3 DEF Held, Snapped
  <2>7. Found'
    BY <2>2, <2>3 DEF Held, Found
  <2>8. QED
    BY <2>4, <2>5, <2>7 DEF Held
<1>14. CASE ForkTimer(c)
  <2> USE <1>14 DEF ForkTimer
  <2>1. Sound
    BY DEF Sound
  <2>2. Held
    BY <2>1 DEF LostInv
  <2>3. target' = target /\ snapshot' = snapshot /\ table' = table
    BY DEF DB
  <2>4. timer[c] = "off" /\ \A d \in Cmd : pc[d] # "save"
    BY <1>3 DEF Forked, OneAtATime
  <2>5. Tabled'
    BY <2>2, <2>3, <2>4 DEF Held, Tabled
  <2>6. Snapped'
    BY <2>2, <2>3 DEF Held, Snapped
  <2>7. Found'
    BY <2>4 DEF Found
  <2>8. QED
    BY <2>5, <2>6, <2>7 DEF Held
<1>15. QED
  BY <1>5, <1>6, <1>7, <1>8, <1>9, <1>10, <1>11, <1>12, <1>13, <1>14 DEF CmdNext

LEMMA LostTimer ==
  ASSUME Careful, IInv, Forked, LostInv, NEW c \in Cmd, TimerNext(c)
  PROVE  LostInv'
<1>1. pc' = pc /\ job' = job /\ snapshot' = snapshot
  BY DEF TimerNext, TimerConfirmed, TimerExpire, TimerRead, TimerDrop, TimerDropFails, TimerReplay, TimerStop, DB
<1>2. Fresh' /\ (Sound' => Sound)
  BY <1>1 DEF LostInv, Fresh, Sound
<1> SUFFICES ASSUME Held PROVE Held'
  BY <1>2 DEF LostInv
<1>3. TypeOK /\ ~TimerStop(c) /\ ~TimerDropFails(c) /\ timer[c] \notin {"retry", "overlay"}
  BY StopsAtStep DEF IInv, CountdownInv, Careful, TimerStop, TimerDropFails, TimerStep
<1> USE <1>1, <1>3 DEF TypeOK, TimerGoto, Held
<1>4. CASE TimerConfirmed(c) \/ TimerExpire(c)
  BY <1>4 DEF TimerConfirmed, TimerExpire, Tabled, Snapped, Found
<1>5. CASE TimerRead(c)
  BY <1>5 DEF TimerRead, Tabled, Snapped, Found
<1>6. CASE TimerDrop(c)
  BY <1>6 DEF TimerDrop, Tabled, Snapped, Found
<1>7. CASE TimerReplay(c)
  <2>1. table' # {}
    <3>1. target[c] # {}
      BY <1>7 DEF TimerReplay, Snapped
    <3>2. QED
      BY <1>7, <3>1 DEF TimerReplay
  <2>2. Snapped' /\ Found'
    BY <1>7 DEF TimerReplay, Snapped, Found
  <2>3. QED
    BY <2>1, <2>2 DEF Tabled
<1>8. QED
  BY <1>4, <1>5, <1>6, <1>7 DEF TimerNext

LEMMA LostInductive ==
  Careful /\ IInv /\ Forked /\ LostInv /\ [Next]_vars => LostInv'
<1>1. ASSUME NEW r \in Ruleset, EditConfig(r), LostInv PROVE LostInv'
  BY <1>1 DEF EditConfig, LostInv, Fresh, Sound, Held, Tabled, Snapped, Found, Timers
<1>2. ASSUME UNCHANGED vars, LostInv PROVE LostInv'
  BY <1>2 DEF vars, LostInv, Fresh, Sound, Held, Tabled, Snapped, Found
<1>3. QED
  BY <1>1, <1>2, LostCmd, LostTimer DEF Next

\* With operators who wait, a countdown that crosses a confirming command
\* leaves a table behind: the snapshot it reads is never that of the gap between
\* its own delete and load, nor between the command's.
THEOREM TableSurvives == Careful => (Spec => []FirewallNotLost)
<1> SUFFICES ASSUME Careful PROVE Spec => []FirewallNotLost
  OBVIOUS
<1>1. Init => Forked /\ LostInv
  BY DEF Init, Forked, LostInv, Fresh, Held, Tabled, Snapped, Found
<1>2. TypeOK /\ LostInv => FirewallNotLost
  <2> SUFFICES ASSUME TypeOK, LostInv, Quiescent, NEW c \in Cmd, pc[c] = "done",
                      \A d \in Cmd : pc[d] # "stopped" /\ job[d].kind # "disable",
                      \A d \in Cmd : pc[d] = "done" /\ job[d].kind = "apply" => job[d].found # {}
               PROVE  table # {}
    BY DEF FirewallNotLost
  <2>1. \A d \in Cmd : pc[d] \in {"new", "done"}
    BY DEF Quiescent, Busy, TypeOK, PC
  <2>2. Sound
    BY <2>1 DEF Sound
  <2>3. \A d \in Cmd : timer[d] \notin {"redrop", "replay"}
    BY DEF Quiescent, Live, TimerStep
  <2>4. QED
    BY <2>1, <2>2, <2>3 DEF LostInv, Held, Tabled
<1>3. IInv => TypeOK
  BY DEF IInv
<1>4. Spec => []IInv
  BY Inductive
<1>5. QED
  BY <1>1, <1>2, <1>3, <1>4, ForkedInductive, LostInductive, PTL DEF Spec
=============================================================================
