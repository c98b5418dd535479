---------------------------- MODULE UpdateProofs ----------------------------
(***************************************************************************)
(* What `nwall update` promises, proved for any units, releases and number *)
(* of updates.                                                             *)
(***************************************************************************)
EXTENDS Update, TLAPS

\* What the steps that install have done so far.
Installing ==
  /\ pc \in {"backup", "survey", "bin"} => bin = before.bin /\ file = before.file
  /\ pc \in {"unit", "legacy", "restart", "health"} => bin = target
  /\ pc \in {"legacy", "restart", "health"} => file[Service] = target
  /\ pc = "legacy" => todo \subseteq Legacy /\ \A u \in Legacy \ todo : file[u] = None
  /\ pc \in {"restart", "health"} => loaded = file /\ \A u \in Legacy : file[u] = None
  /\ pc = "health" /\ services # {} => Service \in on /\ runs[Service] \in {None, target}

\* What the steps that restore have done so far.
Restoring ==
  /\ pc \in {"restoreUnits", "restoreRestart"} => bin = before.bin
  /\ pc = "restoreUnits" => \A u \in Unit \ todo : file[u] = before.file[u]
  /\ pc = "restoreRestart" =>
       /\ file = before.file
       /\ ~mishap => loaded = file
       /\ \A u \in services \ todo : u \in on /\ runs[u] \in {None, bin}

\* The backup is of the installation that the update found.
Kept ==
  pc \notin {"idle", "backup"} => backup = [bin |-> before.bin, file |-> before.file]

IInv ==
  /\ TypeOK
  /\ pc # "idle" => outcome = "none"
  /\ Kept
  /\ Installing
  /\ Restoring
  /\ RollbackExact
  /\ SuccessIsWhole

-----------------------------------------------------------------------------

LEMMA Begins == Init => IInv
<1> USE UpdateAssumption
<1>1. Init => TypeOK
  <2> SUFFICES ASSUME Init PROVE TypeOK
    OBVIOUS
  <2>1. PICK r \in Release, installed \in SUBSET Unit :
          /\ bin = r /\ target = r
          /\ file = [u \in Unit |-> IF u \in installed THEN r ELSE None]
          /\ enabled \in SUBSET installed /\ on \in SUBSET installed
          /\ runs = [u \in Unit |-> IF u \in on THEN r ELSE None]
    BY DEF Init
  <2>2. file \in PerUnit /\ runs \in PerUnit /\ loaded \in PerUnit
    BY <2>1 DEF Init, PerUnit
  <2>3. before \in Installation
    BY <2>1, <2>2 DEF Init, Installation
  <2>4. on \in SUBSET Unit /\ enabled \in SUBSET Unit
    BY <2>1
  <2>5. mishap \in BOOLEAN /\ outcome = "none" /\ pc = "idle" /\ count = 0
    BY DEF Init
  <2>6. todo = {} /\ services = {} /\ backup = None
    BY DEF Init
  <2> QED
    BY <2>1, <2>2, <2>3, <2>4, <2>5, <2>6 DEF TypeOK, PC
<1>2. Init => pc = "idle" /\ outcome = "none"
  BY DEF Init
<1>3. pc = "idle" /\ outcome = "none" =>
        Kept /\ Installing /\ Restoring /\ RollbackExact /\ SuccessIsWhole
  BY DEF Kept, Installing, Restoring, RollbackExact, SuccessIsWhole
<1> QED
  BY <1>1, <1>2, <1>3 DEF IInv

\* Steps of systemd.
LEMMA SystemdStep ==
  ASSUME IInv, NEW u \in Unit, Die(u) \/ Revive(u)
  PROVE  IInv'
<1> USE UpdateAssumption DEF Die, Revive, Installed, Plan
<1>1. TypeOK'
  BY DEF IInv, TypeOK, PerUnit
<1>2. \A w \in Unit : runs'[w] \in {runs[w], None, bin}
  BY DEF IInv, TypeOK, PerUnit
<1>3. Kept' /\ (pc' # "idle" => outcome' = "none")
  BY DEF IInv, Kept
<1>4. Installing'
  BY <1>2 DEF IInv, Installing, Unit
<1>5. Restoring'
  BY <1>2 DEF IInv, TypeOK, Restoring
<1>6. RollbackExact'
  BY <1>2 DEF IInv, TypeOK, RollbackExact
<1>7. SuccessIsWhole'
  <2>1. UNCHANGED <<pc, outcome, bin, file, loaded, target, services, on>>
    OBVIOUS
  <2>2. pc = "idle" /\ outcome = "updated" => bin = target
    BY DEF IInv, SuccessIsWhole
  <2>3. runs'[Service] \in {runs[Service], None, bin}
    BY <1>2 DEF Unit
  <2> QED
    BY <2>1, <2>2, <2>3 DEF IInv, SuccessIsWhole
<1> QED
  BY <1>1, <1>3, <1>4, <1>5, <1>6, <1>7 DEF IInv

LEMMA BeginTypes ==
  ASSUME TypeOK, NEW r \in Release, Begin(r)
  PROVE  TypeOK'
<1>1. before' \in Installation
  BY DEF Begin, TypeOK, Installation, Installed, Systemd
<1>2. mishap' \in BOOLEAN /\ outcome' = "none" /\ pc' = "backup"
  BY DEF Begin, Goto
<1>3. count' \in Nat
  BY DEF Begin, TypeOK
<1> QED
  BY <1>1, <1>2, <1>3 DEF Begin, TypeOK, PC, Installed, Systemd

\* Steps that install.
LEMMA ForwardStep ==
  ASSUME IInv, Forward
  PROVE  IInv'
<1> USE UpdateAssumption DEF IInv, Goto, Installed, Systemd, Plan
<1> USE DEF TypeOK, PerUnit, Installation, PC, Kept, Installing, Restoring,
            RollbackExact, SuccessIsWhole
<1>1. ASSUME NEW r \in Release, Begin(r) PROVE IInv'
  <2>1. before' \in Installation /\ before'.bin = bin /\ before'.file = file
    BY <1>1 DEF Begin
  <2>2. TypeOK'
    BY <1>1, BeginTypes
  <2> QED
    BY <1>1, <2>1, <2>2 DEF Begin
<1>2. CASE Backup
  BY <1>2 DEF Backup
<1>3. CASE BackupFails
  BY <1>3 DEF BackupFails
<1>4. CASE Survey
  BY <1>4 DEF Survey, ActiveOrEnabled
<1>5. CASE InstallBin
  BY <1>5 DEF InstallBin
<1>6. CASE InstallUnit
  BY <1>6 DEF InstallUnit, Unit
<1>7. ASSUME NEW u \in Legacy, RemoveLegacy(u) PROVE IInv'
  BY <1>7 DEF RemoveLegacy, Unit
<1>8. CASE Reload
  BY <1>8 DEF Reload
<1>9. CASE Restart
  BY <1>9 DEF Restart, Started, Unit
<1>10. CASE RestartFails
  BY <1>10 DEF RestartFails, NotStarted, Unit
<1>11. CASE Healthy
  <2>1. TypeOK' /\ Kept' /\ Installing' /\ Restoring' /\ RollbackExact'
    BY <1>11 DEF Healthy
  <2>2. file \in [Unit -> Release \cup {None}] /\ \A u \in Legacy : file[u] = None
    BY <1>11 DEF Healthy
  <2>3. file = [u \in Unit |-> IF u = Service THEN target ELSE None]
    BY <1>11, <2>2 DEF Healthy, Unit
  <2>4. SuccessIsWhole'
    BY <1>11, <2>3 DEF Healthy
  <2> QED
    BY <1>11, <2>1, <2>4 DEF Healthy
<1>12. CASE Fail
  BY <1>12 DEF Fail
<1> QED
  BY <1>1, <1>2, <1>3, <1>4, <1>5, <1>6, <1>7, <1>8, <1>9, <1>10, <1>11, <1>12 DEF Forward

\* Steps that restore.
LEMMA RollbackStep ==
  ASSUME IInv, Rollback
  PROVE  IInv'
<1> USE UpdateAssumption DEF IInv, Goto, Installed, Systemd, Plan, RolledBack
<1> USE DEF TypeOK, PerUnit, Installation, PC, Kept, Installing, Restoring,
            RollbackExact, SuccessIsWhole
<1>1. CASE RestoreBin
  BY <1>1 DEF RestoreBin
<1>2. CASE RestoreReload
  <2>1. file = before.file
    <3>1. \A u \in Unit : file[u] = before.file[u]
      BY <1>2 DEF RestoreReload
    <3>2. file \in [Unit -> Release \cup {None}] /\ before.file \in [Unit -> Release \cup {None}]
      OBVIOUS
    <3> QED
      BY <3>1, <3>2
  <2>2. TypeOK' /\ Kept' /\ Installing' /\ RollbackExact' /\ SuccessIsWhole'
    BY <1>2 DEF RestoreReload
  <2>3. Restoring'
    BY <1>2, <2>1 DEF RestoreReload
  <2> QED
    BY <1>2, <2>2, <2>3 DEF RestoreReload
<1>3. CASE Restored
  BY <1>3 DEF Restored
<1>4. CASE RestoreFails
  BY <1>4 DEF RestoreFails
<1>5. ASSUME NEW u \in Unit, RestoreUnit(u) PROVE IInv'
  BY <1>5 DEF RestoreUnit
<1>6. ASSUME NEW u \in Unit, RestoreRestart(u) PROVE IInv'
  BY <1>6 DEF RestoreRestart, First, Started
<1>7. ASSUME NEW u \in Unit, RestoreRestartFails(u) PROVE IInv'
  BY <1>7 DEF RestoreRestartFails, NotStarted
<1> QED
  BY <1>1, <1>2, <1>3, <1>4, <1>5, <1>6, <1>7 DEF Rollback

LEMMA KillStep ==
  ASSUME IInv, Kill
  PROVE  IInv'
BY DEF Kill, Goto, Installed, Systemd, Plan, IInv, TypeOK, PC, Kept, Installing, Restoring,
       RollbackExact, SuccessIsWhole

THEOREM Invariant == Spec => []IInv
<1>1. IInv /\ [Next]_vars => IInv'
  <2> SUFFICES ASSUME IInv, [Next]_vars
               PROVE  IInv'
    OBVIOUS
  <2>1. CASE Next
    BY <2>1, SystemdStep, ForwardStep, RollbackStep, KillStep DEF Next
  <2>2. CASE UNCHANGED vars
    BY <2>2 DEF vars, Installed, Systemd, Plan, IInv, TypeOK, Kept, Installing, Restoring,
                RollbackExact, SuccessIsWhole
  <2> QED
    BY <2>1, <2>2
<1> QED
  BY <1>1, Begins, PTL DEF Spec

-----------------------------------------------------------------------------

\* Types: files, systemd and the update keep their types; a roll-back always
\* has a backup to copy from.
THEOREM TypeCorrect == Spec => []TypeOK
<1>1. IInv => TypeOK
  BY DEF IInv
<1> QED
  BY <1>1, Invariant, PTL

\* A roll-back of restoreInstall in which no step failed restores the files
\* that the update found, and restarts with them every unit that was active or
\* enabled when it began; what it leaves of other units is not in the theorem.
THEOREM RollsBackExactly == Spec => []RollbackExact
<1>1. IInv => RollbackExact
  BY DEF IInv
<1> QED
  BY <1>1, Invariant, PTL

\* An update that says it succeeded left the files of one release and, where a
\* unit was active or enabled, the service of that release to be active; the
\* processes of units it removed may go on.
THEOREM SucceedsWhole == Spec => []SuccessIsWhole
<1>1. IInv => SuccessIsWhole
  BY DEF IInv
<1> QED
  BY <1>1, Invariant, PTL
=============================================================================
