------------------------------- MODULE Update -------------------------------
(***************************************************************************)
(* `nwall update` (internal/cli/admin.go).                                 *)
(*                                                                         *)
(* An update copies the installed binary and unit files to a backup,       *)
(* replaces them, removes the unit files of older releases, restarts the   *)
(* service and looks whether it is well.  When a step fails it puts the    *)
(* backup in place and restarts what was active or enabled; an error of    *)
(* that is ignored.  systemd goes by the unit files it read last, keeps a  *)
(* process that lost its file, and restarts one that fails with whatever   *)
(* binary there is.                                                        *)
(*                                                                         *)
(* Downloads, checksums and the contents of releases are left out: a       *)
(* release that is well or not is a health check that passes or does not.  *)
(***************************************************************************)
EXTENDS Naturals

CONSTANTS
  Service,      \* nwall.service
  Legacy,       \* the units of older releases
  Release,      \* the releases there are
  MaxUpdates,   \* bound on the updates begun
  None          \* no release: no file, nothing loaded, no process

ASSUME UpdateAssumption ==
  /\ Service \notin Legacy
  /\ None \notin Release
  /\ MaxUpdates \in Nat

Unit == Legacy \cup {Service}
PerUnit == [Unit -> Release \cup {None}]

VARIABLES
  bin,       \* the release of the binary
  file,      \* the release of each unit file
  loaded,    \* what systemd has read of them
  runs,      \* the release of the binary each unit's process was made from
  on,        \* the units systemd is to keep active
  enabled,   \* the units that are enabled
  pc,        \* the next step of the update
  todo,      \* the units a step has not come to yet
  target,    \* the release that is installed
  backup,    \* copies of the binary and of the unit files
  services,  \* originalServices
  before,    \* history: the files that the update found
  outcome,   \* history: how the last update ended
  mishap,    \* history: a step of the roll-back failed
  count      \* history: how many updates were begun

Installed == <<bin, file>>
Systemd == <<loaded, runs, on, enabled>>
Plan == <<target, backup, services, before>>
vars == <<Installed, Systemd, pc, todo, Plan, outcome, mishap, count>>

Installation == [bin : Release, file : PerUnit]

PC == {"idle", "backup", "survey", "bin", "unit", "legacy", "restart", "health",
       "restoreBin", "restoreUnits", "restoreRestart"}

TypeOK ==
  /\ bin \in Release
  /\ file \in PerUnit /\ loaded \in PerUnit /\ runs \in PerUnit
  /\ on \in SUBSET Unit /\ enabled \in SUBSET Unit
  /\ pc \in PC
  /\ todo \in SUBSET Unit
  /\ target \in Release
  /\ backup \in Installation \cup {None}
  /\ services \in SUBSET Unit
  /\ before \in Installation
  /\ outcome \in {"none", "updated", "rolledBack"}
  /\ mishap \in BOOLEAN
  /\ count \in Nat

----------------------------------------------------------------------------
(* Helpers *)

Goto(step) == pc' = step

\* The order of allKnownUnits: the service, then the others.
First(u) == u \in todo /\ (Service \in todo => u = Service)

\* `systemctl restart`: an old process ends, one of the binary there is begins.
Started(u) ==
  /\ loaded[u] # None
  /\ runs' = [runs EXCEPT ![u] = bin]
  /\ on' = on \cup {u}
  /\ UNCHANGED <<loaded, enabled>>

\* A unit without a file keeps its process, one that fails to start has none.
NotStarted(u) ==
  /\ IF loaded[u] = None THEN UNCHANGED <<runs, on>>
     ELSE runs' = [runs EXCEPT ![u] = None] /\ on' = on \ {u}
  /\ UNCHANGED <<loaded, enabled>>

\* activeOrEnabledUnits: a unit is enabled if it has a file, active if it has
\* a process.
ActiveOrEnabled == {u \in Unit : (u \in enabled /\ file[u] # None) \/ runs[u] # None}

----------------------------------------------------------------------------

\* A release is installed, with units of its own or of before, some active.
Init ==
  \E r \in Release, installed \in SUBSET Unit :
    /\ bin = r
    /\ file = [u \in Unit |-> IF u \in installed THEN r ELSE None]
    /\ loaded = file
    /\ enabled \in SUBSET installed
    /\ on \in SUBSET installed
    /\ runs = [u \in Unit |-> IF u \in on THEN r ELSE None]
    /\ pc = "idle" /\ todo = {}
    /\ target = r /\ backup = None /\ services = {}
    /\ before = [bin |-> bin, file |-> file]
    /\ outcome = "none" /\ mishap = FALSE /\ count = 0

(* systemd *)

\* A process ends on its own.
Die(u) ==
  /\ runs[u] # None
  /\ runs' = [runs EXCEPT ![u] = None]
  /\ UNCHANGED <<Installed, loaded, on, enabled, pc, todo, Plan, outcome, mishap, count>>

\* Restart=on-failure.
Revive(u) ==
  /\ u \in on /\ runs[u] = None /\ loaded[u] # None
  /\ runs' = [runs EXCEPT ![u] = bin]
  /\ UNCHANGED <<Installed, loaded, on, enabled, pc, todo, Plan, outcome, mishap, count>>

----------------------------------------------------------------------------
(* The update *)

\* Another release is downloaded; one that is there already is skipped, by the
\* version of the binary alone.
Begin(r) ==
  /\ pc = "idle" /\ count < MaxUpdates
  /\ r # bin
  /\ target' = r
  /\ before' = [bin |-> bin, file |-> file]
  /\ outcome' = "none" /\ mishap' = FALSE
  /\ count' = count + 1
  /\ Goto("backup")
  /\ UNCHANGED <<Installed, Systemd, todo, backup, services>>

\* backupInstall.
Backup ==
  /\ pc = "backup"
  /\ backup' = [bin |-> bin, file |-> file]
  /\ Goto("survey")
  /\ UNCHANGED <<Installed, Systemd, todo, target, services, before, outcome, mishap, count>>

\* It fails, and nothing has been changed.
BackupFails ==
  /\ pc = "backup"
  /\ Goto("idle")
  /\ UNCHANGED <<Installed, Systemd, todo, Plan, outcome, mishap, count>>

Survey ==
  /\ pc = "survey"
  /\ services' = ActiveOrEnabled
  /\ Goto("bin")
  /\ UNCHANGED <<Installed, Systemd, todo, target, backup, before, outcome, mishap, count>>

\* installReleasePayload replaces the binary, then the unit of the service.
InstallBin ==
  /\ pc = "bin"
  /\ bin' = target
  /\ Goto("unit")
  /\ UNCHANGED <<file, Systemd, todo, Plan, outcome, mishap, count>>

InstallUnit ==
  /\ pc = "unit"
  /\ file' = [file EXCEPT ![Service] = target]
  /\ todo' = Legacy
  /\ Goto("legacy")
  /\ UNCHANGED <<bin, Systemd, Plan, outcome, mishap, count>>

\* removeLegacyUnits; their processes go on.
RemoveLegacy(u) ==
  /\ pc = "legacy" /\ u \in todo
  /\ file' = [file EXCEPT ![u] = None]
  /\ todo' = todo \ {u}
  /\ UNCHANGED <<bin, Systemd, pc, Plan, outcome, mishap, count>>

\* Wrong: the service is restarted by the units read before.
ReloadNothing ==
  /\ pc = "legacy" /\ todo = {}
  /\ Goto("restart")
  /\ UNCHANGED <<Installed, Systemd, todo, Plan, outcome, mishap, count>>

Reload ==
  /\ pc = "legacy" /\ todo = {}
  /\ loaded' = file
  /\ Goto("restart")
  /\ UNCHANGED <<Installed, runs, on, enabled, todo, Plan, outcome, mishap, count>>

\* The service is restarted if any unit was active or enabled.
Restart ==
  /\ pc = "restart"
  /\ IF services = {} THEN UNCHANGED Systemd ELSE Started(Service)
  /\ Goto("health")
  /\ UNCHANGED <<Installed, todo, Plan, outcome, mishap, count>>

RestartFails ==
  /\ pc = "restart" /\ services # {}
  /\ NotStarted(Service)
  /\ Goto("restoreBin")
  /\ UNCHANGED <<Installed, todo, Plan, outcome, mishap, count>>

\* healthCheck passes, and the temporary directory is removed.
Healthy ==
  /\ pc = "health"
  /\ services # {} => runs[Service] # None
  /\ Goto("idle")
  /\ outcome' = "updated"
  /\ backup' = None
  /\ UNCHANGED <<Installed, Systemd, todo, target, services, before, mishap, count>>

\* Any other step fails, or the release is not well.
Fail ==
  /\ pc \in {"bin", "unit", "legacy", "health"}
  /\ Goto("restoreBin")
  /\ UNCHANGED <<Installed, Systemd, todo, Plan, outcome, mishap, count>>

----------------------------------------------------------------------------
(* restoreInstall *)

RestoreBin ==
  /\ pc = "restoreBin"
  /\ bin' = backup.bin
  /\ todo' = Unit
  /\ Goto("restoreUnits")
  /\ UNCHANGED <<file, Systemd, Plan, outcome, mishap, count>>

\* Wrong: units the backup does not have stay.
RestoreCopies(u) ==
  /\ pc = "restoreUnits" /\ First(u)
  /\ file' = IF backup.file[u] = None THEN file
             ELSE [file EXCEPT ![u] = backup.file[u]]
  /\ todo' = todo \ {u}
  /\ UNCHANGED <<bin, Systemd, pc, Plan, outcome, mishap, count>>

\* A unit file is copied, or removed if the backup has none.
RestoreUnit(u) ==
  /\ pc = "restoreUnits" /\ First(u)
  /\ file' = [file EXCEPT ![u] = backup.file[u]]
  /\ todo' = todo \ {u}
  /\ UNCHANGED <<bin, Systemd, pc, Plan, outcome, mishap, count>>

\* daemon-reload; an error is ignored.
RestoreReload ==
  /\ pc = "restoreUnits" /\ todo = {}
  /\ \/ loaded' = file /\ mishap' = mishap
     \/ loaded' = loaded /\ mishap' = TRUE
  /\ todo' = services
  /\ Goto("restoreRestart")
  /\ UNCHANGED <<Installed, runs, on, enabled, Plan, outcome, count>>

RestoreRestart(u) ==
  /\ pc = "restoreRestart" /\ First(u)
  /\ Started(u)
  /\ todo' = todo \ {u}
  /\ UNCHANGED <<Installed, pc, Plan, outcome, mishap, count>>

\* The roll-back is over, and the temporary directory is removed.
RolledBack ==
  /\ Goto("idle")
  /\ outcome' = "rolledBack"
  /\ backup' = None
  /\ todo' = {}

Restored ==
  /\ pc = "restoreRestart" /\ todo = {}
  /\ RolledBack
  /\ UNCHANGED <<Installed, Systemd, target, services, before, mishap, count>>

\* A file is not restored: nothing after it is.
RestoreFails ==
  /\ pc = "restoreBin" \/ (pc = "restoreUnits" /\ todo # {})
  /\ RolledBack
  /\ mishap' = TRUE
  /\ UNCHANGED <<Installed, Systemd, target, services, before, count>>

\* A unit does not start: no later one is started.
RestoreRestartFails(u) ==
  /\ pc = "restoreRestart" /\ First(u)
  /\ NotStarted(u)
  /\ RolledBack
  /\ mishap' = TRUE
  /\ UNCHANGED <<Installed, target, services, before, count>>

\* The update is killed: nobody knows of its backup.
Kill ==
  /\ pc # "idle"
  /\ Goto("idle")
  /\ backup' = None /\ todo' = {}
  /\ UNCHANGED <<Installed, Systemd, target, services, before, outcome, mishap, count>>

----------------------------------------------------------------------------

Forward ==
  \/ \E r \in Release : Begin(r)
  \/ Backup \/ BackupFails \/ Survey \/ InstallBin \/ InstallUnit
  \/ \E u \in Legacy : RemoveLegacy(u)
  \/ Reload \/ Restart \/ RestartFails \/ Healthy \/ Fail

Rollback ==
  \/ RestoreBin \/ RestoreReload \/ Restored \/ RestoreFails
  \/ \E u \in Unit : RestoreUnit(u) \/ RestoreRestart(u) \/ RestoreRestartFails(u)

Next ==
  \/ Forward \/ Rollback \/ Kill
  \/ \E u \in Unit : Die(u) \/ Revive(u)

Spec == Init /\ [][Next]_vars

----------------------------------------------------------------------------
(* Properties *)

\* A roll-back in which no step failed puts back the binary and the files of
\* every unit and has systemd read them; and every unit that was active or
\* enabled when the update began is to be active again, with a process of that
\* binary or, for a moment, none.  Of units that were neither it says nothing:
\* see FailedVersionGone.
RollbackExact ==
  pc = "idle" /\ outcome = "rolledBack" /\ ~mishap =>
    /\ bin = before.bin /\ file = before.file /\ loaded = file
    /\ services \subseteq on
    /\ \A u \in services : runs[u] \in {None, bin}

\* What the usage of `nwall update` says, that it rolls a failed version back:
\* after a roll-back in which no step failed no process of that version is left
\* whose unit the roll-back removed.  The code does not keep to it:
\* UpdateLegacy.cfg has the counterexample.
FailedVersionGone ==
  pc = "idle" /\ outcome = "rolledBack" /\ ~mishap =>
    \A u \in Unit : file[u] = None => runs[u] # target

\* An update that says it succeeded has installed the files of one release,
\* left no unit file of an older one, and, if anything was active or enabled,
\* the service is of that release; also after updates that were killed.
\* Processes of the removed units are left out: nothing ends them.
SuccessIsWhole ==
  pc = "idle" /\ outcome = "updated" =>
    /\ bin = target
    /\ file = [u \in Unit |-> IF u = Service THEN target ELSE None]
    /\ loaded = file
    /\ services # {} => Service \in on /\ runs[Service] \in {None, target}
=============================================================================
