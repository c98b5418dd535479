----------------------------- MODULE MCProtect -----------------------------
(***************************************************************************)
(* Values of Protect's constants for TLC.                                  *)
(***************************************************************************)
EXTENDS Protect

\* Errors a command can return before it has changed anything.
EarlyStops == {"snapshot", "save"}

AnyStop == Step \cup TimerStep

\* A countdown that cannot look is a question of its own: ProtectBusy.
ErrorsIgnored == {"clear", "drop"}
=============================================================================
