----------------------------- MODULE MCMasking -----------------------------
(***************************************************************************)
(* Values of Masking's constants for TLC.                                  *)
(***************************************************************************)
EXTENDS Masking

CONSTANTS t1, t2

\* One target for both protocols; one for TCP alone, whose server has another
\* token.
MCEnabled == [t \in {t1, t2} |-> IF t = t1 THEN Protocol ELSE {"tcp"}]
=============================================================================
