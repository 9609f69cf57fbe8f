----------------------------- MODULE MCSpinLock -----------------------------
(***************************************************************************)
(* The ticket lock on a small instance.                                    *)
(***************************************************************************)
EXTENDS SpinLock

CONSTANTS c1, c2, c3

MCCpus == {c1, c2, c3}
=============================================================================
