------------------------------ MODULE MCTimer ------------------------------
(* The timer list with a few timers.                                       *)
EXTENDS Timer

CONSTANTS p1, p2, o1, o2

PeriodicTimers == {p1, p2}
OneShotTimers  == {o1, o2}
=============================================================================
