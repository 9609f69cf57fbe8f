------------------------------ MODULE MCRWLock ------------------------------
(* The reader/writer lock on a small instance.                             *)
EXTENDS RWLock, TLC

CONSTANTS c1, c2, c3

MCCpus2 == {c1, c2}
MCCpus3 == {c1, c2, c3}

Symmetry == Permutations(Cpus)
=============================================================================
