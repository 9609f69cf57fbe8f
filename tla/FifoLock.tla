------------------------------ MODULE FifoLock ------------------------------
(***************************************************************************)
(* What spin_lock/spin_trylock/spin_unlock promise: a first-come,          *)
(* first-served lock.  queue holds the CPUs that have committed to the     *)
(* lock in the order in which they did; inside is the holder, if any.      *)
(***************************************************************************)
EXTENDS Sequences, SequencesExt

CONSTANT Cpus

VARIABLES queue, inside

vars == <<queue, inside>>

Init == queue = <<>> /\ inside = {}

(* An uncontended spin_lock, or a spin_trylock that succeeds.              *)
Acquire(c) ==
    /\ queue = <<>>
    /\ queue' = <<c>>
    /\ inside' = {c}

(* A contended spin_lock takes its place behind everybody else...          *)
Enqueue(c) ==
    /\ queue # <<>>
    /\ ~ Contains(queue, c)
    /\ queue' = Append(queue, c)
    /\ UNCHANGED inside

(* ...and enters when it is first in line and the holder has left.         *)
Enter(c) ==
    /\ queue # <<>>
    /\ Head(queue) = c
    /\ inside = {}
    /\ inside' = {c}
    /\ UNCHANGED queue

Release(c) ==
    /\ inside = {c}
    /\ inside' = {}
    /\ queue' = Tail(queue)

Next ==
    \E c \in Cpus : Acquire(c) \/ Enqueue(c) \/ Enter(c) \/ Release(c)

Spec == Init /\ [][Next]_vars

FairSpec == Spec /\ \A c \in Cpus : WF_vars(Enter(c) \/ Release(c))
=============================================================================
