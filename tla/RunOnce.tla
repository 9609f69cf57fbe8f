------------------------------- MODULE RunOnce -------------------------------
(***************************************************************************)
(* run_once of utils.h: double-checked locking around an initialiser func, *)
(* on the lock FifoLock specifies.                                         *)
(*                                                                         *)
(* Stores of the CPU inside func reach memory in any order (ARMv8 orders   *)
(* plain stores only at a barrier or a store-release); the only smp_wmb    *)
(* comes after the store to flag.  buffered holds the stores not yet       *)
(* visible to the other CPUs: "data" stands for everything func wrote.     *)
(***************************************************************************)
EXTENDS Integers, FiniteSets, Sequences

CONSTANT Cpus

ASSUME RunOnceAssumption == IsFiniteSet(Cpus) /\ Cpus # {}

VARIABLES
    queue, inside,  \* once->lock
    flag,           \* once->flag as other CPUs see it
    data,           \* func's effects are visible to other CPUs
    buffered,       \* stores of the CPU in the critical section, undrained
    oncePc,         \* where each CPU is in run_once
    ret,            \* the local variable ret
    completed,      \* how many calls of func have returned 0
    path            \* how each CPU's call found its answer (history)

onceVars ==
    <<queue, inside, flag, data, buffered, oncePc, ret, completed, path>>

Lock == INSTANCE FifoLock

Move(c, from, to) == oncePc[c] = from /\ oncePc' = [oncePc EXCEPT ![c] = to]

(* ONCE_INITIALIZER                                                        *)
OnceInit ==
    /\ Lock!Init
    /\ flag = 0
    /\ data = FALSE
    /\ buffered = {}
    /\ oncePc = [c \in Cpus |-> "out"]
    /\ ret = [c \in Cpus |-> 0]
    /\ completed = 0
    /\ path = [c \in Cpus |-> "none"]

Call(c) ==
    /\ Move(c, "out", "read1")
    /\ ret' = [ret EXCEPT ![c] = 0]
    /\ path' = [path EXCEPT ![c] = "none"]
    /\ UNCHANGED <<queue, inside, flag, data, buffered, completed>>

(* if (atomic_read(&once->flag) == 0), outside the lock                    *)
FirstRead(c) ==
    /\ \/ flag = 0 /\ Move(c, "read1", "lock") /\ UNCHANGED path
       \/ /\ flag # 0
          /\ Move(c, "read1", "out")
          /\ path' = [path EXCEPT ![c] = "fast"]
    /\ UNCHANGED <<queue, inside, flag, data, buffered, ret, completed>>

(* spin_lock(&once->lock): at once, or after waiting in line               *)
SpinLock(c) ==
    /\ \/ Lock!Acquire(c) /\ Move(c, "lock", "read2")
       \/ Lock!Enqueue(c) /\ Move(c, "lock", "wait")
       \/ Lock!Enter(c) /\ Move(c, "wait", "read2")
    /\ path' = [path EXCEPT ![c] = "slow"]
    /\ UNCHANGED <<flag, data, buffered, ret, completed>>

(* Mutant: flag is not read again under the lock.                          *)
NoSecondRead(c) ==
    /\ Move(c, "read2", "func")
    /\ UNCHANGED <<queue, inside, flag, data, buffered, ret, completed, path>>

SecondRead(c) ==
    /\ \/ flag = 0 /\ Move(c, "read2", "func")
       \/ flag # 0 /\ Move(c, "read2", "unlock")
    /\ UNCHANGED <<queue, inside, flag, data, buffered, ret, completed, path>>

(* ret = func(): the initialiser may fail                                  *)
FuncOk(c) ==
    /\ Move(c, "func", "set")
    /\ buffered' = buffered \cup {"data"}
    /\ completed' = completed + 1
    /\ UNCHANGED <<queue, inside, flag, data, ret, path>>

(* Mutants: the error is dropped; the failure path returns without         *)
(* unlocking.                                                              *)
FuncFailDropped(c) ==
    /\ Move(c, "func", "unlock")
    /\ UNCHANGED <<queue, inside, flag, data, buffered, ret, completed, path>>

FuncFailKeepsLock(c) ==
    /\ Move(c, "func", "out")
    /\ ret' = [ret EXCEPT ![c] = -1]
    /\ UNCHANGED <<queue, inside, flag, data, buffered, completed, path>>

FuncFail(c) ==
    /\ Move(c, "func", "unlock")
    /\ ret' = [ret EXCEPT ![c] = -1]
    /\ UNCHANGED <<queue, inside, flag, data, buffered, completed, path>>

(* atomic_set(&once->flag, 1); smp_wmb()                                   *)
SetFlag(c) ==
    /\ Move(c, "set", "unlock")
    /\ buffered' = buffered \cup {"flag"}
    /\ UNCHANGED <<queue, inside, flag, data, ret, completed, path>>

(* The stores become visible, in any order, at any time...                 *)
Drain(x) ==
    /\ x \in buffered
    /\ buffered' = buffered \ {x}
    /\ \/ x = "data" /\ data' = TRUE /\ UNCHANGED flag
       \/ x = "flag" /\ flag' = 1 /\ UNCHANGED data
    /\ UNCHANGED <<queue, inside, oncePc, ret, completed, path>>

(* Mutant: a plain store instead of the store-release.                     *)
SpinUnlockRelaxed(c) ==
    /\ Lock!Release(c)
    /\ Move(c, "unlock", "out")
    /\ UNCHANGED <<flag, data, buffered, ret, completed, path>>

(* ...but before the store-release of spin_unlock(&once->lock) does.       *)
SpinUnlock(c) ==
    /\ buffered = {}
    /\ Lock!Release(c)
    /\ Move(c, "unlock", "out")
    /\ UNCHANGED <<flag, data, buffered, ret, completed, path>>

OnceStep(c) ==
    \/ FirstRead(c) \/ SpinLock(c) \/ SecondRead(c)
    \/ FuncOk(c) \/ FuncFail(c) \/ SetFlag(c) \/ SpinUnlock(c)

DrainAny == \E x \in {"data", "flag"} : Drain(x)

OnceNext == \/ \E c \in Cpus : Call(c) \/ OnceStep(c)
        \/ DrainAny

OnceSpec == OnceInit /\ [][OnceNext]_onceVars

(* CPUs keep executing, func terminates, and buffered stores drain.        *)
OnceFairness ==
    /\ \A c \in Cpus : WF_onceVars(OnceStep(c))
    /\ WF_onceVars(DrainAny)

-----------------------------------------------------------------------------
OnceTypeOK ==
    /\ queue \in Seq(Cpus)
    /\ inside \subseteq Cpus
    /\ flag \in {0, 1}
    /\ data \in BOOLEAN
    /\ buffered \subseteq {"data", "flag"}
    /\ oncePc \in [Cpus -> {"out", "read1", "lock", "wait", "read2", "func",
                            "set", "unlock"}]
    /\ ret \in [Cpus -> {-1, 0}]
    /\ completed \in Nat
    /\ path \in [Cpus -> {"none", "fast", "slow"}]

(* func never runs on two CPUs at once and, once it has succeeded, never   *)
(* runs again - even for a CPU that read flag before it was set.           *)
OnceOnly ==
    /\ completed <= 1
    /\ \A c, d \in Cpus : oncePc[c] = "func" /\ oncePc[d] = "func" => c = d
    /\ completed = 1 => \A c \in Cpus : oncePc[c] # "func"

(* A call that returned 0, on either path, returned after func succeeded.  *)
ZeroMeansDone ==
    \A c \in Cpus :
        oncePc[c] = "out" /\ path[c] # "none" /\ ret[c] = 0 => completed = 1

(* A caller that went through the lock and got 0 finds func's effects in   *)
(* memory: the release and acquire of the lock order them.  Callers on the *)
(* unlocked fast path are not covered, because nothing orders func's       *)
(* stores before the store to flag.                                        *)
LockedCallerSeesInit ==
    \A c \in Cpus : oncePc[c] = "out" /\ path[c] = "slow" /\ ret[c] = 0 => data

(* No call hangs: the lock is released on the failure path too.            *)
CallReturns == \A c \in Cpus : oncePc[c] = "read1" ~> oncePc[c] = "out"
=============================================================================
