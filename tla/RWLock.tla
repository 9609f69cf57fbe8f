------------------------------- MODULE RWLock -------------------------------
(***************************************************************************)
(* The reader/writer lock of arch_spinlock.h, one action per instruction   *)
(* that touches shared state.  The word counts the readers; a writer sets  *)
(* its top bit.                                                            *)
(***************************************************************************)
EXTENDS Integers, FiniteSets, ExclusiveMonitor

CONSTANTS
    Cpus,       \* the CPUs that share the lock
    WriteBit    \* value of the top bit, 0x80000000 in the code

(* The reader count never reaches the top bit.                             *)
ASSUME RWLockAssumption ==
    /\ WriteBit \in Nat
    /\ IsFiniteSet(Cpus)
    /\ Cpus # {}
    /\ Cardinality(Cpus) < WriteBit

VARIABLES
    word,       \* arch_rwlock_t: rw->lock
    mon,        \* CPUs holding an exclusive reservation on the word
    evt,        \* CPUs whose event register is set
    pc,         \* where each CPU is in the lock code
    tmp         \* register %w0: the value to store, 0 while it is dead

vars == <<word, mon, evt, pc, tmp>>

Word == 0 .. (2 * WriteBit - 1)

(* add and sub on a 32-bit register; tbnz tests its top bit.               *)
Add1(w)   == (w + 1) % (2 * WriteBit)
Sub1(w)   == (w - 1) % (2 * WriteBit)
TopBit(w) == w >= WriteBit

Goto(c, from, to) == pc[c] = from /\ pc' = [pc EXCEPT ![c] = to]

Init ==
    /\ word = 0
    /\ mon = {}
    /\ evt = {}
    /\ pc = [c \in Cpus |-> "out"]
    /\ tmp = [c \in Cpus |-> 0]

(* An exclusive store of CPU c that succeeds, and one that fails.          *)
StoreEx(c, w) ==
    /\ MayStore(mon, c)
    /\ word' = w
    /\ mon' = AfterStore
    /\ evt' = WakeHolders(mon, evt, c)

StoreExFails(c) ==
    /\ ~ MayStore(mon, c)
    /\ UNCHANGED <<word, mon, evt>>

-----------------------------------------------------------------------------
(* arch_write_lock and arch_write_trylock: sevl; wfe; ldaxr until the word *)
(* is 0, then stxr of the write bit.  The trylock has no loop.             *)

WriteLockCall(c) ==
    /\ Goto(c, "out", "w_wfe")
    /\ evt' = SendLocalEvent(evt, c)
    /\ UNCHANGED <<word, mon, tmp>>

WriteTryLockCall(c) ==
    /\ Goto(c, "out", "tw_ldaxr")
    /\ UNCHANGED <<word, mon, evt, tmp>>

(* Mutant: the load that sends the writer back to wfe reserves nothing.    *)
WriteLdaxrPlain(c) ==
    /\ \/ word = 0 /\ Goto(c, "w_ldaxr", "w_stxr")
       \/ word # 0 /\ Goto(c, "w_ldaxr", "w_wfe")
       \/ word = 0 /\ Goto(c, "tw_ldaxr", "tw_stxr")
       \/ word # 0 /\ Goto(c, "tw_ldaxr", "out")
    /\ mon' = IF word = 0 THEN Reserve(mon, c) ELSE mon
    /\ UNCHANGED <<word, evt, tmp>>

WriteLdaxr(c) ==
    /\ \/ word = 0 /\ Goto(c, "w_ldaxr", "w_stxr")
       \/ word # 0 /\ Goto(c, "w_ldaxr", "w_wfe")
       \/ word = 0 /\ Goto(c, "tw_ldaxr", "tw_stxr")
       \/ word # 0 /\ Goto(c, "tw_ldaxr", "out")
    /\ mon' = Reserve(mon, c)
    /\ UNCHANGED <<word, evt, tmp>>

WriteStxr(c) ==
    /\ \/ StoreEx(c, WriteBit) /\ Goto(c, "w_stxr", "writing")
       \/ StoreExFails(c) /\ Goto(c, "w_stxr", "w_ldaxr")
       \/ StoreEx(c, WriteBit) /\ Goto(c, "tw_stxr", "writing")
       \/ StoreExFails(c) /\ Goto(c, "tw_stxr", "out")
    /\ UNCHANGED tmp

(* arch_write_unlock: stlr of 0                                            *)
WriteUnlock(c) ==
    /\ Goto(c, "writing", "out")
    /\ word' = 0
    /\ mon' = AfterStore
    /\ evt' = WakeHolders(mon, evt, c)
    /\ UNCHANGED tmp

-----------------------------------------------------------------------------
(* arch_read_lock and arch_read_trylock: ldaxr, add, back to wfe (or give  *)
(* up) when the sum has its top bit set, else stxr of the sum.             *)

ReadLockCall(c) ==
    /\ Goto(c, "out", "r_wfe")
    /\ evt' = SendLocalEvent(evt, c)
    /\ UNCHANGED <<word, mon, tmp>>

ReadTryLockCall(c) ==
    /\ Goto(c, "out", "tr_ldaxr")
    /\ UNCHANGED <<word, mon, evt, tmp>>

(* Mutant: no tbnz, a reader does not look at the write bit.               *)
ReadLdaxrBlind(c) ==
    /\ \/ Goto(c, "r_ldaxr", "r_stxr")
       \/ Goto(c, "tr_ldaxr", "tr_stxr")
    /\ tmp' = [tmp EXCEPT ![c] = Add1(word)]
    /\ mon' = Reserve(mon, c)
    /\ UNCHANGED <<word, evt>>

ReadLdaxr(c) ==
    /\ \/ /\ ~ TopBit(Add1(word))
          /\ Goto(c, "r_ldaxr", "r_stxr") \/ Goto(c, "tr_ldaxr", "tr_stxr")
          /\ tmp' = [tmp EXCEPT ![c] = Add1(word)]
       \/ /\ TopBit(Add1(word))
          /\ Goto(c, "r_ldaxr", "r_wfe") \/ Goto(c, "tr_ldaxr", "out")
          /\ UNCHANGED tmp
    /\ mon' = Reserve(mon, c)
    /\ UNCHANGED <<word, evt>>

ReadStxr(c) ==
    /\ \/ StoreEx(c, tmp[c]) /\ Goto(c, "r_stxr", "reading")
       \/ StoreExFails(c) /\ Goto(c, "r_stxr", "r_ldaxr")
       \/ StoreEx(c, tmp[c]) /\ Goto(c, "tr_stxr", "reading")
       \/ StoreExFails(c) /\ Goto(c, "tr_stxr", "out")
    /\ tmp' = [tmp EXCEPT ![c] = 0]

(* arch_read_unlock: ldxr, sub, stlxr until it succeeds                    *)
ReadUnlockLdxr(c) ==
    /\ Goto(c, "reading", "ru_stlxr")
    /\ tmp' = [tmp EXCEPT ![c] = Sub1(word)]
    /\ mon' = Reserve(mon, c)
    /\ UNCHANGED <<word, evt>>

(* Mutants: a plain store of the decremented count; no retry when the      *)
(* exclusive store fails.                                                  *)
ReadUnlockPlain(c) ==
    /\ word' = tmp[c]
    /\ mon' = AfterStore
    /\ evt' = WakeHolders(mon, evt, c)
    /\ Goto(c, "ru_stlxr", "out")
    /\ tmp' = [tmp EXCEPT ![c] = 0]

ReadUnlockOnce(c) ==
    /\ StoreEx(c, tmp[c]) \/ StoreExFails(c)
    /\ Goto(c, "ru_stlxr", "out")
    /\ tmp' = [tmp EXCEPT ![c] = 0]

ReadUnlockStlxr(c) ==
    /\ \/ StoreEx(c, tmp[c]) /\ Goto(c, "ru_stlxr", "out")
       \/ StoreExFails(c) /\ Goto(c, "ru_stlxr", "reading")
    /\ tmp' = [tmp EXCEPT ![c] = 0]

-----------------------------------------------------------------------------
(* 1: wfe of either lock loop; it may also complete without an event.      *)
WaitOver(c) == Goto(c, "w_wfe", "w_ldaxr") \/ Goto(c, "r_wfe", "r_ldaxr")

Wfe(c) ==
    /\ c \in evt
    /\ WaitOver(c)
    /\ evt' = ConsumeEvent(evt, c)
    /\ UNCHANGED <<word, mon, tmp>>

WfeSpurious(c) ==
    /\ c \notin evt
    /\ WaitOver(c)
    /\ UNCHANGED <<word, mon, evt, tmp>>

LoseReservation(c) ==
    /\ c \in mon
    /\ mon' = mon \ {c}
    /\ evt' = SendLocalEvent(evt, c)
    /\ UNCHANGED <<word, pc, tmp>>

-----------------------------------------------------------------------------
Call(c) == \/ WriteLockCall(c) \/ WriteTryLockCall(c)
           \/ ReadLockCall(c) \/ ReadTryLockCall(c)

Step(c) == \/ Wfe(c)
           \/ WriteLdaxr(c) \/ WriteStxr(c) \/ WriteUnlock(c)
           \/ ReadLdaxr(c) \/ ReadStxr(c)
           \/ ReadUnlockLdxr(c) \/ ReadUnlockStlxr(c)

Next ==
    \E c \in Cpus :
        Call(c) \/ Step(c) \/ WfeSpurious(c) \/ LoseReservation(c)

Spec == Init /\ [][Next]_vars

(* CPUs keep executing and holders release; a reservation is not lost to   *)
(* the environment for ever.                                               *)
FairSpec ==
    /\ Spec
    /\ \A c \in Cpus : WF_vars(Step(c))
    /\ <>[][~ \E c \in Cpus : LoseReservation(c)]_vars

-----------------------------------------------------------------------------
Writing(c) == pc[c] = "writing"
Reading(c) == pc[c] \in {"reading", "ru_stlxr"}
Readers    == {c \in Cpus : Reading(c)}

TypeOK ==
    /\ word \in Word
    /\ mon \subseteq Cpus
    /\ evt \subseteq Cpus
    /\ pc \in [Cpus -> {"out", "w_wfe", "w_ldaxr", "w_stxr", "tw_ldaxr",
                        "tw_stxr", "writing", "r_wfe", "r_ldaxr", "r_stxr",
                        "tr_ldaxr", "tr_stxr", "reading", "ru_stlxr"}]
    /\ tmp \in [Cpus -> Word]

(* A writer excludes every other holder.                                   *)
RWExclusion ==
    \A c, d \in Cpus : Writing(c) /\ (Writing(d) \/ Reading(d)) => c = d

(* The word says who is inside: the write bit alone, or the exact number   *)
(* of readers.  Hence "unlocking is done by writing 0" loses no reader and *)
(* a reader's decrement never runs into a writer's bit.                    *)
WordCounts ==
    word = IF \E c \in Cpus : Writing(c) THEN WriteBit
                                         ELSE Cardinality(Readers)

(* A CPU asleep in wfe while it could have the lock has an event pending.  *)
NoLostWakeup ==
    \A c \in Cpus :
        \/ pc[c] = "w_wfe" /\ word = 0
        \/ pc[c] = "r_wfe" /\ ~ TopBit(Add1(word))
        => c \in evt

(* When no further calls arrive, every waiting reader and writer gets the  *)
(* lock and every holder gets rid of it.  (While calls keep arriving,      *)
(* readers can starve a writer, and even a reader's unlock loop.)          *)
EveryoneServedOnceQuiet ==
    <>[][~ \E c \in Cpus : Call(c)]_vars => <>[](\A c \in Cpus : pc[c] = "out")
=============================================================================
