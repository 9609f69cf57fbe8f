------------------------------ MODULE SpinLock ------------------------------
(***************************************************************************)
(* The ticket spin lock of arch_spinlock.h, one action per instruction     *)
(* that touches shared state (the lock word, the exclusive monitor, the    *)
(* event register); instructions on registers only are folded into the     *)
(* access before them.  spinlock.h wraps it without adding behaviour.      *)
(* A register that no later instruction reads is set to zero.              *)
(***************************************************************************)
EXTENDS Integers, FiniteSets, ExclusiveMonitor

CONSTANTS
    Cpus,       \* the CPUs that share the lock
    NTicket     \* number of tickets, 2^TICKET_SHIFT in the code

(* 16-bit tickets suffice for fewer than 2^16 CPUs; MAX_SUPPORTED_CPUS = 8 *)
ASSUME SpinLockAssumption ==
    /\ NTicket \in Nat
    /\ IsFiniteSet(Cpus)
    /\ Cpus # {}
    /\ Cardinality(Cpus) < NTicket

VARIABLES
    lock,       \* arch_spinlock_t: the word [owner, next]
    mon,        \* CPUs holding an exclusive reservation on the word
    evt,        \* CPUs whose event register is set
    pc,         \* where each CPU is in the lock code
    lockval,    \* the word each CPU loaded (register %w0)
    tmp         \* lock->owner + 1 as loaded by arch_spin_unlock

vars == <<lock, mon, evt, pc, lockval, tmp>>

Tickets == 0 .. (NTicket - 1)
Words   == [owner : Tickets, next : Tickets]

(* Mutant: the increment carries out of the half-word.                     *)
IncNoWrap(t) == t + 1

(* uint16_t increment: the carry out of the half-word is lost.             *)
Inc(t) == (t + 1) % NTicket

Locations == {"out", "lock1", "lock_stxr", "wfe", "ldaxrh",
              "try1", "try_stxr", "cs", "unlock"}

Goto(c, from, to) == pc[c] = from /\ pc' = [pc EXCEPT ![c] = to]

ZeroWord  == [owner |-> 0, next |-> 0]
Forget(c) == lockval' = [lockval EXCEPT ![c] = ZeroWord]

(* spin_lock_init, SPINLOCK_INITIALIZER: both halves of the word are 0.    *)
Init ==
    /\ lock = ZeroWord
    /\ mon = {}
    /\ evt = {}
    /\ pc = [c \in Cpus |-> "out"]
    /\ lockval = [c \in Cpus |-> ZeroWord]
    /\ tmp = [c \in Cpus |-> 0]

-----------------------------------------------------------------------------
(* arch_spin_lock                                                          *)

SpinLockCall(c) ==
    /\ Goto(c, "out", "lock1")
    /\ UNCHANGED <<lock, mon, evt, lockval, tmp>>

(* 1: ldaxr lockval                                                        *)
LockLdaxr(c) ==
    /\ Goto(c, "lock1", "lock_stxr")
    /\ lockval' = [lockval EXCEPT ![c] = lock]
    /\ mon' = Reserve(mon, c)
    /\ UNCHANGED <<lock, evt, tmp>>

(* Mutants: no sevl before the first wfe; a plain store without the        *)
(* monitor's consent; "did we get the lock?" also answers yes when one     *)
(* ticket is still ahead.                                                  *)
LockStxrNoSevl(c) ==
    /\ MayStore(mon, c)
    /\ lock' = [lockval[c] EXCEPT !.next = Inc(@)]
    /\ mon' = AfterStore
    /\ IF lockval[c].owner = lockval[c].next
         THEN Goto(c, "lock_stxr", "cs") ELSE Goto(c, "lock_stxr", "wfe")
    /\ evt' = WakeHolders(mon, evt, c)
    /\ UNCHANGED <<lockval, tmp>>

LockStxrPlain(c) ==
    /\ lock' = [lockval[c] EXCEPT !.next = Inc(@)]
    /\ mon' = AfterStore
    /\ IF lockval[c].owner = lockval[c].next
         THEN Goto(c, "lock_stxr", "cs") ELSE Goto(c, "lock_stxr", "wfe")
    /\ evt' = SendLocalEvent(WakeHolders(mon, evt, c), c)
    /\ UNCHANGED <<lockval, tmp>>

LockStxrEager(c) ==
    /\ MayStore(mon, c)
    /\ lock' = [lockval[c] EXCEPT !.next = Inc(@)]
    /\ mon' = AfterStore
    /\ IF lockval[c].next \in {lockval[c].owner, Inc(lockval[c].owner)}
         THEN Goto(c, "lock_stxr", "cs") ELSE Goto(c, "lock_stxr", "wfe")
    /\ evt' = SendLocalEvent(WakeHolders(mon, evt, c), c)
    /\ UNCHANGED <<lockval, tmp>>

(* add; stxr succeeds: the whole word is stored, next incremented.  Then   *)
(* eor/cbz: the lock is ours if the loaded halves were equal, else sevl.   *)
LockStxr(c) ==
    /\ MayStore(mon, c)
    /\ lock' = [lockval[c] EXCEPT !.next = Inc(@)]
    /\ mon' = AfterStore
    /\ \/ /\ lockval[c].owner = lockval[c].next
          /\ Goto(c, "lock_stxr", "cs")
          /\ evt' = WakeHolders(mon, evt, c)
       \/ /\ lockval[c].owner # lockval[c].next
          /\ Goto(c, "lock_stxr", "wfe")
          /\ evt' = SendLocalEvent(WakeHolders(mon, evt, c), c)
    /\ UNCHANGED <<lockval, tmp>>

(* stxr fails, cbnz 1b                                                     *)
LockStxrFail(c) ==
    /\ ~ MayStore(mon, c)
    /\ Goto(c, "lock_stxr", "lock1")
    /\ Forget(c)
    /\ UNCHANGED <<lock, mon, evt, tmp>>

(* 2: wfe                                                                  *)
Wfe(c) ==
    /\ c \in evt
    /\ Goto(c, "wfe", "ldaxrh")
    /\ evt' = ConsumeEvent(evt, c)
    /\ UNCHANGED <<lock, mon, lockval, tmp>>

(* Mutant: an ordinary load, which reserves nothing.                       *)
LdaxrhPlain(c) ==
    /\ IF lock.owner = lockval[c].next
         THEN Goto(c, "ldaxrh", "cs") ELSE Goto(c, "ldaxrh", "wfe")
    /\ UNCHANGED <<lock, mon, evt, lockval, tmp>>

(* ldaxrh owner; eor with the ticket; cbnz 2b                              *)
Ldaxrh(c) ==
    /\ \/ lock.owner = lockval[c].next /\ Goto(c, "ldaxrh", "cs")
       \/ lock.owner # lockval[c].next /\ Goto(c, "ldaxrh", "wfe")
    /\ mon' = Reserve(mon, c)
    /\ UNCHANGED <<lock, evt, lockval, tmp>>

-----------------------------------------------------------------------------
(* arch_spin_trylock                                                       *)

SpinTryLockCall(c) ==
    /\ Goto(c, "out", "try1")
    /\ UNCHANGED <<lock, mon, evt, lockval, tmp>>

(* Mutant: trylock does not look whether the lock is taken.                *)
TryLdaxrUnchecked(c) ==
    /\ Goto(c, "try1", "try_stxr")
    /\ lockval' = [lockval EXCEPT ![c] = lock]
    /\ mon' = Reserve(mon, c)
    /\ UNCHANGED <<lock, evt, tmp>>

(* 1: ldaxr; eor; cbnz 2f - the call returns 0 when the lock is taken      *)
TryLdaxr(c) ==
    /\ \/ /\ lock.owner = lock.next
          /\ Goto(c, "try1", "try_stxr")
          /\ lockval' = [lockval EXCEPT ![c] = lock]
       \/ /\ lock.owner # lock.next
          /\ Goto(c, "try1", "out")
          /\ Forget(c)
    /\ mon' = Reserve(mon, c)
    /\ UNCHANGED <<lock, evt, tmp>>

(* Mutant: trylock's store succeeds without a reservation.                 *)
TryStxrPlain(c) ==
    /\ Goto(c, "try_stxr", "cs")
    /\ lock' = [lockval[c] EXCEPT !.next = Inc(@)]
    /\ mon' = AfterStore
    /\ evt' = WakeHolders(mon, evt, c)
    /\ UNCHANGED <<lockval, tmp>>

TryStxr(c) ==
    /\ MayStore(mon, c)
    /\ Goto(c, "try_stxr", "cs")
    /\ lock' = [lockval[c] EXCEPT !.next = Inc(@)]
    /\ mon' = AfterStore
    /\ evt' = WakeHolders(mon, evt, c)
    /\ UNCHANGED <<lockval, tmp>>

TryStxrFail(c) ==
    /\ ~ MayStore(mon, c)
    /\ Goto(c, "try_stxr", "try1")
    /\ Forget(c)
    /\ UNCHANGED <<lock, mon, evt, tmp>>

-----------------------------------------------------------------------------
(* arch_spin_unlock: the operand lock->owner + 1 is loaded by a plain load *)
(* and stored by stlrh to the owner half only.                             *)

UnlockLoad(c) ==
    /\ Goto(c, "cs", "unlock")
    /\ tmp' = [tmp EXCEPT ![c] = Inc(lock.owner)]
    /\ UNCHANGED <<lock, mon, evt, lockval>>

UnlockStlrh(c) ==
    /\ Goto(c, "unlock", "out")
    /\ lock' = [lock EXCEPT !.owner = tmp[c]]
    /\ mon' = AfterStore
    /\ evt' = WakeHolders(mon, evt, c)
    /\ tmp' = [tmp EXCEPT ![c] = 0]
    /\ Forget(c)

-----------------------------------------------------------------------------
(* arch_spin_is_locked and arch_spin_is_contended: one load of the word.   *)
(* The halves are promoted to int, so the difference may be negative.      *)
SpinIsLocked    == lock.owner # lock.next
SpinIsContended == lock.next - lock.owner > 1

-----------------------------------------------------------------------------
(* The hardware may drop a reservation (eviction, exception return), which *)
(* is an event, and may complete a wfe without one (a pending interrupt).  *)

LoseReservation(c) ==
    /\ c \in mon
    /\ mon' = mon \ {c}
    /\ evt' = SendLocalEvent(evt, c)
    /\ UNCHANGED <<lock, pc, lockval, tmp>>

WfeSpurious(c) ==
    /\ c \notin evt
    /\ Goto(c, "wfe", "ldaxrh")
    /\ UNCHANGED <<lock, mon, evt, lockval, tmp>>

-----------------------------------------------------------------------------
(* What a CPU executes once it is inside one of the functions.             *)
Step(c) ==
    \/ LockLdaxr(c) \/ LockStxr(c) \/ LockStxrFail(c)
    \/ Wfe(c) \/ Ldaxrh(c)
    \/ TryLdaxr(c) \/ TryStxr(c) \/ TryStxrFail(c)
    \/ UnlockLoad(c) \/ UnlockStlrh(c)

Next ==
    \E c \in Cpus :
        \/ SpinLockCall(c) \/ SpinTryLockCall(c)
        \/ Step(c)
        \/ LoseReservation(c) \/ WfeSpurious(c)

Spec == Init /\ [][Next]_vars

(* Every CPU keeps executing, and whoever holds the lock releases it.      *)
(* Nothing is assumed of the environment actions, and nothing makes a      *)
(* particular stxr succeed.                                                *)
Fairness == \A c \in Cpus : WF_vars(Step(c))

FairSpec == Spec /\ Fairness

-----------------------------------------------------------------------------
InCS(c)      == pc[c] \in {"cs", "unlock"}
HasTicket(c) == pc[c] \in {"wfe", "ldaxrh", "cs", "unlock"}
Ticketed     == {c \in Cpus : HasTicket(c)}

(* How many increments lead from ticket s to ticket t.                     *)
Gap(s, t) == (t - s) % NTicket

TypeOK ==
    /\ lock \in Words
    /\ mon \subseteq Cpus
    /\ evt \subseteq Cpus
    /\ pc \in [Cpus -> Locations]
    /\ lockval \in [Cpus -> Words]
    /\ tmp \in [Cpus -> Tickets]

(* spin_lock and a successful spin_trylock admit one CPU at a time, also   *)
(* after the 16-bit tickets have wrapped.                                  *)
MutualExclusion ==
    \A c, d \in Cpus : InCS(c) /\ InCS(d) => c = d

(* A CPU waiting in wfe whose turn has come has its event register set:    *)
(* the sevl and the reservation taken by ldaxrh leave no window in which   *)
(* the release is missed.                                                  *)
NoLostWakeup ==
    \A c \in Cpus :
        pc[c] = "wfe" /\ lockval[c].next = lock.owner => c \in evt

(* spin_is_locked answers exactly whether somebody holds or waits for the  *)
(* lock; spin_is_contended never claims a waiter that does not exist.      *)
QueriesTruthful ==
    /\ SpinIsLocked <=> Ticketed # {}
    /\ SpinIsContended => \E c \in Cpus : HasTicket(c) /\ ~ InCS(c)

(* The owner half moves only when the holder leaves, and then by one: no   *)
(* full-word stxr writes back a stale owner over a concurrent stlrh.       *)
OwnerOnlyReleased ==
    [][lock.owner' # lock.owner =>
          /\ lock.owner' = Inc(lock.owner)
          /\ \E c \in Cpus : InCS(c) /\ ~ InCS(c)']_vars

(* Whoever has drawn a ticket eventually enters.                           *)
TicketServed == \A c \in Cpus : HasTicket(c) ~> InCS(c)

-----------------------------------------------------------------------------
(* Why the invariants hold: the parts of an inductive invariant.           *)

(* No two CPUs hold the same ticket.                                       *)
TicketsDistinct ==
    \A c, d \in Ticketed : lockval[c].next = lockval[d].next => c = d

(* Every ticket in a CPU's hands lies between owner and next...            *)
TicketsOutstanding ==
    \A c \in Ticketed :
        Gap(lock.owner, lockval[c].next) < Gap(lock.owner, lock.next)

(* ...and there are exactly as many of them as the word says.              *)
TicketsCounted == Cardinality(Ticketed) = Gap(lock.owner, lock.next)

HolderIsOwner == \A c \in Cpus : InCS(c) => lockval[c].next = lock.owner

(* A CPU that still has its reservation loaded the current word.           *)
ReservationFresh ==
    \A c \in mon : pc[c] \in {"lock_stxr", "try_stxr"} => lockval[c] = lock

TrySawFree ==
    \A c \in Cpus :
        pc[c] = "try_stxr" => lockval[c].owner = lockval[c].next

(* Nobody moves owner between the load and the stlrh of an unlock.         *)
UnlockReady == \A c \in Cpus : pc[c] = "unlock" => tmp[c] = Inc(lock.owner)

(* A CPU about to sleep has an event pending, or watches a word whose      *)
(* owner is not its ticket.                                                *)
WaiterArmed ==
    \A c \in Cpus :
        pc[c] = "wfe" /\ c \notin evt =>
            c \in mon /\ lockval[c].next # lock.owner

(* Every outstanding ticket is in the hands of exactly one CPU, and what a *)
(* CPU is about to store was computed from the current word.               *)
TicketInv ==
    /\ TicketsDistinct
    /\ TicketsOutstanding
    /\ TicketsCounted
    /\ HolderIsOwner
    /\ ReservationFresh
    /\ TrySawFree
    /\ UnlockReady
    /\ WaiterArmed

-----------------------------------------------------------------------------
(* What the lock implements.                                               *)

(* The CPUs of T in the order of their tickets, which are consecutive from *)
(* o on (TicketInv).                                                       *)
InTicketOrder(T, o, lv) ==
    [i \in 1 .. Cardinality(T) |-> CHOOSE c \in T : Gap(o, lv[c].next) = i - 1]

Queue  == InTicketOrder(Ticketed, lock.owner, lockval)
Inside == {c \in Cpus : InCS(c)}

Fifo == INSTANCE FifoLock WITH queue <- Queue, inside <- Inside

(* The instructions of arch_spinlock.h implement a first-come,             *)
(* first-served lock: CPUs enter one at a time, in the order of the stxr   *)
(* that drew their ticket, and a trylock overtakes nobody.                 *)
ImplementsFifoLock == Fifo!Spec
=============================================================================
