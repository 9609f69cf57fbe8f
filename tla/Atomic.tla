------------------------------- MODULE Atomic -------------------------------
(***************************************************************************)
(* The atomic_t operations of atomic.h, one action per access to the       *)
(* counter.  The atomic64_t operations are the same instructions on X      *)
(* registers, M being 2^64 instead of 2^32; the _return forms differ from  *)
(* the void ones by their barriers only, which order other memory; inc,    *)
(* dec and the _and_test forms are calls of these with argument 1, and     *)
(* atomic64_add_unless returns c # u instead of c.  A register that no     *)
(* later instruction reads is set to zero.                                 *)
(***************************************************************************)
EXTENDS Integers, ExclusiveMonitor

CONSTANTS
    Cpus,
    M,          \* number of values of the counter
    Calls,      \* [fn, x, y] - add(x), sub(x), cmpxchg(old x, new y),
                \* add_unless(a x, u y), dec_if_positive, set(x), read
    None

Values == 0 .. (M - 1)
Fns    == {"add", "sub", "cmpxchg", "add_unless", "dec_if_positive", "set", "read"}

ASSUME AtomicAssumption ==
    /\ M \in Nat \ {0}
    /\ Calls \subseteq [fn : Fns, x : Values, y : Values]
    /\ None \notin Calls
    /\ None \notin Values

VARIABLES
    counter,    \* v->counter
    mon,        \* CPUs holding an exclusive reservation on it
    pc,         \* where each CPU is
    call,       \* the call it is in
    reg,        \* the value it loaded, in the end the value it returns
    cvar        \* variable c of __atomic_add_unless

vars == <<counter, mon, pc, call, reg, cvar>>

Init ==
    /\ counter = 0
    /\ mon = {}
    /\ pc = [c \in Cpus |-> "idle"]
    /\ call = [c \in Cpus |-> None]
    /\ reg = [c \in Cpus |-> 0]
    /\ cvar = [c \in Cpus |-> 0]

Goto(c, to) == pc' = [pc EXCEPT ![c] = to]
Set(c, v)   == reg' = [reg EXCEPT ![c] = v]

Begin(c, o) ==
    /\ pc[c] = "idle"
    /\ Goto(c, CASE o.fn = "set" -> "str"
                 [] o.fn \in {"read", "add_unless"} -> "ldr"
                 [] OTHER -> "ldxr")
    /\ call' = [call EXCEPT ![c] = o]
    /\ UNCHANGED <<counter, mon, reg, cvar>>

Return(c) ==
    /\ pc[c] = "done"
    /\ Goto(c, "idle")
    /\ call' = [call EXCEPT ![c] = None]
    /\ Set(c, 0)
    /\ UNCHANGED <<counter, mon, cvar>>

(* atomic_set: a plain store, which drops everybody's reservation.         *)
Str(c) ==
    /\ pc[c] = "str"
    /\ Goto(c, "done")
    /\ counter' = call[c].x
    /\ mon' = AfterStore
    /\ Set(c, call[c].x)
    /\ UNCHANGED <<call, cvar>>

-----------------------------------------------------------------------------
(* __atomic_add_unless holds v in c:                                       *)
(* while (c != u && (old = atomic_cmpxchg(v, c, c + a)) != c) c = old      *)
Loop(c, v) ==
    \/ /\ v = call[c].y
       /\ Goto(c, "done")
       /\ Set(c, v)
       /\ cvar' = [cvar EXCEPT ![c] = 0]
    \/ /\ v # call[c].y
       /\ Goto(c, "ldxr")
       /\ cvar' = [cvar EXCEPT ![c] = v]
       /\ UNCHANGED reg

(* atomic_read: a plain load, alone or at the head of __atomic_add_unless. *)
Ldr(c) ==
    /\ pc[c] = "ldr"
    /\ \/ /\ call[c].fn = "read"
          /\ Goto(c, "done")
          /\ Set(c, counter)
          /\ UNCHANGED cvar
       \/ /\ call[c].fn = "add_unless"
          /\ Loop(c, counter)
    /\ UNCHANGED <<counter, mon, call>>

-----------------------------------------------------------------------------
(* add, sub, subs or mov: what the conditional store writes, given the     *)
(* value loaded.                                                           *)
Stored(c, v) ==
    CASE call[c].fn \in {"add", "add_unless"} -> (v + call[c].x) % M
      [] call[c].fn = "sub"                   -> (v - call[c].x) % M
      [] call[c].fn = "dec_if_positive"       -> (v - 1) % M
      [] call[c].fn = "cmpxchg"               -> call[c].y

(* What %w0 or %w1 holds after the asm block: the result, or oldval.       *)
Result(c, v) == IF call[c].fn \in {"cmpxchg", "add_unless"} THEN v ELSE Stored(c, v)

(* cmp; b.ne 2f - against old, which is c in __atomic_add_unless           *)
Differs(c, v) ==
    \/ call[c].fn = "cmpxchg" /\ v # call[c].x
    \/ call[c].fn = "add_unless" /\ v # cvar[c]

(* subs; b.mi 2f                                                           *)
Minus(c, v) == call[c].fn = "dec_if_positive" /\ (v - 1) % M >= M \div 2

(* 1: ldxr, and the branch out of the asm block if there is one            *)
Ldxr(c) ==
    /\ pc[c] = "ldxr"
    /\ mon' = Reserve(mon, c)
    /\ \/ /\ Differs(c, counter) \/ Minus(c, counter)
          /\ call[c].fn # "add_unless"
          /\ Goto(c, "done")
          /\ Set(c, Result(c, counter))
          /\ UNCHANGED cvar
       \/ /\ Differs(c, counter)
          /\ call[c].fn = "add_unless"
          /\ Loop(c, counter)
       \/ /\ ~ Differs(c, counter) /\ ~ Minus(c, counter)
          /\ Goto(c, "stxr")
          /\ Set(c, counter)
          /\ UNCHANGED cvar
    /\ UNCHANGED <<counter, call>>

(* Mutant: a store that does not ask the monitor.                          *)
StxrPlain(c) ==
    /\ pc[c] = "stxr"
    /\ Goto(c, "done")
    /\ counter' = Stored(c, reg[c])
    /\ mon' = AfterStore
    /\ Set(c, Result(c, reg[c]))
    /\ cvar' = [cvar EXCEPT ![c] = 0]
    /\ UNCHANGED call

(* stxr, stlxr: cbnz falls through after the store...                      *)
Stxr(c) ==
    /\ MayStore(mon, c)
    /\ pc[c] = "stxr"
    /\ Goto(c, "done")
    /\ counter' = Stored(c, reg[c])
    /\ mon' = AfterStore
    /\ Set(c, Result(c, reg[c]))
    /\ cvar' = [cvar EXCEPT ![c] = 0]
    /\ UNCHANGED call

(* Mutants: cbnz goes back to the stxr instead of the ldxr; the value is   *)
(* computed before label 1, so the new reservation guards a stale one.     *)
StxrFailRetries(c) ==
    /\ ~ MayStore(mon, c)
    /\ pc[c] = "stxr"
    /\ UNCHANGED vars

StxrFailStale(c) ==
    /\ ~ MayStore(mon, c)
    /\ pc[c] = "stxr"
    /\ mon' = Reserve(mon, c)
    /\ UNCHANGED <<counter, pc, call, reg, cvar>>

(* ...and goes back to 1: if nothing was stored.                           *)
StxrFail(c) ==
    /\ ~ MayStore(mon, c)
    /\ pc[c] = "stxr"
    /\ Goto(c, "ldxr")
    /\ Set(c, 0)
    /\ UNCHANGED <<counter, mon, call, cvar>>

(* The hardware may drop a reservation (eviction, exception return).       *)
LoseReservation(c) ==
    /\ c \in mon
    /\ mon' = mon \ {c}
    /\ UNCHANGED <<counter, pc, call, reg, cvar>>

-----------------------------------------------------------------------------
Step(c) == Str(c) \/ Ldr(c) \/ Ldxr(c) \/ Stxr(c) \/ StxrFail(c) \/ Return(c)

Next ==
    \E c \in Cpus : Step(c) \/ LoseReservation(c) \/ \E o \in Calls : Begin(c, o)

Spec == Init /\ [][Next]_vars

(* Every CPU keeps executing, and from some time on reservations are lost  *)
(* to stores only: the architecture's promise for loops as short as these. *)
FairSpec ==
    /\ Spec
    /\ \A c \in Cpus : WF_vars(Step(c))
    /\ <>[][\A c \in Cpus : ~ LoseReservation(c)]_vars

-----------------------------------------------------------------------------
TypeOK ==
    /\ counter \in Values
    /\ mon \subseteq Cpus
    /\ pc \in [Cpus -> {"idle", "str", "ldr", "ldxr", "stxr", "done"}]
    /\ call \in [Cpus -> Calls \cup {None}]
    /\ reg \in [Cpus -> Values]
    /\ cvar \in [Cpus -> Values]

(* A CPU that may still store is about to store something computed from    *)
(* the current value, whatever other CPUs - and an atomic_set, which does  *)
(* not take part in the protocol - have done since its ldxr.               *)
ReservationFresh ==
    \A c \in mon : pc[c] = "stxr" => reg[c] = counter

Abstract ==
    INSTANCE AtomicCounter WITH
        value  <- counter,
        answer <- [c \in Cpus |-> IF pc[c] = "done" THEN reg[c] ELSE None]

(* The ldxr/stxr loops are linearizable: no update is lost, a cmpxchg that *)
(* fails has seen another value, __atomic_add_unless adds unless the       *)
(* counter is u at the instant it takes effect, dec_if_positive does not   *)
(* pass zero, and all return what that instant saw.                        *)
ImplementsAtomicCounter == Abstract!Spec

(* Lock freedom: while calls are in progress, calls keep completing,       *)
(* although a particular one may fail its stxr for ever.                   *)
SomebodyFinishes ==
    (\E c \in Cpus : pc[c] # "idle") ~> (\E c \in Cpus : pc[c] = "done")
=============================================================================
