---------------------------- MODULE AtomicProofs ----------------------------
(***************************************************************************)
(* Proofs about the atomic_t operations, for every set of CPUs, every      *)
(* width of the counter and every repertoire of calls.                     *)
(***************************************************************************)
EXTENDS Atomic, TLAPS

LEMMA ModRange ==
    ASSUME NEW i \in Int PROVE i % M \in Values
BY AtomicAssumption DEF Values

LEMMA ZeroIsValue == 0 \in Values
BY AtomicAssumption DEF Values

LEMMA CallFields ==
    ASSUME NEW o \in Calls
    PROVE  o.fn \in Fns /\ o.x \in Values /\ o.y \in Values
BY AtomicAssumption

-----------------------------------------------------------------------------
(* Control: which call a CPU can be in at each place, and what the tests   *)
(* it has passed on the way there established.                             *)

LoopFns == {"add", "sub", "cmpxchg", "add_unless", "dec_if_positive"}

CallAtPc(c) ==
    /\ pc[c] = "idle" <=> call[c] = None
    /\ pc[c] = "str" => call[c].fn = "set"
    /\ pc[c] = "ldr" => call[c].fn \in {"read", "add_unless"}
    /\ pc[c] \in {"ldxr", "stxr"} => call[c].fn \in LoopFns

(* __atomic_add_unless only reaches cmpxchg with c # u.                    *)
UnlessHeld(c) ==
    pc[c] \in {"ldxr", "stxr"} /\ call[c].fn = "add_unless" => cvar[c] # call[c].y

(* At the stxr, the value loaded has passed the block's own test.          *)
TestPassed(c) ==
    pc[c] = "stxr" => ~ Differs(c, reg[c]) /\ ~ Minus(c, reg[c])

AtomicInv ==
    /\ TypeOK
    /\ \A c \in Cpus : CallAtPc(c) /\ UnlessHeld(c) /\ TestPassed(c)
    /\ ReservationFresh

-----------------------------------------------------------------------------
(* What the conditional store writes and what the call returns are values  *)
(* of the counter.                                                         *)
LEMMA StoredValue ==
    ASSUME NEW c \in Cpus, call[c] \in Calls, call[c].fn \in LoopFns,
           NEW v \in Values
    PROVE  Stored(c, v) \in Values /\ Result(c, v) \in Values
<1>1. call[c].x \in Values /\ call[c].y \in Values /\ v \in Int
      /\ call[c].x \in Int
  BY CallFields, AtomicAssumption DEF Values
<1>2. /\ (v + call[c].x) % M \in Values
      /\ (v - call[c].x) % M \in Values
      /\ (v - 1) % M \in Values
  BY <1>1, ModRange
<1> QED
  BY <1>1, <1>2 DEF Stored, Result, LoopFns

LEMMA AtomicInit == Init => AtomicInv
BY ZeroIsValue DEF Init, AtomicInv, TypeOK, CallAtPc, UnlessHeld, TestPassed,
   ReservationFresh

(* A CPU in a call is in one of Calls.                                     *)
LEMMA InCall ==
    ASSUME AtomicInv, NEW c \in Cpus, pc[c] # "idle"
    PROVE  call[c] \in Calls
BY DEF AtomicInv, TypeOK, CallAtPc

LEMMA TypeNext == AtomicInv /\ [Next]_vars => TypeOK'
<1> SUFFICES ASSUME AtomicInv, [Next]_vars PROVE TypeOK'
    OBVIOUS
<1> USE DEF TypeOK, Goto, Set
<1>0. TypeOK
  BY DEF AtomicInv
<1>1. ASSUME NEW c \in Cpus, NEW o \in Calls, Begin(c, o) PROVE TypeOK'
  BY <1>0, <1>1 DEF Begin
<1>2. ASSUME NEW c \in Cpus, Return(c) PROVE TypeOK'
  BY <1>0, <1>2, ZeroIsValue DEF Return
<1>3. ASSUME NEW c \in Cpus, Str(c) PROVE TypeOK'
  <2>1. call[c].x \in Values
    BY <1>3, InCall, CallFields DEF Str
  <2> QED
    BY <1>0, <1>3, <2>1 DEF Str, AfterStore
<1>4. ASSUME NEW c \in Cpus, Ldr(c) PROVE TypeOK'
  BY <1>0, <1>4, ZeroIsValue DEF Ldr, Loop
<1>5. ASSUME NEW c \in Cpus, Ldxr(c) PROVE TypeOK'
  <2>1. Result(c, counter) \in Values
    BY <1>0, <1>5, InCall, StoredValue DEF Ldxr, AtomicInv, CallAtPc
  <2> QED
    BY <1>0, <1>5, <2>1, ZeroIsValue DEF Ldxr, Loop, Reserve
<1>6. ASSUME NEW c \in Cpus, Stxr(c) PROVE TypeOK'
  <2>1. Stored(c, reg[c]) \in Values /\ Result(c, reg[c]) \in Values
    BY <1>0, <1>6, InCall, StoredValue DEF Stxr, AtomicInv, CallAtPc
  <2> QED
    BY <1>0, <1>6, <2>1, ZeroIsValue DEF Stxr, AfterStore
<1>7. ASSUME NEW c \in Cpus, StxrFail(c) PROVE TypeOK'
  BY <1>0, <1>7, ZeroIsValue DEF StxrFail
<1>8. ASSUME NEW c \in Cpus, LoseReservation(c) PROVE TypeOK'
  BY <1>0, <1>8 DEF LoseReservation
<1>9. CASE UNCHANGED vars
  BY <1>0, <1>9 DEF vars
<1> QED
  BY <1>1, <1>2, <1>3, <1>4, <1>5, <1>6, <1>7, <1>8, <1>9 DEF Next, Step

(* The invariant is about one CPU at a time: a step of c changes nothing   *)
(* the parts about another CPU speak of.                                   *)
LEMMA OthersKept ==
    ASSUME AtomicInv, NEW c \in Cpus, NEW d \in Cpus, d # c,
           pc'[d] = pc[d], call'[d] = call[d], reg'[d] = reg[d],
           cvar'[d] = cvar[d]
    PROVE  (CallAtPc(d) /\ UnlessHeld(d) /\ TestPassed(d))'
BY DEF AtomicInv, CallAtPc, UnlessHeld, TestPassed, Differs, Minus

LEMMA ControlNext ==
    AtomicInv /\ [Next]_vars
      => (\A c \in Cpus : CallAtPc(c) /\ UnlessHeld(c) /\ TestPassed(c))'
<1> SUFFICES ASSUME AtomicInv, [Next]_vars, NEW d \in Cpus
             PROVE  (CallAtPc(d) /\ UnlessHeld(d) /\ TestPassed(d))'
    OBVIOUS
<1> DEFINE Others(c) == d # c =>
             /\ pc'[d] = pc[d] /\ call'[d] = call[d]
             /\ reg'[d] = reg[d] /\ cvar'[d] = cvar[d]
<1>0. TypeOK /\ CallAtPc(d) /\ UnlessHeld(d) /\ TestPassed(d)
  BY DEF AtomicInv
<1> USE DEF TypeOK, Goto, Set
<1>1. ASSUME NEW c \in Cpus, NEW o \in Calls, Begin(c, o)
      PROVE  Others(c) /\ (c = d => CallAtPc(d)' /\ UnlessHeld(d)' /\ TestPassed(d)')
  <2>1. o.fn \in Fns /\ o # None
    BY CallFields, AtomicAssumption
  <2>2. CASE o.fn = "add_unless"
    BY <1>0, <1>1, <2>1, <2>2 DEF Begin, CallAtPc, UnlessHeld, TestPassed
  <2> QED
    BY <1>0, <1>1, <2>1, <2>2 DEF Begin, CallAtPc, UnlessHeld, TestPassed, Fns, LoopFns
<1>2. ASSUME NEW c \in Cpus, Return(c)
      PROVE  Others(c) /\ (c = d => CallAtPc(d)' /\ UnlessHeld(d)' /\ TestPassed(d)')
  BY <1>0, <1>2 DEF Return, CallAtPc, UnlessHeld, TestPassed
<1>3. ASSUME NEW c \in Cpus, Str(c)
      PROVE  Others(c) /\ (c = d => CallAtPc(d)' /\ UnlessHeld(d)' /\ TestPassed(d)')
  BY <1>0, <1>3 DEF Str, CallAtPc, UnlessHeld, TestPassed
<1>4. ASSUME NEW c \in Cpus, Ldr(c)
      PROVE  Others(c) /\ (c = d => CallAtPc(d)' /\ UnlessHeld(d)' /\ TestPassed(d)')
  BY <1>0, <1>4 DEF Ldr, Loop, CallAtPc, UnlessHeld, TestPassed, LoopFns
<1>5. ASSUME NEW c \in Cpus, Ldxr(c)
      PROVE  Others(c) /\ (c = d => CallAtPc(d)' /\ UnlessHeld(d)' /\ TestPassed(d)')
  BY <1>0, <1>5 DEF Ldxr, Loop, CallAtPc, UnlessHeld, TestPassed, Differs, Minus, LoopFns
<1>6. ASSUME NEW c \in Cpus, Stxr(c)
      PROVE  Others(c) /\ (c = d => CallAtPc(d)' /\ UnlessHeld(d)' /\ TestPassed(d)')
  BY <1>0, <1>6 DEF Stxr, CallAtPc, UnlessHeld, TestPassed
<1>7. ASSUME NEW c \in Cpus, StxrFail(c)
      PROVE  Others(c) /\ (c = d => CallAtPc(d)' /\ UnlessHeld(d)' /\ TestPassed(d)')
  BY <1>0, <1>7 DEF StxrFail, CallAtPc, UnlessHeld, TestPassed
<1>8. ASSUME NEW c \in Cpus, LoseReservation(c)
      PROVE  CallAtPc(d)' /\ UnlessHeld(d)' /\ TestPassed(d)'
  BY <1>0, <1>8 DEF LoseReservation, CallAtPc, UnlessHeld, TestPassed, Differs, Minus
<1>9. CASE UNCHANGED vars
  BY <1>0, <1>9 DEF vars, CallAtPc, UnlessHeld, TestPassed, Differs, Minus
<1> QED
  BY <1>1, <1>2, <1>3, <1>4, <1>5, <1>6, <1>7, <1>8, <1>9, OthersKept DEF Next, Step

(* Every store to the counter empties mon, and only a load enters it.      *)
LEMMA FreshNext == AtomicInv /\ [Next]_vars => ReservationFresh'
<1> SUFFICES ASSUME AtomicInv, [Next]_vars PROVE ReservationFresh'
    OBVIOUS
<1> USE DEF ReservationFresh, AtomicInv, TypeOK, Goto, Set
<1>1. ASSUME NEW c \in Cpus, NEW o \in Calls, Begin(c, o) PROVE ReservationFresh'
  BY <1>1 DEF Begin
<1>2. ASSUME NEW c \in Cpus, Return(c) \/ StxrFail(c) \/ LoseReservation(c)
      PROVE  ReservationFresh'
  BY <1>2 DEF Return, StxrFail, LoseReservation
<1>3. ASSUME NEW c \in Cpus, Str(c) \/ Stxr(c) PROVE ReservationFresh'
  BY <1>3 DEF Str, Stxr, AfterStore
<1>4. ASSUME NEW c \in Cpus, Ldr(c) PROVE ReservationFresh'
  BY <1>4 DEF Ldr, Loop
<1>5. ASSUME NEW c \in Cpus, Ldxr(c) PROVE ReservationFresh'
  BY <1>5 DEF Ldxr, Loop, Reserve
<1>6. CASE UNCHANGED vars
  BY <1>6 DEF vars
<1> QED
  BY <1>1, <1>2, <1>3, <1>4, <1>5, <1>6 DEF Next, Step

LEMMA AtomicNext == AtomicInv /\ [Next]_vars => AtomicInv'
BY TypeNext, ControlNext, FreshNext DEF AtomicInv

LEMMA AtomicInvariance == Spec => []AtomicInv
BY AtomicInit, AtomicNext, PTL DEF Spec

(* The counter, the registers and the variable c keep the width M of the   *)
(* counter, and mon only ever names CPUs.                                  *)
THEOREM AtomicTypeCorrect == Spec => []TypeOK
BY AtomicInvariance, PTL DEF AtomicInv

(* No CPU whose stxr would succeed is about to store something computed    *)
(* from an old value: the reason no update is lost, atomic_set's plain     *)
(* store included.                                                         *)
THEOREM StxrNeverStale == Spec => []ReservationFresh
BY AtomicInvariance, PTL DEF AtomicInv

-----------------------------------------------------------------------------
(* Refinement.  Begin is the abstract Begin; the abstract Happen is the    *)
(* successful stxr, the ldxr of a call that leaves without storing, the    *)
(* plain store of atomic_set and the load of atomic_read; Return is End.   *)

Answers == [c \in Cpus |-> IF pc[c] = "done" THEN reg[c] ELSE None]

LEMMA RefineInit == Init => Abstract!Init
BY DEF Init, Abstract!Init

(* A step that moves no CPU to or from "done" leaves the answers alone.    *)
LEMMA AnswersKept ==
    ASSUME NEW c \in Cpus, TypeOK, pc[c] # "done", pc'[c] # "done",
           \A d \in Cpus \ {c} : pc'[d] = pc[d] /\ reg'[d] = reg[d]
    PROVE  Answers' = Answers
BY DEF Answers, TypeOK

(* A step that takes c to "done" answers c and nobody else.                *)
LEMMA AnswersGiven ==
    ASSUME NEW c \in Cpus, TypeOK, TypeOK', pc[c] # "done", pc'[c] = "done",
           \A d \in Cpus \ {c} : pc'[d] = pc[d] /\ reg'[d] = reg[d]
    PROVE  /\ Answers[c] = None
           /\ Answers' = [Answers EXCEPT ![c] = reg'[c]]
BY DEF Answers, TypeOK

(* What the asm block of a loop stores and returns once its test has       *)
(* passed is the abstract effect on the value loaded...                    *)
LEMMA StoreIsEffect ==
    ASSUME NEW c \in Cpus, NEW v, call[c].fn \in LoopFns,
           ~ Differs(c, v), ~ Minus(c, v),
           call[c].fn = "add_unless" => cvar[c] # call[c].y
    PROVE  /\ Stored(c, v) = Abstract!Effect(call[c], v)
           /\ Result(c, v) = Abstract!Answer(call[c], v)
<1> USE DEF Stored, Result, Abstract!Effect, Abstract!Answer,
            Abstract!Negative, Abstract!Decrement
<1>1. CASE call[c].fn = "add"
  BY <1>1
<1>2. CASE call[c].fn = "sub"
  BY <1>2
<1>3. CASE call[c].fn = "cmpxchg"
  BY <1>3 DEF Differs
<1>4. CASE call[c].fn = "add_unless"
  BY <1>4 DEF Differs
<1>5. CASE call[c].fn = "dec_if_positive"
  BY <1>5 DEF Minus
<1> QED
  BY <1>1, <1>2, <1>3, <1>4, <1>5 DEF LoopFns

(* ...and when the test of cmpxchg or dec_if_positive fails, the abstract  *)
(* call leaves the counter alone and returns the same.                     *)
LEMMA LeaveIsEffect ==
    ASSUME NEW c \in Cpus, NEW v, call[c].fn # "add_unless",
           Differs(c, v) \/ Minus(c, v)
    PROVE  /\ v = Abstract!Effect(call[c], v)
           /\ Result(c, v) = Abstract!Answer(call[c], v)
<1> USE DEF Stored, Result, Abstract!Effect, Abstract!Answer,
            Abstract!Negative, Abstract!Decrement
<1>1. CASE call[c].fn = "cmpxchg"
  BY <1>1 DEF Differs, Minus
<1>2. CASE call[c].fn = "dec_if_positive"
  BY <1>2 DEF Differs, Minus
<1> QED
  BY <1>1, <1>2 DEF Differs, Minus

(* The common part of the steps that are an abstract Happen.               *)
LEMMA HappenStep ==
    ASSUME AtomicInv, TypeOK', NEW c \in Cpus, pc[c] \notin {"idle", "done"},
           pc'[c] = "done", call' = call,
           counter' = Abstract!Effect(call[c], counter),
           reg'[c] = Abstract!Answer(call[c], counter),
           \A d \in Cpus \ {c} : pc'[d] = pc[d] /\ reg'[d] = reg[d]
    PROVE  Abstract!Happen(c)
<1>1. call[c] # None
  BY DEF AtomicInv, CallAtPc
<1>2. Answers[c] = None /\ Answers' = [Answers EXCEPT ![c] = reg'[c]]
  BY AnswersGiven DEF AtomicInv
<1> QED
  BY <1>1, <1>2 DEF Abstract!Happen, Answers

LEMMA RefineNext == AtomicInv /\ [Next]_vars => [Abstract!Next]_(Abstract!vars)
<1> SUFFICES ASSUME AtomicInv, [Next]_vars PROVE [Abstract!Next]_(Abstract!vars)
    OBVIOUS
<1>0. TypeOK /\ TypeOK'
  BY TypeNext DEF AtomicInv
<1> USE DEF Goto, Set
<1>1. ASSUME NEW c \in Cpus, NEW o \in Calls, Begin(c, o)
      PROVE  Abstract!Begin(c, o)
  <2>1. call[c] = None
    BY <1>1 DEF Begin, AtomicInv, CallAtPc
  <2>2. pc[c] # "done" /\ pc'[c] # "done"
    BY <1>0, <1>1 DEF Begin, TypeOK
  <2>3. \A d \in Cpus \ {c} : pc'[d] = pc[d] /\ reg'[d] = reg[d]
    BY <1>0, <1>1 DEF Begin, TypeOK
  <2> QED
    BY <1>0, <1>1, <2>1, <2>2, <2>3, AnswersKept DEF Begin, Abstract!Begin, Answers
<1>2. ASSUME NEW c \in Cpus, Return(c) PROVE Abstract!End(c)
  <2>1. reg[c] # None
    BY <1>0, AtomicAssumption DEF TypeOK
  <2>2. Answers' = [Answers EXCEPT ![c] = None]
    BY <1>0, <1>2 DEF Return, Answers, TypeOK
  <2> QED
    BY <1>2, <2>1, <2>2 DEF Return, Abstract!End, Answers
<1>3. ASSUME NEW c \in Cpus, Str(c) PROVE Abstract!Happen(c)
  <2>1. call[c].fn = "set"
    BY <1>3 DEF Str, AtomicInv, CallAtPc
  <2>2. /\ Abstract!Effect(call[c], counter) = call[c].x
        /\ Abstract!Answer(call[c], counter) = call[c].x
    BY <2>1 DEF Abstract!Effect, Abstract!Answer
  <2> QED
    BY <1>0, <1>3, <2>2, HappenStep DEF Str, TypeOK
<1>4. ASSUME NEW c \in Cpus, Ldr(c)
      PROVE  Abstract!Happen(c) \/ UNCHANGED Abstract!vars
  <2>1. CASE call[c].fn = "read"
    <3>1. /\ Abstract!Effect(call[c], counter) = counter
          /\ Abstract!Answer(call[c], counter) = counter
      BY <2>1 DEF Abstract!Effect, Abstract!Answer
    <3> QED
      BY <1>0, <1>4, <2>1, <3>1, HappenStep DEF Ldr, TypeOK
  <2>2. CASE call[c].fn = "add_unless" /\ counter = call[c].y
    <3>1. /\ Abstract!Effect(call[c], counter) = counter
          /\ Abstract!Answer(call[c], counter) = counter
      BY <2>2 DEF Abstract!Effect, Abstract!Answer
    <3> QED
      BY <1>0, <1>4, <2>2, <3>1, HappenStep DEF Ldr, Loop, TypeOK
  <2>3. CASE call[c].fn = "add_unless" /\ counter # call[c].y
    <3>1. /\ pc[c] # "done" /\ pc'[c] # "done"
          /\ \A d \in Cpus \ {c} : pc'[d] = pc[d] /\ reg'[d] = reg[d]
      BY <1>0, <1>4, <2>3 DEF Ldr, Loop, TypeOK
    <3> QED
      BY <1>0, <1>4, <2>3, <3>1, AnswersKept DEF Ldr, Loop, Abstract!vars, Answers
  <2> QED
    BY <1>4, <2>1, <2>2, <2>3 DEF Ldr
<1>5. ASSUME NEW c \in Cpus, Ldxr(c)
      PROVE  Abstract!Happen(c) \/ UNCHANGED Abstract!vars
  <2>1. CASE Differs(c, counter) \/ Minus(c, counter)
    <3>1. CASE call[c].fn # "add_unless"
      BY <1>0, <1>5, <2>1, <3>1, LeaveIsEffect, HappenStep DEF Ldxr, TypeOK
    <3>2. CASE call[c].fn = "add_unless" /\ counter = call[c].y
      <4>1. /\ Abstract!Effect(call[c], counter) = counter
            /\ Abstract!Answer(call[c], counter) = counter
        BY <3>2 DEF Abstract!Effect, Abstract!Answer
      <4> QED
        BY <1>0, <1>5, <2>1, <3>2, <4>1, HappenStep DEF Ldxr, Loop, TypeOK
    <3>3. CASE call[c].fn = "add_unless" /\ counter # call[c].y
      <4>1. /\ pc[c] # "done" /\ pc'[c] # "done"
            /\ \A d \in Cpus \ {c} : pc'[d] = pc[d] /\ reg'[d] = reg[d]
        BY <1>0, <1>5, <2>1, <3>3 DEF Ldxr, Loop, TypeOK
      <4> QED
        BY <1>0, <1>5, <4>1, AnswersKept DEF Ldxr, Abstract!vars, Answers
    <3> QED
      BY <3>1, <3>2, <3>3
  <2>2. CASE ~ Differs(c, counter) /\ ~ Minus(c, counter)
    <3>1. /\ pc[c] # "done" /\ pc'[c] # "done"
          /\ \A d \in Cpus \ {c} : pc'[d] = pc[d] /\ reg'[d] = reg[d]
      BY <1>0, <1>5, <2>2 DEF Ldxr, TypeOK
    <3> QED
      BY <1>0, <1>5, <3>1, AnswersKept DEF Ldxr, Abstract!vars, Answers
  <2> QED
    BY <2>1, <2>2
<1>6. ASSUME NEW c \in Cpus, Stxr(c) PROVE Abstract!Happen(c)
  <2>1. reg[c] = counter
    BY <1>6 DEF Stxr, MayStore, AtomicInv, ReservationFresh
  <2>2. /\ call[c].fn \in LoopFns /\ ~ Differs(c, counter) /\ ~ Minus(c, counter)
        /\ call[c].fn = "add_unless" => cvar[c] # call[c].y
    BY <1>6, <2>1 DEF Stxr, AtomicInv, CallAtPc, UnlessHeld, TestPassed
  <2>3. /\ counter' = Abstract!Effect(call[c], counter)
        /\ Result(c, reg[c]) = Abstract!Answer(call[c], counter)
    BY <1>6, <2>1, <2>2, StoreIsEffect DEF Stxr
  <2> QED
    BY <1>0, <1>6, <2>3, HappenStep DEF Stxr, TypeOK
<1>7. ASSUME NEW c \in Cpus, StxrFail(c) PROVE UNCHANGED Abstract!vars
  <2>1. /\ pc[c] # "done" /\ pc'[c] # "done"
        /\ \A d \in Cpus \ {c} : pc'[d] = pc[d] /\ reg'[d] = reg[d]
    BY <1>0, <1>7 DEF StxrFail, TypeOK
  <2> QED
    BY <1>0, <1>7, <2>1, AnswersKept DEF StxrFail, Abstract!vars, Answers
<1>8. ASSUME NEW c \in Cpus, LoseReservation(c) PROVE UNCHANGED Abstract!vars
  BY <1>8 DEF LoseReservation, Abstract!vars
<1>9. CASE UNCHANGED vars
  BY <1>9 DEF vars, Abstract!vars
<1> QED
  BY <1>1, <1>2, <1>3, <1>4, <1>5, <1>6, <1>7, <1>8, <1>9
     DEF Next, Step, Abstract!Next

(* Linearizability: every behaviour of the ldxr/stxr loops is, seen        *)
(* through the counter, the calls and their results, one of the abstract   *)
(* counter on which each call takes effect at one instant.                 *)
THEOREM AtomicsLinearizable == Spec => ImplementsAtomicCounter
<1>1. Spec => [][Abstract!Next]_(Abstract!vars)
  BY AtomicInvariance, RefineNext, PTL DEF Spec
<1> QED
  BY <1>1, RefineInit, PTL DEF Spec, ImplementsAtomicCounter, Abstract!Spec
=============================================================================
