--------------------------- MODULE SpinLockProofs ---------------------------
(***************************************************************************)
(* Proofs about the ticket spin lock, for every finite set of CPUs smaller *)
(* than the number of tickets.                                             *)
(***************************************************************************)
EXTENDS SpinLock, FiniteSetTheorems, SequenceTheorems, TLAPS

-----------------------------------------------------------------------------
(* Ticket arithmetic.                                                      *)

LEMMA IncValue ==
    ASSUME NEW t \in Tickets
    PROVE  /\ Inc(t) = IF t = NTicket - 1 THEN 0 ELSE t + 1
           /\ Inc(t) \in Tickets
BY SpinLockAssumption DEF Inc, Tickets

LEMMA GapValue ==
    ASSUME NEW s \in Tickets, NEW t \in Tickets
    PROVE  /\ Gap(s, t) = IF t >= s THEN t - s ELSE t - s + NTicket
           /\ Gap(s, t) \in Tickets
BY SpinLockAssumption DEF Gap, Tickets

(* Drawing a ticket moves next one further away from owner.                *)
LEMMA GapDraw ==
    ASSUME NEW s \in Tickets, NEW t \in Tickets, Gap(s, t) + 1 < NTicket
    PROVE  Gap(s, Inc(t)) = Gap(s, t) + 1
<1>1. Inc(t) \in Tickets /\ Inc(t) = IF t = NTicket - 1 THEN 0 ELSE t + 1
  BY IncValue
<1>2. Gap(s, t) = IF t >= s THEN t - s ELSE t - s + NTicket
  BY GapValue
<1>3. Gap(s, Inc(t)) = IF Inc(t) >= s THEN Inc(t) - s
                                      ELSE Inc(t) - s + NTicket
  BY <1>1, GapValue
<1> QED
  BY <1>1, <1>2, <1>3, SpinLockAssumption DEF Tickets

(* A release brings every other ticket one closer.                         *)
LEMMA GapRelease ==
    ASSUME NEW s \in Tickets, NEW t \in Tickets, s # t
    PROVE  Gap(Inc(s), t) = Gap(s, t) - 1
<1>1. Inc(s) \in Tickets /\ Inc(s) = IF s = NTicket - 1 THEN 0 ELSE s + 1
  BY IncValue
<1>2. Gap(s, t) = IF t >= s THEN t - s ELSE t - s + NTicket
  BY GapValue
<1>3. Gap(Inc(s), t) = IF t >= Inc(s) THEN t - Inc(s)
                                      ELSE t - Inc(s) + NTicket
  BY <1>1, GapValue
<1> QED
  BY <1>1, <1>2, <1>3, SpinLockAssumption DEF Tickets

LEMMA GapZero ==
    ASSUME NEW s \in Tickets, NEW t \in Tickets
    PROVE  Gap(s, t) = 0 <=> s = t
<1>1. Gap(s, t) = IF t >= s THEN t - s ELSE t - s + NTicket
  BY GapValue
<1> QED
  BY <1>1, SpinLockAssumption DEF Tickets

-----------------------------------------------------------------------------
(* Type correctness.                                                       *)

LEMMA ZeroIsTicket == 0 \in Tickets
<1>1. Cardinality(Cpus) \in Nat
  BY SpinLockAssumption, FS_CardinalityType
<1> QED
  BY <1>1, SpinLockAssumption DEF Tickets

LEMMA TypeInit == Init => TypeOK
BY ZeroIsTicket DEF Init, TypeOK, Words, Locations, ZeroWord

LEMMA TypeNext == TypeOK /\ [Next]_vars => TypeOK'
<1> SUFFICES ASSUME TypeOK, [Next]_vars PROVE TypeOK'
    OBVIOUS
<1> USE DEF TypeOK, Goto, Locations
<1>1. ASSUME NEW c \in Cpus, SpinLockCall(c) \/ SpinTryLockCall(c)
      PROVE  TypeOK'
  BY <1>1 DEF SpinLockCall, SpinTryLockCall
<1>2. ASSUME NEW c \in Cpus, LockLdaxr(c) PROVE TypeOK'
  BY <1>2 DEF LockLdaxr, Reserve
<1>3. ASSUME NEW c \in Cpus, LockStxr(c) \/ TryStxr(c) PROVE TypeOK'
  <2>1. [lockval[c] EXCEPT !.next = Inc(@)] \in Words
    BY IncValue DEF Words
  <2> QED
    BY <1>3, <2>1 DEF LockStxr, TryStxr, AfterStore, WakeHolders,
                      SendLocalEvent
<1>4. ASSUME NEW c \in Cpus, LockStxrFail(c) \/ TryStxrFail(c)
      PROVE  TypeOK'
  BY <1>4, ZeroIsTicket DEF LockStxrFail, TryStxrFail, Forget, ZeroWord, Words
<1>5. ASSUME NEW c \in Cpus, Wfe(c) \/ WfeSpurious(c) PROVE TypeOK'
  BY <1>5 DEF Wfe, WfeSpurious, ConsumeEvent
<1>6. ASSUME NEW c \in Cpus, Ldaxrh(c) PROVE TypeOK'
  BY <1>6 DEF Ldaxrh, Reserve
<1>7. ASSUME NEW c \in Cpus, TryLdaxr(c) PROVE TypeOK'
  BY <1>7, ZeroIsTicket DEF TryLdaxr, Reserve, Forget, ZeroWord, Words
<1>8. ASSUME NEW c \in Cpus, UnlockLoad(c) PROVE TypeOK'
  <2>1. Inc(lock.owner) \in Tickets
    BY IncValue DEF Words
  <2> QED
    BY <1>8, <2>1 DEF UnlockLoad
<1>9. ASSUME NEW c \in Cpus, UnlockStlrh(c) PROVE TypeOK'
  BY <1>9, ZeroIsTicket DEF UnlockStlrh, AfterStore, WakeHolders, Forget,
                            ZeroWord, Words
<1>10. ASSUME NEW c \in Cpus, LoseReservation(c) PROVE TypeOK'
  BY <1>10 DEF LoseReservation, SendLocalEvent
<1>11. CASE UNCHANGED vars
  BY <1>11 DEF vars
<1> QED
  BY <1>1, <1>2, <1>3, <1>4, <1>5, <1>6, <1>7, <1>8, <1>9, <1>10, <1>11
     DEF Next, Step

(* Every reachable state has its type: in particular both halves of the    *)
(* lock word stay 16-bit tickets, whatever the interleaving.               *)
THEOREM TypeCorrect == Spec => []TypeOK
BY TypeInit, TypeNext, PTL DEF Spec

-----------------------------------------------------------------------------
(* The ticket invariant.                                                   *)

LEMMA TicketInit == Init => TicketInv
<1> SUFFICES ASSUME Init PROVE TicketInv
    OBVIOUS
<1>1. Ticketed = {}
  BY DEF Init, Ticketed, HasTicket
<1>2. TicketsCounted
  BY <1>1, FS_EmptySet, ZeroIsTicket, GapZero DEF Init, TicketsCounted, ZeroWord
<1> QED
  BY <1>1, <1>2 DEF Init, TicketInv, TicketsDistinct, TicketsOutstanding,
     HolderIsOwner, InCS, ReservationFresh, TrySawFree, UnlockReady,
     WaiterArmed

(* A step that moves no ticket and leaves the word alone keeps the three   *)
(* parts about tickets.                                                    *)
LEMMA TicketsKept ==
    ASSUME TicketsDistinct, TicketsOutstanding, TicketsCounted,
           Ticketed' = Ticketed, lock' = lock,
           \A c \in Ticketed : lockval'[c] = lockval[c]
    PROVE  (TicketsDistinct /\ TicketsOutstanding /\ TicketsCounted)'
BY DEF TicketsDistinct, TicketsOutstanding, TicketsCounted, Gap

(* Drawing a ticket: c leaves with the old value of next.                  *)
LEMMA TicketsDrawn ==
    ASSUME TypeOK, TicketInv, NEW c \in Cpus, c \notin Ticketed,
           lock' = [lock EXCEPT !.next = Inc(@)],
           lockval' = lockval, lockval[c] = lock,
           Ticketed' = Ticketed \cup {c}
    PROVE  (TicketsDistinct /\ TicketsOutstanding /\ TicketsCounted)'
<1> USE DEF TypeOK, Words
<1>1. Ticketed \subseteq Cpus /\ IsFiniteSet(Ticketed)
  BY SpinLockAssumption, FS_Subset DEF Ticketed
<1>2. Cardinality(Ticketed \cup {c}) = Cardinality(Ticketed) + 1
  BY <1>1, FS_AddElement
<1>3. Cardinality(Ticketed \cup {c}) <= Cardinality(Cpus)
  BY <1>1, SpinLockAssumption, FS_Subset
<1>4. /\ Cardinality(Ticketed) = Gap(lock.owner, lock.next)
      /\ Cardinality(Ticketed) \in Nat /\ Cardinality(Cpus) \in Nat
  BY <1>1, SpinLockAssumption, FS_CardinalityType
     DEF TicketInv, TicketsCounted
<1>5. Gap(lock.owner, lock.next) + 1 < NTicket
  BY <1>2, <1>3, <1>4, SpinLockAssumption
<1>6. /\ lock'.owner = lock.owner
      /\ Gap(lock'.owner, lock'.next) = Gap(lock.owner, lock.next) + 1
  BY <1>5, GapDraw
<1>7. TicketsCounted'
  BY <1>2, <1>4, <1>6 DEF TicketsCounted, Gap
<1>8. \A d \in Ticketed : /\ lockval[d].next \in Tickets
                          /\ lockval[d].next # lock.next
                          /\ Gap(lock.owner, lockval[d].next) \in Nat
                          /\ Gap(lock.owner, lockval[d].next)
                                < Gap(lock.owner, lock.next)
  <2> SUFFICES ASSUME NEW d \in Ticketed
               PROVE  /\ lockval[d].next \in Tickets
                      /\ lockval[d].next # lock.next
                      /\ Gap(lock.owner, lockval[d].next) \in Nat
                      /\ Gap(lock.owner, lockval[d].next)
                                < Gap(lock.owner, lock.next)
      OBVIOUS
  <2>1. lockval[d].next \in Tickets
    BY <1>1
  <2>2. Gap(lock.owner, lockval[d].next) < Gap(lock.owner, lock.next)
    BY DEF TicketInv, TicketsOutstanding
  <2>3. /\ Gap(lock.owner, lockval[d].next) \in Nat
        /\ Gap(lock.owner, lock.next) \in Nat
    BY <2>1, GapValue DEF Tickets
  <2> QED
    BY <2>1, <2>2, <2>3
<1>9. TicketsOutstanding'
  <2>1. Gap(lock.owner, lock.next) \in Nat
    BY <1>4
  <2> QED
    BY <1>6, <1>8, <2>1 DEF TicketsOutstanding, Gap
<1>10. TicketsDistinct'
  BY <1>8 DEF TicketInv, TicketsDistinct
<1> QED
  BY <1>7, <1>9, <1>10

(* Releasing: the holder c gives its ticket back and owner moves past it.  *)
LEMMA TicketsReleased ==
    ASSUME TypeOK, TicketInv, NEW c \in Ticketed,
           lockval[c].next = lock.owner,
           lock' = [lock EXCEPT !.owner = Inc(@)],
           \A d \in Ticketed \ {c} : lockval'[d] = lockval[d],
           Ticketed' = Ticketed \ {c}
    PROVE  (TicketsDistinct /\ TicketsOutstanding /\ TicketsCounted)'
<1> USE DEF TypeOK, Words
<1>1. Ticketed \subseteq Cpus /\ IsFiniteSet(Ticketed)
  BY SpinLockAssumption, FS_Subset DEF Ticketed
<1>2. Cardinality(Ticketed \ {c}) = Cardinality(Ticketed) - 1
  BY <1>1, FS_RemoveElement
<1>3. lock.owner # lock.next
  <2>1. Gap(lock.owner, lock.owner) < Gap(lock.owner, lock.next)
    BY DEF TicketInv, TicketsOutstanding
  <2>2. Gap(lock.owner, lock.owner) \in Nat
    BY GapValue DEF Tickets
  <2> QED
    BY <2>1, <2>2
<1>4. /\ lock'.next = lock.next /\ lock'.owner = Inc(lock.owner)
      /\ Gap(lock'.owner, lock'.next) = Gap(lock.owner, lock.next) - 1
  BY <1>3, GapRelease
<1>5. TicketsCounted'
  BY <1>2, <1>4 DEF TicketInv, TicketsCounted, Gap
<1>6. TicketsDistinct'
  BY DEF TicketInv, TicketsDistinct
<1>7. TicketsOutstanding'
  <2> SUFFICES ASSUME NEW d \in Ticketed \ {c}
               PROVE  Gap(Inc(lock.owner), lockval[d].next)
                        < Gap(lock.owner, lock.next) - 1
      BY <1>4 DEF TicketsOutstanding, Gap
  <2>1. lockval[d].next \in Tickets /\ lockval[d].next # lock.owner
    BY <1>1 DEF TicketInv, TicketsDistinct
  <2>2. Gap(Inc(lock.owner), lockval[d].next)
          = Gap(lock.owner, lockval[d].next) - 1
    BY <2>1, GapRelease
  <2>3. Gap(lock.owner, lockval[d].next) < Gap(lock.owner, lock.next)
    BY DEF TicketInv, TicketsOutstanding
  <2>4. /\ Gap(lock.owner, lockval[d].next) \in Nat
        /\ Gap(lock.owner, lock.next) \in Nat
    BY <2>1, GapValue DEF Tickets
  <2> QED
    BY <2>2, <2>3, <2>4
<1> QED
  BY <1>5, <1>6, <1>7

(* Every step keeps the ticket invariant.                                  *)
LEMMA TicketNext == TypeOK /\ TicketInv /\ [Next]_vars => TicketInv'
<1> SUFFICES ASSUME TypeOK, TicketInv, [Next]_vars PROVE TicketInv'
    OBVIOUS
<1> DEFINE Tkts == TicketsDistinct /\ TicketsOutstanding /\ TicketsCounted
           Rest == /\ HolderIsOwner /\ ReservationFresh /\ TrySawFree
                   /\ UnlockReady /\ WaiterArmed
<1>0. TypeOK'
  BY TypeNext
<1>a. Ticketed \subseteq Cpus
  BY DEF Ticketed
<1>b. TicketInv' <=> Tkts' /\ Rest'
  BY DEF TicketInv
<1>c. \A c \in Cpus : InCS(c) => c \in Ticketed
  BY DEF InCS, Ticketed, HasTicket
<1>d. ASSUME Ticketed' = Ticketed, lock' = lock,
             \A d \in Ticketed : lockval'[d] = lockval[d]
      PROVE  Tkts'
  BY <1>d, TicketsKept DEF TicketInv
<1>1. ASSUME NEW c \in Cpus, SpinLockCall(c) \/ SpinTryLockCall(c)
      PROVE  TicketInv'
  <2>1. Tkts'
    BY <1>1, <1>d DEF SpinLockCall, SpinTryLockCall, Goto, TypeOK,
                      Ticketed, HasTicket
  <2>2. Rest'
    BY <1>1 DEF SpinLockCall, SpinTryLockCall, Goto, TypeOK, TicketInv,
       HolderIsOwner, InCS, ReservationFresh, TrySawFree, UnlockReady,
       WaiterArmed, Inc
  <2> QED BY <2>1, <2>2, <1>b
<1>2. ASSUME NEW c \in Cpus, LockLdaxr(c) PROVE TicketInv'
  <2>1. Tkts'
    BY <1>2, <1>d DEF LockLdaxr, Goto, TypeOK, Ticketed, HasTicket
  <2>2. Rest'
    BY <1>2 DEF LockLdaxr, Goto, TypeOK, TicketInv, Reserve,
       HolderIsOwner, InCS, ReservationFresh, TrySawFree, UnlockReady,
       WaiterArmed, Inc
  <2> QED BY <2>1, <2>2, <1>b
<1>3. ASSUME NEW c \in Cpus, LockStxr(c) PROVE TicketInv'
  <2>1. /\ lockval[c] = lock /\ lockval' = lockval /\ c \notin Ticketed
        /\ lock' = [lock EXCEPT !.next = Inc(@)]
        /\ Ticketed' = Ticketed \cup {c}
    BY <1>3 DEF LockStxr, MayStore, TicketInv, ReservationFresh, Goto,
                TypeOK, Ticketed, HasTicket
  <2>2. Tkts'
    BY <2>1, TicketsDrawn
  <2>3. lock'.owner = lock.owner
    BY <2>1 DEF TypeOK, Words
  <2>4. Rest'
    BY <1>3, <2>1, <2>3 DEF LockStxr, Goto, TypeOK, TicketInv, AfterStore,
       WakeHolders, SendLocalEvent, HolderIsOwner, InCS, ReservationFresh,
       TrySawFree, UnlockReady, WaiterArmed, Inc
  <2> QED BY <2>2, <2>4, <1>b
<1>4. ASSUME NEW c \in Cpus, LockStxrFail(c) \/ TryStxrFail(c)
      PROVE  TicketInv'
  <2>1. Tkts'
    BY <1>4, <1>d DEF LockStxrFail, TryStxrFail, Forget, Goto, TypeOK, Ticketed,
                      HasTicket
  <2>2. Rest'
    BY <1>4 DEF LockStxrFail, TryStxrFail, Forget, Goto, TypeOK, TicketInv,
       HolderIsOwner, InCS, ReservationFresh, TrySawFree, UnlockReady,
       WaiterArmed, Inc
  <2> QED BY <2>1, <2>2, <1>b
<1>5. ASSUME NEW c \in Cpus, Wfe(c) \/ WfeSpurious(c) PROVE TicketInv'
  <2>1. Tkts'
    BY <1>5, <1>d DEF Wfe, WfeSpurious, Goto, TypeOK, Ticketed, HasTicket
  <2>2. Rest'
    BY <1>5 DEF Wfe, WfeSpurious, Goto, TypeOK, TicketInv, ConsumeEvent,
       HolderIsOwner, InCS, ReservationFresh, TrySawFree, UnlockReady,
       WaiterArmed, Inc
  <2> QED BY <2>1, <2>2, <1>b
<1>6. ASSUME NEW c \in Cpus, Ldaxrh(c) PROVE TicketInv'
  <2>1. Tkts'
    BY <1>6, <1>d DEF Ldaxrh, Goto, TypeOK, Ticketed, HasTicket
  <2>2. Rest'
    BY <1>6 DEF Ldaxrh, Goto, TypeOK, TicketInv, Reserve,
       HolderIsOwner, InCS, ReservationFresh, TrySawFree, UnlockReady,
       WaiterArmed, Inc
  <2> QED BY <2>1, <2>2, <1>b
<1>7. ASSUME NEW c \in Cpus, TryLdaxr(c) PROVE TicketInv'
  <2>1. Tkts'
    BY <1>7, <1>d DEF TryLdaxr, Forget, Goto, TypeOK, Ticketed, HasTicket
  <2>2. Rest'
    BY <1>7 DEF TryLdaxr, Forget, Goto, TypeOK, TicketInv, Reserve,
       HolderIsOwner, InCS, ReservationFresh, TrySawFree, UnlockReady,
       WaiterArmed, Inc
  <2> QED BY <2>1, <2>2, <1>b
<1>8. ASSUME NEW c \in Cpus, TryStxr(c) PROVE TicketInv'
  <2>1. /\ lockval[c] = lock /\ lockval' = lockval /\ c \notin Ticketed
        /\ lock' = [lock EXCEPT !.next = Inc(@)]
        /\ Ticketed' = Ticketed \cup {c}
    BY <1>8 DEF TryStxr, MayStore, TicketInv, ReservationFresh, Goto,
                TypeOK, Ticketed, HasTicket
  <2>2. Tkts'
    BY <2>1, TicketsDrawn
  <2>3. lock'.owner = lock.owner
    BY <2>1 DEF TypeOK, Words
  <2>4. Rest'
    BY <1>8, <2>1, <2>3 DEF TryStxr, Goto, TypeOK, TicketInv, AfterStore,
       WakeHolders, HolderIsOwner, InCS, ReservationFresh,
       TrySawFree, UnlockReady, WaiterArmed, Inc
  <2> QED BY <2>2, <2>4, <1>b
<1>9. ASSUME NEW c \in Cpus, UnlockLoad(c) PROVE TicketInv'
  <2>1. Tkts'
    BY <1>9, <1>d DEF UnlockLoad, Goto, TypeOK, Ticketed, HasTicket
  <2>2. Rest'
    BY <1>9 DEF UnlockLoad, Goto, TypeOK, TicketInv,
       HolderIsOwner, InCS, ReservationFresh, TrySawFree, UnlockReady,
       WaiterArmed, Inc
  <2> QED BY <2>1, <2>2, <1>b
<1>10. ASSUME NEW c \in Cpus, UnlockStlrh(c) PROVE TicketInv'
  <2>1. /\ InCS(c) /\ c \in Ticketed /\ lockval[c].next = lock.owner
        /\ tmp[c] = Inc(lock.owner)
    BY <1>10 DEF UnlockStlrh, Goto, InCS, Ticketed, HasTicket, TicketInv,
                 UnlockReady, HolderIsOwner
  <2>2. /\ lock' = [lock EXCEPT !.owner = Inc(@)]
        /\ \A d \in Ticketed \ {c} : lockval'[d] = lockval[d]
        /\ Ticketed' = Ticketed \ {c}
    BY <1>10, <2>1 DEF UnlockStlrh, Goto, TypeOK, Ticketed, HasTicket, Forget
  <2>3. Tkts'
    BY <2>1, <2>2, TicketsReleased
  <2>4. \A d \in Cpus : InCS(d) => d = c
    BY <2>1, <1>c DEF TicketInv, TicketsDistinct, HolderIsOwner
  <2>5. Rest'
    BY <1>10, <2>2, <2>4 DEF UnlockStlrh, Goto, TypeOK, TicketInv,
       AfterStore, WakeHolders, Forget, HolderIsOwner, InCS,
       ReservationFresh, TrySawFree, UnlockReady, WaiterArmed
  <2> QED BY <2>3, <2>5, <1>b
<1>11. ASSUME NEW c \in Cpus, LoseReservation(c) PROVE TicketInv'
  <2>1. Tkts'
    BY <1>11, <1>d DEF LoseReservation, Ticketed, HasTicket
  <2>2. Rest'
    BY <1>11 DEF LoseReservation, TypeOK, TicketInv, SendLocalEvent,
       HolderIsOwner, InCS, ReservationFresh, TrySawFree, UnlockReady,
       WaiterArmed, Inc
  <2> QED BY <2>1, <2>2, <1>b
<1>12. CASE UNCHANGED vars
  <2>1. Tkts'
    BY <1>12, <1>d DEF vars, Ticketed, HasTicket
  <2>2. Rest'
    BY <1>12 DEF vars, TicketInv, HolderIsOwner, InCS, ReservationFresh,
       TrySawFree, UnlockReady, WaiterArmed, Inc
  <2> QED BY <2>1, <2>2, <1>b
<1> QED
  BY <1>1, <1>2, <1>3, <1>4, <1>5, <1>6, <1>7, <1>8, <1>9, <1>10, <1>11,
     <1>12 DEF Next, Step

(* The ticket invariant holds in every execution of the lock code.         *)
THEOREM TicketInvariant == Spec => [](TypeOK /\ TicketInv)
<1>1. Init => TypeOK /\ TicketInv
  BY TypeInit, TicketInit
<1>2. TypeOK /\ TicketInv /\ [Next]_vars => (TypeOK /\ TicketInv)'
  BY TypeNext, TicketNext
<1> QED
  BY <1>1, <1>2, PTL DEF Spec

-----------------------------------------------------------------------------
(* What the lock promises.                                                 *)

(* arch_spin_lock and arch_spin_trylock never let two CPUs in at once.     *)
THEOREM SpinLockMutualExclusion == Spec => []MutualExclusion
<1>1. TypeOK /\ TicketInv => MutualExclusion
  BY DEF TicketInv, TicketsDistinct, HolderIsOwner, MutualExclusion, InCS,
         Ticketed, HasTicket
<1> QED
  BY <1>1, TicketInvariant, PTL

(* The wfe loop of arch_spin_lock cannot sleep through its own turn.       *)
THEOREM SpinLockNoLostWakeup == Spec => []NoLostWakeup
<1>1. TypeOK /\ TicketInv => NoLostWakeup
  BY DEF TicketInv, WaiterArmed, NoLostWakeup
<1> QED
  BY <1>1, TicketInvariant, PTL

(* arch_spin_is_locked and arch_spin_is_contended tell the truth about the *)
(* CPUs holding and awaiting the lock.                                     *)
THEOREM SpinLockQueries == Spec => []QueriesTruthful
<1>1. TypeOK /\ TicketInv => QueriesTruthful
  <2> SUFFICES ASSUME TypeOK, TicketInv PROVE QueriesTruthful
      OBVIOUS
  <2>1. IsFiniteSet(Ticketed)
    BY SpinLockAssumption, FS_Subset DEF Ticketed
  <2>2. /\ lock.owner \in Tickets /\ lock.next \in Tickets
        /\ Cardinality(Ticketed) = Gap(lock.owner, lock.next)
    BY DEF TypeOK, Words, TicketInv, TicketsCounted
  <2>3. SpinIsLocked <=> Ticketed # {}
    BY <2>1, <2>2, GapZero, FS_EmptySet DEF SpinIsLocked
  <2>4. ASSUME SpinIsContended
        PROVE  \E c \in Cpus : HasTicket(c) /\ ~ InCS(c)
    <3>1. Cardinality(Ticketed) > 1
      BY <2>2, <2>4, GapValue DEF SpinIsContended, Tickets
    <3>2. Ticketed # {}
      BY <3>1, FS_EmptySet
    <3>3. PICK c \in Ticketed : TRUE
      BY <3>2
    <3>4. Ticketed # {c}
      BY <3>1, FS_Singleton
    <3>5. PICK d \in Ticketed : d # c
      BY <3>3, <3>4
    <3>6. ~ (InCS(c) /\ InCS(d))
      BY <3>3, <3>5 DEF TicketInv, TicketsDistinct, HolderIsOwner, Ticketed
    <3> QED
      BY <3>3, <3>5, <3>6 DEF Ticketed
  <2> QED
    BY <2>3, <2>4 DEF QueriesTruthful
<1> QED
  BY <1>1, TicketInvariant, PTL

(* Only arch_spin_unlock moves the owner half, by one, on behalf of the    *)
(* holder: the full-word stxr of a concurrent lock never undoes it.        *)
THEOREM SpinLockOwnerOnlyReleased == Spec => OwnerOnlyReleased
<1> DEFINE Released == /\ lock.owner' = Inc(lock.owner)
                       /\ \E c \in Cpus : InCS(c) /\ ~ InCS(c)'
           A == lock.owner' # lock.owner => Released
<1>1. ASSUME TypeOK, TicketInv, [Next]_vars PROVE A
  <2>1. ASSUME NEW c \in Cpus, LockStxr(c) \/ TryStxr(c)
        PROVE  lock.owner' = lock.owner
    BY <1>1, <2>1 DEF LockStxr, TryStxr, MayStore, TicketInv,
                      ReservationFresh, Goto, TypeOK, Words
  <2>2. ASSUME NEW c \in Cpus, UnlockStlrh(c) PROVE Released
    BY <1>1, <2>2 DEF UnlockStlrh, Goto, InCS, TicketInv, UnlockReady,
                      TypeOK, Words
  <2>3. ASSUME lock' = lock PROVE A
    BY <2>3
  <2> QED
    BY <1>1, <2>1, <2>2, <2>3 DEF Next, Step, vars, SpinLockCall,
       SpinTryLockCall, LockLdaxr, LockStxrFail, Wfe, Ldaxrh, TryLdaxr,
       TryStxrFail, UnlockLoad, LoseReservation, WfeSpurious
<1>2. TypeOK /\ TicketInv /\ [Next]_vars => [A]_vars
  BY <1>1
<1> QED
  BY <1>2, TicketInvariant, PTL DEF Spec, OwnerOnlyReleased

-----------------------------------------------------------------------------
(* First come, first served.                                               *)

(* The CPUs of T hold the consecutive tickets from o on, one each...       *)
Consecutive(T, o, lv) ==
    /\ T \subseteq Cpus /\ IsFiniteSet(T) /\ o \in Tickets
    /\ \A c \in T : /\ lv[c].next \in Tickets
                    /\ Gap(o, lv[c].next) < Cardinality(T)
    /\ \A c, d \in T : lv[c].next = lv[d].next => c = d

(* ...and q lists them in that order.                                      *)
Lined(q, T, o, lv) ==
    /\ q \in Seq(T) /\ Len(q) = Cardinality(T)
    /\ \A i \in 1 .. Cardinality(T) : Gap(o, lv[q[i]].next) = i - 1

LEMMA GapInjective ==
    ASSUME NEW o \in Tickets, NEW s \in Tickets, NEW t \in Tickets,
           Gap(o, s) = Gap(o, t)
    PROVE  s = t
<1>1. /\ Gap(o, s) = IF s >= o THEN s - o ELSE s - o + NTicket
      /\ Gap(o, t) = IF t >= o THEN t - o ELSE t - o + NTicket
  BY GapValue
<1>2. /\ NTicket \in Nat /\ o \in Int /\ s \in Int /\ t \in Int
      /\ 0 <= s /\ s < NTicket /\ 0 <= t /\ t < NTicket
  BY SpinLockAssumption DEF Tickets
<1>3. (IF s >= o THEN s - o ELSE s - o + NTicket)
        = IF t >= o THEN t - o ELSE t - o + NTicket
  BY <1>1
<1> QED
  BY <1>2, <1>3

(* As many CPUs as tickets, and no two with the same one: each ticket has  *)
(* its CPU.                                                                *)
LEMMA EveryTicketHeld ==
    ASSUME NEW T, NEW o, NEW lv, Consecutive(T, o, lv), NEW i \in 1 .. Cardinality(T)
    PROVE  \E c \in T : Gap(o, lv[c].next) = i - 1
<1> DEFINE n == Cardinality(T)
           f == [c \in T |-> Gap(o, lv[c].next) + 1]
<1>1. n \in Nat /\ IsFiniteSet(1 .. n) /\ Cardinality(1 .. n) = n
  BY FS_CardinalityType, FS_Interval DEF Consecutive
<1>2. \A c \in T : Gap(o, lv[c].next) \in Nat /\ Gap(o, lv[c].next) < n
  BY GapValue DEF Consecutive, Tickets
<1>3. f \in [T -> 1 .. n]
  BY <1>1, <1>2
<1>4. ASSUME NEW c \in T, NEW d \in T, f[c] = f[d] PROVE c = d
  <2>1. Gap(o, lv[c].next) = Gap(o, lv[d].next)
    BY <1>2, <1>4
  <2> QED
    BY <2>1, GapInjective DEF Consecutive
<1>5. f \in Injection(T, 1 .. n)
  BY <1>3, <1>4 DEF Injection, IsInjective
<1>6. f \in Surjection(T, 1 .. n)
  BY <1>1, <1>5, FS_Injection
<1>7. PICK c \in T : f[c] = i
  BY <1>6 DEF Surjection
<1> QED
  BY <1>2, <1>7

LEMMA OrderLined ==
    ASSUME NEW T, NEW o, NEW lv, Consecutive(T, o, lv)
    PROVE  Lined(InTicketOrder(T, o, lv), T, o, lv)
<1> DEFINE n == Cardinality(T)
           q == InTicketOrder(T, o, lv)
<1>1. n \in Nat
  BY FS_CardinalityType DEF Consecutive
<1>2. ASSUME NEW i \in 1 .. n PROVE q[i] \in T /\ Gap(o, lv[q[i]].next) = i - 1
  BY <1>2, EveryTicketHeld DEF InTicketOrder
<1>3. q \in [1 .. n -> T]
  BY <1>2 DEF InTicketOrder
<1>4. q \in Seq(T)
  BY <1>1, <1>3, SeqDef
<1>5. Len(q) = n
  BY <1>1, <1>3, <1>4, LenProperties
<1> QED
  BY <1>2, <1>4, <1>5 DEF Lined

LEMMA LinedUnique ==
    ASSUME NEW T, NEW o, NEW lv, Consecutive(T, o, lv),
           NEW p, NEW q, Lined(p, T, o, lv), Lined(q, T, o, lv)
    PROVE  p = q
<1>1. /\ p \in Seq(T) /\ q \in Seq(T) /\ Len(p) = Cardinality(T) /\ Len(q) = Cardinality(T)
  BY DEF Lined
<1>2. ASSUME NEW i \in 1 .. Len(p) PROVE p[i] = q[i]
  <2>1. p[i] \in T /\ q[i] \in T
    BY <1>1, ElementOfSeq
  <2>2. Gap(o, lv[p[i]].next) = Gap(o, lv[q[i]].next)
    BY <1>1 DEF Lined
  <2>3. lv[p[i]].next = lv[q[i]].next
    BY <2>1, <2>2, GapInjective DEF Consecutive
  <2> QED
    BY <2>1, <2>3 DEF Consecutive
<1> QED
  BY <1>1, <1>2, SeqEqual

LEMMA TicketsConsecutive ==
    ASSUME TypeOK, TicketInv PROVE Consecutive(Ticketed, lock.owner, lockval)
<1>1. Ticketed \subseteq Cpus /\ IsFiniteSet(Ticketed) /\ lock.owner \in Tickets
  BY SpinLockAssumption, FS_Subset DEF Ticketed, TypeOK, Words
<1>2. \A c \in Ticketed : lockval[c].next \in Tickets
  BY <1>1 DEF TypeOK, Words
<1> QED
  BY <1>1, <1>2 DEF Consecutive, TicketInv, TicketsDistinct, TicketsOutstanding,
     TicketsCounted

(* The queue as the code keeps it: first in line is who holds the owner's  *)
(* ticket.                                                                 *)
LEMMA QueueLined ==
    ASSUME TypeOK, TicketInv
    PROVE  /\ Lined(Queue, Ticketed, lock.owner, lockval)
           /\ Queue \in Seq(Ticketed) /\ Len(Queue) = Cardinality(Ticketed)
           /\ Queue = <<>> <=> Ticketed = {}
           /\ lock.owner = lock.next <=> Ticketed = {}
           /\ \A c \in Ticketed : lockval[c].next = lock.owner
                                     => Queue # <<>> /\ Head(Queue) = c
<1>1. Consecutive(Ticketed, lock.owner, lockval)
  BY TicketsConsecutive
<1>2. Lined(Queue, Ticketed, lock.owner, lockval)
  BY <1>1, OrderLined DEF Queue
<1>3. Queue \in Seq(Ticketed) /\ Len(Queue) = Cardinality(Ticketed)
  BY <1>2 DEF Lined
<1>4. Queue = <<>> <=> Ticketed = {}
  <2>1. IsFiniteSet(Ticketed) /\ (Cardinality(Ticketed) = 0 <=> Ticketed = {})
    BY <1>1, FS_EmptySet DEF Consecutive
  <2>2. Queue = <<>> <=> Len(Queue) = 0
    BY <1>3, EmptySeq
  <2> QED
    BY <1>3, <2>1, <2>2
<1>5. lock.owner = lock.next <=> Ticketed = {}
  <2>1. /\ lock.owner \in Tickets /\ lock.next \in Tickets
        /\ Cardinality(Ticketed) = Gap(lock.owner, lock.next)
    BY DEF TypeOK, Words, TicketInv, TicketsCounted
  <2>2. Cardinality(Ticketed) = 0 <=> Ticketed = {}
    BY <1>1, FS_EmptySet DEF Consecutive
  <2> QED
    BY <2>1, <2>2, GapZero
<1>6. ASSUME NEW c \in Ticketed, lockval[c].next = lock.owner
      PROVE  Queue # <<>> /\ Head(Queue) = c
  <2>1. Queue # <<>> /\ Len(Queue) \in Nat \ {0}
    BY <1>3, <1>4, <1>6, EmptySeq
  <2>2. 1 \in 1 .. Cardinality(Ticketed) /\ Queue[1] \in Ticketed
    BY <1>3, <2>1, ElementOfSeq
  <2>3. Gap(lock.owner, lockval[Queue[1]].next) = 0
    BY <1>2, <2>2 DEF Lined
  <2>4. lockval[Queue[1]].next = lock.owner
    BY <1>1, <2>2, <2>3, GapZero DEF Consecutive
  <2>5. Queue[1] = c
    BY <1>6, <2>2, <2>4 DEF TicketInv, TicketsDistinct
  <2> QED
    BY <1>3, <2>1, <2>5
<1> QED
  BY <1>2, <1>3, <1>4, <1>5, <1>6

(* A drawn ticket: c takes its place at the end.                           *)
LEMMA QueueAppends ==
    ASSUME NEW T, NEW o, NEW lv, NEW q, NEW c \in Cpus, c \notin T,
           Lined(q, T, o, lv), IsFiniteSet(T),
           Gap(o, lv[c].next) = Cardinality(T)
    PROVE  Lined(Append(q, c), T \cup {c}, o, lv)
<1> DEFINE n == Cardinality(T)
<1>1. n \in Nat /\ Cardinality(T \cup {c}) = n + 1
  BY FS_CardinalityType, FS_AddElement
<1>2. q \in Seq(T \cup {c}) /\ Len(q) = n
  BY SeqMonotonic DEF Lined
<1>3. /\ Append(q, c) \in Seq(T \cup {c}) /\ Len(Append(q, c)) = n + 1
      /\ \A i \in 1 .. n : Append(q, c)[i] = q[i]
      /\ Append(q, c)[n + 1] = c
  BY <1>2, AppendProperties
<1>4. ASSUME NEW i \in 1 .. n + 1 PROVE Gap(o, lv[Append(q, c)[i]].next) = i - 1
  <2>1. CASE i = n + 1
    BY <1>1, <1>3, <2>1
  <2>2. CASE i # n + 1
    <3>1. i \in 1 .. n
      BY <1>1, <2>2
    <3> QED
      BY <1>3, <3>1 DEF Lined
  <2> QED
    BY <2>1, <2>2
<1> QED
  BY <1>1, <1>3, <1>4 DEF Lined

(* A release: the first in line leaves and everybody moves up.             *)
LEMMA QueueAdvances ==
    ASSUME NEW T, NEW o, NEW lv, NEW mv, NEW q, NEW c \in T,
           Consecutive(T, o, lv), Lined(q, T, o, lv), lv[c].next = o,
           \A d \in T \ {c} : mv[d] = lv[d]
    PROVE  Lined(Tail(q), T \ {c}, Inc(o), mv)
<1> DEFINE n == Cardinality(T)
<1>1. /\ IsFiniteSet(T) /\ o \in Tickets /\ T # {}
      /\ \A d \in T : lv[d].next \in Tickets
  BY DEF Consecutive
<1>2. n \in Nat /\ n # 0 /\ Cardinality(T \ {c}) = n - 1
  BY <1>1, FS_CardinalityType, FS_RemoveElement, FS_EmptySet
<1>3. q \in Seq(T) /\ Len(q) = n /\ q # <<>>
  BY <1>2, EmptySeq DEF Lined
<1>4. /\ Tail(q) \in Seq(T) /\ Len(Tail(q)) = n - 1
      /\ \A i \in 1 .. n - 1 : Tail(q)[i] = q[i + 1]
  BY <1>3, HeadTailProperties
<1>5. ASSUME NEW i \in 1 .. n - 1
      PROVE  /\ Tail(q)[i] \in T \ {c}
             /\ Gap(Inc(o), mv[Tail(q)[i]].next) = i - 1
  <2>1. i + 1 \in 1 .. n /\ i \in Nat /\ i # 0
    BY <1>2
  <2>2. q[i + 1] \in T /\ Gap(o, lv[q[i + 1]].next) = i
    BY <1>3, <2>1, ElementOfSeq DEF Lined
  <2>3. lv[q[i + 1]].next # o
    BY <1>1, <2>1, <2>2, GapZero
  <2>4. Gap(Inc(o), lv[q[i + 1]].next) = i - 1
    BY <1>1, <2>2, <2>3, GapRelease
  <2> QED
    BY <1>4, <2>2, <2>3, <2>4
<1>6. Tail(q) \in Seq(T \ {c})
  <2>1. Tail(q) \in [1 .. n - 1 -> T \ {c}] /\ n - 1 \in Nat
    BY <1>2, <1>4, <1>5, LenProperties
  <2> QED
    BY <2>1, SeqDef
<1> QED
  BY <1>2, <1>4, <1>5, <1>6 DEF Lined

(* The queue after a step is the one line-up its tickets allow.            *)
LEMMA QueueNext ==
    ASSUME TypeOK, TicketInv, [Next]_vars, NEW q,
           Lined(q, Ticketed', lock'.owner, lockval')
    PROVE  Queue' = q
<1>1. TypeOK' /\ TicketInv'
  BY TypeNext, TicketNext
<1>2. Consecutive(Ticketed', lock'.owner, lockval')
  <2>1. Ticketed' \subseteq Cpus /\ IsFiniteSet(Ticketed') /\ lock'.owner \in Tickets
    BY <1>1, SpinLockAssumption, FS_Subset DEF Ticketed, TypeOK, Words
  <2>2. \A c \in Ticketed' : lockval'[c].next \in Tickets
    BY <1>1, <2>1 DEF TypeOK, Words
  <2>3. /\ \A c \in Ticketed' : Gap(lock'.owner, lockval'[c].next) < Cardinality(Ticketed')
        /\ \A c, d \in Ticketed' : lockval'[c].next = lockval'[d].next => c = d
    BY <1>1 DEF TicketInv, TicketsDistinct, TicketsOutstanding, TicketsCounted, Gap
  <2> QED
    BY <2>1, <2>2, <2>3 DEF Consecutive
<1>3. Queue' = InTicketOrder(Ticketed', lock'.owner, lockval')
  BY DEF Queue, InTicketOrder, Gap
<1> QED
  BY <1>2, <1>3, OrderLined, LinedUnique

(* A step that moves no ticket and nobody in or out.                       *)
LEMMA RefineStutter ==
    ASSUME TypeOK, TicketInv, [Next]_vars, Ticketed' = Ticketed,
           lock'.owner = lock.owner, \A c \in Ticketed : lockval'[c] = lockval[c]
    PROVE  Queue' = Queue
<1>1. Lined(Queue, Ticketed, lock.owner, lockval) /\ Queue \in Seq(Ticketed)
      /\ Len(Queue) = Cardinality(Ticketed)
  BY QueueLined
<1>2. \A i \in 1 .. Cardinality(Ticketed) : Queue[i] \in Ticketed
  BY <1>1, ElementOfSeq
<1>3. Lined(Queue, Ticketed', lock'.owner, lockval')
  BY <1>1, <1>2 DEF Lined
<1> QED
  BY <1>3, QueueNext

(* The stxr that draws a ticket.                                           *)
LEMMA RefineDraw ==
    ASSUME TypeOK, TicketInv, [Next]_vars, NEW c \in Cpus, c \notin Ticketed,
           lock' = [lock EXCEPT !.next = Inc(@)],
           lockval' = lockval, lockval[c] = lock,
           Ticketed' = Ticketed \cup {c}
    PROVE  Queue' = Append(Queue, c) /\ ~ Fifo!Contains(Queue, c)
<1>1. /\ Lined(Queue, Ticketed, lock.owner, lockval) /\ Queue \in Seq(Ticketed)
      /\ Len(Queue) = Cardinality(Ticketed)
  BY QueueLined
<1>2. IsFiniteSet(Ticketed)
  BY SpinLockAssumption, FS_Subset DEF Ticketed
<1>3. Gap(lock.owner, lockval[c].next) = Cardinality(Ticketed)
  BY DEF TicketInv, TicketsCounted
<1>4. lock'.owner = lock.owner
  BY DEF TypeOK, Words
<1>5. Lined(Append(Queue, c), Ticketed', lock'.owner, lockval')
  BY <1>1, <1>2, <1>3, <1>4, QueueAppends
<1>6. ~ Fifo!Contains(Queue, c)
  BY <1>1, ElementOfSeq DEF Fifo!Contains
<1> QED
  BY <1>5, <1>6, QueueNext

LEMMA RefineNext ==
    TypeOK /\ TicketInv /\ [Next]_vars => [Fifo!Next]_(Fifo!vars)
<1> SUFFICES ASSUME TypeOK, TicketInv, [Next]_vars
             PROVE  Fifo!Next \/ UNCHANGED Fifo!vars
    OBVIOUS
<1>a. /\ Queue \in Seq(Ticketed) /\ (Queue = <<>> <=> Ticketed = {})
      /\ lock.owner = lock.next <=> Ticketed = {}
      /\ \A c \in Ticketed : lockval[c].next = lock.owner
                                => Queue # <<>> /\ Head(Queue) = c
  BY QueueLined
<1>b. Ticketed \subseteq Cpus /\ Inside \subseteq Ticketed
  BY DEF Ticketed, Inside, InCS, HasTicket
<1>c. \A c \in Inside : lockval[c].next = lock.owner
  BY DEF Inside, TicketInv, HolderIsOwner
<1>1. ASSUME NEW c \in Cpus, LockStxr(c) PROVE Fifo!Next
  <2>1. /\ lockval[c] = lock /\ lockval' = lockval /\ c \notin Ticketed
        /\ lock' = [lock EXCEPT !.next = Inc(@)]
        /\ Ticketed' = Ticketed \cup {c}
    BY <1>1 DEF LockStxr, MayStore, TicketInv, ReservationFresh, Goto,
                TypeOK, Ticketed, HasTicket
  <2>2. Queue' = Append(Queue, c) /\ ~ Fifo!Contains(Queue, c)
    BY <2>1, RefineDraw
  <2>3. CASE lockval[c].owner = lockval[c].next
    <3>1. Ticketed = {} /\ Queue = <<>> /\ Inside = {}
      BY <1>a, <1>b, <2>1, <2>3
    <3>2. Inside' = {c}
      BY <1>1, <2>3, <3>1 DEF LockStxr, Goto, TypeOK, Inside, InCS
    <3>3. Queue' = <<c>>
      BY <2>2, <3>1
    <3> QED
      BY <3>1, <3>2, <3>3 DEF Fifo!Next, Fifo!Acquire
  <2>4. CASE lockval[c].owner # lockval[c].next
    <3>1. Queue # <<>>
      BY <1>a, <2>1, <2>4
    <3>2. Inside' = Inside
      BY <1>1, <2>1, <2>4 DEF LockStxr, Goto, TypeOK, Inside, InCS
    <3> QED
      BY <2>2, <3>1, <3>2 DEF Fifo!Next, Fifo!Enqueue
  <2> QED
    BY <2>3, <2>4
<1>2. ASSUME NEW c \in Cpus, TryStxr(c) PROVE Fifo!Next
  <2>1. /\ lockval[c] = lock /\ lockval' = lockval /\ c \notin Ticketed
        /\ lock' = [lock EXCEPT !.next = Inc(@)]
        /\ Ticketed' = Ticketed \cup {c} /\ lock.owner = lock.next
    BY <1>2 DEF TryStxr, MayStore, TicketInv, ReservationFresh, TrySawFree, Goto,
                TypeOK, Ticketed, HasTicket
  <2>2. Queue' = Append(Queue, c)
    BY <2>1, RefineDraw
  <2>3. Ticketed = {} /\ Queue = <<>> /\ Inside = {}
    BY <1>a, <1>b, <2>1
  <2>4. Inside' = {c}
    BY <1>2, <2>3 DEF TryStxr, Goto, TypeOK, Inside, InCS
  <2>5. Queue' = <<c>>
    BY <2>2, <2>3
  <2> QED
    BY <2>3, <2>4, <2>5 DEF Fifo!Next, Fifo!Acquire
<1>3. ASSUME NEW c \in Cpus, Ldaxrh(c) PROVE Fifo!Next \/ UNCHANGED Fifo!vars
  <2>1. /\ c \in Ticketed /\ c \notin Inside /\ Ticketed' = Ticketed
        /\ lock' = lock /\ lockval' = lockval
    BY <1>3 DEF Ldaxrh, Goto, TypeOK, Ticketed, HasTicket, Inside, InCS
  <2>2. Queue' = Queue
    BY <2>1, RefineStutter
  <2>3. CASE lock.owner = lockval[c].next
    <3>1. Inside = {}
      BY <1>b, <1>c, <2>1, <2>3 DEF TicketInv, TicketsDistinct
    <3>2. Inside' = {c}
      BY <1>3, <2>3, <3>1 DEF Ldaxrh, Goto, TypeOK, Inside, InCS
    <3> QED
      BY <1>a, <2>1, <2>2, <2>3, <3>1, <3>2 DEF Fifo!Next, Fifo!Enter
  <2>4. CASE lock.owner # lockval[c].next
    <3>1. Inside' = Inside
      BY <1>3, <2>4 DEF Ldaxrh, Goto, TypeOK, Inside, InCS
    <3> QED
      BY <2>2, <3>1 DEF Fifo!vars
  <2> QED
    BY <2>3, <2>4
<1>4. ASSUME NEW c \in Cpus, UnlockStlrh(c) PROVE Fifo!Next
  <2>1. /\ c \in Inside /\ c \in Ticketed /\ lockval[c].next = lock.owner
        /\ tmp[c] = Inc(lock.owner)
    BY <1>4 DEF UnlockStlrh, Goto, InCS, Inside, Ticketed, HasTicket, TicketInv,
                UnlockReady, HolderIsOwner
  <2>2. /\ lock'.owner = Inc(lock.owner)
        /\ \A d \in Ticketed \ {c} : lockval'[d] = lockval[d]
        /\ Ticketed' = Ticketed \ {c}
    BY <1>4, <2>1 DEF UnlockStlrh, Goto, TypeOK, Words, Ticketed, HasTicket, Forget
  <2>3. Lined(Tail(Queue), Ticketed', lock'.owner, lockval')
    <3>1. /\ Consecutive(Ticketed, lock.owner, lockval)
          /\ Lined(Queue, Ticketed, lock.owner, lockval)
      BY QueueLined, TicketsConsecutive
    <3>2. Lined(Tail(Queue), Ticketed \ {c}, Inc(lock.owner), lockval')
      BY <2>1, <2>2, <3>1, QueueAdvances
    <3> QED
      BY <2>2, <3>2
  <2>4. Queue' = Tail(Queue)
    BY <2>3, QueueNext
  <2>5. Inside = {c}
    BY <1>b, <1>c, <2>1 DEF TicketInv, TicketsDistinct
  <2>6. Inside' = {}
    BY <1>4, <2>5 DEF UnlockStlrh, Goto, TypeOK, Inside, InCS
  <2> QED
    BY <2>4, <2>5, <2>6 DEF Fifo!Next, Fifo!Release
<1>5. ASSUME Ticketed' = Ticketed, lock' = lock, Inside' = Inside,
             \A d \in Ticketed : lockval'[d] = lockval[d]
      PROVE  UNCHANGED Fifo!vars
  BY <1>5, RefineStutter DEF Fifo!vars
<1>6. ASSUME NEW c \in Cpus,
             SpinLockCall(c) \/ SpinTryLockCall(c) \/ LockLdaxr(c) \/ LockStxrFail(c)
               \/ TryLdaxr(c) \/ TryStxrFail(c)
      PROVE  UNCHANGED Fifo!vars
  BY <1>5, <1>6 DEF SpinLockCall, SpinTryLockCall, LockLdaxr, LockStxrFail, TryLdaxr,
     TryStxrFail, Forget, Goto, TypeOK, Ticketed, HasTicket, Inside, InCS
<1>7. ASSUME NEW c \in Cpus,
             Wfe(c) \/ WfeSpurious(c) \/ UnlockLoad(c) \/ LoseReservation(c)
      PROVE  UNCHANGED Fifo!vars
  BY <1>5, <1>7 DEF Wfe, WfeSpurious, UnlockLoad, LoseReservation,
     Goto, TypeOK, Ticketed, HasTicket, Inside, InCS
<1>8. CASE UNCHANGED vars
  BY <1>5, <1>8 DEF vars, Ticketed, HasTicket, Inside, InCS
<1> QED
  BY <1>1, <1>2, <1>3, <1>4, <1>6, <1>7, <1>8 DEF Next, Step

LEMMA RefineInit == Init => Fifo!Init
<1> SUFFICES ASSUME Init PROVE Fifo!Init
    OBVIOUS
<1>1. TypeOK /\ TicketInv
  BY TypeInit, TicketInit
<1>2. Ticketed = {} /\ Inside = {}
  BY DEF Init, Ticketed, HasTicket, Inside, InCS
<1> QED
  BY <1>1, <1>2, QueueLined DEF Fifo!Init

(* The instructions of arch_spinlock.h implement FifoLock, for any number  *)
(* of CPUs below the number of tickets and across wrap-around: CPUs enter  *)
(* one at a time in the order of the stxr that drew their ticket.          *)
THEOREM SpinLockIsFifo == Spec => ImplementsFifoLock
<1>1. Spec => [][Fifo!Next]_(Fifo!vars)
  BY TicketInvariant, RefineNext, PTL DEF Spec
<1> QED
  BY <1>1, RefineInit, PTL DEF Spec, ImplementsFifoLock, Fifo!Spec
=============================================================================
