---------------------------- MODULE RWLockProofs ----------------------------
(***************************************************************************)
(* Proofs about the reader/writer lock, for every finite set of CPUs small *)
(* enough for the reader count to stay below the write bit.                *)
(***************************************************************************)
EXTENDS RWLock, FiniteSetTheorems, TLAPS

-----------------------------------------------------------------------------
(* The inductive invariant.  RWExclusion and WordCounts need to know what  *)
(* a CPU whose exclusive store would succeed has seen; NoLostWakeup needs  *)
(* to know what will wake a sleeper whose event register is clear.         *)

(* A CPU that still holds its reservation has computed the value it is     *)
(* about to store from the word as it is.                                  *)
StoreFresh ==
    \A c \in mon :
        /\ pc[c] \in {"w_stxr", "tw_stxr"} => word = 0
        /\ pc[c] \in {"r_stxr", "tr_stxr"} => /\ tmp[c] = Add1(word)
                                             /\ ~ TopBit(tmp[c])
        /\ pc[c] = "ru_stlxr" => tmp[c] = Sub1(word)

(* A sleeper without an event has the word reserved and cannot have the    *)
(* lock yet: the store that changes this will wake it.                     *)
SleeperArmed ==
    \A c \in Cpus :
        /\ pc[c] = "w_wfe" /\ c \notin evt => c \in mon /\ word # 0
        /\ pc[c] = "r_wfe" /\ c \notin evt => c \in mon /\ TopBit(Add1(word))

RWInv == TypeOK /\ RWExclusion /\ WordCounts /\ StoreFresh /\ SleeperArmed

-----------------------------------------------------------------------------
(* Arithmetic on the word.                                                 *)

LEMMA WriteBitPositive == WriteBit \in Nat \ {0} /\ Cardinality(Cpus) \in Nat
BY RWLockAssumption, FS_CardinalityType

LEMMA WordValues == 0 \in Word /\ WriteBit \in Word
BY WriteBitPositive DEF Word

LEMMA AddSub ==
    ASSUME NEW w \in Word
    PROVE  /\ Add1(w) \in Word /\ Sub1(w) \in Word
           /\ Add1(w) = IF w = 2 * WriteBit - 1 THEN 0 ELSE w + 1
           /\ Sub1(w) = IF w = 0 THEN 2 * WriteBit - 1 ELSE w - 1
BY WriteBitPositive DEF Add1, Sub1, Word

LEMMA ReadersFinite ==
    /\ IsFiniteSet(Readers) /\ Cardinality(Readers) \in Nat
    /\ Cardinality(Readers) < WriteBit
    /\ Cardinality(Readers) = 0 => Readers = {}
<1>1. Readers \subseteq Cpus
  BY DEF Readers
<1>2. IsFiniteSet(Readers) /\ Cardinality(Readers) <= Cardinality(Cpus)
  BY <1>1, RWLockAssumption, FS_Subset
<1>3. Cardinality(Readers) \in Nat /\ Cardinality(Cpus) \in Nat
  BY <1>2, RWLockAssumption, FS_CardinalityType
<1> QED
  BY <1>2, <1>3, RWLockAssumption, FS_EmptySet

-----------------------------------------------------------------------------
(* Type correctness.                                                       *)

LEMMA TypeInit == Init => TypeOK
BY WordValues DEF Init, TypeOK

LEMMA TypeNext == TypeOK /\ [Next]_vars => TypeOK'
<1> SUFFICES ASSUME TypeOK, [Next]_vars PROVE TypeOK'
    OBVIOUS
<1> USE DEF TypeOK, Goto
<1>1. ASSUME NEW c \in Cpus, Call(c) PROVE TypeOK'
  BY <1>1 DEF Call, WriteLockCall, WriteTryLockCall, ReadLockCall,
              ReadTryLockCall, SendLocalEvent
<1>2. ASSUME NEW c \in Cpus, Wfe(c) \/ WfeSpurious(c) PROVE TypeOK'
  BY <1>2 DEF Wfe, WfeSpurious, WaitOver, ConsumeEvent
<1>3. ASSUME NEW c \in Cpus, WriteLdaxr(c) PROVE TypeOK'
  BY <1>3 DEF WriteLdaxr, Reserve
<1>4. ASSUME NEW c \in Cpus, WriteStxr(c) PROVE TypeOK'
  BY <1>4, WordValues DEF WriteStxr, StoreEx, StoreExFails, AfterStore, WakeHolders
<1>5. ASSUME NEW c \in Cpus, WriteUnlock(c) PROVE TypeOK'
  BY <1>5, WordValues DEF WriteUnlock, AfterStore, WakeHolders
<1>6. ASSUME NEW c \in Cpus, ReadLdaxr(c) PROVE TypeOK'
  BY <1>6, AddSub DEF ReadLdaxr, Reserve
<1>7. ASSUME NEW c \in Cpus, ReadStxr(c) PROVE TypeOK'
  BY <1>7, WordValues DEF ReadStxr, StoreEx, StoreExFails, AfterStore, WakeHolders
<1>8. ASSUME NEW c \in Cpus, ReadUnlockLdxr(c) PROVE TypeOK'
  BY <1>8, AddSub DEF ReadUnlockLdxr, Reserve
<1>9. ASSUME NEW c \in Cpus, ReadUnlockStlxr(c) PROVE TypeOK'
  BY <1>9, WordValues DEF ReadUnlockStlxr, StoreEx, StoreExFails, AfterStore, WakeHolders
<1>10. ASSUME NEW c \in Cpus, LoseReservation(c) PROVE TypeOK'
  BY <1>10 DEF LoseReservation, SendLocalEvent
<1>11. CASE UNCHANGED vars
  BY <1>11 DEF vars
<1> QED
  BY <1>1, <1>2, <1>3, <1>4, <1>5, <1>6, <1>7, <1>8, <1>9, <1>10, <1>11
     DEF Next, Step

(* The word and the registers stay within the lock's width, and mon and    *)
(* evt only name CPUs.                                                     *)
THEOREM RWTypeCorrect == Spec => []TypeOK
BY TypeInit, TypeNext, PTL DEF Spec

-----------------------------------------------------------------------------
(* The holders and the word.                                               *)

HoldersCounted == RWExclusion /\ WordCounts

(* A step that changes neither the word nor who holds the lock.            *)
LEMMA HoldersKept ==
    ASSUME HoldersCounted, word' = word,
           \A c \in Cpus : /\ Writing(c)' <=> Writing(c)
                           /\ Reading(c)' <=> Reading(c)
    PROVE  HoldersCounted'
<1>1. Readers' = Readers
  BY DEF Readers
<1> QED
  BY <1>1 DEF HoldersCounted, RWExclusion, WordCounts

LEMMA NobodyInside ==
    ASSUME HoldersCounted, word = 0
    PROVE  \A c \in Cpus : ~ Writing(c) /\ ~ Reading(c)
<1>1. ~ \E c \in Cpus : Writing(c)
  BY WriteBitPositive DEF HoldersCounted, WordCounts
<1>2. Readers = {}
  BY <1>1, ReadersFinite DEF HoldersCounted, WordCounts
<1> QED
  BY <1>1, <1>2 DEF Readers

LEMMA WriterEnters ==
    ASSUME HoldersCounted, NEW c \in Cpus, word = 0, word' = WriteBit,
           Writing(c)', \A d \in Cpus \ {c} : /\ Writing(d)' <=> Writing(d)
                                              /\ Reading(d)' <=> Reading(d)
    PROVE  HoldersCounted'
<1>1. \A d \in Cpus : ~ Writing(d) /\ ~ Reading(d)
  BY NobodyInside
<1>2. ~ Reading(c)'
  BY DEF Writing, Reading
<1> QED
  BY <1>1, <1>2 DEF HoldersCounted, RWExclusion, WordCounts

LEMMA WriterLeaves ==
    ASSUME HoldersCounted, NEW c \in Cpus, Writing(c), word' = 0,
           ~ Writing(c)', ~ Reading(c)',
           \A d \in Cpus \ {c} : /\ Writing(d)' <=> Writing(d)
                                 /\ Reading(d)' <=> Reading(d)
    PROVE  HoldersCounted'
<1>1. \A d \in Cpus : ~ Writing(d)' /\ ~ Reading(d)'
  BY DEF HoldersCounted, RWExclusion
<1>2. Readers' = {}
  BY <1>1 DEF Readers
<1> QED
  BY <1>1, <1>2, FS_EmptySet DEF HoldersCounted, RWExclusion, WordCounts

LEMMA ReaderEnters ==
    ASSUME TypeOK, HoldersCounted, NEW c \in Cpus, word' = Add1(word),
           ~ TopBit(Add1(word)), ~ Writing(c), ~ Reading(c), Reading(c)',
           \A d \in Cpus \ {c} : /\ Writing(d)' <=> Writing(d)
                                 /\ Reading(d)' <=> Reading(d)
    PROVE  HoldersCounted'
<1>1. ~ \E d \in Cpus : Writing(d)
  <2>1. ASSUME NEW d \in Cpus, Writing(d) PROVE FALSE
    <3>1. word = WriteBit
      BY <2>1 DEF HoldersCounted, WordCounts
    <3>2. WriteBit + 1 < 2 * WriteBit
      <4>1. Cpus # {} /\ IsFiniteSet(Cpus) /\ Cardinality(Cpus) < WriteBit
        BY RWLockAssumption
      <4>2. Cardinality(Cpus) # 0
        BY <4>1, FS_EmptySet
      <4> QED
        BY <4>1, <4>2, WriteBitPositive
    <3> QED
      BY <3>1, <3>2, AddSub, WriteBitPositive DEF TopBit, TypeOK
  <2> QED
    BY <2>1
<1>2. ~ \E d \in Cpus : Writing(d)'
  BY <1>1 DEF Writing, Reading
<1>3. word = Cardinality(Readers)
  BY <1>1 DEF HoldersCounted, WordCounts
<1>4. Readers' = Readers \cup {c} /\ c \notin Readers
  BY DEF Readers
<1>5. Cardinality(Readers') = Cardinality(Readers) + 1
  BY <1>4, ReadersFinite, FS_AddElement
<1>6. word' = word + 1
  BY <1>3, ReadersFinite, AddSub, WriteBitPositive DEF TypeOK
<1> QED
  BY <1>2, <1>3, <1>5, <1>6 DEF HoldersCounted, RWExclusion, WordCounts

LEMMA ReaderLeaves ==
    ASSUME TypeOK, HoldersCounted, NEW c \in Cpus, word' = Sub1(word),
           Reading(c), ~ Writing(c)', ~ Reading(c)',
           \A d \in Cpus \ {c} : /\ Writing(d)' <=> Writing(d)
                                 /\ Reading(d)' <=> Reading(d)
    PROVE  HoldersCounted'
<1>1. ~ \E d \in Cpus : Writing(d)
  BY DEF HoldersCounted, RWExclusion, Writing, Reading
<1>2. ~ \E d \in Cpus : Writing(d)'
  BY <1>1
<1>3. word = Cardinality(Readers)
  BY <1>1 DEF HoldersCounted, WordCounts
<1>4. Readers' = Readers \ {c} /\ c \in Readers
  BY DEF Readers
<1>5. Cardinality(Readers') = Cardinality(Readers) - 1
  BY <1>4, ReadersFinite, FS_RemoveElement
<1>6. Cardinality(Readers) # 0
  BY <1>4, ReadersFinite
<1>7. word' = word - 1
  BY <1>3, <1>6, AddSub DEF TypeOK
<1> QED
  BY <1>2, <1>3, <1>5, <1>7 DEF HoldersCounted, RWExclusion, WordCounts

LEMMA HoldersNext == RWInv /\ [Next]_vars => HoldersCounted'
<1> SUFFICES ASSUME RWInv, [Next]_vars PROVE HoldersCounted'
    OBVIOUS
<1>0. TypeOK /\ HoldersCounted /\ StoreFresh
  BY DEF RWInv, HoldersCounted
<1> USE DEF Goto, Writing, Reading
<1>1. ASSUME NEW c \in Cpus, Call(c) PROVE HoldersCounted'
  <2>1. word' = word /\ \A d \in Cpus : /\ Writing(d)' <=> Writing(d)
                                        /\ Reading(d)' <=> Reading(d)
    BY <1>0, <1>1 DEF Call, WriteLockCall, WriteTryLockCall, ReadLockCall,
                      ReadTryLockCall, TypeOK
  <2> QED
    BY <1>0, <2>1, HoldersKept
<1>2. ASSUME NEW c \in Cpus, Wfe(c) \/ WfeSpurious(c) \/ LoseReservation(c)
      PROVE  HoldersCounted'
  <2>1. word' = word /\ \A d \in Cpus : /\ Writing(d)' <=> Writing(d)
                                        /\ Reading(d)' <=> Reading(d)
    BY <1>0, <1>2 DEF Wfe, WfeSpurious, WaitOver, LoseReservation, TypeOK
  <2> QED
    BY <1>0, <2>1, HoldersKept
<1>3. ASSUME NEW c \in Cpus, WriteLdaxr(c) \/ ReadLdaxr(c) \/ ReadUnlockLdxr(c)
      PROVE  HoldersCounted'
  <2>1. word' = word /\ \A d \in Cpus : /\ Writing(d)' <=> Writing(d)
                                        /\ Reading(d)' <=> Reading(d)
    BY <1>0, <1>3 DEF WriteLdaxr, ReadLdaxr, ReadUnlockLdxr, TypeOK
  <2> QED
    BY <1>0, <2>1, HoldersKept
<1>4. ASSUME NEW c \in Cpus, WriteStxr(c) PROVE HoldersCounted'
  <2>1. CASE StoreExFails(c)
    <3>1. word' = word /\ \A d \in Cpus : /\ Writing(d)' <=> Writing(d)
                                          /\ Reading(d)' <=> Reading(d)
      BY <1>0, <1>4, <2>1 DEF WriteStxr, StoreEx, StoreExFails, TypeOK
    <3> QED
      BY <1>0, <3>1, HoldersKept
  <2>2. CASE StoreEx(c, WriteBit)
    <3>1. /\ word = 0 /\ word' = WriteBit /\ Writing(c)'
          /\ \A d \in Cpus \ {c} : /\ Writing(d)' <=> Writing(d)
                                   /\ Reading(d)' <=> Reading(d)
      BY <1>0, <1>4, <2>2
         DEF WriteStxr, StoreEx, StoreExFails, MayStore, StoreFresh, TypeOK
    <3> QED
      BY <1>0, <3>1, WriterEnters
  <2> QED
    BY <1>4, <2>1, <2>2 DEF WriteStxr
<1>5. ASSUME NEW c \in Cpus, WriteUnlock(c) PROVE HoldersCounted'
  <2>1. /\ Writing(c) /\ word' = 0 /\ ~ Writing(c)' /\ ~ Reading(c)'
        /\ \A d \in Cpus \ {c} : /\ Writing(d)' <=> Writing(d)
                                 /\ Reading(d)' <=> Reading(d)
    BY <1>0, <1>5 DEF WriteUnlock, TypeOK
  <2> QED
    BY <1>0, <2>1, WriterLeaves
<1>6. ASSUME NEW c \in Cpus, ReadStxr(c) PROVE HoldersCounted'
  <2>1. CASE StoreExFails(c)
    <3>1. word' = word /\ \A d \in Cpus : /\ Writing(d)' <=> Writing(d)
                                          /\ Reading(d)' <=> Reading(d)
      BY <1>0, <1>6, <2>1 DEF ReadStxr, StoreEx, StoreExFails, TypeOK
    <3> QED
      BY <1>0, <3>1, HoldersKept
  <2>2. CASE StoreEx(c, tmp[c])
    <3>1. /\ ~ Writing(c) /\ ~ Reading(c) /\ Reading(c)'
          /\ word' = Add1(word) /\ ~ TopBit(Add1(word))
          /\ \A d \in Cpus \ {c} : /\ Writing(d)' <=> Writing(d)
                                   /\ Reading(d)' <=> Reading(d)
      BY <1>0, <1>6, <2>2
         DEF ReadStxr, StoreEx, StoreExFails, MayStore, StoreFresh, TypeOK
    <3> QED
      BY <1>0, <3>1, ReaderEnters
  <2> QED
    BY <1>6, <2>1, <2>2 DEF ReadStxr
<1>7. ASSUME NEW c \in Cpus, ReadUnlockStlxr(c) PROVE HoldersCounted'
  <2>1. CASE StoreExFails(c)
    <3>1. word' = word /\ \A d \in Cpus : /\ Writing(d)' <=> Writing(d)
                                          /\ Reading(d)' <=> Reading(d)
      BY <1>0, <1>7, <2>1 DEF ReadUnlockStlxr, StoreEx, StoreExFails, TypeOK
    <3> QED
      BY <1>0, <3>1, HoldersKept
  <2>2. CASE StoreEx(c, tmp[c])
    <3>1. /\ Reading(c) /\ ~ Writing(c)' /\ ~ Reading(c)' /\ word' = Sub1(word)
          /\ \A d \in Cpus \ {c} : /\ Writing(d)' <=> Writing(d)
                                   /\ Reading(d)' <=> Reading(d)
      BY <1>0, <1>7, <2>2
         DEF ReadUnlockStlxr, StoreEx, StoreExFails, MayStore, StoreFresh, TypeOK
    <3> QED
      BY <1>0, <3>1, ReaderLeaves
  <2> QED
    BY <1>7, <2>1, <2>2 DEF ReadUnlockStlxr
<1>8. CASE UNCHANGED vars
  <2>1. word' = word /\ \A d \in Cpus : /\ Writing(d)' <=> Writing(d)
                                        /\ Reading(d)' <=> Reading(d)
    BY <1>8 DEF vars
  <2> QED
    BY <1>0, <2>1, HoldersKept
<1> QED
  BY <1>1, <1>2, <1>3, <1>4, <1>5, <1>6, <1>7, <1>8 DEF Next, Step

-----------------------------------------------------------------------------
(* Reservations and sleepers.                                              *)

LEMMA FreshNext == RWInv /\ [Next]_vars => StoreFresh'
<1> SUFFICES ASSUME RWInv, [Next]_vars PROVE StoreFresh'
    OBVIOUS
<1>0. TypeOK /\ StoreFresh
  BY DEF RWInv
<1> USE <1>0 DEF StoreFresh, TypeOK, Goto
<1>1. ASSUME NEW c \in Cpus, Call(c) PROVE StoreFresh'
  BY <1>1 DEF Call, WriteLockCall, WriteTryLockCall, ReadLockCall, ReadTryLockCall
<1>2. ASSUME NEW c \in Cpus, Wfe(c) \/ WfeSpurious(c) \/ LoseReservation(c)
      PROVE  StoreFresh'
  BY <1>2 DEF Wfe, WfeSpurious, WaitOver, LoseReservation
<1>3. ASSUME NEW c \in Cpus, WriteLdaxr(c) PROVE StoreFresh'
  BY <1>3 DEF WriteLdaxr, Reserve
<1>4. ASSUME NEW c \in Cpus, ReadLdaxr(c) PROVE StoreFresh'
  BY <1>4 DEF ReadLdaxr, Reserve
<1>5. ASSUME NEW c \in Cpus, ReadUnlockLdxr(c) PROVE StoreFresh'
  BY <1>5 DEF ReadUnlockLdxr, Reserve
<1>6. ASSUME NEW c \in Cpus, WriteStxr(c) PROVE StoreFresh'
  BY <1>6 DEF WriteStxr, StoreEx, StoreExFails, MayStore, AfterStore
<1>7. ASSUME NEW c \in Cpus, ReadStxr(c) PROVE StoreFresh'
  BY <1>7 DEF ReadStxr, StoreEx, StoreExFails, MayStore, AfterStore
<1>8. ASSUME NEW c \in Cpus, ReadUnlockStlxr(c) PROVE StoreFresh'
  BY <1>8 DEF ReadUnlockStlxr, StoreEx, StoreExFails, MayStore, AfterStore
<1>9. ASSUME NEW c \in Cpus, WriteUnlock(c) PROVE StoreFresh'
  BY <1>9 DEF WriteUnlock, AfterStore
<1>10. CASE UNCHANGED vars
  BY <1>10 DEF vars
<1> QED
  BY <1>1, <1>2, <1>3, <1>4, <1>5, <1>6, <1>7, <1>8, <1>9, <1>10 DEF Next, Step

(* A store to the word leaves every sleeper but the storing CPU, which is  *)
(* not asleep afterwards, with an event.                                   *)
LEMMA StoreWakes ==
    ASSUME TypeOK, SleeperArmed, NEW c \in Cpus,
           evt' = WakeHolders(mon, evt, c),
           pc'[c] \notin {"w_wfe", "r_wfe"},
           \A d \in Cpus \ {c} : pc'[d] = pc[d]
    PROVE  SleeperArmed'
BY DEF SleeperArmed, WakeHolders

LEMMA ArmedNext == RWInv /\ [Next]_vars => SleeperArmed'
<1> SUFFICES ASSUME RWInv, [Next]_vars PROVE SleeperArmed'
    OBVIOUS
<1>0. TypeOK /\ SleeperArmed
  BY DEF RWInv
<1> USE DEF TypeOK, Goto
<1>1. ASSUME NEW c \in Cpus, Call(c) PROVE SleeperArmed'
  BY <1>0, <1>1 DEF Call, WriteLockCall, WriteTryLockCall, ReadLockCall,
     ReadTryLockCall, SendLocalEvent, SleeperArmed
<1>2. ASSUME NEW c \in Cpus, Wfe(c) \/ WfeSpurious(c) PROVE SleeperArmed'
  BY <1>0, <1>2 DEF Wfe, WfeSpurious, WaitOver, ConsumeEvent, SleeperArmed
<1>3. ASSUME NEW c \in Cpus, LoseReservation(c) PROVE SleeperArmed'
  BY <1>0, <1>3 DEF LoseReservation, SendLocalEvent, SleeperArmed
<1>4. ASSUME NEW c \in Cpus, WriteLdaxr(c) PROVE SleeperArmed'
  BY <1>0, <1>4 DEF WriteLdaxr, Reserve, SleeperArmed
<1>5. ASSUME NEW c \in Cpus, ReadLdaxr(c) PROVE SleeperArmed'
  BY <1>0, <1>5 DEF ReadLdaxr, Reserve, SleeperArmed
<1>6. ASSUME NEW c \in Cpus, ReadUnlockLdxr(c) PROVE SleeperArmed'
  BY <1>0, <1>6 DEF ReadUnlockLdxr, Reserve, SleeperArmed
<1>7. ASSUME NEW c \in Cpus, StoreExFails(c),
             WriteStxr(c) \/ ReadStxr(c) \/ ReadUnlockStlxr(c)
      PROVE  SleeperArmed'
  BY <1>0, <1>7 DEF WriteStxr, ReadStxr, ReadUnlockStlxr, StoreEx, StoreExFails,
     SleeperArmed
<1>8. ASSUME NEW c \in Cpus, ~ StoreExFails(c),
             WriteStxr(c) \/ ReadStxr(c) \/ ReadUnlockStlxr(c)
      PROVE  SleeperArmed'
  <2>1. /\ evt' = WakeHolders(mon, evt, c)
        /\ pc'[c] \notin {"w_wfe", "r_wfe"}
        /\ \A d \in Cpus \ {c} : pc'[d] = pc[d]
    BY <1>0, <1>8 DEF WriteStxr, ReadStxr, ReadUnlockStlxr, StoreEx
  <2> QED
    BY <1>0, <2>1, StoreWakes
<1>9. ASSUME NEW c \in Cpus, WriteUnlock(c) PROVE SleeperArmed'
  <2>1. /\ evt' = WakeHolders(mon, evt, c)
        /\ pc'[c] \notin {"w_wfe", "r_wfe"}
        /\ \A d \in Cpus \ {c} : pc'[d] = pc[d]
    BY <1>0, <1>9 DEF WriteUnlock
  <2> QED
    BY <1>0, <2>1, StoreWakes
<1>10. CASE UNCHANGED vars
  BY <1>0, <1>10 DEF vars, SleeperArmed
<1> QED
  BY <1>1, <1>2, <1>3, <1>4, <1>5, <1>6, <1>7, <1>8, <1>9, <1>10 DEF Next, Step

-----------------------------------------------------------------------------
LEMMA RWInit == Init => RWInv
<1> SUFFICES ASSUME Init PROVE RWInv
    OBVIOUS
<1>1. \A c \in Cpus : pc[c] = "out"
  BY DEF Init
<1>2. Readers = {}
  BY <1>1 DEF Readers, Reading
<1>3. RWExclusion /\ WordCounts
  BY <1>1, <1>2, FS_EmptySet DEF Init, RWExclusion, WordCounts, Writing, Reading
<1>4. StoreFresh /\ SleeperArmed
  BY <1>1 DEF Init, StoreFresh, SleeperArmed
<1> QED
  BY <1>3, <1>4, TypeInit DEF RWInv

LEMMA RWNext == RWInv /\ [Next]_vars => RWInv'
BY TypeNext, HoldersNext, FreshNext, ArmedNext DEF RWInv, HoldersCounted

LEMMA RWInvariance == Spec => []RWInv
BY RWInit, RWNext, PTL DEF Spec

(* A writer is inside alone, whatever the mixture of lock, trylock and     *)
(* unlock calls, lost reservations and failed exclusive stores.            *)
THEOREM WritersExclude == Spec => []RWExclusion
BY RWInvariance, PTL DEF RWInv

(* The word is the write bit or the exact number of readers: the stlr of 0 *)
(* and the readers' decrement never lose anybody.                          *)
THEOREM WordIsCount == Spec => []WordCounts
BY RWInvariance, PTL DEF RWInv

(* No CPU sleeps in wfe with a clear event register while it could have    *)
(* the lock: the sevl; wfe; ldaxr order loses no wake-up.                  *)
THEOREM WakeupsKept == Spec => []NoLostWakeup
<1>1. RWInv => NoLostWakeup
  BY DEF RWInv, SleeperArmed, NoLostWakeup
<1> QED
  BY <1>1, RWInvariance, PTL
=============================================================================
