---------------------------- MODULE GicBootProofs ----------------------------
(***************************************************************************)
(* Proofs about plat_gicv3_init, for every number of CPUs and of SPI       *)
(* registers, none included.                                               *)
(***************************************************************************)
EXTENDS GicBoot, TLAPS

-----------------------------------------------------------------------------
(* The inductive invariant.                                                *)

(* c is the CPU inside gicv3_init.                                         *)
Programming(c) == pc[c] \in {"ctlr", "ctlr_wait", "line_wait", "icpendr",
                             "icactiver", "icenabler", "once"}

OneProgrammer ==
    /\ \A c, d \in Cpus : Programming(c) /\ Programming(d) => c = d
    /\ once = "no" => \A c \in Cpus : pc[c] = "start"
    /\ once = "busy" => \A c \in Cpus : ~ Past(c)
    /\ once = "done" => \A c \in Cpus : ~ Programming(c)

(* Register l of the distributor has been programmed, although the write   *)
(* to its ICENABLER may not have taken effect.                             *)
Cleared(l) == l \notin dist.active /\ (l \in dist.enabled => l \in dist.disabling)

LoopProgress(c) ==
    /\ pc[c] \in {"icpendr", "icactiver", "icenabler", "line_wait"} => line \in Lines
    /\ pc[c] \in {"icpendr", "icactiver", "icenabler"} =>
          \A l \in Lines : l < line => Cleared(l)
    /\ pc[c] = "icenabler" => line \notin dist.active
    /\ pc[c] = "line_wait" => \A l \in Lines : l <= line => Cleared(l)
    /\ pc[c] = "once" => \A l \in Lines : Cleared(l)

DistributorDone == once = "done" => \A l \in Lines : Cleared(l)

(* A redistributor with a disabling write on its way shows it in RWP; a    *)
(* CPU waiting for that bit has made the write, one past the wait has seen *)
(* it take effect.                                                         *)
FrameProgress ==
    /\ \A r \in Cpus : redist[r].disabling => redist[r].rwp
    /\ \A c \in Cpus :
          /\ pc[c] = "gicr_dis_wait" /\ redist[frame[c]].enabled
                => redist[frame[c]].disabling
          /\ pc[c] \in {"icc", "ready"} => ~ redist[frame[c]].enabled
          /\ c \in icc => pc[c] = "ready"

DistInv == OneProgrammer /\ (\A c \in Cpus : LoopProgress(c)) /\ DistributorDone

GicBootInv == TypeOK /\ DistInv /\ FrameProgress

-----------------------------------------------------------------------------
LEMMA ZeroIsCpu == 0 \in Cpus
BY GicBootAssumption DEF Cpus

LEMMA TypeInit == Init => TypeOK
<1> SUFFICES ASSUME Init PROVE TypeOK
    OBVIOUS
<1>1. line \in 0 .. ITLines
  BY GicBootAssumption DEF Init
<1>2. redist \in [Cpus -> Frame]
  BY DEF Init, Frame
<1>3. dist \in [rwp : BOOLEAN, pending : SUBSET Lines, active : SUBSET Lines,
                enabled : SUBSET Lines, disabling : SUBSET Lines]
  BY DEF Init
<1> QED
  BY <1>1, <1>2, <1>3, ZeroIsCpu DEF Init, TypeOK

(* Every step of the distributor code keeps the types.                     *)
LEMMA TypeDist ==
    ASSUME TypeOK, NEW c \in Cpus,
           \/ RunOnceFirst(c) \/ RunOncePass(c) \/ OnceDone(c)
           \/ GicdCtlr(c) \/ GicdWaitRwp(c)
           \/ GicdIcpendr(c) \/ GicdIcactiver(c)
           \/ GicdIcenabler(c) /\ line \in Lines
    PROVE  TypeOK'
<1> USE DEF TypeOK, Goto
<1>1. CASE RunOnceFirst(c) \/ RunOncePass(c) \/ OnceDone(c)
  BY <1>1 DEF RunOnceFirst, RunOncePass, OnceDone
<1>2. CASE GicdCtlr(c)
  BY <1>2 DEF GicdCtlr
<1>3. CASE GicdWaitRwp(c)
  BY <1>3, GicBootAssumption DEF GicdWaitRwp
<1>4. CASE GicdIcpendr(c) \/ GicdIcactiver(c)
  BY <1>4 DEF GicdIcpendr, GicdIcactiver
<1>5. CASE GicdIcenabler(c) /\ line \in Lines
  BY <1>5 DEF GicdIcenabler
<1> QED
  BY <1>1, <1>2, <1>3, <1>4, <1>5

(* Writing bits of a redistributor.                                        *)
LEMMA FrameField ==
    ASSUME TypeOK, NEW r \in Cpus, NEW b \in BOOLEAN
    PROVE  /\ [redist EXCEPT ![r].rwp = b] \in [Cpus -> Frame]
           /\ [redist EXCEPT ![r].sleep = b] \in [Cpus -> Frame]
           /\ [redist EXCEPT ![r].childrenAsleep = b] \in [Cpus -> Frame]
<1>1. redist[r] \in Frame /\ redist \in [Cpus -> Frame]
  BY DEF TypeOK
<1>2. /\ [redist[r] EXCEPT !.rwp = b] \in Frame
      /\ [redist[r] EXCEPT !.sleep = b] \in Frame
      /\ [redist[r] EXCEPT !.childrenAsleep = b] \in Frame
  BY <1>1 DEF Frame
<1> QED
  BY <1>1, <1>2

LEMMA FrameFields ==
    ASSUME TypeOK, NEW r \in Cpus, NEW a \in BOOLEAN, NEW b \in BOOLEAN,
           NEW e \in BOOLEAN
    PROVE  /\ [redist EXCEPT ![r].disabling = a, ![r].rwp = b] \in [Cpus -> Frame]
           /\ [redist EXCEPT ![r].pending = a, ![r].active = b] \in [Cpus -> Frame]
           /\ [redist EXCEPT ![r].rwp = a, ![r].enabled = e, ![r].disabling = b]
                \in [Cpus -> Frame]
<1>1. redist[r] \in Frame /\ redist \in [Cpus -> Frame]
  BY DEF TypeOK
<1>2. /\ [redist[r] EXCEPT !.disabling = a, !.rwp = b] \in Frame
      /\ [redist[r] EXCEPT !.pending = a, !.active = b] \in Frame
      /\ [redist[r] EXCEPT !.rwp = a, !.enabled = e, !.disabling = b] \in Frame
  BY <1>1 DEF Frame
<1> QED
  BY <1>1, <1>2

LEMMA TypeRedist ==
    ASSUME TypeOK, NEW c \in Cpus,
           \/ GicrFrame(c) \/ GicrWake(c) \/ GicrAwake(c) \/ GicrCtlr(c)
           \/ GicrWaitRwp(c) \/ GicrClear(c) \/ GicrIcenabler(c) \/ IccOpen(c)
    PROVE  TypeOK'
<1> USE DEF TypeOK, Goto
<1>1. CASE GicrFrame(c)
  BY <1>1 DEF GicrFrame
<1>2. CASE GicrWake(c)
  <2>1. redist' \in [Cpus -> Frame]
    BY <1>2, FrameField DEF GicrWake
  <2> QED
    BY <1>2, <2>1 DEF GicrWake
<1>3. CASE GicrAwake(c)
  BY <1>3 DEF GicrAwake
<1>4. CASE GicrCtlr(c)
  BY <1>4, FrameField DEF GicrCtlr
<1>5. CASE GicrWaitRwp(c)
  BY <1>5 DEF GicrWaitRwp
<1>6. CASE GicrClear(c)
  <2>1. redist' \in [Cpus -> Frame]
    BY <1>6, FrameFields DEF GicrClear
  <2> QED
    BY <1>6, <2>1 DEF GicrClear
<1>7. CASE GicrIcenabler(c)
  <2>1. redist' \in [Cpus -> Frame]
    BY <1>7, FrameFields DEF GicrIcenabler
  <2> QED
    BY <1>7, <2>1 DEF GicrIcenabler
<1>8. CASE IccOpen(c)
  BY <1>8 DEF IccOpen
<1> QED
  BY <1>1, <1>2, <1>3, <1>4, <1>5, <1>6, <1>7, <1>8

LEMMA TypeNext == GicBootInv /\ [Next]_vars => TypeOK'
<1> SUFFICES ASSUME GicBootInv, [Next]_vars PROVE TypeOK'
    OBVIOUS
<1>0. TypeOK
  BY DEF GicBootInv
<1> USE DEF TypeOK
<1>1. ASSUME NEW c \in Cpus, CpuStep(c) PROVE TypeOK'
  <2>1. GicdIcenabler(c) => line \in Lines
    BY DEF GicdIcenabler, Goto, GicBootInv, DistInv, LoopProgress
  <2> QED
    BY <1>0, <1>1, <2>1, TypeDist, TypeRedist DEF CpuStep
<1>2. ASSUME GicdSettles PROVE TypeOK'
  BY <1>0, <1>2 DEF GicdSettles
<1>3. ASSUME NEW r \in Cpus, GicrSettles(r) PROVE TypeOK'
  <2>1. (redist[r].enabled /\ ~ redist[r].disabling) \in BOOLEAN
    OBVIOUS
  <2>2. redist' \in [Cpus -> Frame]
    BY <1>0, <1>3, <2>1, FrameFields DEF GicrSettles
  <2> QED
    BY <1>0, <1>3, <2>2 DEF GicrSettles
<1>4. ASSUME NEW r \in Cpus, ChildrenWake(r) PROVE TypeOK'
  <2>1. redist' \in [Cpus -> Frame]
    BY <1>0, <1>4, FrameField DEF ChildrenWake
  <2> QED
    BY <1>0, <1>4, <2>1 DEF ChildrenWake
<1>5. ASSUME NEW l \in Lines, DeviceRaises(l) PROVE TypeOK'
  BY <1>0, <1>5 DEF DeviceRaises
<1>6. CASE UNCHANGED vars
  BY <1>0, <1>6 DEF vars
<1> QED
  BY <1>1, <1>2, <1>3, <1>4, <1>5, <1>6 DEF Next, Hardware

-----------------------------------------------------------------------------
(* run_once: one programmer, and nobody past it before it is done.         *)

LEMMA ProgrammerNext == GicBootInv /\ [Next]_vars => OneProgrammer'
<1> SUFFICES ASSUME GicBootInv, [Next]_vars PROVE OneProgrammer'
    OBVIOUS
<1>0. TypeOK /\ OneProgrammer
  BY DEF GicBootInv, DistInv
<1> USE <1>0 DEF TypeOK, OneProgrammer, Programming, Past, Goto
<1>1. ASSUME NEW c \in Cpus, RunOnceFirst(c) PROVE OneProgrammer'
  BY <1>1 DEF RunOnceFirst
<1>2. ASSUME NEW c \in Cpus, RunOncePass(c) PROVE OneProgrammer'
  BY <1>2 DEF RunOncePass
<1>3. ASSUME NEW c \in Cpus, GicdCtlr(c) \/ GicdIcpendr(c) \/ GicdIcactiver(c)
                               \/ GicdIcenabler(c)
      PROVE  OneProgrammer'
  BY <1>3 DEF GicdCtlr, GicdIcpendr, GicdIcactiver, GicdIcenabler
<1>4. ASSUME NEW c \in Cpus, GicdWaitRwp(c) PROVE OneProgrammer'
  BY <1>4 DEF GicdWaitRwp
<1>5. ASSUME NEW c \in Cpus, OnceDone(c) PROVE OneProgrammer'
  BY <1>5 DEF OnceDone
<1>6. ASSUME NEW c \in Cpus,
             \/ GicrFrame(c) \/ GicrWake(c) \/ GicrAwake(c) \/ GicrCtlr(c)
             \/ GicrWaitRwp(c) \/ GicrClear(c) \/ GicrIcenabler(c) \/ IccOpen(c)
      PROVE  OneProgrammer'
  BY <1>6 DEF GicrFrame, GicrWake, GicrAwake, GicrCtlr, GicrWaitRwp, GicrClear,
     GicrIcenabler, IccOpen
<1>7. CASE Hardware \/ (\E l \in Lines : DeviceRaises(l)) \/ UNCHANGED vars
  BY <1>7 DEF Hardware, GicdSettles, GicrSettles, ChildrenWake, DeviceRaises, vars
<1> QED
  BY <1>1, <1>2, <1>3, <1>4, <1>5, <1>6, <1>7 DEF Next, CpuStep

-----------------------------------------------------------------------------
(* The loop over the SPI registers.                                        *)

(* A register that is programmed stays so: nothing makes an SPI active or  *)
(* enables one, and a disabling write that is made takes effect.           *)
LEMMA ClearedStays ==
    ASSUME TypeOK, [Next]_vars, NEW l, Cleared(l)
    PROVE  Cleared(l)'
<1> USE DEF Cleared, TypeOK
<1>1. ASSUME NEW c \in Cpus, GicdIcpendr(c) \/ GicdIcactiver(c) \/ GicdIcenabler(c)
      PROVE  Cleared(l)'
  <2>1. CASE GicdIcpendr(c)
    BY <2>1 DEF GicdIcpendr
  <2>2. CASE GicdIcactiver(c)
    BY <2>2 DEF GicdIcactiver
  <2>3. CASE GicdIcenabler(c)
    BY <2>3 DEF GicdIcenabler
  <2> QED
    BY <1>1, <2>1, <2>2, <2>3
<1>2. ASSUME NEW c \in Cpus, GicdCtlr(c) PROVE Cleared(l)'
  BY <1>2 DEF GicdCtlr
<1>3. CASE GicdSettles
  BY <1>3 DEF GicdSettles
<1>4. ASSUME NEW k \in Lines, DeviceRaises(k) PROVE Cleared(l)'
  BY <1>4 DEF DeviceRaises
<1>5. CASE dist' = dist
  BY <1>5
<1> QED
  BY <1>1, <1>2, <1>3, <1>4, <1>5 DEF Next, CpuStep, Hardware, vars,
     RunOnceFirst, RunOncePass, GicdWaitRwp, OnceDone, GicrFrame, GicrWake,
     GicrAwake, GicrCtlr, GicrWaitRwp, GicrClear, GicrIcenabler, IccOpen,
     GicrSettles, ChildrenWake

(* Only the programmer moves line, and nobody moves the programmer.        *)
LEMMA LoopKept ==
    ASSUME TypeOK, [Next]_vars, NEW c \in Cpus, LoopProgress(c),
           pc'[c] = pc[c], line' = line
    PROVE  LoopProgress(c)'
<1>1. pc[c] = "icenabler" => line \notin dist'.active
  <2> SUFFICES ASSUME pc[c] = "icenabler" PROVE line \notin dist'.active
      OBVIOUS
  <2>1. line \notin dist.active
    BY DEF LoopProgress
  <2>2. dist'.active \subseteq dist.active
    <3> USE DEF TypeOK
    <3>1. ASSUME NEW d \in Cpus, GicdCtlr(d) \/ GicdIcpendr(d) \/ GicdIcactiver(d)
                                 \/ GicdIcenabler(d)
          PROVE  dist'.active \subseteq dist.active
      BY <3>1 DEF GicdCtlr, GicdIcpendr, GicdIcactiver, GicdIcenabler
    <3>2. CASE GicdSettles \/ \E k \in Lines : DeviceRaises(k)
      BY <3>2 DEF GicdSettles, DeviceRaises
    <3>3. CASE dist' = dist
      BY <3>3
    <3> QED
      BY <3>1, <3>2, <3>3 DEF Next, CpuStep, Hardware, vars,
         RunOnceFirst, RunOncePass, GicdWaitRwp, OnceDone, GicrFrame, GicrWake,
         GicrAwake, GicrCtlr, GicrWaitRwp, GicrClear, GicrIcenabler, IccOpen,
         GicrSettles, ChildrenWake
  <2> QED
    BY <2>1, <2>2
<1> QED
  BY <1>1, ClearedStays DEF LoopProgress

LEMMA LoopNext == GicBootInv /\ [Next]_vars => (\A c \in Cpus : LoopProgress(c))'
<1> SUFFICES ASSUME GicBootInv, [Next]_vars, NEW d \in Cpus PROVE LoopProgress(d)'
    OBVIOUS
<1>0. TypeOK /\ OneProgrammer /\ LoopProgress(d)
  BY DEF GicBootInv, DistInv
<1> USE DEF TypeOK, Goto
<1>1. ASSUME NEW c \in Cpus,
             \/ RunOnceFirst(c) \/ RunOncePass(c) \/ GicdCtlr(c) \/ OnceDone(c)
             \/ GicrFrame(c) \/ GicrWake(c) \/ GicrAwake(c) \/ GicrCtlr(c)
             \/ GicrWaitRwp(c) \/ GicrClear(c) \/ GicrIcenabler(c) \/ IccOpen(c)
      PROVE  LoopProgress(d)'
  <2>1. /\ c # d => pc'[d] = pc[d]
        /\ pc'[c] \notin {"icpendr", "icactiver", "icenabler", "line_wait", "once"}
    BY <1>0, <1>1 DEF RunOnceFirst, RunOncePass, GicdCtlr, OnceDone, GicrFrame,
       GicrWake, GicrAwake, GicrCtlr, GicrWaitRwp, GicrClear, GicrIcenabler, IccOpen
  <2>2. line' = line
    BY <1>1 DEF RunOnceFirst, RunOncePass, GicdCtlr, OnceDone, GicrFrame,
       GicrWake, GicrAwake, GicrCtlr, GicrWaitRwp, GicrClear, GicrIcenabler, IccOpen
  <2>3. CASE c = d
    BY <2>1, <2>3 DEF LoopProgress
  <2>4. CASE c # d
    BY <1>0, <2>1, <2>2, <2>4, LoopKept
  <2> QED
    BY <2>3, <2>4
<1>2. ASSUME NEW c \in Cpus, GicdWaitRwp(c) PROVE LoopProgress(d)'
  <2>1. c = d \/ ~ Programming(d)'
    BY <1>0, <1>2 DEF GicdWaitRwp, OneProgrammer, Programming
  <2>2. CASE pc[c] = "ctlr_wait" /\ c = d
    BY <1>0, <1>2, <2>2, GicBootAssumption DEF GicdWaitRwp, LoopProgress, Lines, Cleared
  <2>3. CASE pc[c] = "line_wait" /\ c = d
    <3>1. \A l \in Lines : l <= line => Cleared(l)'
      BY <1>0, <2>3, ClearedStays DEF LoopProgress
    <3> QED
      BY <1>0, <1>2, <2>3, <3>1, GicBootAssumption
         DEF GicdWaitRwp, LoopProgress, Lines, Cleared
  <2>4. CASE c # d
    BY <2>1, <2>4 DEF Programming, LoopProgress
  <2> QED
    BY <1>2, <2>2, <2>3, <2>4 DEF GicdWaitRwp
<1>3. ASSUME NEW c \in Cpus, GicdIcpendr(c) \/ GicdIcactiver(c) \/ GicdIcenabler(c)
      PROVE  LoopProgress(d)'
  <2>1. \A l \in Lines : Cleared(l) => Cleared(l)'
    BY <1>0, ClearedStays
  <2>2. CASE c # d
    BY <1>0, <1>3, <2>2, LoopKept DEF GicdIcpendr, GicdIcactiver, GicdIcenabler
  <2>3. CASE c = d /\ GicdIcpendr(c)
    BY <1>0, <2>1, <2>3 DEF GicdIcpendr, LoopProgress
  <2>4. CASE c = d /\ GicdIcactiver(c)
    <3>1. line \notin dist'.active
      BY <1>0, <2>4 DEF GicdIcactiver
    <3> QED
      BY <1>0, <2>1, <2>4, <3>1 DEF GicdIcactiver, LoopProgress
  <2>5. CASE c = d /\ GicdIcenabler(c)
    <3>1. Cleared(line)'
      BY <1>0, <2>5 DEF GicdIcenabler, LoopProgress, Cleared
    <3>2. \A l \in Lines : l <= line => l < line \/ l = line
      BY <1>0 DEF Lines
    <3>3. \A l \in Lines : l <= line => Cleared(l)'
      BY <1>0, <2>1, <2>5, <3>1, <3>2 DEF GicdIcenabler, LoopProgress, Cleared
    <3> QED
      BY <1>0, <2>5, <3>3 DEF GicdIcenabler, LoopProgress, Cleared
  <2> QED
    BY <1>3, <2>2, <2>3, <2>4, <2>5
<1>4. CASE Hardware \/ (\E l \in Lines : DeviceRaises(l)) \/ UNCHANGED vars
  <2>1. pc' = pc /\ line' = line
    BY <1>4 DEF Hardware, GicdSettles, GicrSettles, ChildrenWake, DeviceRaises, vars
  <2> QED
    BY <1>0, <2>1, LoopKept
<1> QED
  BY <1>1, <1>2, <1>3, <1>4 DEF Next, CpuStep

LEMMA DoneNext == GicBootInv /\ [Next]_vars => DistributorDone'
<1> SUFFICES ASSUME GicBootInv, [Next]_vars, once' = "done"
             PROVE  \A l \in Lines : Cleared(l)'
    BY DEF DistributorDone
<1>0. TypeOK
  BY DEF GicBootInv
<1>1. CASE once = "done"
  BY <1>0, <1>1, ClearedStays DEF GicBootInv, DistInv, DistributorDone
<1>2. CASE once # "done"
  <2>1. PICK c \in Cpus : OnceDone(c)
    BY <1>2 DEF Next, CpuStep, Hardware, vars,
       RunOnceFirst, RunOncePass, GicdCtlr, GicdWaitRwp, GicdIcpendr,
       GicdIcactiver, GicdIcenabler, GicrFrame, GicrWake, GicrAwake, GicrCtlr,
       GicrWaitRwp, GicrClear, GicrIcenabler, IccOpen, GicdSettles, GicrSettles,
       ChildrenWake, DeviceRaises
  <2>2. pc[c] = "once"
    BY <2>1 DEF OnceDone, Goto
  <2> QED
    BY <1>0, <2>2, ClearedStays DEF GicBootInv, DistInv, LoopProgress
<1> QED
  BY <1>1, <1>2

-----------------------------------------------------------------------------
(* The redistributors.                                                     *)

(* A step that writes no bit of a redistributor, sets no frame pointer and *)
(* opens no interface.                                                     *)
LEMMA FramesKept ==
    ASSUME FrameProgress, redist' = redist, frame' = frame, icc' = icc,
           \A c \in Cpus : pc'[c] # pc[c] =>
                /\ pc'[c] \notin {"gicr_dis_wait", "icc", "ready"}
                /\ pc[c] # "ready"
    PROVE  FrameProgress'
BY DEF FrameProgress

LEMMA FrameNext == GicBootInv /\ [Next]_vars => FrameProgress'
<1> SUFFICES ASSUME GicBootInv, [Next]_vars PROVE FrameProgress'
    OBVIOUS
<1>0. TypeOK /\ FrameProgress
  BY DEF GicBootInv
<1> USE DEF TypeOK, Goto
<1>1. ASSUME NEW c \in Cpus,
             \/ RunOnceFirst(c) \/ RunOncePass(c) \/ GicdCtlr(c) \/ GicdWaitRwp(c)
             \/ GicdIcpendr(c) \/ GicdIcactiver(c) \/ GicdIcenabler(c) \/ OnceDone(c)
             \/ GicrAwake(c)
      PROVE  FrameProgress'
  <2>1. redist' = redist /\ frame' = frame /\ icc' = icc
    BY <1>1 DEF RunOnceFirst, RunOncePass, GicdCtlr, GicdWaitRwp, GicdIcpendr,
       GicdIcactiver, GicdIcenabler, OnceDone, GicrAwake
  <2>2. \A d \in Cpus : pc'[d] # pc[d] =>
            pc'[d] \notin {"gicr_dis_wait", "icc", "ready"} /\ pc[d] # "ready"
    BY <1>0, <1>1 DEF RunOnceFirst, RunOncePass, GicdCtlr, GicdWaitRwp, GicdIcpendr,
       GicdIcactiver, GicdIcenabler, OnceDone, GicrAwake
  <2> QED
    BY <1>0, <2>1, <2>2, FramesKept
<1>2. ASSUME NEW c \in Cpus, GicrFrame(c) PROVE FrameProgress'
  BY <1>0, <1>2 DEF GicrFrame, FrameProgress
<1>3. ASSUME NEW c \in Cpus, GicrWake(c) PROVE FrameProgress'
  <2>1. \A r \in Cpus : /\ redist'[r].enabled = redist[r].enabled
                        /\ redist'[r].disabling = redist[r].disabling
                        /\ redist'[r].rwp = redist[r].rwp
    BY <1>0, <1>3 DEF GicrWake, Frame
  <2> QED
    BY <1>0, <1>3, <2>1 DEF GicrWake, FrameProgress
<1>4. ASSUME NEW c \in Cpus, GicrCtlr(c) PROVE FrameProgress'
  <2>1. \A r \in Cpus : /\ redist'[r].enabled = redist[r].enabled
                        /\ redist'[r].disabling = redist[r].disabling
                        /\ redist[r].rwp => redist'[r].rwp
    BY <1>0, <1>4 DEF GicrCtlr, Frame
  <2> QED
    BY <1>0, <1>4, <2>1 DEF GicrCtlr, FrameProgress
<1>5. ASSUME NEW c \in Cpus, GicrWaitRwp(c) PROVE FrameProgress'
  <2>1. pc[c] = "gicr_dis_wait" => ~ redist[frame[c]].enabled
    BY <1>0, <1>5 DEF GicrWaitRwp, GicrRwp, FrameProgress
  <2> QED
    BY <1>0, <1>5, <2>1 DEF GicrWaitRwp, FrameProgress
<1>6. ASSUME NEW c \in Cpus, GicrClear(c) PROVE FrameProgress'
  <2>1. \A r \in Cpus : /\ redist'[r].enabled = redist[r].enabled
                        /\ redist'[r].disabling = redist[r].disabling
                        /\ redist'[r].rwp = redist[r].rwp
    BY <1>0, <1>6 DEF GicrClear, Frame
  <2> QED
    BY <1>0, <1>6, <2>1 DEF GicrClear, FrameProgress
<1>7. ASSUME NEW c \in Cpus, GicrIcenabler(c) PROVE FrameProgress'
  <2>1. /\ redist'[frame[c]].disabling /\ redist'[frame[c]].rwp
        /\ \A r \in Cpus : redist'[r].enabled = redist[r].enabled
        /\ \A r \in Cpus \ {frame[c]} : /\ redist'[r].disabling = redist[r].disabling
                                        /\ redist'[r].rwp = redist[r].rwp
    BY <1>0, <1>7 DEF GicrIcenabler, Frame
  <2> QED
    BY <1>0, <1>7, <2>1 DEF GicrIcenabler, FrameProgress
<1>8. ASSUME NEW c \in Cpus, IccOpen(c) PROVE FrameProgress'
  BY <1>0, <1>8 DEF IccOpen, FrameProgress
<1>9. ASSUME NEW r \in Cpus, GicrSettles(r) PROVE FrameProgress'
  <2>1. /\ ~ redist'[r].disabling
        /\ redist'[r].enabled <=> redist[r].enabled /\ ~ redist[r].disabling
        /\ \A k \in Cpus \ {r} : redist'[k] = redist[k]
    BY <1>0, <1>9 DEF GicrSettles, Frame
  <2> QED
    BY <1>0, <1>9, <2>1 DEF GicrSettles, FrameProgress
<1>10. ASSUME NEW r \in Cpus, ChildrenWake(r) PROVE FrameProgress'
  <2>1. \A k \in Cpus : /\ redist'[k].enabled = redist[k].enabled
                        /\ redist'[k].disabling = redist[k].disabling
                        /\ redist'[k].rwp = redist[k].rwp
    BY <1>0, <1>10 DEF ChildrenWake, Frame
  <2> QED
    BY <1>0, <1>10, <2>1 DEF ChildrenWake, FrameProgress
<1>11. CASE GicdSettles \/ (\E l \in Lines : DeviceRaises(l)) \/ UNCHANGED vars
  <2>1. redist' = redist /\ frame' = frame /\ icc' = icc /\ pc' = pc
    BY <1>11 DEF GicdSettles, DeviceRaises, vars
  <2> QED
    BY <1>0, <2>1, FramesKept
<1> QED
  BY <1>1, <1>2, <1>3, <1>4, <1>5, <1>6, <1>7, <1>8, <1>9, <1>10, <1>11
     DEF Next, CpuStep, Hardware

-----------------------------------------------------------------------------
LEMMA GicBootInit == Init => GicBootInv
<1> SUFFICES ASSUME Init PROVE GicBootInv
    OBVIOUS
<1>1. \A c \in Cpus : pc[c] = "start"
  BY DEF Init
<1>2. DistInv
  BY <1>1 DEF Init, DistInv, OneProgrammer, Programming, Past, LoopProgress,
     DistributorDone
<1>3. FrameProgress
  BY <1>1 DEF Init, FrameProgress
<1> QED
  BY <1>2, <1>3, TypeInit DEF GicBootInv

LEMMA GicBootNext == GicBootInv /\ [Next]_vars => GicBootInv'
<1> SUFFICES ASSUME GicBootInv, [Next]_vars PROVE GicBootInv'
    OBVIOUS
<1> QED
  BY TypeNext, ProgrammerNext, LoopNext, DoneNext, FrameNext DEF GicBootInv, DistInv

LEMMA GicBootInvariance == Spec => []GicBootInv
BY GicBootInit, GicBootNext, PTL DEF Spec

(* The registers keep their shape and gicd_init's loop never leaves the    *)
(* implemented registers, on a GIC without SPIs too.                       *)
THEOREM GicBootTypeCorrect == Spec => []TypeOK
BY GicBootInvariance, PTL DEF GicBootInv

(* Whichever CPU comes first, and however the others race it, no CPU       *)
(* leaves run_once before every SPI register has been programmed.          *)
THEOREM DistributorComesFirst == Spec => []DistributorFirst
<1>1. GicBootInv => DistributorFirst
  <2> SUFFICES ASSUME GicBootInv, NEW c \in Cpus, Past(c)
               PROVE  dist.active = {} /\ dist.enabled \subseteq dist.disabling
      BY DEF DistributorFirst
  <2>1. once = "done"
    BY DEF GicBootInv, TypeOK, DistInv, OneProgrammer, Past
  <2>2. \A l \in Lines : Cleared(l)
    BY <2>1 DEF GicBootInv, DistInv, DistributorDone
  <2>3. dist.active \subseteq Lines /\ dist.enabled \subseteq Lines
    BY DEF GicBootInv, TypeOK
  <2> QED
    BY <2>2, <2>3 DEF Cleared
<1> QED
  BY <1>1, GicBootInvariance, PTL

(* A CPU that has opened its interface has waited until the redistributor  *)
(* it programmed had really disabled its SGIs and PPIs - even when several *)
(* CPUs program the same one, as they do because every context says 0.     *)
THEOREM RedistributorQuiet == Spec => []FrameQuiet
<1>1. GicBootInv => FrameQuiet
  BY DEF GicBootInv, TypeOK, FrameProgress, FrameQuiet
<1> QED
  BY <1>1, GicBootInvariance, PTL
=============================================================================
