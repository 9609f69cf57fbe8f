------------------------------ MODULE GicBoot ------------------------------
(***************************************************************************)
(* plat_gicv3_init: the distributor is programmed once, by whichever CPU   *)
(* comes first (run_once), then every CPU programs its redistributor and   *)
(* opens its CPU interface.                                                *)
(*                                                                         *)
(* Per bank of interrupts (a 32-bit register: one per SPI line, one per    *)
(* redistributor for SGIs and PPIs) the model keeps whether some interrupt *)
(* of the bank is pending, active, enabled.  A write to ICENABLER or to    *)
(* CTLR takes effect some time later; until then the frame's RWP bit, in   *)
(* its CTLR register, reads 1.                                             *)
(***************************************************************************)
EXTENDS Integers, FiniteSets

CONSTANTS
    NrCpu,      \* NR_CPU; cpu_id() ranges over 0 .. NrCpu - 1
    ITLines     \* GICD_TYPER.ITLinesNumber: SPI registers 1 .. ITLines

ASSUME GicBootAssumption == NrCpu \in Nat \ {0} /\ ITLines \in Nat

VARIABLES
    once,       \* gicd_init_once: "no", "busy" or "done"
    pc,         \* where each CPU is in plat_gicv3_init
    line,       \* loop variable i of gicd_init
    ctxId,      \* gicr_ctxs[cpu].cpu_id
    frame,      \* which redistributor gicr_ctxs[cpu].gicr_regs points at
    unmasked,   \* CPUs with PSTATE.I clear
    dist,       \* GICD: [rwp, pending, active, enabled, disabling] (sets)
    redist,     \* the same per redistributor, and its GICR_WAKER bits
    icc         \* CPUs whose ICC_* interface is open

vars == <<once, pc, line, ctxId, frame, unmasked, dist, redist, icc>>

Cpus  == 0 .. (NrCpu - 1)
Lines == 1 .. ITLines

(* Memory is zero; firmware may have left interrupts pending, active and   *)
(* enabled, and redistributors awake or asleep.                            *)
Init ==
    /\ once = "no"
    /\ pc = [c \in Cpus |-> "start"]
    /\ line = 0
    /\ ctxId = [c \in Cpus |-> 0]
    /\ frame = [c \in Cpus |-> 0]
    /\ unmasked = {}
    /\ dist \in [rwp : {FALSE}, pending : {Lines}, active : SUBSET Lines,
                 enabled : SUBSET Lines, disabling : {{}}]
    /\ \E asleep \in SUBSET Cpus :
        redist = [r \in Cpus |->
            [rwp |-> FALSE, pending |-> TRUE, active |-> TRUE, enabled |-> TRUE,
             disabling |-> FALSE, sleep |-> r \in asleep,
             childrenAsleep |-> r \in asleep]]
    /\ icc = {}

Goto(c, from, to) == pc[c] = from /\ pc' = [pc EXCEPT ![c] = to]

-----------------------------------------------------------------------------
(* run_once(&gicd_init_once, gicv3_init), as RunOnce guarantees it: one    *)
(* CPU runs gicv3_init, the others pass only after it has finished.        *)

RunOnceFirst(c) ==
    /\ Goto(c, "start", "ctlr")
    /\ once = "no"
    /\ once' = "busy"
    /\ unmasked' = unmasked \cup {c}        \* irq_enable()
    /\ UNCHANGED <<line, ctxId, frame, dist, redist, icc>>

(* Mutant: passing as soon as somebody has begun.                          *)
RunOncePassEarly(c) ==
    /\ Goto(c, "start", "gicr")
    /\ once # "no"
    /\ UNCHANGED <<once, line, ctxId, frame, unmasked, dist, redist, icc>>

RunOncePass(c) ==
    /\ Goto(c, "start", "gicr")
    /\ once = "done"
    /\ UNCHANGED <<once, line, ctxId, frame, unmasked, dist, redist, icc>>

-----------------------------------------------------------------------------
(* gicd_init                                                               *)

(* gicd_rwp tests bit 31 of GICD_STATUSR, which is reserved and reads 0.   *)
GicdRwp == FALSE

(* write32(&gicd->ctlr, ...)                                               *)
GicdCtlr(c) ==
    /\ Goto(c, "ctlr", "ctlr_wait")
    /\ dist' = [dist EXCEPT !.rwp = TRUE]
    /\ UNCHANGED <<once, line, ctxId, frame, unmasked, redist, icc>>

(* gicd_wait_rwp, and the loop's condition                                 *)
GicdWaitRwp(c) ==
    /\ ~ GicdRwp
    /\ \/ /\ Goto(c, "ctlr_wait", IF ITLines = 0 THEN "once" ELSE "icpendr")
          /\ line' = IF ITLines = 0 THEN 0 ELSE 1
       \/ /\ line < ITLines
          /\ Goto(c, "line_wait", "icpendr")
          /\ line' = line + 1
       \/ /\ line = ITLines
          /\ Goto(c, "line_wait", "once")
          /\ UNCHANGED line
    /\ UNCHANGED <<once, ctxId, frame, unmasked, dist, redist, icc>>

(* One pass of the loop: ICPENDR, ICACTIVER, ICENABLER of register i + 1.  *)
GicdIcpendr(c) ==
    /\ Goto(c, "icpendr", "icactiver")
    /\ dist' = [dist EXCEPT !.pending = @ \ {line}]
    /\ UNCHANGED <<once, line, ctxId, frame, unmasked, redist, icc>>

GicdIcactiver(c) ==
    /\ Goto(c, "icactiver", "icenabler")
    /\ dist' = [dist EXCEPT !.active = @ \ {line}]
    /\ UNCHANGED <<once, line, ctxId, frame, unmasked, redist, icc>>

GicdIcenabler(c) ==
    /\ Goto(c, "icenabler", "line_wait")
    /\ dist' = [dist EXCEPT !.disabling = @ \cup {line}, !.rwp = TRUE]
    /\ UNCHANGED <<once, line, ctxId, frame, unmasked, redist, icc>>

(* gicv3_init returns 0 and run_once sets the flag.                        *)
OnceDone(c) ==
    /\ Goto(c, "once", "gicr")
    /\ once' = "done"
    /\ UNCHANGED <<line, ctxId, frame, unmasked, dist, redist, icc>>

-----------------------------------------------------------------------------
(* gicr_init(gicr_ctx, gicr_ctx->cpu_id)                                   *)

GicrFrame(c) ==
    /\ Goto(c, "gicr", "waker")
    /\ frame' = [frame EXCEPT ![c] = ctxId[c]]
    /\ UNCHANGED <<once, line, ctxId, unmasked, dist, redist, icc>>

(* Mutant: waiting for the children without clearing ProcessorSleep.       *)
GicrWakeNoClear(c) ==
    LET r == redist[frame[c]] IN
    /\ \/ r.sleep /\ Goto(c, "waker", "waking")
       \/ ~ r.sleep /\ Goto(c, "waker", "gicr_ctlr")
    /\ UNCHANGED <<once, line, ctxId, frame, unmasked, dist, redist, icc>>

(* Clear GICR_WAKER.ProcessorSleep if set, then wait for the children.     *)
GicrWake(c) ==
    LET r == redist[frame[c]] IN
    /\ \/ r.sleep /\ Goto(c, "waker", "waking")
       \/ ~ r.sleep /\ Goto(c, "waker", "gicr_ctlr")
    /\ redist' = [redist EXCEPT ![frame[c]].sleep = FALSE]
    /\ UNCHANGED <<once, line, ctxId, frame, unmasked, dist, icc>>

GicrAwake(c) ==
    /\ Goto(c, "waking", "gicr_ctlr")
    /\ ~ redist[frame[c]].childrenAsleep
    /\ UNCHANGED <<once, line, ctxId, frame, unmasked, dist, redist, icc>>

GicrCtlr(c) ==
    /\ Goto(c, "gicr_ctlr", "gicr_ctlr_wait")
    /\ redist' = [redist EXCEPT ![frame[c]].rwp = TRUE]
    /\ UNCHANGED <<once, line, ctxId, frame, unmasked, dist, icc>>

(* Mutant: a status register without an RWP bit, as gicd_rwp reads.        *)
GicrRwpNever(c) == FALSE

(* gicr_rwp does read GICR_CTLR.                                           *)
GicrRwp(c) == redist[frame[c]].rwp

GicrWaitRwp(c) ==
    /\ ~ GicrRwp(c)
    /\ \/ Goto(c, "gicr_ctlr_wait", "icpendr0")
       \/ Goto(c, "gicr_dis_wait", "icc")
    /\ UNCHANGED <<once, line, ctxId, frame, unmasked, dist, redist, icc>>

(* ICPENDR0 and ICACTIVER0, then ICENABLER0                                *)
GicrClear(c) ==
    /\ Goto(c, "icpendr0", "icenabler0")
    /\ redist' = [redist EXCEPT ![frame[c]].pending = FALSE,
                                ![frame[c]].active = FALSE]
    /\ UNCHANGED <<once, line, ctxId, frame, unmasked, dist, icc>>

GicrIcenabler(c) ==
    /\ Goto(c, "icenabler0", "gicr_dis_wait")
    /\ redist' = [redist EXCEPT ![frame[c]].disabling = TRUE,
                                ![frame[c]].rwp = TRUE]
    /\ UNCHANGED <<once, line, ctxId, frame, unmasked, dist, icc>>

(* ICC_SRE, BPR1, PMR, CTLR, IGRPEN1                                       *)
IccOpen(c) ==
    /\ Goto(c, "icc", "ready")
    /\ icc' = icc \cup {c}
    /\ UNCHANGED <<once, line, ctxId, frame, unmasked, dist, redist>>

-----------------------------------------------------------------------------
(* The hardware: pending register writes take effect and RWP clears; a     *)
(* woken redistributor's children wake up; devices raise interrupts.       *)

GicdSettles ==
    /\ dist.rwp
    /\ dist' = [dist EXCEPT !.rwp = FALSE, !.enabled = @ \ dist.disabling,
                            !.disabling = {}]
    /\ UNCHANGED <<once, pc, line, ctxId, frame, unmasked, redist, icc>>

GicrSettles(r) ==
    /\ redist[r].rwp
    /\ redist' = [redist EXCEPT
                    ![r].rwp = FALSE,
                    ![r].enabled = @ /\ ~ redist[r].disabling,
                    ![r].disabling = FALSE]
    /\ UNCHANGED <<once, pc, line, ctxId, frame, unmasked, dist, icc>>

ChildrenWake(r) ==
    /\ ~ redist[r].sleep
    /\ redist[r].childrenAsleep
    /\ redist' = [redist EXCEPT ![r].childrenAsleep = FALSE]
    /\ UNCHANGED <<once, pc, line, ctxId, frame, unmasked, dist, icc>>

DeviceRaises(l) ==
    /\ l \notin dist.pending
    /\ dist' = [dist EXCEPT !.pending = @ \cup {l}]
    /\ UNCHANGED <<once, pc, line, ctxId, frame, unmasked, redist, icc>>

-----------------------------------------------------------------------------
CpuStep(c) ==
    \/ RunOnceFirst(c) \/ RunOncePass(c)
    \/ GicdCtlr(c) \/ GicdWaitRwp(c)
    \/ GicdIcpendr(c) \/ GicdIcactiver(c) \/ GicdIcenabler(c)
    \/ OnceDone(c)
    \/ GicrFrame(c) \/ GicrWake(c) \/ GicrAwake(c) \/ GicrCtlr(c)
    \/ GicrWaitRwp(c) \/ GicrClear(c) \/ GicrIcenabler(c) \/ IccOpen(c)

Hardware == \/ GicdSettles
            \/ \E r \in Cpus : GicrSettles(r) \/ ChildrenWake(r)

Next == \/ \E c \in Cpus : CpuStep(c)
        \/ Hardware
        \/ \E l \in Lines : DeviceRaises(l)

Spec == Init /\ [][Next]_vars

FairSpec == /\ Spec
            /\ \A c \in Cpus : WF_vars(CpuStep(c))
            /\ WF_vars(GicdSettles)
            /\ \A r \in Cpus : WF_vars(GicrSettles(r)) /\ WF_vars(ChildrenWake(r))

-----------------------------------------------------------------------------
(* run_once has returned to c.                                             *)
Past(c) == pc[c] \notin {"start", "ctlr", "ctlr_wait", "line_wait", "icpendr",
                         "icactiver", "icenabler", "once"}

Frame == [rwp : BOOLEAN, pending : BOOLEAN, active : BOOLEAN,
          enabled : BOOLEAN, disabling : BOOLEAN, sleep : BOOLEAN,
          childrenAsleep : BOOLEAN]

(* The types; line in particular never leaves the implemented ICENABLER    *)
(* registers, the bound of the loop in gicd_init.                          *)
TypeOK ==
    /\ once \in {"no", "busy", "done"}
    /\ pc \in [Cpus -> {"start", "ctlr", "ctlr_wait", "line_wait", "icpendr",
                        "icactiver", "icenabler", "once", "gicr", "waker",
                        "waking", "gicr_ctlr", "gicr_ctlr_wait", "icpendr0",
                        "icenabler0", "gicr_dis_wait", "icc", "ready"}]
    /\ line \in 0 .. ITLines
    /\ ctxId \in [Cpus -> Cpus]
    /\ frame \in [Cpus -> Cpus]
    /\ unmasked \subseteq Cpus
    /\ dist \in [rwp : BOOLEAN, pending : SUBSET Lines, active : SUBSET Lines,
                 enabled : SUBSET Lines, disabling : SUBSET Lines]
    /\ redist \in [Cpus -> Frame]
    /\ icc \subseteq Cpus

(* No CPU touches a redistributor before the distributor has been          *)
(* programmed completely: no SPI is active, and each is disabled or its    *)
(* disabling write is on its way, also for the CPUs that did not do the    *)
(* programming but passed run_once.                                        *)
DistributorFirst ==
    (\E c \in Cpus : Past(c)) => dist.active = {} /\ dist.enabled \subseteq dist.disabling

(* Once a CPU opens its interface, the SGIs and PPIs of the redistributor  *)
(* it programmed are disabled in effect, not just requested to be: the     *)
(* write to ICENABLER0 has been waited for (gicr_wait_rwp).                *)
FrameQuiet == \A c \in icc : ~ redist[frame[c]].enabled

(* gicd.c, "must wait for RWP bit to clear before writing to ICENABLER":   *)
(* no write to ICENABLER while GICD_CTLR.RWP is set.                       *)
RwpBeforeIcenabler ==
    [][dist.disabling' # dist.disabling /\ dist.disabling' # {} => ~ dist.rwp]_vars

(* No wait lasts for ever: every CPU gets through plat_gicv3_init.         *)
BootCompletes == <>(\A c \in Cpus : pc[c] = "ready")
=============================================================================
