------------------------------- MODULE GicIrq -------------------------------
(***************************************************************************)
(* Enabling an interrupt (gic_irq_enable and the SGI, PPI and SPI          *)
(* operations behind it) while others are being taken (el2_irq), on one    *)
(* CPU whose plat_gicv3_init has returned.                                 *)
(*                                                                         *)
(* A driver does what plat_timer_init does: it looks its context up, fills *)
(* in the attributes and the handler, and calls gic_irq_enable.  An IRQ    *)
(* may interrupt it between any two register accesses.                     *)
(***************************************************************************)
EXTENDS Integers, FiniteSets

CONSTANTS
    Sgis, Ppis, Spis,   \* the INTIDs the GIC implements, by kind
    Drivers,            \* the INTIDs some driver enables
    Sources,            \* the INTIDs some device or SGI write raises
    Edge,               \* those whose driver may ask for trigger = 1
    SelfNumbered,       \* those whose driver stores ctx->intid itself
    ResetWords,         \* what the attribute registers may hold out of reset
    MaxEnables          \* how often a driver runs its sequence

Intids == Sgis \cup Ppis \cup Spis

(* A 32-bit register, or a byte to be put into one, is the set of its bits *)
(* that are 1: v &= ~m is v \ m and v |= m is v \cup m.                    *)
Bits == 0 .. 31
Shl(v, n) == {b \in Bits : b - n \in v}        \* v << n

ASSUME GicIrqAssumption ==
    /\ Sgis \subseteq 0 .. 15
    /\ Ppis \subseteq 16 .. 31
    /\ Spis \subseteq 32 .. 1019
    /\ Drivers \subseteq Intids /\ Sources \subseteq Intids
    /\ 0 \in Intids
    /\ ResetWords \subseteq SUBSET Bits
    /\ MaxEnables \in Nat

VARIABLES
    ctx,        \* the irq_context of each interrupt
    regs,       \* GIC configuration registers; enabled by INTID, words by number
    val,        \* the word read for the read-modify-write under way
    pending, active,
    pc, cur,    \* what the main program does, and for which driver
    rounds,     \* how often each driver has started
    done,       \* drivers whose last gic_irq_enable returned 0
    irq, iar,   \* where el2_irq is, and the INTID it read
    panicked

vars == <<ctx, regs, val, pending, active, pc, cur, rounds, done, irq, iar, panicked>>
mainVars == <<val, pc, cur, rounds, done>>
irqVars  == <<irq, iar, active>>

Spurious == 1023

Kind(i) == CASE i <= 15 -> "sgi" [] i \in 16 .. 31 -> "ppi" [] OTHER -> "spi"

Zeroed == [intid |-> 0, ops |-> "none", group |-> 0, priority |-> {},
           trigger |-> 0, handle |-> FALSE]

Words(reset, size) == [n \in {i \div size : i \in Intids} |-> reset]

(* Contexts are zero and gicd_init, gicr_init have disabled everything.    *)
(* They leave the attribute registers as they came out of reset.           *)
Init ==
    /\ ctx = [i \in Intids |-> Zeroed]
    /\ \E reset \in ResetWords :
        regs = [enabled |-> {}, disabling |-> {}, rwp |-> FALSE,
                ipriorityr |-> Words(reset, 4),
                igroupr |-> Words(reset, 32), igrpmodr |-> Words(reset, 32),
                icfgr |-> Words(reset, 16)]
    /\ val = {}
    /\ pending = {} /\ active = {}
    /\ pc = "idle" /\ cur = 0
    /\ rounds = [i \in Drivers |-> 0]
    /\ done = {}
    /\ irq = "idle" /\ iar = Spurious
    /\ panicked = FALSE

-----------------------------------------------------------------------------
(* get_sgi_context, get_ppi_context, get_spi_context.  A PPI context that  *)
(* is not set up yet is erased and filled with defaults; the others only   *)
(* get their operations.                                                   *)

Stale(i) == Kind(i) = "ppi" /\ (ctx[i].intid # i \/ ctx[i].ops # "ppi")

Filled(c, i) ==
    IF Kind(i) = "ppi"
    THEN [c EXCEPT !.intid = i, !.group = 1, !.priority = {7}, !.trigger = 0, !.ops = "ppi"]
    ELSE [c EXCEPT !.ops = Kind(i)]

LookedUp(i) == IF Stale(i) THEN Filled(Zeroed, i)
               ELSE [ctx[i] EXCEPT !.ops = Kind(i)]

(* The main program runs while no exception is being handled.              *)
Main(from) == pc = from /\ irq = "idle" /\ ~ panicked

GetContext(i) ==
    /\ Main("idle")
    /\ rounds[i] < MaxEnables
    /\ rounds' = [rounds EXCEPT ![i] = @ + 1]
    /\ cur' = i
    /\ done' = done \ {i}
    /\ IF Stale(i)
       THEN pc' = "fill" /\ ctx' = [ctx EXCEPT ![i] = Zeroed]       \* memset
       ELSE pc' = "config" /\ ctx' = [ctx EXCEPT ![i].ops = Kind(i)]
    /\ UNCHANGED <<regs, val, pending, irqVars, panicked>>

FillContext ==
    /\ Main("fill")
    /\ ctx' = [ctx EXCEPT ![cur] = Filled(@, cur)]
    /\ pc' = "config"
    /\ UNCHANGED <<regs, val, pending, cur, rounds, done, irqVars, panicked>>

(* What the driver of i asks for, in its context c                         *)
Asked(c, i, t) ==
    [c EXCEPT !.group = 1, !.priority = {7}, !.handle = TRUE, !.trigger = t,
              !.intid = IF i \in SelfNumbered THEN i ELSE @]

(* Mutant: the handler is left for after gic_irq_enable.                   *)
ConfigureNoHandler ==
    /\ Main("config")
    /\ \E t \in 0 .. (IF cur \in Edge THEN 1 ELSE 0) :
        ctx' = [ctx EXCEPT ![cur] = [Asked(@, cur, t) EXCEPT !.handle = ctx[cur].handle]]
    /\ pc' = "clear_intr"
    /\ UNCHANGED <<regs, val, pending, cur, rounds, done, irqVars, panicked>>

(* plat_timer_init's assignments, before it calls gic_irq_enable           *)
Configure ==
    /\ Main("config")
    /\ \E t \in 0 .. (IF cur \in Edge THEN 1 ELSE 0) :
        ctx' = [ctx EXCEPT ![cur] = Asked(@, cur, t)]
    /\ pc' = "clear_intr"
    /\ UNCHANGED <<regs, val, pending, cur, rounds, done, irqVars, panicked>>

-----------------------------------------------------------------------------
(* ICENABLER and ISENABLER, where only the bits written as 1 count         *)

Selected(n, w) == {32 * n + b : b \in w}

Disable(id) ==
    LET ids == Selected(id \div 32, Shl({0}, id % 32))
    IN  [regs EXCEPT !.disabling = @ \cup ids, !.rwp = TRUE]

Enable(id) ==
    LET ids == Selected(id \div 32, Shl({0}, id % 32))
    IN  [regs EXCEPT !.enabled = @ \cup ids, !.disabling = @ \ ids]

(* The attributes live in words shared with other interrupts.  Setting one *)
(* reads word n of reg, clears and sets bits, and writes the word back.    *)

(* Mutant: the mask is shifted by the byte's number, not its bit offset.   *)
SetPriorityMask(c) ==
    [reg |-> "ipriorityr", n |-> c.intid \div 4,
     clear |-> Shl(0 .. 7, c.intid % 4), set |-> Shl(c.priority, 8 * (c.intid % 4))]

SetPriority(c) ==
    LET offset == 8 * (c.intid % 4)
    IN  [reg |-> "ipriorityr", n |-> c.intid \div 4,
         clear |-> Shl(0 .. 7, offset), set |-> Shl(c.priority, offset)]

SetTrigger(n, offset, cfg) ==
    [reg |-> "icfgr", n |-> n, clear |-> Shl(0 .. 1, offset), set |-> Shl(cfg, offset)]

(* Mutant: the group bit is inverted.                                      *)
SetPrivateGroupInverted(c) ==
    LET bit == Shl({0}, c.intid % 32)
    IN  [reg |-> "igroupr", n |-> 0, clear |-> IF c.group = 1 THEN bit ELSE {},
         set |-> IF c.group = 1 THEN {} ELSE bit]

(* igroupr0 of the redistributor                                           *)
SetPrivateGroup(c) ==
    LET bit == Shl({0}, c.intid % 32)
    IN  [reg |-> "igroupr", n |-> 0, clear |-> IF c.group = 1 THEN {} ELSE bit,
         set |-> IF c.group = 1 THEN bit ELSE {}]

(* set_group calls __gicd_spi_set_security(intid, group, false): the group *)
(* selects the register, IGROUPR or IGRPMODR, whose bit is set.            *)
SetSpiGroup(c) ==
    [reg |-> IF c.group = 1 THEN "igroupr" ELSE "igrpmodr", n |-> c.intid \div 32,
     clear |-> {}, set |-> Shl({0}, c.intid % 32)]

(* An edge is 1U in ppi.c and sgi.c, GICD_ICFGR_EDGE_TRIGGERED in spi.c.   *)
PpiOps(c) ==
    [set_priority |-> SetPriority(c),
     set_group    |-> SetPrivateGroup(c),
     set_trigger  |-> SetTrigger(1, 2 * ((c.intid - 16) % 16),
                                 IF c.trigger = 1 THEN {0} ELSE {})]

SgiOps(c) ==
    [set_priority |-> SetPriority(c),
     set_group    |-> SetPrivateGroup(c),
     set_trigger  |-> SetTrigger(0, 2 * (c.intid % 16),
                                 IF c.trigger = 1 THEN {0} ELSE {})]

SpiOps(c) ==
    [set_priority |-> SetPriority(c),
     set_group    |-> SetSpiGroup(c),
     set_trigger  |-> SetTrigger(c.intid \div 16, 2 * (c.intid % 16),
                                 IF c.trigger = 1 THEN {1} ELSE {})]

Ops(i) == CASE Kind(i) = "sgi" -> SgiOps(ctx[i])
            [] Kind(i) = "ppi" -> PpiOps(ctx[i])
            [] Kind(i) = "spi" -> SpiOps(ctx[i])

-----------------------------------------------------------------------------
(* gic_irq_enable calls the operations in turn.  Each checks that          *)
(* ctx->intid is of its own kind; if not it returns -EINVAL, and so does   *)
(* gic_irq_enable, or panics (clear_intr and set_intr of an SGI).          *)

IntidOk == Kind(ctx[cur].intid) = Kind(cur)

Checked(op, to) ==
    /\ Main(op)
    /\ IF IntidOk THEN pc' = to /\ UNCHANGED panicked
       ELSE /\ pc' = "idle"
            /\ panicked' = (Kind(cur) = "sgi" /\ op \in {"clear_intr", "set_intr"})
    /\ UNCHANGED <<ctx, pending, cur, rounds, irqVars>>

ClearIntr ==
    /\ Checked("clear_intr", "wait_rwp")
    /\ regs' = IF IntidOk THEN Disable(ctx[cur].intid) ELSE regs
    /\ UNCHANGED <<val, done>>

(* Mutant: no wait after ICENABLER.                                        *)
WaitRwpNot ==
    /\ Main("wait_rwp")
    /\ pc' = "set_priority"
    /\ UNCHANGED <<ctx, regs, val, pending, cur, rounds, done, irqVars, panicked>>

(* The end of clear_intr: gicr_wait_rwp watches GICR_CTLR; gicd_wait_rwp,  *)
(* for an SPI, watches a register without that bit.                        *)
WaitRwp ==
    /\ Main("wait_rwp")
    /\ Kind(cur) # "spi" => ~ regs.rwp
    /\ pc' = "set_priority"
    /\ UNCHANGED <<ctx, regs, val, pending, cur, rounds, done, irqVars, panicked>>

(* read32 of the attribute's word                                          *)
ReadWord(op, to) ==
    /\ Checked(op, to)
    /\ val' = IF IntidOk THEN regs[Ops(cur)[op].reg][Ops(cur)[op].n] ELSE val
    /\ UNCHANGED <<regs, done>>

(* write32 of the word read, with the interrupt's own bits replaced        *)
WriteWord(op, from, to) ==
    /\ Main(from)
    /\ LET o == Ops(cur)[op]
       IN  regs' = [regs EXCEPT ![o.reg][o.n] = (val \ o.clear) \cup o.set]
    /\ val' = {}
    /\ pc' = to
    /\ UNCHANGED <<ctx, pending, cur, rounds, done, irqVars, panicked>>

Attributes ==
    \/ ReadWord("set_priority", "write_priority")
    \/ WriteWord("set_priority", "write_priority", "set_group")
    \/ ReadWord("set_group", "write_group")
    \/ WriteWord("set_group", "write_group", "set_trigger")
    \/ ReadWord("set_trigger", "write_trigger")
    \/ WriteWord("set_trigger", "write_trigger", "set_intr")

SetIntr ==
    /\ Checked("set_intr", "idle")
    /\ regs' = IF IntidOk THEN Enable(ctx[cur].intid) ELSE regs
    /\ done' = IF IntidOk THEN done \cup {cur} ELSE done
    /\ UNCHANGED val

-----------------------------------------------------------------------------
(* el2_irq                                                                 *)

Signalled == pending \cap regs.enabled

(* The CPU takes the IRQ exception; IRQs are masked until it returns, and  *)
(* nothing is signalled at the priority of an interrupt still active.      *)
TakeIrq ==
    /\ irq = "idle" /\ ~ panicked
    /\ active = {} /\ Signalled # {}
    /\ irq' = "taken"
    /\ UNCHANGED <<ctx, regs, pending, mainVars, iar, active, panicked>>

(* ICC_IAR1_EL1: a signalled interrupt, or 1023 when there is none by now. *)
ReadIar ==
    /\ irq = "taken"
    /\ \E i \in IF Signalled = {} THEN {Spurious} ELSE Signalled :
        /\ iar' = i
        /\ pending' = pending \ {i}
        /\ active' = active \cup ({i} \ {Spurious})
    /\ irq' = "ack"
    /\ UNCHANGED <<ctx, regs, mainVars, panicked>>

(* panic prints and makes a bad access, whose exception prints and hangs.  *)
Panic == panicked' = TRUE

(* get_irq_context, then the handler or a panic                            *)
Dispatch ==
    /\ irq = "ack" /\ ~ panicked
    /\ IF iar = Spurious THEN Panic /\ UNCHANGED <<ctx, irq>>
       ELSE /\ ctx' = [ctx EXCEPT ![iar] = LookedUp(iar)]
            /\ IF LookedUp(iar).handle
               THEN irq' = "handler" /\ UNCHANGED panicked
               ELSE Panic /\ UNCHANGED irq
    /\ UNCHANGED <<regs, pending, mainVars, iar, active>>

(* Mutant: el2_irq returns after the handler, without the EOI.             *)
HandlerReturnsNoEoi ==
    /\ irq = "handler"
    /\ irq' = "idle"
    /\ UNCHANGED <<ctx, regs, pending, mainVars, iar, active, panicked>>

HandlerReturns ==
    /\ irq = "handler"
    /\ irq' = "eoi"
    /\ UNCHANGED <<ctx, regs, pending, mainVars, iar, active, panicked>>

(* ICC_EOIR1_EL1, with EOImode 0: priority drop and deactivation           *)
WriteEoir ==
    /\ irq = "eoi"
    /\ active' = active \ {iar}
    /\ irq' = "idle"
    /\ UNCHANGED <<ctx, regs, pending, mainVars, iar, panicked>>

-----------------------------------------------------------------------------
(* The hardware                                                            *)

Raise(i) ==
    /\ i \notin pending
    /\ pending' = pending \cup {i}
    /\ UNCHANGED <<ctx, regs, mainVars, irqVars, panicked>>

Settle ==
    /\ regs.rwp
    /\ regs' = [regs EXCEPT !.rwp = FALSE, !.enabled = @ \ regs.disabling,
                            !.disabling = {}]
    /\ UNCHANGED <<ctx, pending, mainVars, irqVars, panicked>>

-----------------------------------------------------------------------------
MainStep ==
    \/ \E i \in Drivers : GetContext(i)
    \/ FillContext \/ Configure
    \/ ClearIntr \/ WaitRwp \/ Attributes \/ SetIntr

IrqStep == TakeIrq \/ ReadIar \/ Dispatch \/ HandlerReturns \/ WriteEoir

Next == MainStep \/ IrqStep \/ Settle \/ \E i \in Sources : Raise(i)

Spec == Init /\ [][Next]_vars

(* The CPU executes instructions and the GIC completes register writes.    *)
(* Nothing is assumed of the main program: interrupts may starve it.       *)
FairSpec == Spec /\ WF_vars(IrqStep) /\ WF_vars(Settle)

-----------------------------------------------------------------------------
Context == [intid : 0 .. 1019, ops : {"none", "sgi", "ppi", "spi"}, group : 0 .. 1,
            priority : SUBSET (0 .. 7), trigger : 0 .. 1, handle : BOOLEAN]

WordType(size) == [{i \div size : i \in Intids} -> SUBSET Bits]

(* The types; the registers in particular keep their width.                *)
TypeOK ==
    /\ ctx \in [Intids -> Context]
    /\ regs \in [enabled : SUBSET Intids, disabling : SUBSET Intids, rwp : BOOLEAN,
                 ipriorityr : WordType(4), igroupr : WordType(32),
                 igrpmodr : WordType(32), icfgr : WordType(16)]
    /\ val \subseteq Bits
    /\ pending \subseteq Intids /\ active \subseteq Intids
    /\ pc \in {"idle", "fill", "config", "clear_intr", "wait_rwp",
               "set_priority", "write_priority", "set_group", "write_group",
               "set_trigger", "write_trigger", "set_intr"}
    /\ cur \in Intids
    /\ rounds \in [Drivers -> 0 .. MaxEnables]
    /\ done \subseteq Drivers
    /\ irq \in {"idle", "taken", "ack", "handler", "eoi"}
    /\ iar \in Intids \cup {Spurious}
    /\ panicked \in BOOLEAN

(* Where the GIC architecture has the attributes of interrupt i: a byte of *)
(* IPRIORITYR, a bit of IGROUPR and of IGRPMODR, and two bits of ICFGR,    *)
(* the upper one of which makes it edge-triggered.                         *)
Priority(i) == {b \in 0 .. 7 : 8 * (i % 4) + b \in regs.ipriorityr[i \div 4]}
InGroup1(i) == (i % 32) \in regs.igroupr[i \div 32]
Modified(i) == (i % 32) \in regs.igrpmodr[i \div 32]
Config(i)   == {b \in 0 .. 1 : 2 * (i % 16) + b \in regs.icfgr[i \div 16]}
EdgeTriggered(i) == 1 \in Config(i)

(* el2_irq never panics over a real interrupt: at the moment one can be    *)
(* signalled its context is complete and its handler is in place, however  *)
(* its lookup and its enabling interleave with other interrupts.  The one  *)
(* panic left is over INTID 1023, which ICC_IAR1 returns when a driver     *)
(* that enables its interrupt a second time has disabled it between the    *)
(* exception and the read.                                                 *)
NoPanic ==
    panicked => iar = Spurious /\ \E i \in Drivers : rounds[i] > 1

(* The priority, group and trigger of an SGI or PPI change only while it   *)
(* is disabled in effect, that is after the wait for RWP, although they    *)
(* are bits of words that are rewritten for other interrupts too.          *)
ConfigWhileDisabled ==
    [][\A i \in Sgis \cup Ppis :
        \/ Priority(i)' # Priority(i)
        \/ InGroup1(i)' # InGroup1(i)
        \/ Config(i)' # Config(i)
        => i \notin regs.enabled]_vars

(* When gic_irq_enable has returned 0 the interrupt of that context is     *)
(* enabled, in group 1, at the priority asked for, and no later enabling   *)
(* or lookup of another interrupt undoes it, whatever the words it shares  *)
(* with others held.  An SPI is edge-triggered exactly if the context asks *)
(* for it; a PPI is not unless it does.  (That a PPI is when it does is    *)
(* TriggerAsRequested.  The trigger of an SGI is not the context's choice: *)
(* the architecture has it fixed.)                                         *)
EnabledAsRequested ==
    \A i \in done :
        /\ i \in regs.enabled
        /\ InGroup1(i)
        /\ Priority(i) = ctx[i].priority
        /\ i \in Spis \cup Ppis => (EdgeTriggered(i) => ctx[i].trigger = 1)
        /\ i \in Spis => (ctx[i].trigger = 1 => EdgeTriggered(i))

(* A PPI whose context asks for trigger 1, "1: edge-triggered" in          *)
(* gicv3.h, is edge-triggered once gic_irq_enable has returned 0.  ppi.c   *)
(* sets the lower of the two bits of ICFGR, which does not mean that.      *)
TriggerAsRequested ==
    \A i \in done \cap Ppis : ctx[i].trigger = 1 => EdgeTriggered(i)

(* While one interrupt is being configured no attribute of another one     *)
(* changes: what is written back over the word read differs from it in the *)
(* interrupt's own bits only, for any contents of the word and with        *)
(* interrupts taken between the read and the write.                        *)
BystandersUntouched ==
    [][\A i \in Intids \ {cur} :
        /\ Priority(i)' = Priority(i)
        /\ InGroup1(i)' = InGroup1(i)
        /\ Modified(i)' = Modified(i)
        /\ Config(i)' = Config(i)
        /\ (i \in regs.enabled) = (i \in regs'.enabled)]_vars

(* An interrupt that is signalled is not ignored: el2_irq keeps reading    *)
(* ICC_IAR1 for as long as there is something to read, unless it panics.   *)
SomebodyAcked ==
    Signalled # {} ~> (irq = "ack" \/ Signalled = {} \/ panicked)
=============================================================================
