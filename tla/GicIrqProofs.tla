---------------------------- MODULE GicIrqProofs ----------------------------
(***************************************************************************)
(* Proofs about enabling interrupts while others are taken, for every set  *)
(* of interrupts and of drivers, as often as the drivers run.              *)
(***************************************************************************)
EXTENDS GicIrq, TLAPS

(* sgi.c takes the INTID to program from the context and never puts it     *)
(* there, so the driver of an SGI has to; otherwise it enables SGI 0.      *)
SgisNumbered == Drivers \cap Sgis \subseteq SelfNumbered \cup {0}

-----------------------------------------------------------------------------
(* The inductive invariant.                                                *)

Checking   == {"clear_intr", "set_priority", "set_group", "set_trigger", "set_intr"}
Configured == Checking \cup {"wait_rwp", "write_priority", "write_group", "write_trigger"}
Disabled   == Configured \ {"clear_intr", "wait_rwp"}

(* A lookup finds context i set up, with its handler.                      *)
Ready(i) == ctx[i].handle = TRUE /\ ~ Stale(i)

(* What a driver has established by the time it is at pc.                  *)
DriverInv ==
    /\ \A i \in Intids : ctx[i].intid \in {0, i}
    /\ pc # "idle" => cur \in Drivers /\ rounds[cur] > 0 /\ cur \notin done
    /\ pc = "fill" => Kind(cur) = "ppi" /\ ctx[cur].handle = FALSE
    /\ pc = "config" => ~ Stale(cur)
    /\ pc \in Configured => /\ ctx[cur].group = 1
                            /\ Ready(cur)
                            /\ Kind(cur) # "spi" => ctx[cur].intid = cur
    /\ pc \in Configured \ {"clear_intr"} => ctx[cur].intid = cur

(* What it has written to the registers by then.                           *)
TriggerAsked(i) ==
    /\ i \in Spis \cup Ppis => (EdgeTriggered(i) => ctx[i].trigger = 1)
    /\ i \in Spis => (ctx[i].trigger = 1 => EdgeTriggered(i))

WrittenInv ==
    /\ pc \in {"set_group", "write_group", "set_trigger", "write_trigger", "set_intr"} =>
          Priority(cur) = ctx[cur].priority
    /\ pc \in {"set_trigger", "write_trigger", "set_intr"} => InGroup1(cur)
    /\ pc = "set_intr" => TriggerAsked(cur)

(* Between read32 and write32 the word is still what was read.             *)
ReadInv ==
    /\ pc = "write_priority" => val = regs.ipriorityr[cur \div 4]
    /\ pc = "write_group"    => val = regs.igroupr[cur \div 32]
    /\ pc = "write_trigger"  => val = regs.icfgr[cur \div 16]

(* Only the interrupt being configured is ever on its way to be disabled,  *)
(* RWP shows it, and an SGI or PPI is configured after it is disabled.     *)
DisableInv ==
    /\ regs.disabling # {} => regs.rwp = TRUE
    /\ regs.disabling \subseteq {cur}
    /\ pc \in {"idle", "fill", "config", "clear_intr"} => regs.disabling = {}
    /\ Kind(cur) # "spi" /\ pc = "wait_rwp" /\ cur \in regs.enabled
          => cur \in regs.disabling
    /\ Kind(cur) # "spi" /\ pc \in Disabled => cur \notin regs.enabled

(* An interrupt that can be signalled can be handled, and one that is      *)
(* enabled while its driver is at work has been enabled before.            *)
EnabledInv ==
    \A i \in regs.enabled :
        /\ Ready(i) /\ i \in Drivers /\ rounds[i] > 0
        /\ pc # "idle" /\ cur = i => rounds[i] > 1

(* el2_irq finds nothing to read only after a second enabling.             *)
Again == \E i \in Drivers : rounds[i] > 1

IrqInv ==
    /\ panicked = TRUE => irq = "ack" /\ iar = Spurious
    /\ irq = "taken" => Signalled # {} \/ Again
    /\ irq = "ack" => (iar = Spurious /\ Again) \/ (iar # Spurious /\ Ready(iar))

GicIrqInv ==
    /\ TypeOK /\ DriverInv /\ WrittenInv /\ ReadInv /\ DisableInv /\ EnabledInv /\ IrqInv
    /\ EnabledAsRequested

-----------------------------------------------------------------------------
(* Kinds of interrupt.                                                     *)

LEMMA IntidsAreInts == Intids \subseteq 0 .. 1019
BY GicIrqAssumption DEF Intids

LEMMA KindCases ==
    ASSUME NEW i
    PROVE  Kind(i) = IF i <= 15 THEN "sgi" ELSE IF i \in 16 .. 31 THEN "ppi" ELSE "spi"
BY DEF Kind

LEMMA Kinds ==
    ASSUME NEW i \in Intids
    PROVE  /\ Kind(i) \in {"sgi", "ppi", "spi"}
           /\ Kind(i) = "sgi" <=> i \in Sgis
           /\ Kind(i) = "ppi" <=> i \in Ppis
           /\ Kind(i) = "spi" <=> i \in Spis
           /\ Kind(0) = "sgi"
<1>1. /\ Kind(i) = IF i <= 15 THEN "sgi" ELSE IF i \in 16 .. 31 THEN "ppi" ELSE "spi"
      /\ Kind(0) = IF 0 <= 15 THEN "sgi" ELSE IF 0 \in 16 .. 31 THEN "ppi" ELSE "spi"
  BY KindCases
<1> QED
  BY <1>1, GicIrqAssumption DEF Intids

LEMMA SpuriousIsNone == Spurious \notin Intids
BY IntidsAreInts DEF Spurious

-----------------------------------------------------------------------------
(* Fields of register words.                                               *)

(* IPRIORITYR has a byte for each of 4 interrupts, ICFGR 2 bits for each   *)
(* of 16, IGROUPR a bit for each of 32.                                    *)
Layout(size, width) == \/ size = 4 /\ width = 8
                       \/ size = 16 /\ width = 2
                       \/ size = 32 /\ width = 1

(* Fields of one word do not overlap.                                      *)
LEMMA Offsets ==
    ASSUME NEW size, NEW width, Layout(size, width),
           NEW x \in 0 .. (size - 1), NEW y \in 0 .. (size - 1)
    PROVE  /\ width \in Nat /\ width * x \in Nat /\ width * x + width <= 32
           /\ x = y <=> width * x = width * y
           /\ \/ width * x = width * y
              \/ width * x + width <= width * y
              \/ width * y + width <= width * x
<1>1. CASE size = 4 /\ width = 8
  BY <1>1
<1>2. CASE size = 16 /\ width = 2
  BY <1>2
<1>3. CASE size = 32 /\ width = 1
  BY <1>3
<1> QED
  BY <1>1, <1>2, <1>3 DEF Layout

(* The field of width bits at bit k of a word is replaced by v.            *)
Replaced(word, width, k, v) == (word \ Shl(0 .. (width - 1), k)) \cup Shl(v, k)

LEMMA FieldReplaced ==
    ASSUME NEW width \in Nat, NEW word \in SUBSET Bits,
           NEW v \in SUBSET (0 .. (width - 1)),
           NEW k \in Nat, NEW l \in Nat, l + width <= 32,
           k = l \/ k + width <= l \/ l + width <= k,
           NEW b \in 0 .. (width - 1)
    PROVE  l + b \in Replaced(word, width, k, v)
              <=> IF k = l THEN b \in v ELSE l + b \in word
<1>1. l + b \in Bits
  BY DEF Bits
<1>2. CASE k = l
  <2>1. (l + b) - k = b
    BY <1>2
  <2> QED
    BY <1>1, <1>2, <2>1 DEF Replaced, Shl
<1>3. CASE k # l
  <2>1. (l + b) - k \notin 0 .. (width - 1)
    BY <1>3
  <2> QED
    BY <1>1, <1>3, <2>1 DEF Replaced, Shl
<1> QED
  BY <1>2, <1>3

(* What the field of i holds in the words p of a register.                 *)
Field(p, size, width, i) ==
    {b \in 0 .. (width - 1) : width * (i % size) + b \in p[i \div size]}

(* Replacing the field of j in its word changes no field but that one.     *)
Written(p, size, width, j, v) ==
    [p EXCEPT ![j \div size] = Replaced(@, width, width * (j % size), v)]

LEMMA FieldWritten ==
    ASSUME NEW size, NEW width, Layout(size, width),
           NEW p \in WordType(size), NEW j \in Intids,
           NEW v \in SUBSET (0 .. (width - 1))
    PROVE  /\ Written(p, size, width, j, v) \in WordType(size)
           /\ \A i \in Intids :
                Field(Written(p, size, width, j, v), size, width, i)
                   = IF i = j THEN v ELSE Field(p, size, width, i)
<1> DEFINE q == Written(p, size, width, j, v)
           k == width * (j % size)
           new == Replaced(p[j \div size], width, k, v)
<1>1. j \div size \in {h \div size : h \in Intids} /\ p[j \div size] \in SUBSET Bits
  BY DEF WordType
<1>2. new \in SUBSET Bits
  BY <1>1 DEF Replaced, Shl
<1>3. q \in WordType(size)
  BY <1>1, <1>2 DEF WordType, Written
<1>4. ASSUME NEW i \in Intids
      PROVE  Field(q, size, width, i) = IF i = j THEN v ELSE Field(p, size, width, i)
  <2> DEFINE l == width * (i % size)
  <2>1. i \div size \in {h \div size : h \in Intids}
    OBVIOUS
  <2>2. CASE i \div size # j \div size
    <3>1. q[i \div size] = p[i \div size] /\ i # j
      BY <1>1, <2>1, <2>2 DEF WordType, Written
    <3> QED
      BY <3>1 DEF Field
  <2>3. CASE i \div size = j \div size
    <3>1. q[i \div size] = new
      BY <1>1, <2>3 DEF WordType, Written
    <3>2. /\ i % size \in 0 .. (size - 1) /\ j % size \in 0 .. (size - 1)
          /\ i = j <=> i % size = j % size
      <4>1. i \in 0 .. 1019 /\ j \in 0 .. 1019
        BY IntidsAreInts
      <4>2. CASE size = 4
        BY <2>3, <4>1, <4>2
      <4>3. CASE size = 16
        BY <2>3, <4>1, <4>3
      <4>4. CASE size = 32
        BY <2>3, <4>1, <4>4
      <4> QED
        BY <4>2, <4>3, <4>4 DEF Layout
    <3>3. /\ width \in Nat /\ k \in Nat /\ l \in Nat /\ l + width <= 32
          /\ i = j <=> k = l
          /\ k = l \/ k + width <= l \/ l + width <= k
      BY <3>2, Offsets
    <3> HIDE DEF k, l
    <3>4. \A b \in 0 .. (width - 1) :
              l + b \in new <=> IF i = j THEN b \in v ELSE l + b \in p[i \div size]
      BY <1>1, <2>3, <3>3, FieldReplaced
    <3> HIDE DEF new
    <3>5. Field(q, size, width, i) = {b \in 0 .. (width - 1) : l + b \in new}
      BY <3>1 DEF Field, l
    <3>6. Field(p, size, width, i) = {b \in 0 .. (width - 1) : l + b \in p[i \div size]}
      BY DEF Field, l
    <3>7. CASE i = j
      <4>1. {b \in 0 .. (width - 1) : l + b \in new} = v
        BY <3>4, <3>7
      <4> QED
        BY <3>5, <3>7, <4>1
    <3>8. CASE i # j
      <4>1. {b \in 0 .. (width - 1) : l + b \in new}
              = {b \in 0 .. (width - 1) : l + b \in p[i \div size]}
        BY <3>4, <3>8
      <4> QED
        BY <3>5, <3>6, <3>8, <4>1
    <3> QED
      BY <3>7, <3>8
  <2> QED
    BY <2>2, <2>3
<1> QED
  BY <1>3, <1>4

(* The attributes are fields of that kind.                                 *)
LEMMA AttributesAreFields ==
    ASSUME NEW i
    PROVE  /\ Priority(i) = Field(regs.ipriorityr, 4, 8, i)
           /\ Priority(i)' = Field(regs'.ipriorityr, 4, 8, i)
           /\ Config(i) = Field(regs.icfgr, 16, 2, i)
           /\ Config(i)' = Field(regs'.icfgr, 16, 2, i)
<1>1. 8 - 1 = 7 /\ 2 - 1 = 1
  OBVIOUS
<1> QED
  BY <1>1 DEF Priority, Config, Field

-----------------------------------------------------------------------------
(* What each step of gic_irq_enable does to the registers.                 *)

EdgeBits(i) == IF ctx[i].trigger = 1 THEN (IF Kind(i) = "spi" THEN {1} ELSE {0}) ELSE {}

(* The words and bits of a context's own interrupt.                        *)
LEMMA OwnWords ==
    ASSUME NEW i \in Intids
    PROVE  /\ Kind(i) # "spi" => i \div 32 = 0
           /\ Kind(i) = "sgi" => i \div 16 = 0
           /\ Kind(i) = "ppi" => i \div 16 = 1 /\ (i - 16) % 16 = i % 16
           /\ Selected(i \div 32, Shl({0}, i % 32)) = {i}
<1>1. i \in 0 .. 1019
  BY IntidsAreInts
<1>2. /\ Kind(i) # "spi" => i \in 0 .. 31
      /\ Kind(i) = "sgi" => i \in 0 .. 15
      /\ Kind(i) = "ppi" => i \in 16 .. 31
  BY <1>1, Kinds, GicIrqAssumption
<1>3. i % 32 \in 0 .. 31 /\ 32 * (i \div 32) + (i % 32) = i
  BY <1>1
<1>4. Shl({0}, i % 32) = {i % 32}
  BY <1>3 DEF Shl, Bits
<1>5. Selected(i \div 32, Shl({0}, i % 32)) = {i}
  BY <1>3, <1>4 DEF Selected
<1>6. Kind(i) # "spi" => i \div 32 = 0
  BY <1>2
<1>7. Kind(i) = "sgi" => i \div 16 = 0
  BY <1>2
<1>8. Kind(i) = "ppi" => i \div 16 = 1 /\ (i - 16) % 16 = i % 16
  BY <1>2
<1> QED
  BY <1>5, <1>6, <1>7, <1>8

LEMMA OwnRecords ==
    ASSUME NEW c, c.group = 1
    PROVE  /\ SetPriority(c) =
                [reg |-> "ipriorityr", n |-> c.intid \div 4,
                 clear |-> Shl(0 .. 7, 8 * (c.intid % 4)),
                 set |-> Shl(c.priority, 8 * (c.intid % 4))]
           /\ SetPrivateGroup(c) =
                [reg |-> "igroupr", n |-> 0, clear |-> {}, set |-> Shl({0}, c.intid % 32)]
           /\ SetSpiGroup(c) =
                [reg |-> "igroupr", n |-> c.intid \div 32, clear |-> {},
                 set |-> Shl({0}, c.intid % 32)]
           /\ \A n, k, v : SetTrigger(n, k, v) =
                [reg |-> "icfgr", n |-> n, clear |-> Shl(0 .. 1, k), set |-> Shl(v, k)]
<1>1. SetPriority(c) =
                [reg |-> "ipriorityr", n |-> c.intid \div 4,
                 clear |-> Shl(0 .. 7, 8 * (c.intid % 4)),
                 set |-> Shl(c.priority, 8 * (c.intid % 4))]
  BY DEF SetPriority
<1>2. SetPrivateGroup(c) =
                [reg |-> "igroupr", n |-> 0, clear |-> {}, set |-> Shl({0}, c.intid % 32)]
  BY DEF SetPrivateGroup
<1>3. SetSpiGroup(c) =
                [reg |-> "igroupr", n |-> c.intid \div 32, clear |-> {},
                 set |-> Shl({0}, c.intid % 32)]
  BY DEF SetSpiGroup
<1>4. \A n, k, v : SetTrigger(n, k, v) =
                [reg |-> "icfgr", n |-> n, clear |-> Shl(0 .. 1, k), set |-> Shl(v, k)]
  BY DEF SetTrigger
<1> QED
  BY <1>1, <1>2, <1>3, <1>4

LEMMA OpsOwn ==
    ASSUME cur \in Intids, ctx[cur].intid = cur, ctx[cur].group = 1
    PROVE  /\ Ops(cur).set_priority =
                [reg |-> "ipriorityr", n |-> cur \div 4, clear |-> Shl(0 .. 7, 8 * (cur % 4)),
                 set |-> Shl(ctx[cur].priority, 8 * (cur % 4))]
           /\ Ops(cur).set_group =
                [reg |-> "igroupr", n |-> cur \div 32, clear |-> {}, set |-> Shl({0}, cur % 32)]
           /\ Ops(cur).set_trigger =
                [reg |-> "icfgr", n |-> cur \div 16, clear |-> Shl(0 .. 1, 2 * (cur % 16)),
                 set |-> Shl(EdgeBits(cur), 2 * (cur % 16))]
<1>0. Kind(cur) \in {"sgi", "ppi", "spi"}
  BY Kinds
<1>1. CASE Kind(cur) = "sgi"
  <2>1. Ops(cur) = SgiOps(ctx[cur]) /\ cur \div 32 = 0 /\ cur \div 16 = 0
    BY <1>1, OwnWords DEF Ops
  <2>2. EdgeBits(cur) = IF ctx[cur].trigger = 1 THEN {0} ELSE {}
    BY <1>1 DEF EdgeBits
  <2>3. /\ Ops(cur).set_priority = SetPriority(ctx[cur])
        /\ Ops(cur).set_group = SetPrivateGroup(ctx[cur])
        /\ Ops(cur).set_trigger = SetTrigger(0, 2 * (cur % 16), EdgeBits(cur))
    BY <2>1, <2>2 DEF SgiOps
  <2> QED
    BY <2>1, <2>3, OwnRecords
<1>2. CASE Kind(cur) = "ppi"
  <2>1. /\ Ops(cur) = PpiOps(ctx[cur]) /\ cur \div 32 = 0 /\ cur \div 16 = 1
        /\ (cur - 16) % 16 = cur % 16
    BY <1>2, OwnWords DEF Ops
  <2>2. EdgeBits(cur) = IF ctx[cur].trigger = 1 THEN {0} ELSE {}
    BY <1>2 DEF EdgeBits
  <2>3. /\ Ops(cur).set_priority = SetPriority(ctx[cur])
        /\ Ops(cur).set_group = SetPrivateGroup(ctx[cur])
        /\ Ops(cur).set_trigger = SetTrigger(1, 2 * (cur % 16), EdgeBits(cur))
    BY <2>1, <2>2 DEF PpiOps
  <2> QED
    BY <2>1, <2>3, OwnRecords
<1>3. CASE Kind(cur) = "spi"
  <2>1. Ops(cur) = SpiOps(ctx[cur])
    BY <1>3 DEF Ops
  <2>2. EdgeBits(cur) = IF ctx[cur].trigger = 1 THEN {1} ELSE {}
    BY <1>3 DEF EdgeBits
  <2>3. /\ Ops(cur).set_priority = SetPriority(ctx[cur])
        /\ Ops(cur).set_group = SetSpiGroup(ctx[cur])
        /\ Ops(cur).set_trigger = SetTrigger(cur \div 16, 2 * (cur % 16), EdgeBits(cur))
    BY <2>1, <2>2 DEF SpiOps
  <2> QED
    BY <2>3, OwnRecords
<1> QED
  BY <1>0, <1>1, <1>2, <1>3

(* The state outside the registers, and the fields of regs an operation    *)
(* leaves alone.                                                           *)
OpFrame ==
    /\ irq = "idle" /\ panicked = FALSE /\ panicked' = FALSE
    /\ UNCHANGED <<ctx, pending, cur, rounds, irq, iar, active>>

Same(f) == regs'[f] = regs[f]
SameWords == Same("ipriorityr") /\ Same("igroupr") /\ Same("igrpmodr") /\ Same("icfgr")

LEMMA SameAttributes ==
    ASSUME NEW i
    PROVE  /\ Same("ipriorityr") => Priority(i)' = Priority(i)
           /\ Same("igroupr") => InGroup1(i)' = InGroup1(i)
           /\ Same("igrpmodr") => Modified(i)' = Modified(i)
           /\ Same("icfgr") => Config(i)' = Config(i) /\ EdgeTriggered(i)' = EdgeTriggered(i)
BY DEF Same, Priority, InGroup1, Modified, Config, EdgeTriggered

ClearEffect ==
    /\ OpFrame /\ pc = "clear_intr" /\ done' = done /\ val' = val
    /\ SameWords /\ Same("enabled")
    /\ \/ /\ pc' = "wait_rwp" /\ ctx[cur].intid = cur
          /\ regs'.disabling = regs.disabling \cup {cur} /\ regs'.rwp = TRUE
       \/ pc' = "idle" /\ Same("disabling") /\ Same("rwp")

ReadEffect ==
    /\ regs' = regs
    /\ \/ /\ pc = "set_priority" /\ pc' = "write_priority"
          /\ val' = regs.ipriorityr[cur \div 4]
       \/ /\ pc = "set_group" /\ pc' = "write_group"
          /\ val' = regs.igroupr[cur \div 32]
       \/ /\ pc = "set_trigger" /\ pc' = "write_trigger"
          /\ val' = regs.icfgr[cur \div 16]

WriteEffect ==
    /\ Same("enabled") /\ Same("disabling") /\ Same("rwp") /\ Same("igrpmodr")
    /\ val' = {}
    /\ \/ /\ pc = "write_priority" /\ pc' = "set_group"
          /\ Same("igroupr") /\ Same("icfgr")
          /\ \A i \in Intids : Priority(i)' = IF i = cur THEN ctx[cur].priority
                                              ELSE Priority(i)
       \/ /\ pc = "write_group" /\ pc' = "set_trigger"
          /\ Same("ipriorityr") /\ Same("icfgr")
          /\ \A i \in Intids : InGroup1(i)' <=> i = cur \/ InGroup1(i)
       \/ /\ pc = "write_trigger" /\ pc' = "set_intr"
          /\ Same("ipriorityr") /\ Same("igroupr")
          /\ \A i \in Intids : Config(i)' = IF i = cur THEN EdgeBits(cur) ELSE Config(i)

AttributeEffect == OpFrame /\ done' = done /\ (ReadEffect \/ WriteEffect)

SetEffect ==
    /\ OpFrame /\ pc = "set_intr" /\ pc' = "idle" /\ done' = done \cup {cur} /\ val' = val
    /\ SameWords /\ Same("rwp")
    /\ regs'.enabled = regs.enabled \cup {cur}
    /\ regs'.disabling = regs.disabling \ {cur}

RegsType == [enabled : SUBSET Intids, disabling : SUBSET Intids, rwp : BOOLEAN,
             ipriorityr : WordType(4), igroupr : WordType(32),
             igrpmodr : WordType(32), icfgr : WordType(16)]

(* The check of ctx->intid fails at most in clear_intr, for an SPI.        *)
LEMMA CheckPassed ==
    ASSUME GicIrqInv, pc \in Configured
    PROVE  /\ cur \in Intids
           /\ IntidOk => ctx[cur].intid = cur
           /\ pc # "clear_intr" => IntidOk /\ ctx[cur].intid = cur
           /\ Kind(cur) # "spi" => IntidOk
<1>1. cur \in Intids /\ Kind(cur) \in {"sgi", "ppi", "spi"} /\ Kind(0) = "sgi"
  BY Kinds DEF GicIrqInv, TypeOK
<1> QED
  BY <1>1 DEF GicIrqInv, DriverInv, IntidOk, Configured, Checking

LEMMA CheckedEffect ==
    ASSUME GicIrqInv, NEW op \in Checking, NEW to, Checked(op, to)
    PROVE  /\ OpFrame /\ pc = op
           /\ \/ ctx[cur].intid = cur /\ IntidOk /\ pc' = to
              \/ op = "clear_intr" /\ ~ IntidOk /\ pc' = "idle"
<1>1. pc = op /\ irq = "idle" /\ panicked = FALSE /\ pc \in Configured
  BY DEF Checked, Main, GicIrqInv, TypeOK, Configured
<1>2. CASE IntidOk
  BY <1>1, <1>2, CheckPassed DEF Checked, OpFrame, irqVars
<1>3. CASE ~ IntidOk
  <2>1. op = "clear_intr" /\ Kind(cur) = "spi"
    BY <1>1, <1>3, CheckPassed
  <2>2. panicked' = FALSE
    BY <1>3, <2>1 DEF Checked
  <2> QED
    BY <1>1, <1>3, <2>1, <2>2 DEF Checked, OpFrame, irqVars
<1> QED
  BY <1>2, <1>3

(* The operations of the driver at work, on its own interrupt.             *)
LEMMA OwnOps ==
    ASSUME GicIrqInv, pc \in Configured, ctx[cur].intid = cur
    PROVE  /\ regs \in RegsType /\ cur \in Intids
           /\ ctx[cur].priority \in SUBSET (0 .. 7) /\ EdgeBits(cur) \in SUBSET (0 .. 1)
           /\ Ops(cur).set_priority =
                [reg |-> "ipriorityr", n |-> cur \div 4, clear |-> Shl(0 .. 7, 8 * (cur % 4)),
                 set |-> Shl(ctx[cur].priority, 8 * (cur % 4))]
           /\ Ops(cur).set_group =
                [reg |-> "igroupr", n |-> cur \div 32, clear |-> {}, set |-> Shl({0}, cur % 32)]
           /\ Ops(cur).set_trigger =
                [reg |-> "icfgr", n |-> cur \div 16, clear |-> Shl(0 .. 1, 2 * (cur % 16)),
                 set |-> Shl(EdgeBits(cur), 2 * (cur % 16))]
<1>1. TypeOK /\ ctx[cur].group = 1
  BY DEF GicIrqInv, DriverInv
<1>2. cur \in Intids /\ regs \in RegsType /\ ctx[cur] \in Context
  BY <1>1 DEF TypeOK, RegsType
<1>3. ctx[cur].priority \in SUBSET (0 .. 7)
  BY <1>2 DEF Context
<1>4. EdgeBits(cur) \in SUBSET (0 .. 1)
  BY DEF EdgeBits
<1> QED
  BY <1>1, <1>2, <1>3, <1>4, OpsOwn

LEMMA ClearSteps ==
    ASSUME GicIrqInv, ClearIntr PROVE ClearEffect /\ regs' \in RegsType
<1>1. /\ OpFrame /\ pc = "clear_intr" /\ done' = done /\ val' = val
      /\ \/ ctx[cur].intid = cur /\ regs' = Disable(cur) /\ pc' = "wait_rwp"
         \/ regs' = regs /\ pc' = "idle"
  BY CheckedEffect DEF ClearIntr, Checking
<1>2. regs \in RegsType /\ cur \in Intids
  BY DEF GicIrqInv, TypeOK, RegsType
<1>3. CASE regs' = regs /\ pc' = "idle"
  BY <1>1, <1>2, <1>3 DEF ClearEffect, Same, SameWords
<1>4. CASE ctx[cur].intid = cur /\ regs' = Disable(cur) /\ pc' = "wait_rwp"
  <2>1. regs' = [regs EXCEPT !.disabling = @ \cup {cur}, !.rwp = TRUE]
    BY <1>2, <1>4, OwnWords DEF Disable
  <2>2. regs' \in RegsType
    BY <1>2, <2>1 DEF RegsType
  <2>3. /\ SameWords /\ Same("enabled")
        /\ regs'.disabling = regs.disabling \cup {cur} /\ regs'.rwp = TRUE
    BY <1>2, <2>1 DEF RegsType, Same, SameWords
  <2> QED
    BY <1>1, <1>4, <2>2, <2>3 DEF ClearEffect
<1> QED
  BY <1>1, <1>3, <1>4

LEMMA SetSteps ==
    ASSUME GicIrqInv, SetIntr PROVE SetEffect /\ regs' \in RegsType
<1>1. /\ OpFrame /\ pc = "set_intr" /\ pc' = "idle" /\ done' = done \cup {cur}
      /\ ctx[cur].intid = cur /\ regs' = Enable(cur) /\ val' = val
  BY CheckedEffect DEF SetIntr, Checking
<1>2. regs \in RegsType /\ cur \in Intids
  BY DEF GicIrqInv, TypeOK, RegsType
<1>3. regs' = [regs EXCEPT !.enabled = @ \cup {cur}, !.disabling = @ \ {cur}]
  BY <1>1, <1>2, OwnWords DEF Enable
<1>4. regs' \in RegsType
  BY <1>2, <1>3 DEF RegsType
<1>5. /\ SameWords /\ Same("rwp")
      /\ regs'.enabled = regs.enabled \cup {cur}
      /\ regs'.disabling = regs.disabling \ {cur}
  BY <1>2, <1>3 DEF RegsType, Same, SameWords
<1> QED
  BY <1>1, <1>4, <1>5 DEF SetEffect

(* read32                                                                  *)
LEMMA ReadSteps ==
    ASSUME GicIrqInv, \/ ReadWord("set_priority", "write_priority")
                      \/ ReadWord("set_group", "write_group")
                      \/ ReadWord("set_trigger", "write_trigger")
    PROVE  OpFrame /\ done' = done /\ ReadEffect
<1>1. CASE ReadWord("set_priority", "write_priority")
  <2>1. /\ OpFrame /\ pc = "set_priority" /\ pc' = "write_priority" /\ IntidOk
        /\ ctx[cur].intid = cur /\ done' = done /\ regs' = regs
    BY <1>1, CheckedEffect DEF ReadWord, Checking
  <2>2. Ops(cur).set_priority.reg = "ipriorityr" /\ Ops(cur).set_priority.n = cur \div 4
    BY <2>1, OwnOps DEF Configured, Checking
  <2>3. val' = regs.ipriorityr[cur \div 4]
    BY <1>1, <2>1, <2>2 DEF ReadWord
  <2> QED
    BY <2>1, <2>3 DEF ReadEffect
<1>2. CASE ReadWord("set_group", "write_group")
  <2>1. /\ OpFrame /\ pc = "set_group" /\ pc' = "write_group" /\ IntidOk
        /\ ctx[cur].intid = cur /\ done' = done /\ regs' = regs
    BY <1>2, CheckedEffect DEF ReadWord, Checking
  <2>2. Ops(cur).set_group.reg = "igroupr" /\ Ops(cur).set_group.n = cur \div 32
    BY <2>1, OwnOps DEF Configured, Checking
  <2>3. val' = regs.igroupr[cur \div 32]
    BY <1>2, <2>1, <2>2 DEF ReadWord
  <2> QED
    BY <2>1, <2>3 DEF ReadEffect
<1>3. CASE ReadWord("set_trigger", "write_trigger")
  <2>1. /\ OpFrame /\ pc = "set_trigger" /\ pc' = "write_trigger" /\ IntidOk
        /\ ctx[cur].intid = cur /\ done' = done /\ regs' = regs
    BY <1>3, CheckedEffect DEF ReadWord, Checking
  <2>2. Ops(cur).set_trigger.reg = "icfgr" /\ Ops(cur).set_trigger.n = cur \div 16
    BY <2>1, OwnOps DEF Configured, Checking
  <2>3. val' = regs.icfgr[cur \div 16]
    BY <1>3, <2>1, <2>2 DEF ReadWord
  <2> QED
    BY <2>1, <2>3 DEF ReadEffect
<1> QED
  BY <1>1, <1>2, <1>3

(* write32                                                                 *)
LEMMA PriorityStep ==
    ASSUME GicIrqInv, WriteWord("set_priority", "write_priority", "set_group")
    PROVE  OpFrame /\ done' = done /\ WriteEffect /\ regs' \in RegsType
<1>1. /\ OpFrame /\ pc = "write_priority" /\ pc' = "set_group" /\ done' = done /\ val' = {}
  BY DEF WriteWord, Main, OpFrame, irqVars, GicIrqInv, TypeOK
<1>2. /\ ctx[cur].intid = cur /\ val = regs.ipriorityr[cur \div 4]
  BY <1>1, CheckPassed DEF Configured, GicIrqInv, ReadInv
<1> DEFINE q == Written(regs.ipriorityr, 4, 8, cur, ctx[cur].priority)
<1>3. /\ regs \in RegsType /\ cur \in Intids /\ ctx[cur].priority \in SUBSET (0 .. 7)
      /\ Ops(cur).set_priority =
                [reg |-> "ipriorityr", n |-> cur \div 4, clear |-> Shl(0 .. 7, 8 * (cur % 4)),
                 set |-> Shl(ctx[cur].priority, 8 * (cur % 4))]
  BY <1>1, <1>2, OwnOps DEF Configured
<1>4. /\ regs.ipriorityr \in WordType(4) /\ 8 - 1 = 7
      /\ cur \div 4 \in DOMAIN regs.ipriorityr
  BY <1>3 DEF RegsType, WordType
<1>5. regs' = [regs EXCEPT !.ipriorityr = q]
  <2> DEFINE o == Ops(cur).set_priority
             W(r, n, w) == [regs EXCEPT ![r][n] = w]
  <2>1. regs' = W(o.reg, o.n, (val \ o.clear) \cup o.set)
    BY DEF WriteWord
  <2>2. /\ o.reg = "ipriorityr" /\ o.n = cur \div 4
        /\ o.clear = Shl(0 .. 7, 8 * (cur % 4)) /\ o.set = Shl(ctx[cur].priority, 8 * (cur % 4))
    BY <1>3
  <2>3. regs' = W("ipriorityr", cur \div 4,
                  (val \ Shl(0 .. 7, 8 * (cur % 4))) \cup Shl(ctx[cur].priority, 8 * (cur % 4)))
    <3> HIDE DEF o, W
    <3> QED
      BY <2>1, <2>2
  <2>4. regs' = [regs EXCEPT !.ipriorityr[cur \div 4] =
                    (val \ Shl(0 .. 7, 8 * (cur % 4))) \cup Shl(ctx[cur].priority, 8 * (cur % 4))]
    BY <2>3
  <2> QED
    BY <1>2, <1>4, <2>4 DEF Replaced, Written
<1>6. /\ q \in WordType(4)
      /\ \A i \in Intids : Field(q, 4, 8, i) = IF i = cur THEN ctx[cur].priority
                                               ELSE Field(regs.ipriorityr, 4, 8, i)
  <2>1. Layout(4, 8) /\ ctx[cur].priority \in SUBSET (0 .. (8 - 1))
    BY <1>3, <1>4 DEF Layout
  <2> QED
    BY <1>3, <1>4, <2>1, FieldWritten
<1> HIDE DEF q
<1>7. regs' \in RegsType /\ regs'.ipriorityr = q
  BY <1>3, <1>5, <1>6 DEF RegsType
<1>8. /\ Same("enabled") /\ Same("disabling") /\ Same("rwp") /\ Same("igrpmodr")
      /\ Same("igroupr") /\ Same("icfgr")
  BY <1>3, <1>5 DEF RegsType, Same
<1>9. \A i \in Intids : Priority(i)' = IF i = cur THEN ctx[cur].priority ELSE Priority(i)
  BY <1>6, <1>7, AttributesAreFields
<1> QED
  BY <1>1, <1>7, <1>8, <1>9 DEF WriteEffect

LEMMA GroupStep ==
    ASSUME GicIrqInv, WriteWord("set_group", "write_group", "set_trigger")
    PROVE  OpFrame /\ done' = done /\ WriteEffect /\ regs' \in RegsType
<1>1. /\ OpFrame /\ pc = "write_group" /\ pc' = "set_trigger" /\ done' = done /\ val' = {}
  BY DEF WriteWord, Main, OpFrame, irqVars, GicIrqInv, TypeOK
<1>2. /\ ctx[cur].intid = cur /\ val = regs.igroupr[cur \div 32]
  BY <1>1, CheckPassed DEF Configured, GicIrqInv, ReadInv
<1> DEFINE q == [regs.igroupr EXCEPT ![cur \div 32] = @ \cup Shl({0}, cur % 32)]
<1>3. /\ regs \in RegsType /\ cur \in Intids
      /\ Ops(cur).set_group =
                [reg |-> "igroupr", n |-> cur \div 32, clear |-> {}, set |-> Shl({0}, cur % 32)]
  BY <1>1, <1>2, OwnOps DEF Configured
<1>4. /\ regs.igroupr \in WordType(32) /\ cur \div 32 \in DOMAIN regs.igroupr
  BY <1>3 DEF RegsType, WordType
<1>5. regs' = [regs EXCEPT !.igroupr = q]
  <2> DEFINE o == Ops(cur).set_group
             W(r, n, w) == [regs EXCEPT ![r][n] = w]
  <2>1. regs' = W(o.reg, o.n, (val \ o.clear) \cup o.set)
    BY DEF WriteWord
  <2>2. o.reg = "igroupr" /\ o.n = cur \div 32 /\ o.clear = {} /\ o.set = Shl({0}, cur % 32)
    BY <1>3
  <2>3. regs' = W("igroupr", cur \div 32, (val \ {}) \cup Shl({0}, cur % 32))
    <3> HIDE DEF o, W
    <3> QED
      BY <2>1, <2>2
  <2>4. regs' = [regs EXCEPT !.igroupr[cur \div 32] = (val \ {}) \cup Shl({0}, cur % 32)]
    BY <2>3
  <2> QED
    BY <1>2, <1>4, <2>4
<1>6. q \in WordType(32)
  BY <1>4 DEF WordType, Shl
<1>7. \A i \in Intids : (i % 32) \in q[i \div 32]
                           <=> i = cur \/ (i % 32) \in regs.igroupr[i \div 32]
  <2> TAKE i \in Intids
  <2>1. i \in 0 .. 1019 /\ cur \in 0 .. 1019
    BY <1>3, IntidsAreInts
  <2>2. i \div 32 \in DOMAIN regs.igroupr
    BY <1>4 DEF WordType
  <2>3. Shl({0}, cur % 32) = {cur % 32}
    <3>1. cur % 32 \in 0 .. 31
      BY <2>1
    <3> QED
      BY <3>1 DEF Shl, Bits
  <2>4. CASE i \div 32 = cur \div 32
    <3>1. i = cur <=> i % 32 = cur % 32
      BY <2>1, <2>4
    <3>2. q[i \div 32] = regs.igroupr[i \div 32] \cup {cur % 32}
      BY <1>4, <2>3, <2>4
    <3> QED
      BY <3>1, <3>2
  <2>5. CASE i \div 32 # cur \div 32
    <3>1. q[i \div 32] = regs.igroupr[i \div 32] /\ i # cur
      BY <1>4, <2>2, <2>5
    <3> QED
      BY <3>1
  <2> QED
    BY <2>4, <2>5
<1> HIDE DEF q
<1>8. regs' \in RegsType /\ regs'.igroupr = q
  BY <1>3, <1>5, <1>6 DEF RegsType
<1>9. /\ Same("enabled") /\ Same("disabling") /\ Same("rwp") /\ Same("igrpmodr")
      /\ Same("ipriorityr") /\ Same("icfgr")
  BY <1>3, <1>5 DEF RegsType, Same
<1>10. \A i \in Intids : InGroup1(i)' <=> i = cur \/ InGroup1(i)
  BY <1>7, <1>8 DEF InGroup1
<1> QED
  BY <1>1, <1>8, <1>9, <1>10 DEF WriteEffect

LEMMA TriggerStep ==
    ASSUME GicIrqInv, WriteWord("set_trigger", "write_trigger", "set_intr")
    PROVE  OpFrame /\ done' = done /\ WriteEffect /\ regs' \in RegsType
<1>1. /\ OpFrame /\ pc = "write_trigger" /\ pc' = "set_intr" /\ done' = done /\ val' = {}
  BY DEF WriteWord, Main, OpFrame, irqVars, GicIrqInv, TypeOK
<1>2. /\ ctx[cur].intid = cur /\ val = regs.icfgr[cur \div 16]
  BY <1>1, CheckPassed DEF Configured, GicIrqInv, ReadInv
<1> DEFINE q == Written(regs.icfgr, 16, 2, cur, EdgeBits(cur))
<1>3. /\ regs \in RegsType /\ cur \in Intids /\ EdgeBits(cur) \in SUBSET (0 .. 1)
      /\ Ops(cur).set_trigger =
                [reg |-> "icfgr", n |-> cur \div 16, clear |-> Shl(0 .. 1, 2 * (cur % 16)),
                 set |-> Shl(EdgeBits(cur), 2 * (cur % 16))]
  BY <1>1, <1>2, OwnOps DEF Configured
<1>4. /\ regs.icfgr \in WordType(16) /\ 2 - 1 = 1
      /\ cur \div 16 \in DOMAIN regs.icfgr
  BY <1>3 DEF RegsType, WordType
<1>5. regs' = [regs EXCEPT !.icfgr = q]
  <2> DEFINE o == Ops(cur).set_trigger
             W(r, n, w) == [regs EXCEPT ![r][n] = w]
  <2>1. regs' = W(o.reg, o.n, (val \ o.clear) \cup o.set)
    BY DEF WriteWord
  <2>2. /\ o.reg = "icfgr" /\ o.n = cur \div 16
        /\ o.clear = Shl(0 .. 1, 2 * (cur % 16)) /\ o.set = Shl(EdgeBits(cur), 2 * (cur % 16))
    BY <1>3
  <2>3. regs' = W("icfgr", cur \div 16,
                  (val \ Shl(0 .. 1, 2 * (cur % 16))) \cup Shl(EdgeBits(cur), 2 * (cur % 16)))
    <3> HIDE DEF o, W
    <3> QED
      BY <2>1, <2>2
  <2>4. regs' = [regs EXCEPT !.icfgr[cur \div 16] =
                    (val \ Shl(0 .. 1, 2 * (cur % 16))) \cup Shl(EdgeBits(cur), 2 * (cur % 16))]
    BY <2>3
  <2> QED
    BY <1>2, <1>4, <2>4 DEF Replaced, Written
<1>6. /\ q \in WordType(16)
      /\ \A i \in Intids : Field(q, 16, 2, i) = IF i = cur THEN EdgeBits(cur)
                                                ELSE Field(regs.icfgr, 16, 2, i)
  <2>1. Layout(16, 2) /\ EdgeBits(cur) \in SUBSET (0 .. (2 - 1))
    BY <1>3, <1>4 DEF Layout
  <2> QED
    BY <1>3, <1>4, <2>1, FieldWritten
<1> HIDE DEF q
<1>7. regs' \in RegsType /\ regs'.icfgr = q
  BY <1>3, <1>5, <1>6 DEF RegsType
<1>8. /\ Same("enabled") /\ Same("disabling") /\ Same("rwp") /\ Same("igrpmodr")
      /\ Same("igroupr") /\ Same("ipriorityr")
  BY <1>3, <1>5 DEF RegsType, Same
<1>9. \A i \in Intids : Config(i)' = IF i = cur THEN EdgeBits(cur) ELSE Config(i)
  BY <1>6, <1>7, AttributesAreFields
<1> QED
  BY <1>1, <1>7, <1>8, <1>9 DEF WriteEffect

LEMMA AttributeSteps ==
    ASSUME GicIrqInv, Attributes PROVE AttributeEffect /\ regs' \in RegsType
<1>1. regs \in RegsType
  BY DEF GicIrqInv, TypeOK, RegsType
<1> QED
  BY <1>1, ReadSteps, PriorityStep, GroupStep, TriggerStep
     DEF Attributes, AttributeEffect, ReadEffect

(* The GIC completes its writes.                                           *)
LEMMA SettleSteps ==
    ASSUME TypeOK, Settle
    PROVE  /\ regs' \in RegsType
           /\ SameWords
           /\ regs'.enabled = regs.enabled \ regs.disabling
           /\ regs'.disabling = {}
           /\ UNCHANGED <<ctx, val, pending, pc, cur, rounds, done, irq, iar, active, panicked>>
<1>1. regs \in RegsType
  BY DEF TypeOK, RegsType
<1>2. regs' = [regs EXCEPT !.rwp = FALSE, !.enabled = @ \ regs.disabling, !.disabling = {}]
  BY DEF Settle
<1>3. /\ SameWords
      /\ regs'.enabled = regs.enabled \ regs.disabling
      /\ regs'.disabling = {}
  BY <1>1, <1>2 DEF RegsType, Same, SameWords
<1>4. regs' \in RegsType
  BY <1>1, <1>2 DEF RegsType
<1> QED
  BY <1>3, <1>4 DEF Settle, mainVars, irqVars

-----------------------------------------------------------------------------
(* Contexts.                                                               *)

LEMMA ContextFields ==
    ASSUME NEW x \in Context, NEW k \in {"none", "sgi", "ppi", "spi"}
    PROVE  /\ [x EXCEPT !.ops = k] \in Context
           /\ [x EXCEPT !.ops = k].ops = k
           /\ [x EXCEPT !.ops = k].intid = x.intid
           /\ [x EXCEPT !.ops = k].group = x.group
           /\ [x EXCEPT !.ops = k].priority = x.priority
           /\ [x EXCEPT !.ops = k].trigger = x.trigger
           /\ [x EXCEPT !.ops = k].handle = x.handle
BY DEF Context

(* Everything but the operations of a context that need them is kept.      *)
CtxKept ==
    /\ ctx' \in [Intids -> Context]
    /\ \A i \in Intids :
          /\ ctx'[i].intid = ctx[i].intid /\ ctx'[i].group = ctx[i].group
          /\ ctx'[i].priority = ctx[i].priority /\ ctx'[i].trigger = ctx[i].trigger
          /\ ctx'[i].handle = ctx[i].handle
          /\ ~ Stale(i) => ~ Stale(i)'

LEMMA OpsFilledIn ==
    ASSUME TypeOK, NEW i \in Intids, ~ Stale(i), ctx' = [ctx EXCEPT ![i].ops = Kind(i)]
    PROVE  CtxKept
<1>1. ctx \in [Intids -> Context] /\ ctx[i] \in Context
      /\ Kind(i) \in {"none", "sgi", "ppi", "spi"}
  BY Kinds DEF TypeOK
<1>2. ctx'[i] = [ctx[i] EXCEPT !.ops = Kind(i)] /\ \A j \in Intids \ {i} : ctx'[j] = ctx[j]
  BY <1>1
<1>3. /\ ctx'[i] \in Context /\ ctx'[i].ops = Kind(i)
      /\ ctx'[i].intid = ctx[i].intid /\ ctx'[i].group = ctx[i].group
      /\ ctx'[i].priority = ctx[i].priority /\ ctx'[i].trigger = ctx[i].trigger
      /\ ctx'[i].handle = ctx[i].handle
  BY <1>1, <1>2, ContextFields
<1>4. ctx' \in [Intids -> Context]
  BY <1>1, <1>3
<1>5. ~ Stale(i)' /\ \A j \in Intids \ {i} : Stale(j)' <=> Stale(j)
  BY <1>2, <1>3 DEF Stale
<1> QED
  BY <1>2, <1>3, <1>4, <1>5 DEF CtxKept

(* el2_irq's lookup changes nothing but the operations: an interrupt that  *)
(* was signalled has a context that is set up.                             *)
LEMMA DispatchSteps ==
    ASSUME GicIrqInv, Dispatch
    PROVE  /\ CtxKept /\ irq = "ack" /\ UNCHANGED <<regs, pending, mainVars, iar, active>>
           /\ \/ iar = Spurious /\ panicked' = TRUE /\ irq' = irq
              \/ iar # Spurious /\ panicked' = panicked /\ irq' = "handler"
<1>0. TypeOK /\ irq = "ack"
  BY DEF GicIrqInv, Dispatch
<1>1. CASE iar = Spurious
  BY <1>0, <1>1 DEF Dispatch, Panic, CtxKept, TypeOK, Stale
<1>2. CASE iar # Spurious
  <2>1. iar \in Intids /\ Ready(iar)
    BY <1>0, <1>2 DEF TypeOK, GicIrqInv, IrqInv
  <2>2. LookedUp(iar) = [ctx[iar] EXCEPT !.ops = Kind(iar)]
    BY <2>1 DEF LookedUp, Ready
  <2>3. ctx' = [ctx EXCEPT ![iar].ops = Kind(iar)]
    BY <1>0, <1>2, <2>1, <2>2 DEF Dispatch, TypeOK
  <2>4. LookedUp(iar).handle
    <3>1. ctx[iar] \in Context /\ Kind(iar) \in {"none", "sgi", "ppi", "spi"}
      BY <1>0, <2>1, Kinds DEF TypeOK
    <3> QED
      BY <2>1, <2>2, <3>1, ContextFields DEF Ready
  <2> QED
    BY <1>0, <1>2, <2>1, <2>3, <2>4, OpsFilledIn DEF Dispatch, Ready
<1> QED
  BY <1>1, <1>2

(* get_ppi_context erases a context only if nothing can signal its         *)
(* interrupt.                                                              *)
LEMMA GetContextSteps ==
    ASSUME GicIrqInv, NEW i \in Drivers, GetContext(i)
    PROVE  /\ i \in Intids /\ pc = "idle" /\ irq = "idle" /\ panicked = FALSE
           /\ cur' = i /\ done' = done \ {i}
           /\ rounds' = [rounds EXCEPT ![i] = @ + 1]
           /\ rounds[i] \in 0 .. (MaxEnables - 1)
           /\ UNCHANGED <<regs, val, pending, irqVars, panicked>>
           /\ \/ ~ Stale(i) /\ pc' = "config" /\ CtxKept
              \/ /\ Stale(i) /\ pc' = "fill"
                 /\ ctx' = [ctx EXCEPT ![i] = Zeroed] /\ i \notin regs.enabled
<1>1. i \in Intids /\ TypeOK
  BY GicIrqAssumption DEF GicIrqInv
<1>2. rounds[i] \in 0 .. (MaxEnables - 1)
  BY <1>1, GicIrqAssumption DEF GetContext, TypeOK
<1>3. ~ Stale(i) => CtxKept
  BY <1>1, OpsFilledIn DEF GetContext
<1>4. Stale(i) => i \notin regs.enabled
  BY DEF GicIrqInv, EnabledInv, Ready
<1> QED
  BY <1>1, <1>2, <1>3, <1>4 DEF GetContext, Main, TypeOK

(* Filling in a context, by get_ppi_context and by the driver.             *)
LEMMA FillSteps ==
    ASSUME GicIrqInv, FillContext
    PROVE  /\ pc = "fill" /\ pc' = "config" /\ irq = "idle" /\ cur \in Intids
           /\ UNCHANGED <<regs, val, pending, cur, rounds, done, irqVars, panicked>>
           /\ ctx' \in [Intids -> Context]
           /\ \A j \in Intids \ {cur} : ctx'[j] = ctx[j]
           /\ ctx'[cur].intid = cur /\ ~ Stale(cur)' /\ cur \notin regs.enabled
<1>1. TypeOK /\ pc = "fill" /\ irq = "idle" /\ cur \in Intids
  BY DEF GicIrqInv, FillContext, Main, TypeOK
<1>2. Kind(cur) = "ppi" /\ cur \notin regs.enabled
  BY <1>1 DEF GicIrqInv, DriverInv, EnabledInv, Ready
<1>3. ctx[cur] \in Context /\ cur \in 0 .. 1019
  BY <1>1, IntidsAreInts DEF TypeOK
<1>4. ctx' = [ctx EXCEPT ![cur] = [ctx[cur] EXCEPT !.intid = cur, !.group = 1,
                     !.priority = {7}, !.trigger = 0, !.ops = "ppi"]]
  BY <1>1, <1>2 DEF FillContext, Filled, TypeOK
<1>5. ctx'[cur] \in Context /\ ctx'[cur].intid = cur /\ ctx'[cur].ops = "ppi"
  <2>1. ctx'[cur] = [ctx[cur] EXCEPT !.intid = cur, !.group = 1,
                     !.priority = {7}, !.trigger = 0, !.ops = "ppi"]
    BY <1>1, <1>4 DEF TypeOK
  <2>2. ctx'[cur] = [intid |-> cur, ops |-> "ppi", group |-> 1, priority |-> {7},
                     trigger |-> 0, handle |-> ctx[cur].handle]
    BY <1>3, <2>1 DEF Context
  <2>3. /\ ctx[cur].handle \in BOOLEAN
        /\ 0 \in 0 .. 1 /\ 1 \in 0 .. 1 /\ {7} \in SUBSET (0 .. 7)
    BY <1>3 DEF Context
  <2>4. ctx'[cur] \in Context
    BY <1>3, <2>2, <2>3 DEF Context
  <2> QED
    BY <2>2, <2>4
<1>6. ctx' \in [Intids -> Context] /\ \A j \in Intids \ {cur} : ctx'[j] = ctx[j]
  BY <1>1, <1>4, <1>5 DEF TypeOK
<1>7. ~ Stale(cur)'
  BY <1>5 DEF Stale, FillContext
<1> QED
  BY <1>1, <1>2, <1>5, <1>6, <1>7 DEF FillContext

LEMMA ConfigureSteps ==
    ASSUME GicIrqInv, Configure
    PROVE  /\ pc = "config" /\ pc' = "clear_intr" /\ irq = "idle" /\ cur \in Intids
           /\ UNCHANGED <<regs, val, pending, cur, rounds, done, irqVars, panicked>>
           /\ ctx' \in [Intids -> Context]
           /\ \A j \in Intids \ {cur} : ctx'[j] = ctx[j]
           /\ ctx'[cur].group = 1 /\ ctx'[cur].handle = TRUE
           /\ ctx'[cur].intid = IF cur \in SelfNumbered THEN cur ELSE ctx[cur].intid
           /\ ~ Stale(cur)'
<1>1. TypeOK /\ pc = "config" /\ irq = "idle" /\ cur \in Intids /\ ~ Stale(cur)
  BY DEF GicIrqInv, DriverInv, Configure, Main, TypeOK
<1>2. ctx[cur] \in Context /\ cur \in 0 .. 1019
  BY <1>1, IntidsAreInts DEF TypeOK
<1> DEFINE id == IF cur \in SelfNumbered THEN cur ELSE ctx[cur].intid
<1>3. PICK t \in 0 .. (IF cur \in Edge THEN 1 ELSE 0) :
          ctx' = [ctx EXCEPT ![cur] = Asked(@, cur, t)]
  BY DEF Configure
<1>4. /\ id \in 0 .. 1019 /\ t \in 0 .. 1
      /\ TRUE \in BOOLEAN /\ 1 \in 0 .. 1 /\ {7} \in SUBSET (0 .. 7)
      /\ ctx[cur].ops \in {"none", "sgi", "ppi", "spi"}
  BY <1>2 DEF Context
<1>5. /\ ctx'[cur] \in Context /\ ctx'[cur].ops = ctx[cur].ops
      /\ ctx'[cur].group = 1 /\ ctx'[cur].handle = TRUE /\ ctx'[cur].intid = id
  <2>1. ctx'[cur] = Asked(ctx[cur], cur, t)
    BY <1>1, <1>3 DEF TypeOK
  <2>2. ctx'[cur] = [intid |-> id, ops |-> ctx[cur].ops, group |-> 1,
                     priority |-> {7}, trigger |-> t, handle |-> TRUE]
    BY <1>2, <2>1 DEF Context, Asked
  <2>3. ctx'[cur] \in Context
    BY <1>4, <2>2 DEF Context
  <2> QED
    BY <2>2, <2>3
<1>6. ctx' \in [Intids -> Context] /\ \A j \in Intids \ {cur} : ctx'[j] = ctx[j]
  BY <1>1, <1>3, <1>5 DEF TypeOK
<1>7. ~ Stale(cur)'
  BY <1>1, <1>5 DEF Stale, Configure
<1> QED
  BY <1>1, <1>5, <1>6, <1>7 DEF Configure

-----------------------------------------------------------------------------
(* The remaining steps leave contexts and registers alone.                 *)

LEMMA OtherSteps ==
    ASSUME TypeOK,
           WaitRwp \/ TakeIrq \/ ReadIar \/ HandlerReturns \/ WriteEoir
             \/ (\E i \in Sources : Raise(i)) \/ UNCHANGED vars
    PROVE  /\ UNCHANGED <<ctx, regs, val, cur, rounds, done, panicked>>
           /\ \/ /\ pc = "wait_rwp" /\ pc' = "set_priority" /\ irq = "idle" /\ irq' = irq
                 /\ Kind(cur) # "spi" => regs.rwp = FALSE
                 /\ UNCHANGED <<iar, pending, active>>
              \/ pc' = pc
<1>1. CASE WaitRwp
  BY <1>1 DEF WaitRwp, Main, irqVars, TypeOK
<1>2. CASE TakeIrq \/ ReadIar \/ HandlerReturns \/ WriteEoir
  BY <1>2 DEF TakeIrq, ReadIar, HandlerReturns, WriteEoir, mainVars
<1>3. CASE (\E i \in Sources : Raise(i)) \/ UNCHANGED vars
  BY <1>3 DEF Raise, mainVars, vars
<1> QED
  BY <1>1, <1>2, <1>3

Others == WaitRwp \/ TakeIrq \/ ReadIar \/ HandlerReturns \/ WriteEoir
            \/ (\E i \in Sources : Raise(i)) \/ UNCHANGED vars

LEMMA NextCases ==
    ASSUME [Next]_vars
    PROVE  \/ \E i \in Drivers : GetContext(i)
           \/ FillContext \/ Configure \/ ClearIntr \/ Attributes \/ SetIntr
           \/ Dispatch \/ Settle \/ Others
BY DEF Next, MainStep, IrqStep, Others

LEMMA TypeNext == GicIrqInv /\ [Next]_vars => TypeOK'
<1> SUFFICES ASSUME GicIrqInv, [Next]_vars PROVE TypeOK'
    OBVIOUS
<1>0. TypeOK /\ regs \in RegsType
  BY DEF GicIrqInv, TypeOK, RegsType
<1>1. ASSUME NEW i \in Drivers, GetContext(i) PROVE TypeOK'
  <2>1. ctx' \in [Intids -> Context]
    <3>1. Zeroed \in Context
      BY DEF Zeroed, Context
    <3> QED
      BY <1>0, <1>1, <3>1, GetContextSteps DEF CtxKept, TypeOK
  <2>2. rounds' \in [Drivers -> 0 .. MaxEnables]
    <3>1. /\ rounds[i] \in 0 .. (MaxEnables - 1)
          /\ rounds' = [rounds EXCEPT ![i] = rounds[i] + 1]
      BY <1>1, GetContextSteps
    <3>2. MaxEnables \in Nat /\ rounds \in [Drivers -> 0 .. MaxEnables]
      BY <1>0, GicIrqAssumption DEF TypeOK
    <3>3. rounds[i] + 1 \in 0 .. MaxEnables
      BY <3>1, <3>2
    <3> QED
      BY <3>1, <3>2, <3>3
  <2> QED
    BY <1>0, <1>1, <2>1, <2>2, GetContextSteps DEF TypeOK, irqVars
<1>2. CASE FillContext
  BY <1>0, <1>2, FillSteps DEF TypeOK, irqVars
<1>3. CASE Configure
  BY <1>0, <1>3, ConfigureSteps DEF TypeOK, irqVars
<1>4. CASE ClearIntr
  BY <1>0, <1>4, ClearSteps DEF TypeOK, RegsType, ClearEffect, OpFrame
<1>5. CASE Attributes
  <2>1. AttributeEffect /\ regs' \in RegsType /\ cur \in Intids
    BY <1>0, <1>5, AttributeSteps DEF TypeOK
  <2>2. val' \subseteq Bits
    BY <1>0, <2>1 DEF AttributeEffect, ReadEffect, WriteEffect, RegsType, WordType
  <2>3. pc' \in {"write_priority", "set_group", "write_group", "set_trigger",
                 "write_trigger", "set_intr"}
    BY <2>1 DEF AttributeEffect, ReadEffect, WriteEffect
  <2> QED
    BY <1>0, <2>1, <2>2, <2>3 DEF TypeOK, RegsType, AttributeEffect, OpFrame
<1>6. CASE SetIntr
  <2>1. cur \in Drivers
    BY <1>6, SetSteps DEF GicIrqInv, DriverInv, SetEffect
  <2> QED
    BY <1>0, <1>6, <2>1, SetSteps DEF TypeOK, RegsType, SetEffect, OpFrame
<1>7. CASE Dispatch
  <2>1. /\ ctx' \in [Intids -> Context] /\ irq' \in {"ack", "handler"}
        /\ UNCHANGED <<regs, val, pending, pc, cur, rounds, done, iar, active>>
    BY <1>7, DispatchSteps DEF CtxKept, mainVars
  <2>2. panicked' \in BOOLEAN
    BY <1>0, <1>7, DispatchSteps, Zenon DEF TypeOK
  <2> QED
    BY <1>0, <2>1, <2>2 DEF TypeOK
<1>8. CASE Settle
  BY <1>0, <1>8, SettleSteps DEF TypeOK, RegsType
<1>9. CASE Others
  <2>1. CASE WaitRwp \/ TakeIrq \/ HandlerReturns \/ WriteEoir
    BY <1>0, <2>1 DEF TypeOK, WaitRwp, TakeIrq, HandlerReturns, WriteEoir,
       mainVars, irqVars
  <2>2. CASE ReadIar
    BY <1>0, <2>2 DEF TypeOK, ReadIar, mainVars, Signalled
  <2>3. CASE (\E i \in Sources : Raise(i)) \/ UNCHANGED vars
    BY <1>0, <2>3, GicIrqAssumption DEF TypeOK, Raise, vars, mainVars, irqVars
  <2> QED
    BY <1>9, <2>1, <2>2, <2>3 DEF Others
<1> QED
  BY <1>1, <1>2, <1>3, <1>4, <1>5, <1>6, <1>7, <1>8, <1>9, NextCases

-----------------------------------------------------------------------------
(* A step that keeps the contexts keeps what the driver knows of them.     *)
LEMMA DriverKept ==
    ASSUME GicIrqInv, CtxKept, UNCHANGED <<pc, cur, rounds, done>>
    PROVE  DriverInv'
<1>1. cur \in Intids /\ DriverInv
  BY DEF GicIrqInv, TypeOK
<1>2. Ready(cur) => Ready(cur)'
  BY <1>1 DEF CtxKept, Ready
<1> QED
  BY <1>1, <1>2 DEF DriverInv, CtxKept

LEMMA SameCtxKept ==
    ASSUME TypeOK, ctx' = ctx PROVE CtxKept
BY DEF TypeOK, CtxKept, Stale

LEMMA DriverNext ==
    ASSUME SgisNumbered, GicIrqInv, [Next]_vars PROVE DriverInv'
<1>0. TypeOK /\ DriverInv /\ cur \in Intids
  BY DEF GicIrqInv, TypeOK
<1>1. ASSUME NEW i \in Drivers, GetContext(i) PROVE DriverInv'
  <2>1. i \in Intids /\ pc' \in {"config", "fill"} /\ cur' = i
        /\ rounds[i] \in 0 .. (MaxEnables - 1)
        /\ rounds' = [rounds EXCEPT ![i] = @ + 1] /\ done' = done \ {i}
    BY <1>1, GetContextSteps
  <2>2. cur' \in Drivers /\ rounds'[cur'] > 0 /\ cur' \notin done'
    BY <1>0, <2>1 DEF TypeOK
  <2>3. CASE ~ Stale(i) /\ pc' = "config" /\ CtxKept
    BY <1>0, <2>1, <2>2, <2>3 DEF DriverInv, CtxKept, Configured, Checking
  <2>4. CASE Stale(i) /\ pc' = "fill" /\ ctx' = [ctx EXCEPT ![i] = Zeroed]
    <3>1. ctx'[i] = Zeroed /\ \A j \in Intids \ {i} : ctx'[j] = ctx[j]
      BY <1>0, <2>1, <2>4 DEF TypeOK
    <3>2. Zeroed.intid = 0 /\ Zeroed.handle = FALSE
      BY DEF Zeroed
    <3>3. Kind(i) = "ppi"
      BY <2>4 DEF Stale
    <3> QED
      BY <1>0, <2>1, <2>2, <2>4, <3>1, <3>2, <3>3 DEF DriverInv, Configured, Checking
  <2> QED
    BY <1>1, <2>3, <2>4, GetContextSteps
<1>2. CASE FillContext
  <2>1. /\ pc = "fill" /\ pc' = "config" /\ UNCHANGED <<cur, rounds, done>>
        /\ \A j \in Intids \ {cur} : ctx'[j] = ctx[j]
        /\ ctx'[cur].intid = cur /\ ~ Stale(cur)'
    BY <1>2, FillSteps
  <2> QED
    BY <1>0, <2>1 DEF DriverInv, Configured, Checking
<1>3. CASE Configure
  <2>1. /\ pc = "config" /\ pc' = "clear_intr" /\ UNCHANGED <<cur, rounds, done>>
        /\ \A j \in Intids \ {cur} : ctx'[j] = ctx[j]
        /\ ctx'[cur].group = 1 /\ ctx'[cur].handle = TRUE /\ ~ Stale(cur)'
        /\ ctx'[cur].intid = IF cur \in SelfNumbered THEN cur ELSE ctx[cur].intid
    BY <1>3, ConfigureSteps
  <2>2. ctx'[cur].intid \in {0, cur}
    BY <1>0, <2>1 DEF DriverInv
  <2>3. Kind(cur) # "spi" => ctx'[cur].intid = cur
    <3>1. cur \in Drivers /\ Kind(cur) \in {"sgi", "ppi", "spi"}
          /\ (Kind(cur) = "sgi" <=> cur \in Sgis)
      BY <1>0, <2>1, Kinds DEF DriverInv
    <3>2. CASE Kind(cur) = "sgi"
      BY <2>1, <2>2, <3>1, <3>2 DEF SgisNumbered
    <3>3. CASE Kind(cur) = "ppi"
      BY <2>1, <3>3 DEF Stale
    <3> QED
      BY <3>1, <3>2, <3>3
  <2> QED
    BY <1>0, <2>1, <2>2, <2>3 DEF DriverInv, Configured, Checking, Ready
<1>4. CASE ClearIntr
  BY <1>0, <1>4, ClearSteps DEF ClearEffect, OpFrame, DriverInv, Configured, Checking, Ready, Stale
<1>5. CASE Attributes
  <2>1. /\ pc \in Disabled /\ pc' \in Disabled /\ UNCHANGED <<ctx, cur, rounds, done>>
    BY <1>5, AttributeSteps
       DEF AttributeEffect, ReadEffect, WriteEffect, OpFrame, Disabled, Configured, Checking
  <2> QED
    BY <1>0, <2>1 DEF DriverInv, Disabled, Configured, Checking, Ready, Stale
<1>6. CASE SetIntr
  BY <1>0, <1>6, SetSteps DEF SetEffect, OpFrame, DriverInv, Configured, Checking
<1>7. CASE Dispatch
  BY <1>7, DispatchSteps, DriverKept DEF mainVars
<1>8. CASE Settle
  BY <1>0, <1>8, SettleSteps, SameCtxKept, DriverKept
<1>9. CASE Others
  <2>1. UNCHANGED <<ctx, cur, rounds, done>>
        /\ ((pc = "wait_rwp" /\ pc' = "set_priority") \/ pc' = pc)
    BY <1>0, <1>9, OtherSteps DEF Others
  <2> QED
    BY <1>0, <2>1 DEF DriverInv, Configured, Checking, Ready, Stale
<1> QED
  BY <1>1, <1>2, <1>3, <1>4, <1>5, <1>6, <1>7, <1>8, <1>9, NextCases

-----------------------------------------------------------------------------
LEMMA WrittenNext ==
    ASSUME GicIrqInv, [Next]_vars PROVE WrittenInv' /\ ReadInv'
<1>0. TypeOK /\ WrittenInv /\ ReadInv /\ cur \in Intids
  BY DEF GicIrqInv, TypeOK
<1>1. CASE (\E i \in Drivers : GetContext(i)) \/ FillContext \/ Configure
             \/ ClearIntr \/ SetIntr
  <2>1. pc' \in {"idle", "fill", "config", "clear_intr", "wait_rwp"}
    BY <1>1, GetContextSteps, FillSteps, ConfigureSteps, ClearSteps, SetSteps
       DEF ClearEffect, SetEffect
  <2> QED
    BY <2>1 DEF WrittenInv, ReadInv
<1>2. ASSUME UNCHANGED <<val, cur>>, SameWords, pc' = pc \/ pc' = "set_priority",
             ctx'[cur].priority = ctx[cur].priority, ctx'[cur].trigger = ctx[cur].trigger
      PROVE  WrittenInv' /\ ReadInv'
  <2>1. /\ Priority(cur)' = Priority(cur) /\ InGroup1(cur)' = InGroup1(cur)
        /\ EdgeTriggered(cur)' = EdgeTriggered(cur)
    BY <1>2 DEF Priority, InGroup1, EdgeTriggered, Config, SameWords, Same
  <2>2. ReadInv'
    BY <1>0, <1>2 DEF ReadInv, SameWords, Same
  <2> QED
    BY <1>0, <1>2, <2>1, <2>2 DEF WrittenInv, TriggerAsked
<1>3. CASE Attributes
  <2>1. AttributeEffect /\ ctx' = ctx /\ cur' = cur
    BY <1>3, AttributeSteps DEF AttributeEffect, OpFrame
  <2>2. CASE ReadEffect
    <3>1. ReadInv'
      BY <2>1, <2>2 DEF ReadEffect, ReadInv
    <3>2. /\ Priority(cur)' = Priority(cur) /\ InGroup1(cur)' = InGroup1(cur)
          /\ pc' # "set_intr"
      BY <2>1, <2>2 DEF ReadEffect, Priority, InGroup1
    <3> QED
      BY <1>0, <2>1, <2>2, <3>1, <3>2 DEF ReadEffect, WrittenInv
  <2>3. CASE WriteEffect
    <3>1. ReadInv'
      BY <2>3 DEF WriteEffect, ReadInv
    <3>2. CASE pc = "write_priority"
      <4>1. pc' = "set_group" /\ Priority(cur)' = ctx[cur].priority
        BY <1>0, <2>1, <2>3, <3>2 DEF WriteEffect, Priority
      <4> QED
        BY <2>1, <3>1, <4>1 DEF WrittenInv
    <3>3. CASE pc = "write_group"
      <4>1. /\ pc' = "set_trigger" /\ Priority(cur)' = Priority(cur) /\ InGroup1(cur)'
        BY <1>0, <2>1, <2>3, <3>3 DEF WriteEffect, Priority, InGroup1, Same
      <4> QED
        BY <1>0, <2>1, <3>1, <3>3, <4>1 DEF WrittenInv
    <3>4. CASE pc = "write_trigger"
      <4>1. /\ pc' = "set_intr" /\ Priority(cur)' = Priority(cur)
            /\ InGroup1(cur)' = InGroup1(cur)
        BY <2>1, <2>3, <3>4 DEF WriteEffect, Priority, InGroup1, Same
      <4>2. Config(cur)' = EdgeBits(cur)
        BY <1>0, <2>1, <2>3, <3>4 DEF WriteEffect, Config
      <4>3. EdgeTriggered(cur)' <=> ctx[cur].trigger = 1 /\ Kind(cur) = "spi"
        BY <4>2 DEF EdgeTriggered, EdgeBits
      <4>4. Kind(cur) = "spi" <=> cur \in Spis
        BY <1>0, Kinds
      <4>5. TriggerAsked(cur)'
        BY <2>1, <4>3, <4>4 DEF TriggerAsked
      <4> QED
        BY <1>0, <2>1, <3>1, <3>4, <4>1, <4>5 DEF WrittenInv
    <3> QED
      BY <2>3, <3>2, <3>3, <3>4 DEF WriteEffect
  <2> QED
    BY <2>1, <2>2, <2>3 DEF AttributeEffect
<1>4. CASE Dispatch
  <2>1. CtxKept /\ UNCHANGED <<regs, val, pc, cur>>
    BY <1>4, DispatchSteps DEF mainVars
  <2> QED
    BY <1>0, <1>2, <2>1 DEF CtxKept, SameWords, Same
<1>5. CASE Settle
  BY <1>0, <1>2, <1>5, SettleSteps
<1>6. CASE Others
  <2>1. UNCHANGED <<ctx, regs, val, cur>> /\ (pc' = "set_priority" \/ pc' = pc)
    BY <1>0, <1>6, OtherSteps DEF Others
  <2> QED
    BY <1>2, <2>1 DEF SameWords, Same
<1> QED
  BY <1>1, <1>3, <1>4, <1>5, <1>6, NextCases

LEMMA DisableNext ==
    ASSUME GicIrqInv, [Next]_vars PROVE DisableInv'
<1>0. TypeOK /\ DisableInv
  BY DEF GicIrqInv
<1>1. CASE (\E i \in Drivers : GetContext(i)) \/ FillContext \/ Configure
  <2>1. /\ pc \in {"idle", "fill", "config"} /\ regs' = regs
        /\ pc' \in {"fill", "config", "clear_intr"}
    BY <1>1, GetContextSteps, FillSteps, ConfigureSteps
  <2> QED
    BY <1>0, <2>1 DEF DisableInv, Disabled, Configured, Checking
<1>2. CASE ClearIntr
  BY <1>0, <1>2, ClearSteps
     DEF ClearEffect, OpFrame, Same, DisableInv, Disabled, Configured, Checking
<1>3. CASE Attributes
  <2>1. /\ pc \in Disabled /\ pc' \in Disabled /\ cur' = cur
        /\ Same("enabled") /\ Same("disabling") /\ Same("rwp")
    BY <1>3, AttributeSteps DEF AttributeEffect, ReadEffect, WriteEffect, OpFrame,
       Disabled, Configured, Checking, Same
  <2> QED
    BY <1>0, <2>1 DEF DisableInv, Disabled, Configured, Checking, Same
<1>4. CASE SetIntr
  BY <1>0, <1>4, SetSteps DEF SetEffect, OpFrame, Same, DisableInv, Disabled, Configured, Checking
<1>5. CASE Dispatch
  BY <1>0, <1>5, DispatchSteps DEF mainVars, DisableInv
<1>6. CASE Settle
  BY <1>0, <1>6, SettleSteps DEF DisableInv
<1>7. CASE Others
  <2>1. /\ UNCHANGED <<regs, cur>>
        /\ \/ /\ pc = "wait_rwp" /\ pc' = "set_priority"
              /\ Kind(cur) # "spi" => regs.rwp = FALSE
           \/ pc' = pc
    BY <1>0, <1>7, OtherSteps DEF Others
  <2> QED
    BY <1>0, <2>1 DEF DisableInv, Disabled, Configured, Checking
<1> QED
  BY <1>1, <1>2, <1>3, <1>4, <1>5, <1>6, <1>7, NextCases

(* A step that keeps the contexts, the driver and its count.               *)
LEMMA EnabledKept ==
    ASSUME GicIrqInv, CtxKept, UNCHANGED <<cur, rounds>>,
           regs'.enabled \subseteq regs.enabled, pc' # "idle" => pc # "idle"
    PROVE  EnabledInv'
<1>1. EnabledInv /\ regs.enabled \subseteq Intids
  BY DEF GicIrqInv, TypeOK
<1>2. \A i \in Intids : Ready(i) => Ready(i)'
  BY DEF CtxKept, Ready
<1> QED
  BY <1>1, <1>2 DEF EnabledInv

LEMMA EnabledNext ==
    ASSUME GicIrqInv, [Next]_vars PROVE EnabledInv'
<1>0. TypeOK /\ EnabledInv /\ regs.enabled \subseteq Intids
  BY DEF GicIrqInv, TypeOK
<1>1. ASSUME NEW i \in Drivers, GetContext(i) PROVE EnabledInv'
  <2>1. /\ i \in Intids /\ cur' = i /\ regs' = regs
        /\ rounds' = [rounds EXCEPT ![i] = rounds[i] + 1]
        /\ \/ CtxKept
           \/ ctx' = [ctx EXCEPT ![i] = Zeroed] /\ i \notin regs.enabled
    BY <1>1, GetContextSteps
  <2>2. \A j \in regs.enabled : Ready(j)'
    <3>1. CASE CtxKept
      BY <1>0, <3>1 DEF EnabledInv, Ready, CtxKept
    <3>2. CASE ctx' = [ctx EXCEPT ![i] = Zeroed] /\ i \notin regs.enabled
      <4>1. \A j \in regs.enabled : ctx'[j] = ctx[j]
        BY <1>0, <3>2 DEF TypeOK
      <4> QED
        BY <1>0, <4>1 DEF EnabledInv, Ready, Stale
    <3> QED
      BY <2>1, <3>1, <3>2
  <2>3. \A j \in regs.enabled : /\ j \in Drivers /\ rounds'[j] > 0
                                /\ j = i => rounds'[j] > 1
    BY <1>0, <2>1 DEF EnabledInv, TypeOK
  <2> QED
    BY <2>1, <2>2, <2>3 DEF EnabledInv
<1>2. CASE FillContext \/ Configure
  <2>1. /\ UNCHANGED <<regs, cur, rounds>> /\ pc # "idle"
        /\ \A j \in Intids \ {cur} : ctx'[j] = ctx[j]
        /\ cur \notin regs.enabled \/ (ctx'[cur].handle = TRUE /\ ~ Stale(cur)')
    BY <1>2, FillSteps, ConfigureSteps
  <2>2. \A j \in regs.enabled : Ready(j)'
    <3> TAKE j \in regs.enabled
    <3>1. CASE j = cur
      BY <2>1, <3>1 DEF Ready, Stale
    <3>2. CASE j # cur
      BY <1>0, <2>1, <3>2 DEF EnabledInv, Ready, Stale
    <3> QED
      BY <3>1, <3>2
  <2> QED
    BY <1>0, <2>1, <2>2 DEF EnabledInv
<1>3. CASE ClearIntr
  <2>1. ctx' = ctx /\ UNCHANGED <<cur, rounds>> /\ regs'.enabled = regs.enabled
        /\ pc # "idle"
    BY <1>3, ClearSteps DEF ClearEffect, OpFrame, Same
  <2> QED
    BY <1>0, <2>1, SameCtxKept, EnabledKept
<1>4. CASE Attributes
  <2>1. ctx' = ctx /\ UNCHANGED <<cur, rounds>> /\ regs'.enabled = regs.enabled
        /\ pc # "idle"
    BY <1>4, AttributeSteps DEF AttributeEffect, ReadEffect, WriteEffect, OpFrame, Same
  <2> QED
    BY <1>0, <2>1, SameCtxKept, EnabledKept
<1>5. CASE SetIntr
  <2>1. /\ UNCHANGED <<ctx, cur, rounds>> /\ pc = "set_intr" /\ pc' = "idle"
        /\ regs'.enabled = regs.enabled \cup {cur}
    BY <1>5, SetSteps DEF SetEffect, OpFrame
  <2>2. Ready(cur) /\ cur \in Drivers /\ rounds[cur] > 0
    BY <2>1 DEF GicIrqInv, DriverInv, Configured, Checking
  <2> QED
    BY <1>0, <2>1, <2>2 DEF EnabledInv, Ready, Stale
<1>6. CASE Dispatch
  BY <1>6, DispatchSteps, EnabledKept DEF mainVars
<1>7. CASE Settle
  BY <1>0, <1>7, SettleSteps, SameCtxKept, EnabledKept
<1>8. CASE Others
  <2>1. UNCHANGED <<ctx, regs, cur, rounds>> /\ (pc = "wait_rwp" \/ pc' = pc)
    BY <1>0, <1>8, OtherSteps DEF Others
  <2> QED
    BY <1>0, <2>1, SameCtxKept, EnabledKept
<1> QED
  BY <1>1, <1>2, <1>3, <1>4, <1>5, <1>6, <1>7, <1>8, NextCases

(* Requests of done drivers stand as long as their contexts and attributes *)
(* do.                                                                     *)
Stands(i) == i \in regs.enabled /\ InGroup1(i) /\ Priority(i) = ctx[i].priority
             /\ TriggerAsked(i)

LEMMA StandsKept ==
    ASSUME NEW i, Stands(i), i \in regs'.enabled,
           InGroup1(i)' = InGroup1(i), Priority(i)' = Priority(i), Config(i)' = Config(i),
           ctx'[i].priority = ctx[i].priority, ctx'[i].trigger = ctx[i].trigger
    PROVE  Stands(i)'
<1>1. EdgeTriggered(i)' = EdgeTriggered(i)
  BY DEF EdgeTriggered
<1> QED
  BY <1>1 DEF Stands, TriggerAsked

LEMMA RequestedNext ==
    ASSUME GicIrqInv, [Next]_vars PROVE EnabledAsRequested'
<1>0. /\ TypeOK /\ done \subseteq Intids /\ cur \in Intids
      /\ pc # "idle" => cur \notin done
      /\ \A i \in done : Stands(i)
  BY GicIrqAssumption
     DEF GicIrqInv, TypeOK, DriverInv, EnabledAsRequested, Stands, TriggerAsked
<1> SUFFICES \A i \in done' : Stands(i)'
    BY DEF EnabledAsRequested, Stands, TriggerAsked
<1>1. ASSUME SameWords, NEW j \in done, j \in regs'.enabled,
             ctx'[j].priority = ctx[j].priority, ctx'[j].trigger = ctx[j].trigger
      PROVE  Stands(j)'
  BY <1>0, <1>1, SameAttributes, StandsKept DEF SameWords
<1>2. ASSUME NEW i \in Drivers, GetContext(i), NEW j \in done' PROVE Stands(j)'
  <2>1. /\ i \in Intids /\ done' = done \ {i} /\ regs' = regs
        /\ CtxKept \/ ctx' = [ctx EXCEPT ![i] = Zeroed]
    BY <1>2, GetContextSteps
  <2>2. /\ j \in done /\ ctx'[j].priority = ctx[j].priority
        /\ ctx'[j].trigger = ctx[j].trigger
    BY <1>0, <2>1 DEF TypeOK, CtxKept
  <2> QED
    BY <1>0, <1>1, <2>1, <2>2 DEF Stands, SameWords, Same
<1>3. ASSUME FillContext \/ Configure, NEW j \in done' PROVE Stands(j)'
  <2>1. /\ UNCHANGED <<regs, done>> /\ pc # "idle"
        /\ \A h \in Intids \ {cur} : ctx'[h] = ctx[h]
    BY <1>3, FillSteps, ConfigureSteps
  <2> QED
    BY <1>0, <1>1, <2>1 DEF Stands, SameWords, Same
<1>4. ASSUME ClearIntr, NEW j \in done' PROVE Stands(j)'
  BY <1>0, <1>1, <1>4, ClearSteps DEF ClearEffect, OpFrame, Same, Stands
<1>5. ASSUME Attributes, NEW j \in done' PROVE Stands(j)'
  <2>1. AttributeEffect /\ ctx' = ctx /\ done' = done /\ regs'.enabled = regs.enabled
        /\ pc # "idle"
    BY <1>5, AttributeSteps
       DEF AttributeEffect, ReadEffect, WriteEffect, OpFrame, Same
  <2>2. j \in Intids /\ j # cur
    BY <1>0, <2>1
  <2>3. CASE ReadEffect
    BY <1>0, <1>1, <2>1, <2>3 DEF ReadEffect, Stands, SameWords, Same
  <2>4. CASE WriteEffect
    <3>1. /\ Priority(j)' = Priority(j) /\ Config(j)' = Config(j)
          /\ InGroup1(j)' = InGroup1(j)
      BY <2>2, <2>4, SameAttributes DEF WriteEffect, InGroup1
    <3> QED
      BY <1>0, <2>1, <3>1, StandsKept DEF Stands
  <2> QED
    BY <2>1, <2>3, <2>4 DEF AttributeEffect
<1>6. ASSUME SetIntr, NEW j \in done' PROVE Stands(j)'
  <2>1. /\ ctx' = ctx /\ cur' = cur /\ pc = "set_intr" /\ done' = done \cup {cur}
        /\ regs'.enabled = regs.enabled \cup {cur} /\ SameWords
    BY <1>6, SetSteps DEF SetEffect, OpFrame
  <2>2. Priority(cur) = ctx[cur].priority /\ InGroup1(cur) /\ TriggerAsked(cur)
    BY <2>1 DEF GicIrqInv, WrittenInv
  <2>3. CASE j = cur
    <3>1. /\ InGroup1(j)' = InGroup1(j) /\ Priority(j)' = Priority(j)
          /\ EdgeTriggered(j)' = EdgeTriggered(j)
      BY <2>1, SameAttributes DEF SameWords
    <3> QED
      BY <2>1, <2>2, <2>3, <3>1 DEF Stands, TriggerAsked
  <2>4. CASE j # cur
    BY <1>0, <1>1, <2>1, <2>4 DEF Stands
  <2> QED
    BY <2>3, <2>4
<1>7. ASSUME Dispatch, NEW j \in done' PROVE Stands(j)'
  <2>1. CtxKept /\ UNCHANGED <<regs, done>>
    BY <1>7, DispatchSteps DEF mainVars
  <2> QED
    BY <1>0, <1>1, <2>1 DEF CtxKept, Stands, SameWords, Same
<1>8. ASSUME Settle, NEW j \in done' PROVE Stands(j)'
  <2>1. /\ UNCHANGED <<ctx, done>> /\ SameWords
        /\ regs'.enabled = regs.enabled \ regs.disabling
    BY <1>0, <1>8, SettleSteps
  <2>2. done \cap regs.disabling = {}
    BY <1>0 DEF GicIrqInv, DisableInv
  <2> QED
    BY <1>0, <1>1, <2>1, <2>2 DEF Stands
<1>9. ASSUME Others, NEW j \in done' PROVE Stands(j)'
  <2>1. UNCHANGED <<ctx, regs, done>>
    BY <1>0, <1>9, OtherSteps DEF Others
  <2> QED
    BY <1>0, <1>1, <2>1 DEF Stands, SameWords, Same
<1> QED
  BY <1>2, <1>3, <1>4, <1>5, <1>6, <1>7, <1>8, <1>9, NextCases

(* No step takes back that a driver has run a second time.                 *)
LEMMA AgainKept ==
    ASSUME GicIrqInv, [Next]_vars, Again PROVE Again'
<1>0. TypeOK
  BY DEF GicIrqInv
<1>1. ASSUME NEW i \in Drivers, GetContext(i) PROVE Again'
  <2>1. rounds' = [rounds EXCEPT ![i] = rounds[i] + 1]
    BY <1>1, GetContextSteps
  <2>2. \A j \in Drivers : rounds[j] > 1 => rounds'[j] > 1
    BY <1>0, <2>1 DEF TypeOK
  <2> QED
    BY <2>2 DEF Again
<1>2. CASE FillContext \/ Configure \/ Dispatch
  BY <1>2 DEF FillContext, Configure, Dispatch, mainVars, Again
<1>3. CASE ClearIntr \/ Attributes \/ SetIntr
  BY <1>3 DEF ClearIntr, Attributes, SetIntr, Checked, ReadWord, WriteWord, Again
<1>4. CASE Settle \/ Others
  <2>1. rounds' = rounds
    BY <1>0, <1>4, SettleSteps, OtherSteps DEF Others
  <2> QED
    BY <2>1 DEF Again
<1> QED
  BY <1>1, <1>2, <1>3, <1>4, NextCases

LEMMA IrqNext ==
    ASSUME GicIrqInv, [Next]_vars PROVE IrqInv'
<1>0. TypeOK /\ IrqInv /\ (Again => Again')
  BY AgainKept DEF GicIrqInv
<1>1. ASSUME irq = "idle", irq' = "idle", panicked = FALSE, panicked' = FALSE
      PROVE  IrqInv'
  BY <1>1 DEF IrqInv
<1>2. CASE (\E i \in Drivers : GetContext(i)) \/ FillContext \/ Configure
  <2>1. /\ irq = "idle" /\ irq' = "idle" /\ panicked' = panicked
        /\ panicked # TRUE
    BY <1>2, <1>0 DEF GetContext, FillContext, Configure, Main, irqVars, IrqInv
  <2>2. panicked = FALSE
    BY <1>0, <2>1 DEF TypeOK
  <2> QED
    BY <1>1, <2>1, <2>2
<1>3. CASE ClearIntr \/ Attributes \/ SetIntr
  BY <1>1, <1>3, ClearSteps, AttributeSteps, SetSteps
     DEF ClearEffect, AttributeEffect, SetEffect, OpFrame
<1>4. CASE Dispatch
  <2>1. irq = "ack" /\ iar' = iar
        /\ \/ iar = Spurious /\ panicked' = TRUE /\ irq' = irq
           \/ iar # Spurious /\ panicked' = panicked /\ irq' = "handler"
    BY <1>4, DispatchSteps
  <2> QED
    BY <1>0, <2>1 DEF IrqInv
<1>5. CASE Settle
  <2>1. /\ UNCHANGED <<ctx, pending, irq, iar, panicked>>
        /\ regs'.enabled = regs.enabled \ regs.disabling
    BY <1>0, <1>5, SettleSteps
  <2>2. ASSUME Signalled # {}, Signalled' = {} PROVE Again
    <3>1. PICK i : i \in pending /\ i \in regs.enabled
      BY <2>2 DEF Signalled
    <3>2. i \in regs.disabling
      BY <2>1, <2>2, <3>1 DEF Signalled
    <3>3. i = cur /\ pc # "idle"
      BY <3>2 DEF GicIrqInv, DisableInv
    <3> QED
      BY <3>1, <3>3 DEF GicIrqInv, EnabledInv, Again
  <2>3. Ready(iar) => Ready(iar)'
    BY <2>1 DEF Ready, Stale
  <2> QED
    BY <1>0, <2>1, <2>2, <2>3 DEF IrqInv
<1>6. CASE WaitRwp
  <2>1. irq = "idle" /\ irq' = "idle" /\ panicked' = panicked /\ panicked # TRUE
    BY <1>0, <1>6 DEF WaitRwp, Main, irqVars, IrqInv
  <2>2. panicked = FALSE
    BY <1>0, <2>1 DEF TypeOK
  <2> QED
    BY <1>1, <2>1, <2>2
<1>7. CASE TakeIrq
  BY <1>0, <1>7 DEF TakeIrq, IrqInv, Signalled
<1>8. CASE ReadIar
  <2>1. irq = "taken" /\ irq' = "ack" /\ UNCHANGED <<ctx, regs, panicked>>
        /\ iar' \in IF Signalled = {} THEN {Spurious} ELSE Signalled
    BY <1>8 DEF ReadIar
  <2>2. CASE Signalled = {}
    BY <1>0, <2>1, <2>2 DEF IrqInv
  <2>3. CASE Signalled # {}
    <3>1. iar' \in regs.enabled /\ iar' \in Intids
      BY <1>0, <2>1, <2>3 DEF Signalled, TypeOK
    <3>2. ctx[iar'].handle = TRUE /\ ~ Stale(iar') /\ iar' # Spurious
      BY <3>1, SpuriousIsNone DEF GicIrqInv, EnabledInv, Ready
    <3>3. Ready(iar)'
      BY <2>1, <3>2 DEF Ready, Stale
    <3> QED
      BY <1>0, <2>1, <3>2, <3>3 DEF IrqInv
  <2> QED
    BY <2>2, <2>3
<1>9. CASE HandlerReturns \/ WriteEoir
  BY <1>0, <1>9 DEF HandlerReturns, WriteEoir, IrqInv
<1>10. CASE (\E i \in Sources : Raise(i)) \/ UNCHANGED vars
  <2>1. UNCHANGED <<ctx, regs, irq, iar, panicked>> /\ pending \subseteq pending'
    BY <1>10 DEF Raise, irqVars, vars
  <2>2. (Signalled # {} => Signalled' # {}) /\ (Ready(iar) => Ready(iar)')
    BY <2>1 DEF Signalled, Ready, Stale
  <2> QED
    BY <1>0, <2>1, <2>2 DEF IrqInv
<1> QED
  BY <1>2, <1>3, <1>4, <1>5, <1>6, <1>7, <1>8, <1>9, <1>10, NextCases DEF Others

-----------------------------------------------------------------------------
LEMMA GicIrqInit == Init => GicIrqInv
<1> SUFFICES ASSUME Init PROVE GicIrqInv
    OBVIOUS
<1>1. Zeroed \in Context /\ Zeroed.intid = 0
  BY DEF Zeroed, Context
<1>2. \A i \in Intids : ctx[i] = Zeroed
  BY DEF Init
<1>3. /\ regs.enabled = {} /\ regs.disabling = {} /\ regs \in RegsType
  <2>1. PICK reset \in ResetWords :
          regs = [enabled |-> {}, disabling |-> {}, rwp |-> FALSE,
                  ipriorityr |-> Words(reset, 4),
                  igroupr |-> Words(reset, 32), igrpmodr |-> Words(reset, 32),
                  icfgr |-> Words(reset, 16)]
    BY DEF Init
  <2>2. reset \in SUBSET Bits
    BY GicIrqAssumption
  <2>3. \A size : Words(reset, size) \in WordType(size)
    BY <2>2 DEF Words, WordType
  <2> QED
    BY <2>1, <2>3 DEF RegsType
<1>4. TypeOK
  <2>1. 0 \in Intids /\ rounds \in [Drivers -> 0 .. MaxEnables]
    BY GicIrqAssumption DEF Init
  <2>2. ctx \in [Intids -> Context]
    BY <1>1 DEF Init
  <2> QED
    BY <1>3, <2>1, <2>2 DEF Init, TypeOK, RegsType
<1>5. DriverInv
  BY <1>1, <1>2 DEF Init, DriverInv, Configured, Checking
<1>6. WrittenInv /\ ReadInv
  BY DEF Init, WrittenInv, ReadInv
<1>7. DisableInv /\ EnabledInv
  BY <1>3 DEF Init, DisableInv, EnabledInv, Disabled, Configured, Checking
<1>8. IrqInv /\ EnabledAsRequested
  BY DEF Init, IrqInv, EnabledAsRequested
<1> QED
  BY <1>4, <1>5, <1>6, <1>7, <1>8 DEF GicIrqInv

LEMMA GicIrqNext ==
    ASSUME SgisNumbered, GicIrqInv, [Next]_vars PROVE GicIrqInv'
BY TypeNext, DriverNext, WrittenNext, DisableNext, EnabledNext, IrqNext,
   RequestedNext DEF GicIrqInv

(* The invariant holds whatever the drivers, as long as an SGI's driver    *)
(* puts its INTID into the context.                                        *)
THEOREM GicIrqInvariant ==
    ASSUME SgisNumbered PROVE Spec => []GicIrqInv
<1>1. GicIrqInv /\ [Next]_vars => GicIrqInv'
  BY GicIrqNext
<1> QED
  BY <1>1, GicIrqInit, PTL DEF Spec

(* Registers keep their 32 bits and every context its fields' types.       *)
THEOREM GicIrqTypeCorrect ==
    ASSUME SgisNumbered PROVE Spec => []TypeOK
<1>1. GicIrqInv => TypeOK
  BY DEF GicIrqInv
<1> QED
  BY <1>1, GicIrqInvariant, PTL

(* el2_irq never panics over a real interrupt, however enabling one        *)
(* interleaves with taking others: only INTID 1023, and only once some     *)
(* driver has enabled its interrupt again.                                 *)
THEOREM RealInterruptsHandled ==
    ASSUME SgisNumbered PROVE Spec => []NoPanic
<1>1. GicIrqInv => NoPanic
  <2> SUFFICES ASSUME GicIrqInv, panicked
               PROVE  iar = Spurious /\ \E i \in Drivers : rounds[i] > 1
      BY DEF NoPanic
  <2>1. panicked = TRUE
    BY DEF GicIrqInv, TypeOK
  <2> QED
    BY <2>1 DEF GicIrqInv, IrqInv, Again
<1> QED
  BY <1>1, GicIrqInvariant, PTL

(* What gic_irq_enable returned 0 for stays enabled as it was asked for.   *)
THEOREM RequestsStand ==
    ASSUME SgisNumbered PROVE Spec => []EnabledAsRequested
<1>1. GicIrqInv => EnabledAsRequested
  BY DEF GicIrqInv
<1> QED
  BY <1>1, GicIrqInvariant, PTL

(* No attribute of an interrupt changes while another one is configured:   *)
(* the words written back differ from the words there in the own bits of   *)
(* the interrupt only.                                                     *)
THEOREM OthersKeepTheirFields ==
    ASSUME SgisNumbered PROVE Spec => BystandersUntouched
<1> DEFINE Kept(i) == /\ Priority(i)' = Priority(i)
                      /\ InGroup1(i)' = InGroup1(i)
                      /\ Modified(i)' = Modified(i)
                      /\ Config(i)' = Config(i)
                      /\ (i \in regs.enabled) = (i \in regs'.enabled)
           A == \A i \in Intids \ {cur} : Kept(i)
<1>1. ASSUME GicIrqInv, [Next]_vars PROVE A
  <2>0. TypeOK /\ regs.disabling \subseteq {cur} /\ cur \in Intids
    BY <1>1 DEF GicIrqInv, DisableInv, TypeOK
  <2>1. ASSUME NEW i, SameWords, (i \in regs.enabled) = (i \in regs'.enabled)
        PROVE  Kept(i)
    BY <2>1, SameAttributes DEF SameWords
  <2>2. CASE (\E i \in Drivers : GetContext(i)) \/ FillContext \/ Configure
               \/ Dispatch \/ Others
    <3>1. regs' = regs
      BY <1>1, <2>0, <2>2, GetContextSteps, FillSteps, ConfigureSteps,
         DispatchSteps, OtherSteps DEF Others
    <3> QED
      BY <2>1, <3>1 DEF SameWords, Same
  <2>3. CASE ClearIntr
    <3>1. SameWords /\ regs'.enabled = regs.enabled
      BY <1>1, <2>3, ClearSteps DEF ClearEffect, Same
    <3> QED
      BY <2>1, <3>1
  <2>4. CASE Attributes
    <3>1. AttributeEffect
      BY <1>1, <2>4, AttributeSteps
    <3>2. CASE ReadEffect
      BY <2>1, <3>2 DEF ReadEffect, SameWords, Same
    <3>3. CASE WriteEffect
      <4> TAKE i \in Intids \ {cur}
      <4>1. Priority(i)' = Priority(i) /\ Config(i)' = Config(i)
        BY <3>3, SameAttributes DEF WriteEffect
      <4>2. InGroup1(i)' = InGroup1(i) /\ Modified(i)' = Modified(i)
        BY <3>3, SameAttributes DEF WriteEffect, InGroup1
      <4>3. (i \in regs.enabled) = (i \in regs'.enabled)
        BY <3>3 DEF WriteEffect, Same
      <4> QED
        BY <4>1, <4>2, <4>3
    <3> QED
      BY <3>1, <3>2, <3>3 DEF AttributeEffect
  <2>5. CASE SetIntr
    <3>1. SameWords /\ regs'.enabled = regs.enabled \cup {cur}
      BY <1>1, <2>5, SetSteps DEF SetEffect
    <3> QED
      BY <2>1, <3>1
  <2>6. CASE Settle
    <3>1. SameWords /\ regs'.enabled = regs.enabled \ regs.disabling
      BY <2>0, <2>6, SettleSteps
    <3> QED
      BY <2>0, <2>1, <3>1
  <2> QED
    BY <1>1, <2>2, <2>3, <2>4, <2>5, <2>6, NextCases
<1>2. GicIrqInv /\ [Next]_vars => [A]_vars
  BY <1>1
<1> QED
  BY <1>2, GicIrqInvariant, PTL DEF Spec, BystandersUntouched

(* The attributes of an SGI or PPI change only after it has been disabled  *)
(* in effect: what the wait for RWP is for.                                *)
THEOREM AttributesWhileDisabled ==
    ASSUME SgisNumbered PROVE Spec => ConfigWhileDisabled
<1> DEFINE Changed(i) == \/ Priority(i)' # Priority(i)
                         \/ InGroup1(i)' # InGroup1(i)
                         \/ Config(i)' # Config(i)
           A == \A i \in Sgis \cup Ppis : Changed(i) => i \notin regs.enabled
<1>1. ASSUME GicIrqInv, [Next]_vars PROVE A
  <2>0. TypeOK
    BY <1>1 DEF GicIrqInv
  <2>1. ASSUME SameWords, NEW i PROVE ~ Changed(i)
    BY <2>1, SameAttributes DEF SameWords
  <2>2. CASE ~ Attributes
    <3>1. SameWords
      BY <1>1, <2>0, <2>2, NextCases, GetContextSteps, FillSteps, ConfigureSteps,
         ClearSteps, SetSteps, DispatchSteps, SettleSteps, OtherSteps
         DEF Others, ClearEffect, SetEffect, Same, SameWords
    <3> QED
      BY <2>1, <3>1
  <2>3. CASE Attributes
    <3> SUFFICES ASSUME NEW i \in Sgis \cup Ppis, i \in regs.enabled
                 PROVE  ~ Changed(i)
        OBVIOUS
    <3>1. i \in Intids /\ Kind(i) # "spi"
      <4>1. i \in Intids
        BY DEF Intids
      <4> QED
        BY <4>1, Kinds
    <3>2. AttributeEffect /\ pc \in Disabled
      BY <1>1, <2>3, AttributeSteps
         DEF AttributeEffect, ReadEffect, WriteEffect, Disabled, Configured, Checking
    <3>3. i # cur
      BY <1>1, <3>1, <3>2 DEF GicIrqInv, DisableInv
    <3>4. CASE ReadEffect
      BY <2>1, <3>4 DEF ReadEffect, SameWords, Same
    <3>5. CASE WriteEffect
      BY <3>1, <3>3, <3>5, SameAttributes DEF WriteEffect, InGroup1
    <3> QED
      BY <3>2, <3>4, <3>5 DEF AttributeEffect
  <2> QED
    BY <2>2, <2>3
<1>2. GicIrqInv /\ [Next]_vars => [A]_vars
  BY <1>1
<1> QED
  BY <1>2, GicIrqInvariant, PTL DEF Spec, ConfigWhileDisabled
=============================================================================
