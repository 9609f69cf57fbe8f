---------------------------- MODULE LibraryProofs ----------------------------
(***************************************************************************)
(* Proofs about the code that other parts call: the console, for any       *)
(* number of consoles, FIFO depth and length of what the main program and  *)
(* the callbacks print; run_once, for every set of CPUs, on the lock       *)
(* FifoLock specifies; the functions of string.c, for every memory; the    *)
(* switching of any set of vCPUs; and printf, for every format made of its *)
(* directives and every pair of widths.                                    *)
(***************************************************************************)
EXTENDS Console, RunOnce, Printf, VCpu, FiniteSetTheorems,
        SequenceTheorems, WellFoundedInduction, NaturalsInduction, TLAPS

(***************************************************************************)
(* 1. The console.                                                         *)
(***************************************************************************)

Chars == [by : Actors, tick : Nat, nr : Nat]

ConsoleType ==
    /\ inited \subseteq Consoles
    /\ enabled \subseteq Consoles
    /\ stream \in [Consoles -> Seq(Chars)]
    /\ queued \in [Consoles -> Nat]
    /\ pc \in [Actors -> {"idle", "putc", "store", "putc_one", "store_one",
                          "flush", "flush_one", "getc"}]
    /\ pc["irq"] \in {"idle", "putc", "store"}
    /\ at \in [Actors -> Nat]
    /\ sent \in [Actors -> Nat]
    /\ ticks \in Nat

(* Which consoles an actor may be at: console_putc_all stores to enabled   *)
(* ones only, for the table does not change under it.                      *)
AtInv ==
    /\ \A a \in Actors :
          /\ pc[a] = "putc" => at[a] \in 1 .. (NrConsoles + 1)
          /\ pc[a] = "store" => at[a] \in enabled
    /\ pc["main"] \in {"putc_one", "store_one", "flush", "flush_one", "getc"} =>
          at["main"] \in Consoles

(* The characters lost so far; a tick between the main program's poll and  *)
(* its store pays for the one it may lose next.                            *)
Storing == pc["main"] \in {"store", "store_one"}

LostInv ==
    /\ IsFiniteSet(lost)
    /\ \A l \in lost : l[2].by = "main"
    /\ Cardinality(lost) <= ticks
    /\ pc["irq"] = "store" => queued[at["irq"]] < FifoDepth
    /\ Storing => \/ Cardinality(lost) < ticks
                  \/ pc["irq"] = "idle" /\ queued[at["main"]] < FifoDepth

(* The main program has yet to store its current character on console c.   *)
Pending(c) == \/ pc["main"] \in {"putc", "store"} /\ at["main"] <= c
              \/ pc["main"] \in {"putc_one", "store_one"} /\ at["main"] = c

(* How many of its characters the running callback has put on console c.   *)
Got(c) == IF at["irq"] > c THEN sent["irq"] ELSE sent["irq"] - 1

(* The i-th character on console c is followed by the callback's next one. *)
Follows(c, i) ==
    /\ i < Len(stream[c])
    /\ stream[c][i + 1] = [stream[c][i] EXCEPT !.nr = @ + 1]

MainBounded ==
    \A c \in Consoles : \A i \in 1 .. Len(stream[c]) :
        stream[c][i].by = "main" =>
            /\ stream[c][i].nr <= sent["main"]
            /\ Pending(c) => stream[c][i].nr < sent["main"]

MainOrdered ==
    \A c \in Consoles : \A i, j \in 1 .. Len(stream[c]) :
        stream[c][i].by = "main" /\ stream[c][j].by = "main" /\ i < j =>
            stream[c][i].nr < stream[c][j].nr

IrqTogether ==
    \A c \in Consoles : \A i \in 1 .. Len(stream[c]) :
        stream[c][i].by = "irq" =>
            /\ stream[c][i].tick <= ticks
            /\ (pc["irq"] = "idle" \/ stream[c][i].tick # ticks) =>
                  (stream[c][i].nr < IrqLength => Follows(c, i))
            /\ pc["irq"] # "idle" /\ stream[c][i].tick = ticks =>
                  /\ c \in enabled
                  /\ stream[c][i].nr <= Got(c)
                  /\ stream[c][i].nr < Got(c) => Follows(c, i)
                  /\ stream[c][i].nr = Got(c) => i = Len(stream[c])

(* fflush is done with the consoles before the one it waits for.           *)
FlushInv ==
    pc["main"] = "flush" =>
        \A c \in enabled : c < at["main"] => OnlyTicksQueued(c)

ConsoleInv ==
    /\ ConsoleType
    /\ AtInv
    /\ LostInv
    /\ MainBounded
    /\ MainOrdered
    /\ IrqTogether
    /\ FlushInv

-----------------------------------------------------------------------------
(* Types.                                                                  *)

LEMMA Constants ==
    /\ NrConsoles \in Nat /\ NrConsoles >= 1 /\ FifoDepth \in Nat /\ FifoDepth >= 1
    /\ Consoles \subseteq Nat /\ Actors = {"main", "irq"}
BY ConsoleAssumption DEF Consoles, Actors

LEMMA CharacterType ==
    ASSUME ConsoleType, NEW a \in Actors
    PROVE  /\ Character(a) \in Chars /\ Character(a).by = a /\ Character(a).nr = sent[a]
           /\ a = "irq" => Character(a).tick = ticks
BY Constants DEF ConsoleType, Character, Chars

(* What a store does: the character is appended, or lost.                  *)
LEMMA StoreEffect ==
    ASSUME ConsoleInv, NEW a \in Actors, Store(a)
    PROVE  /\ MayRun(a) /\ at[a] \in Consoles
           /\ \/ /\ pc[a] = "store" /\ at[a] \in enabled
                 /\ pc' = [pc EXCEPT ![a] = "putc"] /\ at' = [at EXCEPT ![a] = @ + 1]
              \/ /\ pc[a] = "store_one" /\ a = "main"
                 /\ pc' = [pc EXCEPT ![a] = "idle"] /\ at' = [at EXCEPT ![a] = 0]
           /\ \/ /\ queued[at[a]] < FifoDepth
                 /\ stream' = [stream EXCEPT ![at[a]] = Append(@, Character(a))]
                 /\ queued' = [queued EXCEPT ![at[a]] = @ + 1]
                 /\ lost' = lost
              \/ /\ ~ queued[at[a]] < FifoDepth
                 /\ stream' = stream /\ queued' = queued
                 /\ lost' = lost \cup {<<at[a], Character(a)>>}
           /\ UNCHANGED <<inited, enabled, sent, ticks>>
<1>1. ConsoleType /\ AtInv
  BY DEF ConsoleInv
<1>2. \/ /\ pc[a] = "store" /\ at[a] \in enabled
         /\ pc' = [pc EXCEPT ![a] = "putc"] /\ at' = [at EXCEPT ![a] = @ + 1]
      \/ /\ pc[a] = "store_one" /\ a = "main"
         /\ pc' = [pc EXCEPT ![a] = "idle"] /\ at' = [at EXCEPT ![a] = 0]
  BY <1>1, Constants DEF Store, At, Goto, Leave, ConsoleType, AtInv
<1>3. MayRun(a) /\ at[a] \in Consoles
  BY <1>1, <1>2, Constants DEF Store, At, AtInv, ConsoleType
<1> QED
  BY <1>2, <1>3 DEF Store, WriteDr, table

LEMMA TypeStep ==
    ASSUME ConsoleInv, Next
    PROVE  ConsoleType'
<1>1. ConsoleType /\ AtInv
  BY DEF ConsoleInv
<1> USE Constants
<1>2. ASSUME NEW c \in Consoles, ConsoleInit(c) \/ ConsoleEnable(c) \/ ConsoleDisable(c) PROVE ConsoleType'
  BY <1>1, <1>2 DEF ConsoleType, ConsoleInit, ConsoleEnable, ConsoleDisable, uart
<1>3. ASSUME NEW c \in Consoles, ConsolePutc(c) \/ Await(c, "flush_one") \/ Await(c, "getc") PROVE ConsoleType'
  <2>1. CASE ConsolePutc(c)
    BY <1>1, <2>1 DEF ConsoleType, ConsolePutc, At, Goto, table, uart
  <2>2. CASE Await(c, "flush_one")
    BY <1>1, <2>2 DEF ConsoleType, Await, At, Goto, table, uart
  <2>3. CASE Await(c, "getc")
    BY <1>1, <2>3 DEF ConsoleType, Await, At, Goto, table, uart
  <2> QED
    BY <1>3, <2>1, <2>2, <2>3
<1>4. ASSUME NEW c \in Consoles, Transmit(c) PROVE ConsoleType'
  BY <1>1, <1>4 DEF ConsoleType, Transmit, table
<1>5. CASE Putchar
  BY <1>1, <1>5 DEF ConsoleType, Putchar, At, Goto, table, uart
<1>6. CASE Tick
  BY <1>1, <1>6 DEF ConsoleType, Tick, Goto, table, uart
<1>7. CASE Fflush
  BY <1>1, <1>7 DEF ConsoleType, Fflush, At, Goto, table, uart
<1>8. CASE FlushNext
  BY <1>1, <1>8 DEF ConsoleType, FlushNext, At, Goto, Leave, table, uart
<1>9. CASE AwaitOver
  BY <1>1, <1>9 DEF ConsoleType, AwaitOver, At, Goto, Leave, table, uart
<1>10. ASSUME NEW a \in Actors, SkipDisabled(a) PROVE ConsoleType'
  BY <1>1, <1>10 DEF ConsoleType, SkipDisabled, table, uart
<1>11. ASSUME NEW a \in Actors, Poll(a) PROVE ConsoleType'
  BY <1>1, <1>11 DEF ConsoleType, Poll, At, Goto, table, uart
<1>12. ASSUME NEW a \in Actors, PutcDone(a) PROVE ConsoleType'
  BY <1>1, <1>12 DEF ConsoleType, PutcDone, At, Goto, Leave, table, uart
<1>13. ASSUME NEW a \in Actors, Store(a) PROVE ConsoleType'
  <2>1. Character(a) \in Chars /\ at[a] \in Consoles
    BY <1>1, <1>13, CharacterType, StoreEffect
  <2>2. stream' \in [Consoles -> Seq(Chars)] /\ queued' \in [Consoles -> Nat]
    <3>1. stream \in [Consoles -> Seq(Chars)] /\ queued \in [Consoles -> Nat]
      BY <1>1 DEF ConsoleType
    <3>2. Append(stream[at[a]], Character(a)) \in Seq(Chars) /\ queued[at[a]] + 1 \in Nat
      BY <2>1, <3>1
    <3>3. \/ /\ stream' = [stream EXCEPT ![at[a]] = Append(@, Character(a))]
             /\ queued' = [queued EXCEPT ![at[a]] = @ + 1]
          \/ stream' = stream /\ queued' = queued
      BY <1>13, StoreEffect
    <3> HIDE <1>13
    <3> QED
      BY <2>1, <3>1, <3>2, <3>3
  <2>3. /\ pc' \in [Actors -> {"idle", "putc", "store", "putc_one", "store_one",
                               "flush", "flush_one", "getc"}]
        /\ pc'["irq"] \in {"idle", "putc", "store"} /\ at' \in [Actors -> Nat]
    BY <1>1, <1>13, StoreEffect DEF ConsoleType
  <2>4. inited' = inited /\ enabled' = enabled /\ sent' = sent /\ ticks' = ticks
    BY <1>13, StoreEffect
  <2> QED
    BY <1>1, <2>2, <2>3, <2>4 DEF ConsoleType
<1> QED
  BY <1>1, <1>2, <1>3, <1>4, <1>5, <1>6, <1>7, <1>8, <1>9, <1>10, <1>11, <1>12, <1>13 DEF Next, Printing, ConsoleType

LEMMA AtStep ==
    ASSUME ConsoleInv, Next
    PROVE  AtInv'
<1>1. ConsoleType /\ AtInv
  BY DEF ConsoleInv
<1> USE Constants
<1>2. ASSUME NEW c \in Consoles, ConsoleInit(c) \/ ConsoleEnable(c) \/ ConsoleDisable(c) PROVE AtInv'
  BY <1>1, <1>2 DEF ConsoleType, AtInv, ConsoleInit, ConsoleEnable, ConsoleDisable, At, MayRun
<1>3. ASSUME NEW c \in Consoles, ConsolePutc(c) \/ Await(c, "flush_one") \/ Await(c, "getc") PROVE AtInv'
  <2>1. CASE ConsolePutc(c)
    BY <1>1, <2>1 DEF ConsoleType, AtInv, ConsolePutc, At, Goto, table
  <2>2. CASE Await(c, "flush_one")
    BY <1>1, <2>2 DEF ConsoleType, AtInv, Await, At, Goto, table
  <2>3. CASE Await(c, "getc")
    BY <1>1, <2>3 DEF ConsoleType, AtInv, Await, At, Goto, table
  <2> QED
    BY <1>3, <2>1, <2>2, <2>3
<1>4. ASSUME NEW c \in Consoles, Transmit(c) PROVE AtInv'
  BY <1>1, <1>4 DEF AtInv, Transmit, table
<1>5. CASE Putchar
  BY <1>1, <1>5 DEF ConsoleType, AtInv, Putchar, At, Goto, table
<1>6. CASE Tick
  BY <1>1, <1>6 DEF ConsoleType, AtInv, Tick, Goto, table
<1>7. CASE Fflush
  BY <1>1, <1>7 DEF ConsoleType, AtInv, Fflush, At, Goto, table, Consoles
<1>8. CASE FlushNext
  BY <1>1, <1>8 DEF ConsoleType, AtInv, FlushNext, At, Goto, Leave, table, Consoles
<1>9. CASE AwaitOver
  BY <1>1, <1>9 DEF ConsoleType, AtInv, AwaitOver, At, Goto, Leave, table
<1>10. ASSUME NEW a \in Actors, SkipDisabled(a) PROVE AtInv'
  BY <1>1, <1>10 DEF ConsoleType, AtInv, SkipDisabled, At, table, Consoles
<1>11. ASSUME NEW a \in Actors, Poll(a) PROVE AtInv'
  BY <1>1, <1>11 DEF ConsoleType, AtInv, Poll, At, Goto, table
<1>12. ASSUME NEW a \in Actors, PutcDone(a) PROVE AtInv'
  BY <1>1, <1>12 DEF ConsoleType, AtInv, PutcDone, At, Goto, Leave, table
<1>13. ASSUME NEW a \in Actors, Store(a) PROVE AtInv'
  <2>1. CASE pc[a] = "store"
    <3>1. /\ at[a] \in 1 .. NrConsoles /\ enabled' = enabled
          /\ pc' = [pc EXCEPT ![a] = "putc"] /\ at' = [at EXCEPT ![a] = @ + 1]
      BY <1>13, <2>1, StoreEffect DEF Consoles
    <3> QED
      BY <1>1, <3>1 DEF ConsoleType, AtInv
  <2>2. CASE pc[a] # "store"
    <3>1. /\ a = "main" /\ enabled' = enabled
          /\ pc' = [pc EXCEPT ![a] = "idle"] /\ at' = [at EXCEPT ![a] = 0]
      BY <1>13, <2>2, StoreEffect
    <3> QED
      BY <1>1, <3>1 DEF ConsoleType, AtInv
  <2> QED
    BY <2>1, <2>2
<1> QED
  BY <1>1, <1>2, <1>3, <1>4, <1>5, <1>6, <1>7, <1>8, <1>9, <1>10, <1>11, <1>12, <1>13 DEF Next, Printing, ConsoleType

-----------------------------------------------------------------------------
(* Lost characters.                                                        *)

LEMMA LostStep ==
    ASSUME ConsoleInv, Next
    PROVE  LostInv'
<1>1. ConsoleType /\ AtInv /\ LostInv
  BY DEF ConsoleInv
<1>2. Cardinality(lost) \in Nat /\ IsFiniteSet(lost) /\ ticks \in Nat
  BY <1>1, FS_CardinalityType DEF LostInv, ConsoleType
<1> USE Constants
<1>3. ASSUME NEW c \in Consoles,
             \/ ConsoleInit(c) \/ ConsoleEnable(c) \/ ConsoleDisable(c)
             \/ ConsolePutc(c) \/ Await(c, "flush_one") \/ Await(c, "getc")
      PROVE  LostInv'
  <2>1. CASE ConsoleInit(c) \/ ConsoleEnable(c) \/ ConsoleDisable(c)
    BY <1>1, <2>1 DEF LostInv, Storing, ConsoleInit, ConsoleEnable, ConsoleDisable, uart
  <2>2. CASE ConsolePutc(c)
    BY <1>1, <2>2 DEF ConsoleType, LostInv, Storing, ConsolePutc, At, MayRun, Goto, uart
  <2>3. CASE Await(c, "flush_one")
    BY <1>1, <2>3 DEF ConsoleType, LostInv, Storing, Await, At, MayRun, Goto, uart
  <2>4. CASE Await(c, "getc")
    BY <1>1, <2>4 DEF ConsoleType, LostInv, Storing, Await, At, MayRun, Goto, uart
  <2> QED
    BY <1>3, <2>1, <2>2, <2>3, <2>4
<1>4. ASSUME NEW c \in Consoles, Transmit(c) PROVE LostInv'
  <2>1. \A d \in Consoles : queued'[d] <= queued[d] /\ queued[d] \in Nat /\ queued'[d] \in Nat
    BY <1>1, <1>4 DEF ConsoleType, Transmit
  <2>2. (pc["irq"] = "store" => at["irq"] \in Consoles) /\ (Storing => at["main"] \in Consoles)
    BY <1>1 DEF ConsoleType, AtInv, Storing
  <2>3. UNCHANGED <<lost, ticks, pc, at>>
    BY <1>4 DEF Transmit
  <2>4. pc'["irq"] = "store" => queued'[at'["irq"]] < FifoDepth
    <3>1. SUFFICES ASSUME pc["irq"] = "store" PROVE queued'[at["irq"]] < FifoDepth
      BY <2>3
    <3>2. queued[at["irq"]] < FifoDepth /\ at["irq"] \in Consoles
      BY <1>1, <2>2, <3>1 DEF LostInv
    <3>3. queued'[at["irq"]] <= queued[at["irq"]] /\ queued[at["irq"]] \in Nat
      BY <2>1, <3>2
    <3>4. queued'[at["irq"]] \in Nat
      BY <2>1, <3>2
    <3> QED
      BY <3>2, <3>3, <3>4
  <2>5. Storing' => \/ Cardinality(lost') < ticks'
                    \/ pc'["irq"] = "idle" /\ queued'[at'["main"]] < FifoDepth
    <3>1. SUFFICES ASSUME Storing, ~ Cardinality(lost) < ticks
                   PROVE  pc["irq"] = "idle" /\ queued'[at["main"]] < FifoDepth
      BY <2>3 DEF Storing
    <3>2. pc["irq"] = "idle" /\ queued[at["main"]] < FifoDepth /\ at["main"] \in Consoles
      BY <1>1, <2>2, <3>1 DEF LostInv
    <3>3. queued'[at["main"]] <= queued[at["main"]] /\ queued[at["main"]] \in Nat
      BY <2>1, <3>2
    <3>4. queued'[at["main"]] \in Nat
      BY <2>1, <3>2
    <3> QED
      BY <3>2, <3>3, <3>4
  <2> QED
    BY <1>1, <2>3, <2>4, <2>5 DEF LostInv
<1>5. CASE Putchar
  BY <1>1, <1>5 DEF ConsoleType, LostInv, Storing, Putchar, At, MayRun, Goto, uart
<1>6. CASE Tick
  <2>1. /\ lost' = lost /\ ticks' = ticks + 1 /\ pc'["irq"] = "putc" /\ pc'["main"] = pc["main"]
        /\ Cardinality(lost) < ticks'
    BY <1>1, <1>2, <1>6 DEF ConsoleType, LostInv, Tick, Goto, uart
  <2> QED
    BY <1>1, <1>2, <2>1 DEF LostInv, Storing
<1>7. CASE Fflush
  BY <1>1, <1>7 DEF ConsoleType, LostInv, Storing, Fflush, At, MayRun, Goto, uart
<1>8. CASE FlushNext
  BY <1>1, <1>8 DEF ConsoleType, LostInv, Storing, FlushNext, At, MayRun, Goto, Leave, uart
<1>9. CASE AwaitOver
  BY <1>1, <1>9 DEF ConsoleType, LostInv, Storing, AwaitOver, At, MayRun, Goto, Leave, uart
<1>10. ASSUME NEW a \in Actors, SkipDisabled(a) PROVE LostInv'
  BY <1>1, <1>10 DEF ConsoleType, LostInv, Storing, SkipDisabled, At, MayRun, uart
<1>11. ASSUME NEW a \in Actors, Poll(a) PROVE LostInv'
  BY <1>1, <1>11 DEF ConsoleType, LostInv, Storing, Poll, At, MayRun, Goto, uart
<1>12. ASSUME NEW a \in Actors, PutcDone(a) PROVE LostInv'
  BY <1>1, <1>12 DEF ConsoleType, LostInv, Storing, PutcDone, At, MayRun, Goto, Leave, uart
<1>13. ASSUME Store("irq") PROVE LostInv'
  <2>1. /\ at["irq"] \in Consoles /\ pc' = [pc EXCEPT !["irq"] = "putc"]
        /\ at' = [at EXCEPT !["irq"] = @ + 1] /\ pc["irq"] = "store" /\ ticks' = ticks
    BY <1>1, <1>13, StoreEffect DEF ConsoleType
  <2>2. lost' = lost
    BY <1>1, <1>13, <2>1, StoreEffect DEF LostInv
  <2> QED
    BY <1>1, <2>1, <2>2 DEF ConsoleType, LostInv, Storing
<1>14. ASSUME Store("main") PROVE LostInv'
  <2>1. /\ pc'["irq"] = "idle" /\ pc'["main"] \in {"putc", "idle"} /\ ticks' = ticks /\ Storing
        /\ pc["irq"] = "idle"
    BY <1>1, <1>14, StoreEffect DEF ConsoleType, MayRun, Storing
  <2>2. CASE lost' = lost
    BY <1>1, <2>1, <2>2 DEF LostInv, Storing
  <2>3. CASE lost' # lost
    <3>1. lost' = lost \cup {<<at["main"], Character("main")>>} /\ ~ queued[at["main"]] < FifoDepth
      BY <1>14, <2>3, StoreEffect
    <3>2. Cardinality(lost) < ticks
      BY <1>1, <2>1, <3>1 DEF LostInv
    <3>3. IsFiniteSet(lost') /\ Cardinality(lost') <= Cardinality(lost) + 1
      BY <1>2, <3>1, FS_AddElement
    <3>4. Character("main").by = "main"
      BY <1>1, CharacterType
    <3>5. \A l \in lost' : l[2].by = "main"
      BY <1>1, <3>1, <3>4 DEF LostInv
    <3>6. Cardinality(lost') <= ticks
      BY <1>2, <3>2, <3>3, FS_CardinalityType
    <3> QED
      BY <2>1, <3>3, <3>5, <3>6 DEF LostInv, Storing
  <2> QED
    BY <2>2, <2>3
<1> QED
  BY <1>1, <1>3, <1>4, <1>5, <1>6, <1>7, <1>8, <1>9, <1>10, <1>11, <1>12, <1>13, <1>14 DEF Next, Printing, ConsoleType

-----------------------------------------------------------------------------
(* Order.                                                                  *)

(* Steps other than a tick and a store leave what has been printed alone.  *)
LEMMA QuietSteps ==
    ASSUME ConsoleInv, Next, ~ Tick, \A a \in Actors : ~ Store(a)
    PROVE  /\ stream' = stream /\ ticks' = ticks
           /\ sent["main"] \in Nat /\ sent'["main"] \in Nat
           /\ sent'["main"] >= sent["main"]
           /\ \A c \in Consoles : Pending(c)' => Pending(c) \/ sent'["main"] > sent["main"]
           /\ pc'["irq"] = "idle" => \/ pc["irq"] = "idle"
                                     \/ at["irq"] > NrConsoles /\ sent["irq"] >= IrqLength
           /\ pc["irq"] = "idle" => pc'["irq"] = "idle"
           /\ pc["irq"] # "idle" => enabled' = enabled
           /\ pc'["irq"] # "idle" => \A c \in enabled : Got(c)' = Got(c)
<1>1. ConsoleType /\ AtInv
  BY DEF ConsoleInv
<1> DEFINE Goal ==
           /\ stream' = stream /\ ticks' = ticks
           /\ sent["main"] \in Nat /\ sent'["main"] \in Nat
           /\ sent'["main"] >= sent["main"]
           /\ \A c \in Consoles : Pending(c)' => Pending(c) \/ sent'["main"] > sent["main"]
           /\ pc'["irq"] = "idle" => \/ pc["irq"] = "idle"
                                     \/ at["irq"] > NrConsoles /\ sent["irq"] >= IrqLength
           /\ pc["irq"] = "idle" => pc'["irq"] = "idle"
           /\ pc["irq"] # "idle" => enabled' = enabled
           /\ pc'["irq"] # "idle" => \A c \in enabled : Got(c)' = Got(c)
<1> USE Constants
<1>2. ASSUME NEW c \in Consoles, ConsoleInit(c) \/ ConsoleEnable(c) \/ ConsoleDisable(c) PROVE Goal
  BY <1>1, <1>2 DEF ConsoleType, Pending, Got, ConsoleInit, ConsoleEnable, ConsoleDisable, At, MayRun, uart
<1>3. ASSUME NEW c \in Consoles, ConsolePutc(c) PROVE Goal
  BY <1>1, <1>3 DEF ConsoleType, Pending, Got, ConsolePutc, At, MayRun, Goto, table, uart
<1>4. ASSUME NEW c \in Consoles, NEW w \in {"flush_one", "getc"}, Await(c, w) PROVE Goal
  BY <1>1, <1>4 DEF ConsoleType, Pending, Got, Await, At, MayRun, Goto, table, uart
<1>5. ASSUME Putchar PROVE Goal
  BY <1>1, <1>5 DEF ConsoleType, Pending, Got, Putchar, At, MayRun, Goto, table, uart
<1>6. ASSUME NEW c \in Consoles, Transmit(c) PROVE Goal
  BY <1>1, <1>6 DEF ConsoleType, Pending, Got, Transmit, table
<1>7. ASSUME Fflush PROVE Goal
  BY <1>1, <1>7 DEF ConsoleType, Pending, Got, Fflush, At, MayRun, Goto, table, uart
<1>8. ASSUME FlushNext PROVE Goal
  BY <1>1, <1>8 DEF ConsoleType, Pending, Got, FlushNext, At, MayRun, Goto, Leave, table, uart
<1>9. ASSUME AwaitOver PROVE Goal
  BY <1>1, <1>9 DEF ConsoleType, Pending, Got, AwaitOver, At, MayRun, Goto, Leave, table, uart
<1>10. ASSUME SkipDisabled("main") PROVE Goal
  BY <1>1, <1>10 DEF ConsoleType, Pending, Got, SkipDisabled, At, MayRun, table, uart
<1>11. ASSUME SkipDisabled("irq") PROVE Goal
  BY <1>1, <1>11 DEF ConsoleType, Pending, Got, SkipDisabled, At, MayRun, table, uart
<1>12. ASSUME Poll("main") PROVE Goal
  BY <1>1, <1>12 DEF ConsoleType, Pending, Got, Poll, At, MayRun, Goto, table, uart
<1>13. ASSUME Poll("irq") PROVE Goal
  BY <1>1, <1>13 DEF ConsoleType, Pending, Got, Poll, At, MayRun, Goto, table, uart
<1>14. ASSUME PutcDone("main") PROVE Goal
  BY <1>1, <1>14 DEF ConsoleType, Pending, Got, PutcDone, At, MayRun, Goto, Leave, table, uart
<1>15. ASSUME PutcDone("irq") PROVE Goal
  <2>1. \A c \in Consoles : at["irq"] > c
    BY <1>1, <1>15 DEF ConsoleType, PutcDone, Consoles
  <2>2. IrqLength \in Nat
    BY ConsoleAssumption
  <2>3. /\ UNCHANGED <<inited, enabled, stream, ticks>> /\ pc["irq"] = "putc"
        /\ pc'["main"] = pc["main"] /\ at'["main"] = at["main"] /\ sent'["main"] = sent["main"]
    BY <1>1, <1>15 DEF ConsoleType, PutcDone, At, Goto, Leave, table, uart
  <2>4. CASE sent["irq"] < IrqLength
    <3>1. sent'["irq"] = sent["irq"] + 1 /\ at'["irq"] = 1 /\ pc' = pc /\ sent["irq"] \in Nat
      BY <1>1, <1>15, <2>4 DEF ConsoleType, PutcDone
    <3>2. \A c \in Consoles : ~ 1 > c
      BY DEF Consoles
    <3>3. \A c \in enabled : Got(c)' = Got(c)
      BY <1>1, <2>1, <3>1, <3>2 DEF Got, ConsoleType
    <3> QED
      BY <1>1, <2>3, <3>1, <3>3 DEF ConsoleType, Pending
  <2>5. CASE ~ sent["irq"] < IrqLength
    <3>1. pc'["irq"] = "idle" /\ at["irq"] > NrConsoles /\ sent["irq"] >= IrqLength
      BY <1>1, <1>15, <2>2, <2>5 DEF ConsoleType, PutcDone, Goto, Leave
    <3> QED
      BY <1>1, <2>3, <3>1 DEF ConsoleType, Pending
  <2> QED
    BY <2>4, <2>5
<1> HIDE DEF Goal
<1>16. ASSUME NEW a \in Actors, Printing(a) PROVE Goal
  BY <1>10, <1>11, <1>12, <1>13, <1>14, <1>15, <1>16 DEF Printing
<1>17. ASSUME NEW c \in Consoles, Await(c, "flush_one") \/ Await(c, "getc") PROVE Goal
  BY <1>4, <1>17
<1>18. Goal
  BY <1>1, <1>2, <1>3, <1>5, <1>6, <1>7, <1>8, <1>9, <1>16, <1>17 DEF Next, ConsoleType
<1> QED
  BY <1>18 DEF Goal

(* What is on the consoles after a store that appends.                     *)
LEMMA Appended ==
    ASSUME ConsoleInv, NEW a \in Actors, Store(a), NEW c \in Consoles,
           c = at[a], queued[c] < FifoDepth
    PROVE  /\ Len(stream[c]) \in Nat /\ Len(stream'[c]) = Len(stream[c]) + 1
           /\ \A i \in 1 .. Len(stream[c]) : stream'[c][i] = stream[c][i]
           /\ stream'[c][Len(stream[c]) + 1] = Character(a)
           /\ \A d \in Consoles \ {c} : stream'[d] = stream[d]
<1>1. stream' = [stream EXCEPT ![c] = Append(@, Character(a))]
  BY StoreEffect
<1>2. stream \in [Consoles -> Seq(Chars)] /\ Character(a) \in Chars
  BY CharacterType DEF ConsoleInv, ConsoleType
<1>3. stream[c] \in Seq(Chars) /\ stream'[c] = Append(stream[c], Character(a))
  BY <1>1, <1>2
<1>4. \A d \in Consoles \ {c} : stream'[d] = stream[d]
  BY <1>1, <1>2
<1> QED
  BY <1>2, <1>3, <1>4

(* The characters of a console, and where they come from.                  *)
LEMMA OnConsole ==
    ASSUME ConsoleType, NEW c \in Consoles
    PROVE  /\ Len(stream[c]) \in Nat
           /\ \A i \in 1 .. Len(stream[c]) : stream[c][i] \in Chars
BY DEF ConsoleType

LEMMA MainBoundedStep ==
    ASSUME ConsoleInv, Next
    PROVE  MainBounded'
<1>1. ConsoleType /\ AtInv /\ MainBounded
  BY DEF ConsoleInv
<1> SUFFICES ASSUME NEW c \in Consoles, NEW i \in 1 .. Len(stream'[c]), stream'[c][i].by = "main"
             PROVE  /\ stream'[c][i].nr <= sent'["main"]
                    /\ Pending(c)' => stream'[c][i].nr < sent'["main"]
  BY DEF MainBounded
<1>2. c \in Nat /\ sent["main"] \in Nat
  BY <1>1, Constants DEF ConsoleType
<1>3. ASSUME i \in 1 .. Len(stream[c]), stream'[c][i] = stream[c][i]
      PROVE  /\ stream'[c][i].nr \in Nat /\ stream'[c][i].nr <= sent["main"]
             /\ Pending(c) => stream'[c][i].nr < sent["main"]
  <2>1. stream[c][i] \in Chars
    BY <1>1, <1>3, OnConsole
  <2> QED
    BY <1>1, <1>3, <2>1 DEF MainBounded, Chars
<1>4. CASE Tick
  <2>1. stream' = stream /\ sent'["main"] = sent["main"] /\ Pending(c)' = Pending(c)
    BY <1>1, <1>4, Constants DEF Tick, uart, ConsoleType, Pending, Goto
  <2> QED
    BY <1>3, <2>1
<1>5. CASE ~ Tick /\ \A a \in Actors : ~ Store(a)
  <2>1. /\ stream' = stream /\ sent'["main"] \in Nat /\ sent'["main"] >= sent["main"]
        /\ Pending(c)' => Pending(c) \/ sent'["main"] > sent["main"]
    BY <1>5, QuietSteps
  <2>2. /\ stream'[c][i].nr \in Nat /\ stream'[c][i].nr <= sent["main"]
        /\ Pending(c) => stream'[c][i].nr < sent["main"]
    BY <1>3, <2>1
  <2> QED
    BY <1>2, <2>1, <2>2
<1>6. ASSUME NEW a \in Actors, Store(a) PROVE sent'["main"] = sent["main"] /\ (Pending(c)' => Pending(c))
  <2>1. /\ at[a] \in Consoles /\ sent' = sent
        /\ \/ /\ pc[a] = "store"
              /\ pc' = [pc EXCEPT ![a] = "putc"] /\ at' = [at EXCEPT ![a] = @ + 1]
           \/ /\ pc[a] = "store_one" /\ a = "main"
              /\ pc' = [pc EXCEPT ![a] = "idle"] /\ at' = [at EXCEPT ![a] = 0]
    BY <1>6, StoreEffect
  <2>2. at \in [Actors -> Nat] /\ DOMAIN pc = Actors /\ c \in Nat
    BY <1>1, <1>2 DEF ConsoleType
  <2> QED
    BY <2>1, <2>2, Constants DEF Pending
<1>7. ASSUME NEW a \in Actors, Store(a), ~ (at[a] = c /\ queued[c] < FifoDepth)
      PROVE  stream'[c] = stream[c]
  BY <1>1, <1>7, StoreEffect DEF ConsoleType
<1>8. ASSUME NEW a \in Actors, Store(a), at[a] = c, queued[c] < FifoDepth, a = "main"
      PROVE  ~ Pending(c)'
  <2>1. /\ \/ pc' = [pc EXCEPT !["main"] = "putc"] /\ at' = [at EXCEPT !["main"] = @ + 1]
           \/ pc' = [pc EXCEPT !["main"] = "idle"]
    BY <1>8, StoreEffect
  <2> QED
    BY <1>1, <1>2, <1>8, <2>1, Constants DEF Pending, ConsoleType
<1>9. ASSUME NEW a \in Actors, Store(a) PROVE
             /\ stream'[c][i].nr <= sent'["main"]
             /\ Pending(c)' => stream'[c][i].nr < sent'["main"]
  <2>1. CASE i \in 1 .. Len(stream[c]) /\ stream'[c][i] = stream[c][i]
    BY <1>3, <1>6, <1>9, <2>1
  <2>2. CASE ~ (i \in 1 .. Len(stream[c]) /\ stream'[c][i] = stream[c][i])
    <3>1. at[a] = c /\ queued[c] < FifoDepth
      BY <1>7, <1>9, <2>2
    <3>2. i = Len(stream[c]) + 1 /\ stream'[c][i] = Character(a)
      BY <1>9, <2>2, <3>1, Appended
    <3>3. a = "main" /\ stream'[c][i].nr = sent["main"]
      BY <1>1, <3>2, CharacterType
    <3> QED
      BY <1>2, <1>6, <1>8, <1>9, <3>1, <3>3
  <2> QED
    BY <2>1, <2>2
<1> QED
  BY <1>4, <1>5, <1>9

LEMMA MainOrderedStep ==
    ASSUME ConsoleInv, Next
    PROVE  MainOrdered'
<1>1. ConsoleType /\ AtInv /\ MainBounded /\ MainOrdered
  BY DEF ConsoleInv
<1> SUFFICES ASSUME NEW c \in Consoles, NEW i \in 1 .. Len(stream'[c]), NEW j \in 1 .. Len(stream'[c]),
                    stream'[c][i].by = "main", stream'[c][j].by = "main", i < j
             PROVE  stream'[c][i].nr < stream'[c][j].nr
  BY DEF MainOrdered
<1>2. CASE stream'[c] = stream[c]
  BY <1>1, <1>2 DEF MainOrdered
<1>3. CASE stream'[c] # stream[c]
  <2>1. PICK a \in Actors : Store(a)
    BY <1>3, QuietSteps DEF Tick, uart
  <2>2. at[a] = c /\ queued[c] < FifoDepth /\ (pc[a] = "store" \/ pc[a] = "store_one")
    BY <1>1, <1>3, <2>1, StoreEffect DEF ConsoleType
  <2>3. /\ Len(stream[c]) \in Nat /\ Len(stream'[c]) = Len(stream[c]) + 1
        /\ \A k \in 1 .. Len(stream[c]) : stream'[c][k] = stream[c][k]
        /\ stream'[c][Len(stream[c]) + 1] = Character(a)
    BY <2>1, <2>2, Appended
  <2>4. i \in 1 .. Len(stream[c]) /\ stream'[c][i] = stream[c][i]
    BY <2>3
  <2>5. CASE j \in 1 .. Len(stream[c])
    BY <1>1, <2>3, <2>4, <2>5 DEF MainOrdered
  <2>6. CASE j = Len(stream[c]) + 1
    <3>1. a = "main" /\ stream'[c][j].nr = sent["main"]
      BY <1>1, <2>3, <2>6, CharacterType
    <3>2. Pending(c)
      BY <1>1, <2>2, <3>1, Constants DEF Pending, ConsoleType
    <3> QED
      BY <1>1, <2>4, <3>1, <3>2 DEF MainBounded
  <2> QED
    BY <2>3, <2>5, <2>6
<1> QED
  BY <1>2, <1>3

LEMMA FollowsKept ==
    ASSUME NEW c \in Consoles, NEW i \in Nat, i >= 1, Follows(c, i), Len(stream[c]) \in Nat,
           Len(stream'[c]) \in Nat, Len(stream'[c]) >= Len(stream[c]),
           \A k \in 1 .. Len(stream[c]) : stream'[c][k] = stream[c][k]
    PROVE  Follows(c, i)'
<1>1. i \in 1 .. Len(stream[c]) /\ i + 1 \in 1 .. Len(stream[c])
  BY DEF Follows
<1>2. stream'[c][i] = stream[c][i] /\ stream'[c][i + 1] = stream[c][i + 1]
  BY <1>1
<1> QED
  BY <1>2 DEF Follows

LEMMA IrqTogetherStep ==
    ASSUME ConsoleInv, Next
    PROVE  IrqTogether'
<1>1. ConsoleType /\ AtInv /\ LostInv /\ IrqTogether
  BY DEF ConsoleInv
<1> SUFFICES ASSUME NEW c \in Consoles, NEW i \in 1 .. Len(stream'[c]), stream'[c][i].by = "irq"
             PROVE  /\ stream'[c][i].tick <= ticks'
                    /\ (pc'["irq"] = "idle" \/ stream'[c][i].tick # ticks') =>
                          (stream'[c][i].nr < IrqLength => Follows(c, i)')
                    /\ pc'["irq"] # "idle" /\ stream'[c][i].tick = ticks' =>
                          /\ c \in enabled'
                          /\ stream'[c][i].nr <= Got(c)'
                          /\ stream'[c][i].nr < Got(c)' => Follows(c, i)'
                          /\ stream'[c][i].nr = Got(c)' => i = Len(stream'[c])
  BY DEF IrqTogether
<1>2. /\ c \in Nat /\ ticks \in Nat /\ sent["irq"] \in Nat /\ at["irq"] \in Nat /\ i \in Nat /\ i >= 1
      /\ Len(stream[c]) \in Nat
  BY <1>1, Constants, OnConsole DEF ConsoleType
<1>3. ASSUME i \in 1 .. Len(stream[c]), stream[c][i].by = "irq"
      PROVE  /\ stream[c][i] \in Chars /\ stream[c][i].nr \in Nat /\ stream[c][i].tick \in Nat
             /\ stream[c][i].tick <= ticks
             /\ (pc["irq"] = "idle" \/ stream[c][i].tick # ticks) =>
                   (stream[c][i].nr < IrqLength => Follows(c, i))
             /\ pc["irq"] # "idle" /\ stream[c][i].tick = ticks =>
                   /\ c \in enabled
                   /\ stream[c][i].nr <= Got(c)
                   /\ stream[c][i].nr < Got(c) => Follows(c, i)
                   /\ stream[c][i].nr = Got(c) => i = Len(stream[c])
  <2>1. stream[c][i] \in Chars
    BY <1>1, <1>3, OnConsole
  <2> QED
    BY <1>1, <1>3, <2>1 DEF IrqTogether, Chars
<1>4. CASE Tick
  <2>1. /\ stream' = stream /\ ticks' = ticks + 1 /\ pc["irq"] = "idle" /\ pc'["irq"] # "idle"
        /\ Follows(c, i)' = Follows(c, i)
    BY <1>1, <1>4, Constants DEF Tick, uart, ConsoleType, Goto, Follows
  <2> QED
    BY <1>2, <1>3, <2>1
<1>5. CASE ~ Tick /\ \A a \in Actors : ~ Store(a)
  <2>1. /\ stream' = stream /\ ticks' = ticks
        /\ pc'["irq"] = "idle" => \/ pc["irq"] = "idle"
                                  \/ at["irq"] > NrConsoles /\ sent["irq"] >= IrqLength
        /\ pc["irq"] = "idle" => pc'["irq"] = "idle"
        /\ pc["irq"] # "idle" => enabled' = enabled
        /\ pc'["irq"] # "idle" => \A d \in enabled : Got(d)' = Got(d)
    BY <1>5, QuietSteps
  <2>2. Follows(c, i)' = Follows(c, i)
    BY <2>1 DEF Follows
  <2>3. CASE pc["irq"] = "idle"
    BY <1>3, <2>1, <2>2, <2>3
  <2>4. CASE pc["irq"] # "idle" /\ pc'["irq"] # "idle"
    BY <1>3, <2>1, <2>2, <2>4
  <2>5. CASE pc["irq"] # "idle" /\ pc'["irq"] = "idle"
    <3>1. Got(c) = sent["irq"] /\ sent["irq"] >= IrqLength /\ IrqLength \in Nat
      BY <1>2, <2>1, <2>5, ConsoleAssumption DEF Got, Consoles
    <3> QED
      BY <1>2, <1>3, <2>1, <2>2, <2>5, <3>1
  <2> QED
    BY <2>3, <2>4, <2>5
<1>6. ASSUME NEW a \in Actors, Store(a)
      PROVE  /\ ticks' = ticks /\ enabled' = enabled /\ sent' = sent
             /\ at[a] \in Consoles /\ (a = "main" => pc["irq"] = "idle")
             /\ a = "irq" => pc["irq"] = "store" /\ at["irq"] \in enabled /\ queued[at["irq"]] < FifoDepth
             /\ a = "main" => pc'["irq"] = "idle"
             /\ a = "irq" => pc'["irq"] = "putc" /\ at'["irq"] = at["irq"] + 1
  <2>1. /\ MayRun(a) /\ at[a] \in Consoles
        /\ \/ /\ pc[a] = "store" /\ at[a] \in enabled
              /\ pc' = [pc EXCEPT ![a] = "putc"] /\ at' = [at EXCEPT ![a] = @ + 1]
           \/ /\ pc[a] = "store_one" /\ a = "main"
              /\ pc' = [pc EXCEPT ![a] = "idle"] /\ at' = [at EXCEPT ![a] = 0]
        /\ UNCHANGED <<inited, enabled, sent, ticks>>
    BY <1>6, StoreEffect
  <2>2. a = "irq" => pc["irq"] = "store" /\ queued[at["irq"]] < FifoDepth
    BY <1>1, <2>1 DEF LostInv
  <2> QED
    BY <1>1, <2>1, <2>2, Constants DEF ConsoleType, MayRun
<1>7. ASSUME NEW a \in Actors, Store(a), ~ (at[a] = c /\ queued[c] < FifoDepth)
      PROVE  stream'[c] = stream[c]
  BY <1>1, <1>7, StoreEffect DEF ConsoleType
<1>8. ASSUME NEW a \in Actors, Store(a), at[a] = c, queued[c] < FifoDepth
      PROVE  /\ Len(stream'[c]) = Len(stream[c]) + 1
             /\ \A k \in 1 .. Len(stream[c]) : stream'[c][k] = stream[c][k]
             /\ stream'[c][Len(stream[c]) + 1] = Character(a)
  BY <1>8, Appended
<1>9. ASSUME NEW a \in Actors, Store(a), i \in 1 .. Len(stream[c]), Follows(c, i) PROVE Follows(c, i)'
  <2>1. CASE at[a] = c /\ queued[c] < FifoDepth
    BY <1>2, <1>8, <1>9, <2>1, FollowsKept
  <2>2. CASE ~ (at[a] = c /\ queued[c] < FifoDepth)
    BY <1>7, <1>9, <2>2 DEF Follows
  <2> QED
    BY <2>1, <2>2
<1>10. CASE Store("main")
  <2>1. ticks' = ticks /\ pc["irq"] = "idle" /\ pc'["irq"] = "idle"
    BY <1>6, <1>10, Constants
  <2>2. i \in 1 .. Len(stream[c]) /\ stream'[c][i] = stream[c][i]
    <3>1. CASE at["main"] = c /\ queued[c] < FifoDepth
      <4>1. Character("main").by = "main"
        BY <1>1, CharacterType, Constants
      <4>2. i # Len(stream[c]) + 1
        BY <1>8, <1>10, <3>1, <4>1, Constants
      <4> QED
        BY <1>2, <1>8, <1>10, <3>1, <4>2, Constants
    <3>2. CASE ~ (at["main"] = c /\ queued[c] < FifoDepth)
      BY <1>7, <1>10, <3>2, Constants
    <3> QED
      BY <3>1, <3>2
  <2> QED
    BY <1>3, <1>9, <1>10, <2>1, <2>2, Constants
<1>11. CASE Store("irq")
  <2>1. /\ ticks' = ticks /\ enabled' = enabled /\ sent' = sent
        /\ pc["irq"] # "idle" /\ pc'["irq"] # "idle" /\ at'["irq"] = at["irq"] + 1
        /\ at["irq"] \in enabled /\ queued[at["irq"]] < FifoDepth
    BY <1>6, <1>11, Constants
  <2>2. CASE at["irq"] # c
    <3>1. stream'[c] = stream[c] /\ Got(c)' = Got(c)
      BY <1>2, <1>7, <1>11, <2>1, <2>2, Constants DEF Got
    <3>2. Follows(c, i)' = Follows(c, i)
      BY <3>1 DEF Follows
    <3> QED
      BY <1>3, <2>1, <3>1, <3>2
  <2>3. CASE at["irq"] = c
    <3>1. Got(c)' = sent["irq"] /\ Got(c) = sent["irq"] - 1 /\ c \in enabled
      BY <1>2, <2>1, <2>3 DEF Got
    <3>2. /\ Len(stream'[c]) = Len(stream[c]) + 1
          /\ \A k \in 1 .. Len(stream[c]) : stream'[c][k] = stream[c][k]
          /\ stream'[c][Len(stream[c]) + 1] = Character("irq")
      BY <1>8, <1>11, <2>1, <2>3, Constants
    <3>3. /\ Character("irq") \in Chars /\ Character("irq").by = "irq"
          /\ Character("irq").nr = sent["irq"] /\ Character("irq").tick = ticks
      BY <1>1, CharacterType, Constants
    <3>4. CASE i = Len(stream[c]) + 1
      BY <1>2, <2>1, <3>1, <3>2, <3>3, <3>4
    <3>5. CASE i \in 1 .. Len(stream[c])
      <4>1. stream'[c][i] = stream[c][i] /\ stream[c][i].by = "irq"
        BY <3>2, <3>5
      <4>2. ASSUME Follows(c, i) PROVE Follows(c, i)'
        BY <1>9, <1>11, <3>5, <4>2, Constants
      <4>3. CASE stream[c][i].tick # ticks
        BY <1>3, <2>1, <3>5, <4>1, <4>2, <4>3
      <4>4. CASE stream[c][i].tick = ticks
        <5>1. /\ stream[c][i].nr \in Nat /\ stream[c][i].nr <= Got(c)
              /\ stream[c][i].nr < Got(c) => Follows(c, i)
              /\ stream[c][i].nr = Got(c) => i = Len(stream[c])
          BY <1>3, <2>1, <3>5, <4>1, <4>4
        <5>2. Follows(c, i)'
          <6>1. CASE stream[c][i].nr < Got(c)
            BY <4>2, <5>1, <6>1
          <6>2. CASE stream[c][i].nr = Got(c)
            <7>1. i = Len(stream[c]) /\ i < Len(stream'[c]) /\ stream'[c][i + 1] = Character("irq")
              BY <1>2, <3>2, <5>1, <6>2
            <7>2. stream[c][i] \in Chars /\ sent["irq"] = stream[c][i].nr + 1
              BY <1>2, <1>3, <3>1, <3>5, <4>1, <6>2
            <7>3. Character("irq") = [stream[c][i] EXCEPT !.nr = @ + 1]
              BY <3>3, <4>1, <4>4, <7>2 DEF Chars
            <7> QED
              BY <4>1, <7>1, <7>3 DEF Follows
          <6> QED
            BY <1>2, <3>1, <5>1, <6>1, <6>2
        <5>3. stream[c][i].nr < sent["irq"]
          BY <1>2, <3>1, <5>1
        <5> QED
          BY <1>2, <2>1, <3>1, <4>1, <4>4, <5>1, <5>2, <5>3
      <4> QED
        BY <4>3, <4>4
    <3> QED
      BY <1>2, <3>2, <3>4, <3>5
  <2> QED
    BY <2>2, <2>3
<1> QED
  BY <1>4, <1>5, <1>10, <1>11, Constants

-----------------------------------------------------------------------------
(* Flushing.                                                               *)

LEMMA FlushStep ==
    ASSUME ConsoleInv, Next
    PROVE  FlushInv'
<1>1. ConsoleType /\ AtInv /\ LostInv /\ FlushInv
  BY DEF ConsoleInv
<1> SUFFICES ASSUME pc'["main"] = "flush", NEW c \in enabled', c < at'["main"]
             PROVE  OnlyTicksQueued(c)'
  BY DEF FlushInv
<1> USE Constants
<1>2. at["main"] \in Nat
  BY <1>1 DEF ConsoleType
<1>3. ASSUME UNCHANGED <<stream, queued, enabled>>, c \in enabled,
             pc["main"] = "flush", c < at["main"]
      PROVE  OnlyTicksQueued(c)'
  BY <1>1, <1>3 DEF FlushInv, OnlyTicksQueued
<1>4. ASSUME NEW d \in Consoles,
             \/ ConsoleInit(d) \/ ConsoleEnable(d) \/ ConsoleDisable(d)
             \/ ConsolePutc(d) \/ Await(d, "flush_one") \/ Await(d, "getc")
      PROVE  FALSE
  BY <1>1, <1>4 DEF ConsoleType, ConsoleInit, ConsoleEnable, ConsoleDisable, ConsolePutc, Await, At, Goto
<1>5. ~ Putchar /\ ~ AwaitOver
  BY <1>1 DEF ConsoleType, Putchar, AwaitOver, Leave, Goto
<1>6. CASE Tick
  BY <1>1, <1>3, <1>6 DEF ConsoleType, Tick, Goto, table, uart
<1>7. CASE Fflush
  BY <1>1, <1>7 DEF ConsoleType, Fflush, table, Consoles
<1>8. CASE FlushNext
  <2>1. /\ UNCHANGED <<stream, queued, enabled>> /\ pc["main"] = "flush" /\ c \in enabled
        /\ at'["main"] = at["main"] + 1 /\ (at["main"] \in enabled => queued[at["main"]] = 0)
    BY <1>1, <1>8 DEF ConsoleType, FlushNext, At, Leave, Goto, table, uart
  <2>2. CASE c < at["main"]
    BY <1>3, <2>1, <2>2
  <2>3. CASE c = at["main"]
    <3>1. queued'[c] = 0 /\ stream'[c] = stream[c] /\ c \in Consoles
      BY <1>1, <2>1, <2>3 DEF ConsoleType
    <3>2. Len(stream[c]) \in Nat /\ DOMAIN stream[c] = 1 .. Len(stream[c])
      BY <1>1, <3>1 DEF ConsoleType
    <3> QED
      BY <3>1, <3>2 DEF OnlyTicksQueued
  <2>4. c \in Nat
    BY <1>1, <2>1 DEF ConsoleType
  <2> QED
    BY <1>2, <2>1, <2>2, <2>3, <2>4
<1>9. ASSUME NEW d \in Consoles, Transmit(d) PROVE OnlyTicksQueued(c)'
  <2>1. /\ stream' = stream /\ c \in enabled /\ c \in Consoles /\ OnlyTicksQueued(c)
        /\ queued[c] \in Nat /\ queued'[c] \in Nat /\ queued'[c] <= queued[c]
    BY <1>1, <1>9 DEF ConsoleType, Transmit, table, FlushInv
  <2>2. Len(stream[c]) \in Nat /\ DOMAIN stream[c] = 1 .. Len(stream[c])
    BY <1>1, <2>1 DEF ConsoleType
  <2> QED
    BY <2>1, <2>2 DEF OnlyTicksQueued
<1>10. ASSUME SkipDisabled("main") \/ Poll("main") \/ Store("main") \/ PutcDone("main") PROVE FALSE
  <2>1. ~ Store("main")
    BY <1>1, StoreEffect DEF ConsoleType
  <2> QED
    BY <1>1, <1>10, <2>1 DEF ConsoleType, SkipDisabled, Poll, PutcDone, At, Leave, Goto
<1>11. CASE SkipDisabled("irq")
  BY <1>1, <1>3, <1>11 DEF ConsoleType, SkipDisabled, table, uart
<1>12. CASE Poll("irq")
  BY <1>1, <1>3, <1>12 DEF ConsoleType, Poll, Goto, table, uart
<1>13. CASE PutcDone("irq")
  BY <1>1, <1>3, <1>13 DEF ConsoleType, PutcDone, Leave, Goto, table, uart
<1>14. CASE Store("irq")
  <2>1. /\ at["irq"] \in Consoles /\ enabled' = enabled /\ pc["irq"] = "store"
        /\ pc' = [pc EXCEPT !["irq"] = "putc"] /\ at' = [at EXCEPT !["irq"] = @ + 1]
        /\ queued[at["irq"]] < FifoDepth
    BY <1>1, <1>14, StoreEffect DEF LostInv
  <2>2. queued' = [queued EXCEPT ![at["irq"]] = @ + 1]
    BY <1>14, <2>1, StoreEffect
  <2>3. /\ c \in Consoles /\ OnlyTicksQueued(c) /\ queued \in [Consoles -> Nat]
        /\ stream \in [Consoles -> Seq(Chars)] /\ stream' \in [Consoles -> Seq(Chars)]
    BY <1>1, <2>1, TypeStep DEF ConsoleType, FlushInv
  <2>4. CASE c = at["irq"]
    <3>1. /\ Len(stream[c]) \in Nat /\ Len(stream'[c]) = Len(stream[c]) + 1
          /\ \A i \in 1 .. Len(stream[c]) : stream'[c][i] = stream[c][i]
          /\ stream'[c][Len(stream[c]) + 1] = Character("irq")
      BY <1>14, <2>1, <2>3, <2>4, Appended
    <3>2. Character("irq").by = "irq"
      BY <1>1, CharacterType
    <3>3. queued'[c] = queued[c] + 1 /\ queued[c] \in Nat
      BY <2>2, <2>3, <2>4
    <3>4. DOMAIN stream[c] = 1 .. Len(stream[c]) /\ DOMAIN stream'[c] = 1 .. Len(stream'[c])
      BY <2>3
    <3> QED
      BY <2>3, <3>1, <3>2, <3>3, <3>4 DEF OnlyTicksQueued
  <2>5. CASE c # at["irq"]
    <3>1. stream'[c] = stream[c] /\ queued'[c] = queued[c]
      BY <1>14, <2>1, <2>2, <2>3, <2>5, Appended
    <3> QED
      BY <2>3, <3>1 DEF OnlyTicksQueued
  <2> QED
    BY <2>4, <2>5
<1>15. ASSUME NEW a \in Actors, Printing(a) PROVE OnlyTicksQueued(c)'
  BY <1>10, <1>11, <1>12, <1>13, <1>14, <1>15 DEF Printing
<1> QED
  BY <1>1, <1>4, <1>5, <1>6, <1>7, <1>8, <1>9, <1>15 DEF Next, ConsoleType

-----------------------------------------------------------------------------
(* The invariant and what it says.                                         *)

LEMMA ConsoleStart == Init => ConsoleInv
<1> SUFFICES ASSUME Init PROVE ConsoleInv
  OBVIOUS
<1>1. ConsoleType
  BY Constants DEF Init, ConsoleType
<1>2. pc["main"] = "idle" /\ pc["irq"] = "idle" /\ \A a \in Actors : pc[a] = "idle"
  BY Constants DEF Init
<1>3. AtInv /\ FlushInv
  BY <1>2 DEF AtInv, FlushInv
<1>4. LostInv
  BY <1>2, FS_EmptySet DEF Init, LostInv, Storing
<1>5. \A c \in Consoles : Len(stream[c]) = 0
  BY DEF Init
<1>6. MainBounded /\ MainOrdered /\ IrqTogether
  BY <1>5 DEF MainBounded, MainOrdered, IrqTogether
<1> QED
  BY <1>1, <1>3, <1>4, <1>6 DEF ConsoleInv

LEMMA ConsoleNext == ConsoleInv /\ [Next]_vars => ConsoleInv'
<1> SUFFICES ASSUME ConsoleInv, [Next]_vars PROVE ConsoleInv'
  OBVIOUS
<1>1. CASE Next
  BY <1>1, TypeStep, AtStep, LostStep, MainBoundedStep, MainOrderedStep, IrqTogetherStep, FlushStep
     DEF ConsoleInv
<1>2. CASE UNCHANGED vars
  <2>1. UNCHANGED <<inited, enabled, stream, queued, lost, pc, at, sent, ticks>>
    BY <1>2 DEF vars, table, uart
  <2>2. ConsoleType' /\ AtInv' /\ LostInv' /\ FlushInv'
    BY <2>1 DEF ConsoleInv, ConsoleType, AtInv, LostInv, Storing, FlushInv, OnlyTicksQueued
  <2>3. MainBounded' /\ MainOrdered' /\ IrqTogether'
    BY <2>1 DEF ConsoleInv, MainBounded, MainOrdered, IrqTogether, Pending, Got, Follows
  <2> QED
    BY <2>2, <2>3 DEF ConsoleInv
<1> QED
  BY <1>1, <1>2

(* The console's inductive invariant.                                      *)
THEOREM ConsoleInvariant == Spec => []ConsoleInv
<1>1. Init => ConsoleInv
  BY ConsoleStart
<1>2. ConsoleInv /\ [Next]_vars => ConsoleInv'
  BY ConsoleNext
<1> QED
  BY <1>1, <1>2, PTL DEF Spec

(* Between its look at the FIFO and its store pl011_putchar can lose only  *)
(* a character of the main program, at most one for every tick.            *)
THEOREM LossesBounded == Spec => []LostOnlyToTicks
<1>1. ConsoleInv => LostOnlyToTicks
  BY DEF ConsoleInv, LostInv, LostOnlyToTicks
<1> QED
  BY <1>1, ConsoleInvariant, PTL

(* Callbacks' characters stand together and the main program's are in      *)
(* order, on every console, wherever the ticks fall.                       *)
THEOREM OutputOrdered == Spec => []OutputInOrder
<1>1. ASSUME ConsoleInv PROVE OutputInOrder
  <2> SUFFICES ASSUME NEW c \in Consoles, NEW i \in DOMAIN stream[c], NEW j \in DOMAIN stream[c]
               PROVE  /\ stream[c][i].by = "main" /\ stream[c][j].by = "main" /\ i < j =>
                            stream[c][i].nr < stream[c][j].nr
                      /\ stream[c][i].by = "irq" /\ stream[c][i].nr < IrqLength =>
                            \/ pc["irq"] # "idle" /\ stream[c][i].tick = ticks
                            \/ Follows(c, i)
    BY DEF OutputInOrder, Follows
  <2>1. MainOrdered /\ IrqTogether /\ DOMAIN stream[c] = 1 .. Len(stream[c])
    BY <1>1 DEF ConsoleInv, ConsoleType
  <2> QED
    BY <2>1 DEF MainOrdered, IrqTogether
<1> QED
  BY <1>1, ConsoleInvariant, PTL

(* When fflush or console_flush returns, nothing the main program printed  *)
(* before is still in the FIFO of a console it covers.                     *)
THEOREM FlushSends == Spec => FlushMeansSent
<1> DEFINE A == pc'["main"] = "idle" =>
                   /\ pc["main"] = "flush" => \A c \in enabled : OnlyTicksQueued(c)
                   /\ pc["main"] = "flush_one" => OnlyTicksQueued(at["main"])
<1>1. ASSUME ConsoleInv, [Next]_vars PROVE [A]_vars
  <2>1. SUFFICES ASSUME Next, pc'["main"] = "idle", pc["main"] \in {"flush", "flush_one"}
                 PROVE  /\ pc["main"] = "flush" => \A c \in enabled : OnlyTicksQueued(c)
                        /\ pc["main"] = "flush_one" => OnlyTicksQueued(at["main"])
    BY <1>1
  <2>2. ConsoleType /\ AtInv /\ FlushInv
    BY <1>1 DEF ConsoleInv
  <2> USE Constants
  <2>3. ASSUME NEW c \in Consoles, queued[c] = 0 PROVE OnlyTicksQueued(c)
    <3>1. Len(stream[c]) \in Nat /\ DOMAIN stream[c] = 1 .. Len(stream[c])
      BY <2>2 DEF ConsoleType
    <3> QED
      BY <2>3, <3>1 DEF OnlyTicksQueued
  <2>4. ASSUME NEW d \in Consoles,
               \/ ConsoleInit(d) \/ ConsoleEnable(d) \/ ConsoleDisable(d)
               \/ ConsolePutc(d) \/ Await(d, "flush_one") \/ Await(d, "getc") \/ Transmit(d)
        PROVE  FALSE
    BY <2>1, <2>4 DEF ConsoleInit, ConsoleEnable, ConsoleDisable, ConsolePutc, Await, Transmit, At
  <2>5. ~ Putchar /\ ~ Tick /\ ~ Fflush
    BY <2>1, <2>2 DEF ConsoleType, Putchar, Tick, Fflush, At, Goto
  <2>6. ASSUME NEW a \in Actors, Printing(a) PROVE FALSE
    <3>1. ~ Store(a)
      BY <1>1, <2>1, <2>2, StoreEffect DEF ConsoleType
    <3>2. ~ SkipDisabled(a) /\ ~ Poll(a) /\ ~ PutcDone(a)
      BY <2>1, <2>2 DEF ConsoleType, SkipDisabled, Poll, PutcDone, At, Leave, Goto
    <3> QED
      BY <2>6, <3>1, <3>2 DEF Printing
  <2>7. CASE FlushNext
    <3>1. /\ pc["main"] = "flush" /\ at["main"] = NrConsoles
          /\ at["main"] \in enabled => queued[at["main"]] = 0
      BY <2>1, <2>2, <2>7 DEF ConsoleType, FlushNext, At
    <3>2. ASSUME NEW c \in enabled PROVE OnlyTicksQueued(c)
      <4>1. c \in Consoles /\ c \in Nat /\ c <= NrConsoles
        BY <2>2 DEF ConsoleType, Consoles
      <4>2. CASE c = NrConsoles
        BY <2>3, <3>1, <4>1, <4>2
      <4>3. CASE c < NrConsoles
        BY <2>2, <3>1, <4>3 DEF FlushInv
      <4> QED
        BY <4>1, <4>2, <4>3
    <3> QED
      BY <3>1, <3>2
  <2>8. CASE AwaitOver
    <3>1. pc["main"] = "flush_one" /\ queued[at["main"]] = 0 /\ at["main"] \in Consoles
      BY <2>1, <2>2, <2>8 DEF AwaitOver, At, AtInv
    <3> QED
      BY <2>3, <3>1
  <2> QED
    BY <2>1, <2>2, <2>4, <2>5, <2>6, <2>7, <2>8 DEF Next, ConsoleType
<1>2. FlushMeansSent <=> [][A]_vars
  BY DEF FlushMeansSent
<1> HIDE DEF A
<1> QED
  BY <1>1, <1>2, ConsoleInvariant, PTL DEF Spec

(***************************************************************************)
(* 2. run_once.                                                            *)
(***************************************************************************)

(* The inductive invariant: the lock is held exactly inside the critical   *)
(* section, and flag and data agree with completed up to what is still     *)
(* buffered.                                                               *)

InOnce(c) == oncePc[c] \in {"read2", "func", "set", "unlock"}

LockHeld ==
    /\ \A c \in Cpus : InOnce(c) <=> c \in inside
    /\ \A c, d \in inside : c = d
    /\ inside # {} => queue # <<>>

(* Nothing is buffered when the lock is free, nor in the critical section  *)
(* before func has returned.                                               *)
BufferOwned ==
    /\ inside = {} => buffered = {}
    /\ \A c \in Cpus : oncePc[c] \in {"read2", "func"} => buffered = {}

(* Before func has succeeded nothing is set; after it, its effects and the *)
(* flag are in memory or on their way.                                     *)
NotYet == flag = 0 /\ data = FALSE /\ buffered = {}

Done ==
    /\ data = TRUE \/ "data" \in buffered
    /\ flag = 1 \/ "flag" \in buffered \/ \E c \in Cpus : oncePc[c] = "set"

FlagFollows ==
    /\ completed \in {0, 1}
    /\ completed = 0 => NotYet
    /\ completed = 1 => Done

(* func is entered only if it has not succeeded; what follows its success  *)
(* and an unlock with ret = 0 come after it.                               *)
PlaceKnows ==
    \A c \in Cpus :
        /\ oncePc[c] = "func" => completed = 0
        /\ oncePc[c] = "set" => completed = 1
        /\ oncePc[c] = "unlock" /\ ret[c] = 0 => completed = 1

RunOnceInv ==
    /\ OnceTypeOK /\ LockHeld /\ BufferOwned /\ FlagFollows /\ PlaceKnows
    /\ ZeroMeansDone /\ LockedCallerSeesInit

-----------------------------------------------------------------------------
LEMMA RunOnceInit == OnceInit => RunOnceInv
<1> SUFFICES ASSUME OnceInit PROVE RunOnceInv
    OBVIOUS
<1> USE DEF OnceInit, Lock!Init
<1>1. OnceTypeOK
  <2>1. queue \in Seq(Cpus) /\ inside \subseteq Cpus
    OBVIOUS
  <2>2. flag \in {0, 1} /\ completed \in Nat /\ ret \in [Cpus -> {-1, 0}]
    OBVIOUS
  <2>3. data \in BOOLEAN /\ buffered \subseteq {"data", "flag"}
    OBVIOUS
  <2> QED
    BY <2>1, <2>2, <2>3 DEF OnceTypeOK
<1>2. LockHeld /\ BufferOwned /\ PlaceKnows
  BY DEF LockHeld, InOnce, BufferOwned, PlaceKnows
<1>3. FlagFollows
  BY DEF FlagFollows, NotYet
<1>4. ZeroMeansDone /\ LockedCallerSeesInit
  BY DEF ZeroMeansDone, LockedCallerSeesInit
<1> QED
  BY <1>1, <1>2, <1>3, <1>4 DEF RunOnceInv

LEMMA OnceTypeNext == RunOnceInv /\ [OnceNext]_onceVars => OnceTypeOK'
<1> SUFFICES ASSUME RunOnceInv, [OnceNext]_onceVars PROVE OnceTypeOK'
    OBVIOUS
<1>0. OnceTypeOK
  BY DEF RunOnceInv
<1> USE <1>0 DEF OnceTypeOK, Move
<1>1. ASSUME NEW c \in Cpus, Call(c) PROVE OnceTypeOK'
  BY <1>1 DEF Call
<1>2. ASSUME NEW c \in Cpus, FirstRead(c) \/ SecondRead(c) PROVE OnceTypeOK'
  BY <1>2 DEF FirstRead, SecondRead
<1>3. ASSUME NEW c \in Cpus, SpinLock(c) PROVE OnceTypeOK'
  <2>0. <<c>> \in Seq(Cpus) /\ Append(queue, c) \in Seq(Cpus)
    OBVIOUS
  <2>1. queue' \in Seq(Cpus)
    BY <1>3, <2>0 DEF SpinLock, Lock!Acquire, Lock!Enqueue, Lock!Enter
  <2>2. inside' \subseteq Cpus
    BY <1>3 DEF SpinLock, Lock!Acquire, Lock!Enqueue, Lock!Enter
  <2> QED
    BY <1>3, <2>1, <2>2 DEF SpinLock
<1>4. ASSUME NEW c \in Cpus, FuncOk(c) \/ SetFlag(c) PROVE OnceTypeOK'
  <2>1. buffered' \subseteq {"data", "flag"}
    BY <1>4 DEF FuncOk, SetFlag
  <2>2. completed' \in Nat
    BY <1>4 DEF FuncOk, SetFlag
  <2> QED
    BY <1>4, <2>1, <2>2 DEF FuncOk, SetFlag
<1>5. ASSUME NEW c \in Cpus, FuncFail(c) PROVE OnceTypeOK'
  BY <1>5 DEF FuncFail
<1>6. ASSUME NEW c \in Cpus, SpinUnlock(c) PROVE OnceTypeOK'
  <2>1. queue # <<>>
    BY <1>6 DEF SpinUnlock, Lock!Release, RunOnceInv, LockHeld
  <2> QED
    BY <1>6, <2>1 DEF SpinUnlock, Lock!Release
<1>7. ASSUME NEW x \in {"data", "flag"}, Drain(x) PROVE OnceTypeOK'
  BY <1>7 DEF Drain
<1>8. CASE UNCHANGED onceVars
  BY <1>8 DEF onceVars
<1> QED
  BY <1>1, <1>2, <1>3, <1>4, <1>5, <1>6, <1>7, <1>8 DEF OnceNext, OnceStep, DrainAny

(* A CPU enters the critical section only when nobody is in it.            *)
LEMMA LockNext == RunOnceInv /\ [OnceNext]_onceVars => LockHeld'
<1> SUFFICES ASSUME RunOnceInv, [OnceNext]_onceVars PROVE LockHeld'
    OBVIOUS
<1>0. OnceTypeOK /\ LockHeld
  BY DEF RunOnceInv
<1> USE <1>0 DEF LockHeld, InOnce, OnceTypeOK, Move
<1>1. ASSUME NEW c \in Cpus, Call(c) \/ FirstRead(c) \/ SecondRead(c) PROVE LockHeld'
  BY <1>1 DEF Call, FirstRead, SecondRead
<1>2. ASSUME NEW c \in Cpus, SpinLock(c) PROVE LockHeld'
  <2>1. CASE Lock!Acquire(c)
    BY <1>2, <2>1 DEF SpinLock, Lock!Acquire, Lock!Enqueue, Lock!Enter
  <2>2. CASE Lock!Enqueue(c)
    BY <1>2, <2>2 DEF SpinLock, Lock!Acquire, Lock!Enqueue, Lock!Enter
  <2>3. CASE Lock!Enter(c)
    BY <1>2, <2>3 DEF SpinLock, Lock!Acquire, Lock!Enqueue, Lock!Enter
  <2> QED
    BY <1>2, <2>1, <2>2, <2>3 DEF SpinLock
<1>3. ASSUME NEW c \in Cpus, FuncOk(c) \/ FuncFail(c) \/ SetFlag(c) PROVE LockHeld'
  BY <1>3 DEF FuncOk, FuncFail, SetFlag
<1>4. ASSUME NEW c \in Cpus, SpinUnlock(c) PROVE LockHeld'
  BY <1>4 DEF SpinUnlock, Lock!Release
<1>5. ASSUME NEW x \in {"data", "flag"}, Drain(x) PROVE LockHeld'
  BY <1>5 DEF Drain
<1>6. CASE UNCHANGED onceVars
  BY <1>6 DEF onceVars
<1> QED
  BY <1>1, <1>2, <1>3, <1>4, <1>5, <1>6 DEF OnceNext, OnceStep, DrainAny

LEMMA Alone ==
    ASSUME LockHeld, NEW c \in Cpus, NEW d \in Cpus, InOnce(c), InOnce(d)
    PROVE  c = d
BY DEF LockHeld

(* The second read decides correctly: with the lock held and nothing       *)
(* buffered, flag is set exactly if func has succeeded.                    *)
LEMMA SecondReadExact ==
    ASSUME RunOnceInv, NEW c \in Cpus, oncePc[c] = "read2"
    PROVE  flag = 0 <=> completed = 0
<1>1. buffered = {}
  BY DEF RunOnceInv, BufferOwned
<1>2. ~ \E d \in Cpus : oncePc[d] = "set"
  BY Alone DEF RunOnceInv, InOnce
<1> QED
  BY <1>1, <1>2 DEF RunOnceInv, FlagFollows, NotYet, Done

LEMMA FlagNext ==
    RunOnceInv /\ [OnceNext]_onceVars => (BufferOwned /\ FlagFollows /\ PlaceKnows)'
<1> DEFINE Goal == BufferOwned /\ FlagFollows /\ PlaceKnows
<1> SUFFICES ASSUME RunOnceInv, [OnceNext]_onceVars PROVE Goal'
    OBVIOUS
<1>0. OnceTypeOK /\ LockHeld /\ Goal
  BY DEF RunOnceInv
<1> USE DEF OnceTypeOK, Move
<1>1. ASSUME NEW c \in Cpus, Call(c) \/ FirstRead(c) PROVE Goal'
  BY <1>0, <1>1 DEF Call, FirstRead, BufferOwned, FlagFollows, NotYet, Done, PlaceKnows
<1>2. ASSUME NEW c \in Cpus, SpinLock(c) PROVE Goal'
  <2>1. CASE Lock!Enqueue(c)
    BY <1>0, <1>2, <2>1 DEF SpinLock, Lock!Acquire, Lock!Enqueue, Lock!Enter,
       BufferOwned, FlagFollows, NotYet, Done, PlaceKnows
  <2>2. CASE Lock!Acquire(c) \/ Lock!Enter(c)
    <3>1. inside = {} /\ buffered = {}
      BY <1>0, <2>2 DEF Lock!Acquire, Lock!Enter, LockHeld, BufferOwned
    <3> QED
      BY <1>0, <1>2, <2>2, <3>1 DEF SpinLock, Lock!Acquire, Lock!Enqueue, Lock!Enter,
         BufferOwned, FlagFollows, NotYet, Done, PlaceKnows
  <2> QED
    BY <1>2, <2>1, <2>2 DEF SpinLock
<1>3. ASSUME NEW c \in Cpus, SecondRead(c) PROVE Goal'
  <2>1. flag = 0 <=> completed = 0
    BY <1>3, SecondReadExact DEF SecondRead
  <2> QED
    BY <1>0, <1>3, <2>1
       DEF SecondRead, BufferOwned, FlagFollows, NotYet, Done, PlaceKnows
<1>4. ASSUME NEW c \in Cpus, FuncOk(c) PROVE Goal'
  <2>1. completed = 0
    BY <1>0, <1>4 DEF FuncOk, PlaceKnows
  <2>2. \A d \in Cpus : d # c => oncePc[d] \notin {"read2", "func", "set", "unlock"}
    BY <1>0, <1>4, Alone DEF FuncOk, InOnce
  <2>3. c \in inside
    BY <1>0, <1>4 DEF FuncOk, LockHeld, InOnce
  <2>4. BufferOwned'
    BY <1>0, <1>4, <2>2, <2>3 DEF FuncOk, BufferOwned
  <2>5. FlagFollows'
    BY <1>0, <1>4, <2>1 DEF FuncOk, FlagFollows, NotYet, Done
  <2>6. PlaceKnows'
    BY <1>0, <1>4, <2>1, <2>2 DEF FuncOk, PlaceKnows
  <2> QED
    BY <2>4, <2>5, <2>6
<1>5. ASSUME NEW c \in Cpus, FuncFail(c) PROVE Goal'
  BY <1>0, <1>5 DEF FuncFail, BufferOwned, FlagFollows, NotYet, Done, PlaceKnows
<1>6. ASSUME NEW c \in Cpus, SetFlag(c) PROVE Goal'
  <2>1. completed = 1
    BY <1>0, <1>6 DEF SetFlag, PlaceKnows
  <2>2. \A d \in Cpus : d # c => oncePc[d] \notin {"read2", "func", "set", "unlock"}
    BY <1>0, <1>6, Alone DEF SetFlag, InOnce
  <2>3. c \in inside
    BY <1>0, <1>6 DEF SetFlag, LockHeld, InOnce
  <2>4. BufferOwned'
    BY <1>0, <1>6, <2>2, <2>3 DEF SetFlag, BufferOwned
  <2>5. FlagFollows'
    BY <1>0, <1>6, <2>1 DEF SetFlag, FlagFollows, NotYet, Done
  <2>6. PlaceKnows'
    BY <1>0, <1>6, <2>1, <2>2 DEF SetFlag, PlaceKnows
  <2> QED
    BY <2>4, <2>5, <2>6
<1>7. ASSUME NEW c \in Cpus, SpinUnlock(c) PROVE Goal'
  BY <1>0, <1>7 DEF SpinUnlock, Lock!Release, BufferOwned, FlagFollows, NotYet,
     Done, PlaceKnows
<1>8. ASSUME NEW x \in {"data", "flag"}, Drain(x) PROVE Goal'
  <2>1. completed = 1
    BY <1>0, <1>8 DEF Drain, FlagFollows, NotYet
  <2> QED
    BY <1>0, <1>8, <2>1 DEF Drain, BufferOwned, FlagFollows, NotYet, Done, PlaceKnows
<1>9. CASE UNCHANGED onceVars
  BY <1>0, <1>9 DEF onceVars, BufferOwned, FlagFollows, NotYet, Done, PlaceKnows
<1> QED
  BY <1>1, <1>2, <1>3, <1>4, <1>5, <1>6, <1>7, <1>8, <1>9 DEF OnceNext, OnceStep, DrainAny

LEMMA AnswerNext ==
    RunOnceInv /\ [OnceNext]_onceVars => (ZeroMeansDone /\ LockedCallerSeesInit)'
<1> DEFINE Goal == ZeroMeansDone /\ LockedCallerSeesInit
<1> SUFFICES ASSUME RunOnceInv, [OnceNext]_onceVars PROVE Goal'
    OBVIOUS
<1>0. OnceTypeOK /\ FlagFollows /\ PlaceKnows /\ Goal
  BY DEF RunOnceInv
<1> USE DEF OnceTypeOK, Move
<1>1. ASSUME NEW c \in Cpus, Call(c) PROVE Goal'
  BY <1>0, <1>1 DEF Call, ZeroMeansDone, LockedCallerSeesInit
<1>2. ASSUME NEW c \in Cpus, FirstRead(c) PROVE Goal'
  <2>1. flag # 0 => completed = 1
    BY <1>0 DEF FlagFollows, NotYet
  <2> QED
    BY <1>0, <1>2, <2>1 DEF FirstRead, ZeroMeansDone, LockedCallerSeesInit
<1>3. ASSUME NEW c \in Cpus, SpinLock(c) \/ SecondRead(c) PROVE Goal'
  BY <1>0, <1>3 DEF SpinLock, SecondRead, ZeroMeansDone, LockedCallerSeesInit
<1>4. ASSUME NEW c \in Cpus, FuncOk(c) PROVE Goal'
  <2>1. completed = 0
    BY <1>0, <1>4 DEF FuncOk, PlaceKnows
  <2> QED
    BY <1>0, <1>4, <2>1 DEF FuncOk, ZeroMeansDone, LockedCallerSeesInit
<1>5. ASSUME NEW c \in Cpus, FuncFail(c) \/ SetFlag(c) PROVE Goal'
  BY <1>0, <1>5 DEF FuncFail, SetFlag, ZeroMeansDone, LockedCallerSeesInit
<1>6. ASSUME NEW c \in Cpus, SpinUnlock(c) PROVE Goal'
  <2>1. ret[c] = 0 => completed = 1 /\ data
    BY <1>0, <1>6 DEF SpinUnlock, PlaceKnows, FlagFollows, Done
  <2> QED
    BY <1>0, <1>6, <2>1 DEF SpinUnlock, ZeroMeansDone, LockedCallerSeesInit
<1>7. ASSUME NEW x \in {"data", "flag"}, Drain(x) PROVE Goal'
  BY <1>0, <1>7 DEF Drain, ZeroMeansDone, LockedCallerSeesInit
<1>8. CASE UNCHANGED onceVars
  BY <1>0, <1>8 DEF onceVars, ZeroMeansDone, LockedCallerSeesInit
<1> QED
  BY <1>1, <1>2, <1>3, <1>4, <1>5, <1>6, <1>7, <1>8 DEF OnceNext, OnceStep, DrainAny

LEMMA RunOnceNext == RunOnceInv /\ [OnceNext]_onceVars => RunOnceInv'
BY OnceTypeNext, LockNext, FlagNext, AnswerNext DEF RunOnceInv

LEMMA RunOnceInvariance == OnceSpec => []RunOnceInv
BY RunOnceInit, RunOnceNext, PTL DEF OnceSpec

-----------------------------------------------------------------------------
(* The state of run_once and of its lock stays typed.                      *)
THEOREM RunOnceTypeCorrect == OnceSpec => []OnceTypeOK
BY RunOnceInvariance, PTL DEF RunOnceInv

(* However many CPUs race through the unlocked read, func runs on one at a *)
(* time and never again once it has succeeded.                             *)
THEOREM RunsOnce == OnceSpec => []OnceOnly
<1>1. RunOnceInv => OnceOnly
  <2> SUFFICES ASSUME RunOnceInv PROVE OnceOnly
      OBVIOUS
  <2>1. completed <= 1
    BY DEF RunOnceInv, FlagFollows
  <2>2. \A c, d \in Cpus : oncePc[c] = "func" /\ oncePc[d] = "func" => c = d
    BY Alone DEF RunOnceInv, InOnce
  <2> QED
    BY <2>1, <2>2 DEF RunOnceInv, PlaceKnows, OnceOnly
<1> QED
  BY <1>1, RunOnceInvariance, PTL

(* A caller told 0 - on the fast or on the locked path - was told so after *)
(* func had succeeded.                                                     *)
THEOREM ZeroIsHonest == OnceSpec => []ZeroMeansDone
BY RunOnceInvariance, PTL DEF RunOnceInv

(* The store-release of the unlock makes func's effects visible to every   *)
(* caller that went through the lock and got 0.                            *)
THEOREM LockedCallersSynchronised == OnceSpec => []LockedCallerSeesInit
BY RunOnceInvariance, PTL DEF RunOnceInv

(***************************************************************************)
(* 3. The string functions.                                                *)
(***************************************************************************)

(* Loops.  A set of numbers has a least one...                             *)
LEMMA LeastNumber ==
    ASSUME NEW T, T \subseteq Nat, T # {}
    PROVE  \E x \in T : \A y \in T : x <= y
<1> DEFINE R == OpToRel(<, Nat)
<1>1. IsWellFoundedOn(R, Nat)
  BY NatLessThanWellFounded
<1>2. \A x, y \in Nat : <<y, x>> \in R <=> y < x
  BY DEF OpToRel
<1> HIDE DEF R
<1>3. PICK x \in T : \A y \in T : ~ (<<y, x>> \in R)
  BY <1>1, WFMin
<1>4. ASSUME NEW y \in T PROVE x <= y
  <2>1. ~ (<<y, x>> \in R) /\ x \in Nat /\ y \in Nat
    BY <1>3
  <2> QED
    BY <1>2, <2>1
<1> QED
  BY <1>4

(* ...so a loop over 0 .. n that follows a closed form at each step follows *)
(* it to the end...                                                        *)
LEMMA LoopFollows ==
    ASSUME NEW n \in Nat, NEW f, NEW g, f[0] = g[0],
           \A k \in 1 .. n : f[k - 1] = g[k - 1] => f[k] = g[k]
    PROVE  \A k \in 0 .. n : f[k] = g[k]
<1> DEFINE Bad == {k \in 0 .. n : f[k] # g[k]}
<1> SUFFICES ASSUME Bad # {} PROVE FALSE
  OBVIOUS
<1>1. PICK x \in Bad : \A y \in Bad : x <= y
  <2>1. Bad \subseteq Nat
    OBVIOUS
  <2> HIDE DEF Bad
  <2> QED
    BY <2>1, LeastNumber
<1>2. x \in 1 .. n /\ x - 1 \in 0 .. n /\ ~ (x <= x - 1)
  BY <1>1
<1>3. f[x - 1] = g[x - 1]
  BY <1>1, <1>2
<1> QED
  BY <1>1, <1>2, <1>3

(* ...and a scan from lo to hi that stops at the members of P has a first  *)
(* stop.                                                                   *)
Stops(P, k, j) == k <= j /\ j \in P /\ \A i \in k .. (j - 1) : i \notin P

LEMMA FirstStop ==
    ASSUME NEW P, NEW hi \in Nat, hi \in P, NEW k \in 0 .. hi
    PROVE  \E j \in k .. hi : Stops(P, k, j)
<1> DEFINE T == {j \in k .. hi : j \in P}
<1>1. PICK j \in T : \A y \in T : j <= y
  <2>1. hi \in T /\ T \subseteq Nat
    OBVIOUS
  <2> QED
    BY <2>1, LeastNumber
<1>2. j \in k .. hi /\ j \in P
  BY <1>1
<1>3. ASSUME NEW i \in k .. (j - 1), i \in P PROVE FALSE
  <2>1. i \in T /\ ~ (j <= i)
    BY <1>2, <1>3
  <2> QED
    BY <1>1, <2>1
<1> QED
  BY <1>2, <1>3 DEF Stops

LEMMA StopUnique ==
    ASSUME NEW P, NEW k \in Nat, NEW i \in Nat, NEW j \in Nat, Stops(P, k, i), Stops(P, k, j)
    PROVE  i = j
BY DEF Stops

Scans(f, lo, hi, P, V) ==
    f = [k \in lo .. hi |-> IF k \in P THEN V[k] ELSE f[k + 1]]

LEMMA ScanExists ==
    ASSUME NEW P, NEW V, NEW hi \in Nat, hi \in P, NEW lo \in 0 .. hi
    PROVE  \E f : Scans(f, lo, hi, P, V)
<1> DEFINE stop(k) == CHOOSE j \in k .. hi : Stops(P, k, j)
           f == [k \in lo .. hi |-> V[stop(k)]]
<1>1. ASSUME NEW k \in lo .. hi PROVE stop(k) \in k .. hi /\ Stops(P, k, stop(k))
  <2>1. \E j \in k .. hi : Stops(P, k, j)
    BY FirstStop
  <2> QED
    BY <2>1
<1> HIDE DEF stop
<1>2. ASSUME NEW k \in lo .. hi, k \in P PROVE f[k] = V[k]
  <2>1. stop(k) = k
    BY <1>1, <1>2 DEF Stops
  <2> QED
    BY <2>1
<1>3. ASSUME NEW k \in lo .. hi, k \notin P PROVE k + 1 \in lo .. hi /\ f[k] = f[k + 1]
  <2>1. k + 1 \in lo .. hi
    BY <1>3
  <2>2. stop(k) \in Nat /\ stop(k + 1) \in Nat /\ Stops(P, k, stop(k))
    BY <1>1, <2>1
  <2>3. Stops(P, k, stop(k + 1))
    BY <1>1, <1>3, <2>1 DEF Stops
  <2>4. stop(k) = stop(k + 1)
    BY <2>2, <2>3, StopUnique
  <2> QED
    BY <2>1, <2>4
<1>4. f = [k \in lo .. hi |-> IF k \in P THEN V[k] ELSE f[k + 1]]
  <2>1. \A k \in lo .. hi : f[k] = IF k \in P THEN V[k] ELSE f[k + 1]
    BY <1>2, <1>3
  <2>2. f = [k \in lo .. hi |-> f[k]]
    OBVIOUS
  <2> HIDE DEF f
  <2> QED
    BY <2>1, <2>2
<1> QED
  BY <1>4 DEF Scans

LEMMA ScanValue ==
    ASSUME NEW P, NEW V, NEW hi \in Nat, NEW lo \in 0 .. hi, NEW f, Scans(f, lo, hi, P, V),
           NEW j \in lo .. hi, Stops(P, lo, j)
    PROVE  f[lo] = V[j]
<1> DEFINE g == [d \in 0 .. (j - lo) |-> f[j - d]]
           h == [d \in 0 .. (j - lo) |-> V[j]]
<1>1. \A k \in lo .. hi : f[k] = IF k \in P THEN V[k] ELSE f[k + 1]
  BY DEF Scans
<1>2. g[0] = h[0]
  BY <1>1 DEF Stops
<1>3. ASSUME NEW d \in 1 .. (j - lo), g[d - 1] = h[d - 1] PROVE g[d] = h[d]
  <2>1. j - d \in lo .. hi /\ j - d \in lo .. (j - 1) /\ (j - d) + 1 = j - (d - 1)
    OBVIOUS
  <2>2. f[j - d] = f[j - (d - 1)]
    BY <1>1, <2>1 DEF Stops
  <2> QED
    BY <1>3, <2>2
<1>4. \A d \in 0 .. (j - lo) : g[d] = h[d]
  <2> DEFINE n == j - lo
  <2>1. n \in Nat
    OBVIOUS
  <2> HIDE DEF g, h
  <2>2. \A d \in 1 .. n : g[d - 1] = h[d - 1] => g[d] = h[d]
    BY <1>3
  <2> HIDE DEF n
  <2>3. \A d \in 0 .. n : g[d] = h[d]
    BY <1>2, <2>1, <2>2, LoopFollows
  <2> QED
    BY <2>3 DEF n
<1>5. g[j - lo] = f[lo] /\ h[j - lo] = V[j] /\ j - lo \in 0 .. (j - lo)
  OBVIOUS
<1> QED
  BY <1>4, <1>5

-----------------------------------------------------------------------------
(* Strings.                                                                *)

(* The string at a has l bytes before its terminator.                      *)
Ends(m, a, l) ==
    l \in Nat /\ a + l \in Addr /\ m[a + l] = 0 /\ \A j \in 0 .. (l - 1) : m[a + j] # 0

LEMMA StringEnds ==
    ASSUME NEW m, NEW a \in Addr, IsString(m, a)
    PROVE  \E l \in Nat : Ends(m, a, l)
<1> DEFINE P == {k \in Nat : m[a + k] = 0}
<1>1. PICK b \in Addr : b >= a /\ m[b] = 0
  BY DEF IsString
<1>2. b - a \in Nat /\ a + (b - a) = b
  BY <1>1, LibcStringAssumption DEF Addr
<1>3. b - a \in P
  BY <1>1, <1>2
<1>4. PICK l \in 0 .. (b - a) : Stops(P, 0, l)
  <2> HIDE DEF P
  <2> DEFINE hi == b - a
  <2>1. hi \in Nat /\ hi \in P /\ 0 \in 0 .. hi
    BY <1>2, <1>3
  <2> HIDE DEF hi
  <2>2. \E l \in 0 .. hi : Stops(P, 0, l)
    BY <2>1, FirstStop
  <2> QED
    BY <2>2 DEF hi
<1>5. l \in Nat /\ a + l \in Addr
  BY <1>1, <1>2, <1>4, LibcStringAssumption DEF Addr
<1>6. m[a + l] = 0 /\ \A j \in 0 .. (l - 1) : m[a + j] # 0
  BY <1>4, <1>5 DEF Stops
<1> QED
  BY <1>5, <1>6 DEF Ends

LEMMA EndsUnique ==
    ASSUME NEW m, NEW a \in Addr, NEW k, Ends(m, a, k), NEW l, Ends(m, a, l)
    PROVE  k = l
BY DEF Ends

(* Str reads the bytes before the terminator.                              *)
LEMMA StrValue ==
    ASSUME NEW m, NEW a \in Addr, NEW l, Ends(m, a, l)
    PROVE  Str(m, a) = Load(m, a, l) /\ Len(Str(m, a)) = l
<1> DEFINE c == CHOOSE k \in 0 .. MemSize :
                    m[a + k] = 0 /\ \A j \in 0 .. (k - 1) : m[a + j] # 0
<1>1. l \in 0 .. MemSize
  BY LibcStringAssumption DEF Ends, Addr
<1>2. c \in 0 .. MemSize /\ m[a + c] = 0 /\ \A j \in 0 .. (c - 1) : m[a + j] # 0
  BY <1>1 DEF Ends
<1>3. Str(m, a) = Load(m, a, c)
  BY DEF Str
<1> HIDE DEF c
<1>4. c = l
  BY <1>1, <1>2 DEF Ends
<1> QED
  BY <1>1, <1>3, <1>4 DEF Load

(* strlen stops at the terminator.                                         *)
LEMMA StrlenValue ==
    ASSUME NEW m, NEW a \in Addr, NEW l, Ends(m, a, l)
    PROVE  Strlen(m, a) = l
<1> DEFINE hi == MemSize - a
           P == {k \in 0 .. hi : k = hi \/ m[a + k] = 0}
           V == [k \in 0 .. hi |-> k]
           Q(f) == f = [k \in 0 .. (MemSize - a) |->
                          IF k = MemSize - a \/ m[a + k] = 0 THEN k ELSE f[k + 1]]
           c == CHOOSE f : Q(f)
<1>1. hi \in Nat /\ hi \in P /\ 0 \in 0 .. hi /\ l \in 0 .. hi /\ l # hi
  BY LibcStringAssumption DEF Addr, Ends
<1>2. Stops(P, 0, l)
  BY <1>1 DEF Stops, Ends
<1>3. \A f : Scans(f, 0, hi, P, V) <=> Q(f)
  BY DEF Scans
<1>4. Strlen(m, a) = c[0]
  BY DEF Strlen
<1>5. V[l] = l
  BY <1>1
<1> HIDE DEF P, V, hi, Q
<1>6. \E f : Scans(f, 0, hi, P, V)
  BY <1>1, ScanExists
<1>7. Q(c)
  <2>1. \E f : Q(f)
    BY <1>3, <1>6
  <2> QED
    BY <2>1, Zenon
<1>8. Scans(c, 0, hi, P, V)
  BY <1>3, <1>7
<1> HIDE DEF c
<1> QED
  BY <1>1, <1>2, <1>4, <1>5, <1>8, ScanValue

-----------------------------------------------------------------------------
(* Blocks of memory.                                                       *)

LEMMA LoadFacts ==
    ASSUME NEW m, NEW a, NEW k \in Nat
    PROVE  /\ Len(Load(m, a, k)) = k /\ DOMAIN Load(m, a, k) = 1 .. k
           /\ \A i \in 1 .. k : Load(m, a, k)[i] = m[a + i - 1]
BY DEF Load

(* m with the k bytes at d taken from m2 at s.                             *)
Copied(m, d, m2, s, k) ==
    [u \in Addr |-> IF u \in d .. (d + k - 1) THEN m2[s + (u - d)] ELSE m[u]]

LEMMA PatchLoad ==
    ASSUME NEW m, NEW m2, NEW d \in Nat, NEW s \in Nat, NEW k \in Nat
    PROVE  Patch(m, d, Load(m2, s, k)) = Copied(m, d, m2, s, k)
<1>1. Len(Load(m2, s, k)) = k
  BY LoadFacts
<1>2. ASSUME NEW u \in Addr, u \in d .. (d + k - 1)
      PROVE  Load(m2, s, k)[u - d + 1] = m2[s + (u - d)]
  <2>1. u - d + 1 \in 1 .. k /\ s + (u - d + 1) - 1 = s + (u - d)
    BY <1>2
  <2> QED
    BY <2>1, LoadFacts
<1> QED
  BY <1>1, <1>2 DEF Patch, Copied

(* Copying q bytes after p bytes copies p + q, if the p bytes written were *)
(* not among those still to be read.                                       *)
LEMMA CopyMore ==
    ASSUME NEW m \in Mem, NEW d \in Addr, NEW s \in Addr, NEW n \in Nat,
           Fits(d, n), Fits(s, n), d <= s \/ Disjoint(d, n, s, n),
           NEW p \in Nat, NEW q \in Nat, p + q <= n, NEW m2, m2 = Patch(m, d, Load(m, s, p))
    PROVE  Patch(m2, d + p, Load(m2, s + p, q)) = Patch(m, d, Load(m, s, p + q))
<1>0. d \in Nat /\ s \in Nat /\ d + p \in Nat /\ s + p \in Nat /\ p + q \in Nat
  BY LibcStringAssumption DEF Addr
<1> DEFINE D == d + p
           S == s + p
           L == Copied(m2, D, m2, S, q)
           R == Copied(m, d, m, s, p + q)
<1>1. Patch(m2, D, Load(m2, S, q)) = L
  BY <1>0, PatchLoad
<1>2. Patch(m, d, Load(m, s, p + q)) = R
  BY <1>0, PatchLoad
<1>3. m2 = Copied(m, d, m, s, p)
  BY <1>0, PatchLoad
<1>4. ASSUME NEW u \in Addr PROVE L[u] = R[u]
  <2>0. u \in Nat
    BY LibcStringAssumption DEF Addr
  <2>1. CASE u \in D .. (D + q - 1)
    <3>1. S + (u - D) = s + (u - d) /\ s + (u - d) \in Addr
      BY <1>0, <2>0, <2>1, LibcStringAssumption DEF Addr, Fits
    <3>2. s + (u - d) \notin d .. (d + p - 1)
      BY <1>0, <2>0, <2>1 DEF Disjoint
    <3>3. m2[s + (u - d)] = m[s + (u - d)]
      BY <1>3, <3>1, <3>2 DEF Copied
    <3>4. u \in d .. (d + (p + q) - 1)
      BY <1>0, <2>0, <2>1
    <3>5. L[u] = m2[S + (u - D)]
      BY <2>1 DEF Copied
    <3>6. R[u] = m[s + (u - d)]
      BY <3>4 DEF Copied
    <3> QED
      BY <3>1, <3>3, <3>5, <3>6
  <2>2. CASE u \notin D .. (D + q - 1)
    <3>1. u \in d .. (d + p - 1) <=> u \in d .. (d + (p + q) - 1)
      BY <1>0, <2>0, <2>2
    <3> QED
      BY <1>3, <2>2, <3>1 DEF Copied
  <2> QED
    BY <2>1, <2>2
<1>5. L = R
  BY <1>4 DEF Copied
<1> QED
  BY <1>1, <1>2, <1>5

LEMMA PatchNothing ==
    ASSUME NEW m \in Mem, NEW d \in Addr, NEW s \in Addr
    PROVE  Patch(m, d, Load(m, s, 0)) = m
<1>1. d \in Nat /\ s \in Nat
  BY LibcStringAssumption DEF Addr
<1>2. Patch(m, d, Load(m, s, 0)) = Copied(m, d, m, s, 0)
  BY <1>1, PatchLoad
<1>3. \A u \in Addr : u \notin d .. (d + 0 - 1)
  BY <1>1
<1> QED
  BY <1>2, <1>3 DEF Copied, Mem

(* The whole words and the rest of n bytes.                                *)
LEMMA WholeWords ==
    ASSUME NEW n \in Nat
    PROVE  /\ n \div WordBytes \in Nat /\ n % WordBytes \in Nat
           /\ n = (n \div WordBytes) * WordBytes + (n % WordBytes)
           /\ \A i \in 0 .. (n \div WordBytes) :
                 i * WordBytes \in Nat /\ i * WordBytes <= n
           /\ \A i \in Int : (i - 1) * WordBytes + WordBytes = i * WordBytes
<1> DEFINE W == WordBytes
           q == n \div W
           r == n % W
<1>0. W \in Nat /\ W > 0
  BY LibcStringAssumption
<1>1. q \in Nat /\ r \in Nat /\ n = W * q + r
  BY <1>0
<1>2. W * q = q * W
  BY <1>0, <1>1
<1>3. ASSUME NEW i \in 0 .. q PROVE i * W \in Nat /\ i * W <= n
  <2>1. (q - i) * W \in Nat /\ i * W \in Nat
    BY <1>0, <1>1
  <2>2. q * W = (q - i) * W + i * W
    BY <1>0, <1>1
  <2> QED
    BY <1>1, <1>2, <2>1, <2>2
<1>4. ASSUME NEW i \in Int PROVE (i - 1) * W + W = i * W
  BY <1>0
<1> QED
  BY <1>1, <1>2, <1>3, <1>4

(* Copying word by word, then byte by byte, copies the block.              *)
LEMMA MemcpyValue ==
    ASSUME NEW m \in Mem, NEW d \in Addr, NEW s \in Addr, NEW n \in Nat,
           Fits(d, n), Fits(s, n), d <= s \/ Disjoint(d, n, s, n)
    PROVE  Memcpy(m, d, s, n) = Patch(m, d, Load(m, s, n))
<1> DEFINE steps == n \div WordBytes
           rest  == n % WordBytes
           done  == steps * WordBytes
           QW(f) == f = [i \in 0 .. steps |->
                           IF i = 0 THEN m
                           ELSE Patch(f[i - 1], d + (i - 1) * WordBytes,
                                      Load(f[i - 1], s + (i - 1) * WordBytes, WordBytes))]
           word  == CHOOSE f : QW(f)
           QB(f) == f = [i \in 0 .. rest |->
                           IF i = 0 THEN word[steps]
                           ELSE Patch(f[i - 1], d + (done + i - 1),
                                      Load(f[i - 1], s + (done + i - 1), 1))]
           byte  == CHOOSE f : QB(f)
           G == [i \in 0 .. steps |-> Patch(m, d, Load(m, s, i * WordBytes))]
           H == [i \in 0 .. rest |-> Patch(m, d, Load(m, s, done + i))]
<1>0. /\ WordBytes \in Nat /\ steps \in Nat /\ rest \in Nat /\ done \in Nat
      /\ done + rest = n
      /\ \A i \in 0 .. steps : i * WordBytes \in Nat /\ i * WordBytes <= n
      /\ \A i \in Int : (i - 1) * WordBytes + WordBytes = i * WordBytes
      /\ 0 * WordBytes = 0
  BY WholeWords, LibcStringAssumption
<1>1. Memcpy(m, d, s, n) = byte[rest]
  BY DEF Memcpy
<1> HIDE DEF steps, rest, done
<1>2. ASSUME NEW i \in 1 .. steps
      PROVE  Patch(G[i - 1], d + (i - 1) * WordBytes,
                   Load(G[i - 1], s + (i - 1) * WordBytes, WordBytes)) = G[i]
  <2> DEFINE p == (i - 1) * WordBytes
  <2>1. i - 1 \in 0 .. steps /\ i \in 0 .. steps
    BY <1>0
  <2>2. p \in Nat /\ p + WordBytes = i * WordBytes /\ p + WordBytes <= n
    BY <1>0, <2>1
  <2>3. G[i - 1] = Patch(m, d, Load(m, s, p)) /\ G[i] = Patch(m, d, Load(m, s, p + WordBytes))
    BY <2>1, <2>2
  <2> HIDE DEF G, p
  <2>4. Patch(G[i - 1], d + p, Load(G[i - 1], s + p, WordBytes)) = G[i]
    BY <1>0, <2>2, <2>3, CopyMore
  <2> QED
    BY <2>4 DEF p
<1>3. G[0] = m
  <2>1. G[0] = Patch(m, d, Load(m, s, 0))
    BY <1>0
  <2> QED
    BY <2>1, PatchNothing
<1>4. QW(word)
  <2>1. QW(G)
    <3>1. G = [i \in 0 .. steps |-> G[i]]
      OBVIOUS
    <3> HIDE DEF G
    <3>2. \A i \in 0 .. steps : i = 0 \/ i \in 1 .. steps
      BY <1>0
    <3> QED
      BY <1>2, <1>3, <3>1, <3>2
  <2>2. \E f : QW(f)
    BY <2>1
  <2> HIDE DEF QW
  <2> QED
    BY <2>2, Zenon
<1>5. word[steps] = G[steps]
  <2>1. word[0] = m /\ \A i \in 1 .. steps :
            word[i] = Patch(word[i - 1], d + (i - 1) * WordBytes,
                            Load(word[i - 1], s + (i - 1) * WordBytes, WordBytes))
    <3> HIDE DEF word
    <3> QED
      BY <1>0, <1>4
  <2> HIDE DEF word, G
  <2>2. \A i \in 1 .. steps : word[i - 1] = G[i - 1] => word[i] = G[i]
    BY <1>2, <2>1
  <2>3. \A i \in 0 .. steps : word[i] = G[i]
    BY <1>0, <1>3, <2>1, <2>2, LoopFollows
  <2> QED
    BY <1>0, <2>3
<1>6. ASSUME NEW i \in 1 .. rest
      PROVE  Patch(H[i - 1], d + (done + i - 1), Load(H[i - 1], s + (done + i - 1), 1)) = H[i]
  <2> DEFINE p == done + i - 1
  <2>1. i - 1 \in 0 .. rest /\ i \in 0 .. rest
    BY <1>0
  <2>2. p \in Nat /\ p + 1 = done + i /\ p = done + (i - 1) /\ p + 1 <= n
    BY <1>0, <2>1
  <2>3. H[i - 1] = Patch(m, d, Load(m, s, p)) /\ H[i] = Patch(m, d, Load(m, s, p + 1))
    BY <2>1, <2>2
  <2> HIDE DEF H, p
  <2>4. Patch(H[i - 1], d + p, Load(H[i - 1], s + p, 1)) = H[i]
    BY <1>0, <2>2, <2>3, CopyMore
  <2> QED
    BY <2>4 DEF p
<1>7. H[0] = word[steps]
  <2>1. H[0] = Patch(m, d, Load(m, s, done)) /\ G[steps] = Patch(m, d, Load(m, s, done))
    BY <1>0 DEF done
  <2> QED
    BY <1>5, <2>1
<1> HIDE DEF word, G
<1>8. QB(byte)
  <2>1. QB(H)
    <3>1. H = [i \in 0 .. rest |-> H[i]]
      OBVIOUS
    <3> HIDE DEF H
    <3>2. \A i \in 0 .. rest : i = 0 \/ i \in 1 .. rest
      BY <1>0
    <3> QED
      BY <1>6, <1>7, <3>1, <3>2
  <2>2. \E f : QB(f)
    BY <2>1
  <2> HIDE DEF QB
  <2> QED
    BY <2>2, Zenon
<1>9. byte[rest] = H[rest]
  <2>1. byte[0] = word[steps] /\ \A i \in 1 .. rest :
            byte[i] = Patch(byte[i - 1], d + (done + i - 1),
                            Load(byte[i - 1], s + (done + i - 1), 1))
    <3> HIDE DEF byte
    <3> QED
      BY <1>0, <1>8
  <2> HIDE DEF byte, H
  <2>2. \A i \in 1 .. rest : byte[i - 1] = H[i - 1] => byte[i] = H[i]
    BY <1>6, <2>1
  <2>3. \A i \in 0 .. rest : byte[i] = H[i]
    BY <1>0, <1>7, <2>1, <2>2, LoopFollows
  <2> QED
    BY <1>0, <2>3
<1> QED
  BY <1>0, <1>1, <1>9

LEMMA MemsetValue ==
    ASSUME NEW m \in Mem, NEW d \in Addr, NEW c \in Bytes, NEW n \in Nat, Fits(d, n)
    PROVE  Memset(m, d, c, n) = Patch(m, d, [i \in 1 .. n |-> c])
<1> DEFINE done  == (n \div WordBytes) * WordBytes
           rest  == n % WordBytes
           shifts == {8 * k : k \in 0 .. (WordBytes - 1)}
           word  == [i \in 1 .. WordBytes |-> IF 8 * (i - 1) \in shifts THEN c % 256 ELSE 0]
           words == [i \in 1 .. done |-> word[((i - 1) % WordBytes) + 1]]
           tail  == [i \in 1 .. rest |-> c % 256]
<1>0. rest \in Nat /\ done \in Nat /\ done + rest = n
  BY WholeWords
<1>1. c % 256 = c /\ d \in Nat
  BY LibcStringAssumption DEF Addr
<1>2. Memset(m, d, c, n) = Patch(Patch(m, d, words), d + done, tail)
  BY DEF Memset
<1> HIDE DEF done, rest
(* The shifts reach every byte of the word.                                *)
<1>a. words = [i \in 1 .. done |-> c]
  <2>1. \A i \in 1 .. WordBytes : word[i] = c
    <3>1. \A i \in 1 .. WordBytes : i - 1 \in 0 .. (WordBytes - 1)
      BY LibcStringAssumption
    <3> QED
      BY <1>1, <3>1
  <2> HIDE DEF word
  <2>2. \A i \in 1 .. done : ((i - 1) % WordBytes) + 1 \in 1 .. WordBytes
    <3>1. ASSUME NEW j \in Nat PROVE j % WordBytes \in 0 .. (WordBytes - 1)
      BY LibcStringAssumption
    <3> QED
      BY <1>0, <3>1, LibcStringAssumption
  <2> QED
    BY <2>1, <2>2
<1> HIDE DEF words
<1>3. Patch(m, d, words) = [u \in Addr |-> IF u \in d .. (d + done - 1) THEN c ELSE m[u]]
  <2>1. \A u \in d .. (d + done - 1) : u - d + 1 \in 1 .. done
    BY <1>0, <1>1
  <2>2. Len(words) = done
    BY <1>0, <1>a
  <2> QED
    BY <1>0, <1>1, <1>a, <2>1, <2>2 DEF Patch
<1>4. \A x : Patch(x, d + done, tail) =
          [u \in Addr |-> IF u \in (d + done) .. (d + done + rest - 1) THEN c ELSE x[u]]
  <2>1. \A u \in (d + done) .. (d + done + rest - 1) : u - (d + done) + 1 \in 1 .. rest
    BY <1>0, <1>1
  <2> QED
    BY <1>0, <1>1, <2>1 DEF Patch
<1>5. Patch(m, d, [i \in 1 .. n |-> c]) =
          [u \in Addr |-> IF u \in d .. (d + n - 1) THEN c ELSE m[u]]
  <2>1. \A u \in d .. (d + n - 1) : u - d + 1 \in 1 .. n
    BY <1>0, <1>1
  <2> QED
    BY <1>0, <1>1, <2>1 DEF Patch
<1>6. \A u \in Addr : u \in d .. (d + n - 1) <=>
          u \in (d + done) .. (d + done + rest - 1) \/ u \in d .. (d + done - 1)
  BY <1>0, <1>1, LibcStringAssumption DEF Addr
<1> HIDE DEF tail
<1> QED
  BY <1>2, <1>3, <1>4, <1>5, <1>6

-----------------------------------------------------------------------------
(* The copying functions.                                                  *)

(* The bytes of a string with its terminator, and its first bytes.         *)
LEMMA StrTerminated ==
    ASSUME NEW m, NEW a \in Addr, NEW l, Ends(m, a, l)
    PROVE  Str(m, a) \o <<0>> = Load(m, a, l + 1)
<1>1. l \in Nat /\ a \in Nat /\ m[a + l] = 0
  BY LibcStringAssumption DEF Ends, Addr
<1>2. Str(m, a) = Load(m, a, l)
  BY StrValue
<1>3. Load(m, a, l) \o <<0>> = Load(m, a, l + 1)
  BY <1>1 DEF Load
<1> QED
  BY <1>2, <1>3

LEMMA CutValue ==
    ASSUME NEW m, NEW a \in Addr, NEW l, Ends(m, a, l), NEW n \in Nat,
           NEW k, k = IF n < l THEN n ELSE l
    PROVE  Cut(Str(m, a), n) = Load(m, a, k) /\ Len(Cut(Str(m, a), n)) = k
<1>1. l \in Nat /\ k \in Nat /\ k <= l
  BY DEF Ends
<1>2. Str(m, a) = Load(m, a, l) /\ Len(Load(m, a, l)) = l
  BY <1>1, StrValue, LoadFacts
<1>3. SubSeq(Load(m, a, l), 1, k) = Load(m, a, k)
  BY <1>1 DEF Load
<1> QED
  BY <1>1, <1>2, <1>3, LoadFacts DEF Cut

LEMMA StrcpyValue ==
    ASSUME NEW m \in Mem, NEW d \in Addr, NEW s \in Addr, NEW l, Ends(m, s, l),
           Fits(d, l + 1), Disjoint(d, l + 1, s, l + 1)
    PROVE  Strcpy(m, d, s) = Patch(m, d, Load(m, s, l + 1))
<1> DEFINE Q(f) == f = [k \in 0 .. Strlen(m, s) |->
                          LET before == IF k = 0 THEN m ELSE f[k - 1]
                          IN  Patch(before, d + k, Load(before, s + k, 1))]
           cpy  == CHOOSE f : Q(f)
           G == [k \in 0 .. l |-> Patch(m, d, Load(m, s, k + 1))]
<1>0. l \in Nat /\ l + 1 \in Nat /\ Fits(s, l + 1) /\ Strlen(m, s) = l
  <2>1. Strlen(m, s) = l
    BY StrlenValue
  <2> QED
    BY <2>1, LibcStringAssumption DEF Ends, Fits, Addr
<1>1. Strcpy(m, d, s) = cpy[l]
  BY <1>0 DEF Strcpy
<1>2. ASSUME NEW k \in 0 .. l, NEW before, before = Patch(m, d, Load(m, s, k))
      PROVE  Patch(before, d + k, Load(before, s + k, 1)) = G[k]
  <2>1. k \in Nat /\ k + 1 <= l + 1 /\ G[k] = Patch(m, d, Load(m, s, k + 1))
    BY <1>0
  <2> HIDE DEF G
  <2> QED
    BY <1>0, <1>2, <2>1, CopyMore
<1>3. ASSUME NEW k \in 1 .. l PROVE k - 1 \in 0 .. l /\ G[k - 1] = Patch(m, d, Load(m, s, k))
  BY <1>0
<1>4. Patch(m, d + 0, Load(m, s + 0, 1)) = G[0]
  BY <1>0, <1>2, PatchNothing
<1>5. ASSUME NEW k \in 1 .. l
      PROVE  Patch(G[k - 1], d + k, Load(G[k - 1], s + k, 1)) = G[k]
  BY <1>0, <1>2, <1>3
<1>6. G = [k \in 0 .. l |-> G[k]]
  OBVIOUS
<1>7. \A k \in 0 .. l : k = 0 \/ k \in 1 .. l
  BY <1>0
<1>8. G[l] = Patch(m, d, Load(m, s, l + 1))
  BY <1>0
<1> HIDE DEF G
<1>9. Q(cpy)
  <2>1. Q(G)
    BY <1>0, <1>4, <1>5, <1>6, <1>7
  <2>2. \E f : Q(f)
    BY <2>1
  <2> HIDE DEF Q
  <2> QED
    BY <2>2, Zenon
<1> HIDE DEF cpy
<1>10. cpy[0] = G[0] /\ \A k \in 1 .. l : cpy[k] = Patch(cpy[k - 1], d + k, Load(cpy[k - 1], s + k, 1))
  BY <1>0, <1>4, <1>9
<1>11. \A k \in 1 .. l : cpy[k - 1] = G[k - 1] => cpy[k] = G[k]
  BY <1>5, <1>10
<1>12. \A k \in 0 .. l : cpy[k] = G[k]
  BY <1>0, <1>10, <1>11, LoopFollows
<1> QED
  BY <1>0, <1>1, <1>8, <1>12

LEMMA CopyLoopStops ==
    ASSUME NEW m, NEW s \in Addr, NEW l, Ends(m, s, l), NEW n \in Nat
    PROVE  CopyLoop(m, s, n) = IF n < l THEN n ELSE l
<1> DEFINE P == {k \in 0 .. n : ~ (k < n /\ m[s + k] # 0)}
           V == [k \in 0 .. n |-> k]
           Q(f) == f = [k \in 0 .. n |-> IF k < n /\ m[s + k] # 0 THEN f[k + 1] ELSE k]
           c == CHOOSE f : Q(f)
           j == IF n < l THEN n ELSE l
<1>1. n \in P /\ 0 \in 0 .. n /\ j \in 0 .. n
  BY DEF Ends
<1>2. Stops(P, 0, j)
  BY <1>1 DEF Stops, Ends
<1>3. \A f : Scans(f, 0, n, P, V) <=> Q(f)
  BY DEF Scans
<1>4. V[j] = j /\ CopyLoop(m, s, n) = c[0]
  BY <1>1 DEF CopyLoop
<1> HIDE DEF P, V, Q
<1>5. \E f : Scans(f, 0, n, P, V)
  BY <1>1, ScanExists
<1>6. Q(c)
  <2>1. \E f : Q(f)
    BY <1>3, <1>5
  <2> QED
    BY <2>1, Zenon
<1>7. Scans(c, 0, n, P, V)
  BY <1>3, <1>6
<1>8. c[0] = j
  <2> HIDE DEF c, j
  <2> QED
    BY <1>1, <1>2, <1>4, <1>7, ScanValue
<1> QED
  BY <1>4, <1>8

LEMMA StrncpyValue ==
    ASSUME NEW m, NEW d, NEW s \in Addr, NEW l, Ends(m, s, l), NEW n \in Nat
    PROVE  Strncpy(m, d, s, n) =
               LET u == Cut(Str(m, s), n)
               IN  Patch(m, d, u \o [i \in 1 .. (n - Len(u)) |-> 0])
<1> DEFINE k == IF n < l THEN n ELSE l
<1>1. Cut(Str(m, s), n) = Load(m, s, k) /\ Len(Cut(Str(m, s), n)) = k
  BY CutValue
<1>2. Strncpy(m, d, s, n) = Patch(m, d, Load(m, s, k) \o [i \in 1 .. (n - k) |-> 0])
  BY CopyLoopStops DEF Strncpy
<1> HIDE DEF k
<1> QED
  BY <1>1, <1>2

LEMMA StrncatValue ==
    ASSUME NEW m, NEW d \in Addr, NEW s \in Addr, NEW l, Ends(m, s, l), NEW n \in Nat,
           NEW h, Ends(m, d, h)
    PROVE  Strncat(m, d, s, n) = Patch(m, d + h, Cut(Str(m, s), n) \o <<0>>)
<1> DEFINE k == IF n < l THEN n ELSE l
<1>1. Cut(Str(m, s), n) = Load(m, s, k)
  BY CutValue
<1>2. Strlen(m, d) = h
  BY StrlenValue
<1>3. Strncat(m, d, s, n) = Patch(m, d + h, Load(m, s, k) \o <<0>>)
  BY <1>2, CopyLoopStops DEF Strncat
<1> HIDE DEF k
<1> QED
  BY <1>1, <1>3

LEMMA BlocksRight ==
    ASSUME NEW m \in Mem
    PROVE  BlockContracts(m)
<1> SUFFICES ASSUME NEW d \in Addr, NEW s \in Addr, NEW n \in 0 .. (MemSize - d)
             PROVE  /\ Fits(s, n) /\ (d <= s \/ Disjoint(d, n, s, n)) =>
                          Memcpy(m, d, s, n) = Patch(m, d, Load(m, s, n))
                    /\ \A c \in Bytes :
                          Memset(m, d, c, n) = Patch(m, d, [i \in 1 .. n |-> c])
  BY DEF BlockContracts
<1>1. n \in Nat /\ Fits(d, n)
  BY LibcStringAssumption DEF Addr, Fits
<1> QED
  BY <1>1, MemcpyValue, MemsetValue

LEMMA CopiesRight ==
    ASSUME NEW m \in Mem
    PROVE  CopyContracts(m)
<1> DEFINE S == {a \in Addr : IsString(m, a)}
<1>1. ASSUME NEW d \in S, NEW s \in S,
             NEW t, t = Str(m, s), NEW e, e = d + Len(Str(m, d))
      PROVE  /\ Fits(d, Len(t) + 1) /\ Disjoint(d, Len(t) + 1, s, Len(t) + 1) =>
                   Strcpy(m, d, s) = Patch(m, d, t \o <<0>>)
             /\ Fits(e, Len(t) + 1) /\ Disjoint(d, e + Len(t) + 1 - d, s, Len(t) + 1) =>
                   Strcat(m, d, s) = Patch(m, e, t \o <<0>>)
             /\ \A n \in 0 .. MemSize :
                   /\ Strncpy(m, d, s, n) =
                         LET u == Cut(t, n)
                         IN  Patch(m, d, u \o [i \in 1 .. (n - Len(u)) |-> 0])
                   /\ Strncat(m, d, s, n) = Patch(m, e, Cut(t, n) \o <<0>>)
  <2>0. d \in Addr /\ s \in Addr /\ IsString(m, d) /\ IsString(m, s)
    OBVIOUS
  <2> HIDE DEF S
  <2>1. PICK l \in Nat : Ends(m, s, l)
    BY <2>0, StringEnds
  <2>2. PICK h \in Nat : Ends(m, d, h)
    BY <2>0, StringEnds
  <2>3. Len(t) = l /\ t \o <<0>> = Load(m, s, l + 1)
    BY <1>1, <2>0, <2>1, StrValue, StrTerminated
  <2>4. Len(Str(m, d)) = h /\ Strlen(m, d) = h
    BY <2>0, <2>2, StrValue, StrlenValue
  <2>5. e = d + h /\ e \in Addr
    BY <1>1, <2>2, <2>4 DEF Ends
  <2>6. ASSUME Fits(d, Len(t) + 1), Disjoint(d, Len(t) + 1, s, Len(t) + 1)
        PROVE  Strcpy(m, d, s) = Patch(m, d, t \o <<0>>)
    <3>1. Fits(d, l + 1) /\ Disjoint(d, l + 1, s, l + 1)
      BY <2>3, <2>6
    <3>2. Strcpy(m, d, s) = Patch(m, d, Load(m, s, l + 1))
      BY <2>0, <2>1, <3>1, StrcpyValue
    <3> QED
      BY <2>3, <3>2, Zenon
  <2>7. ASSUME Fits(e, Len(t) + 1), Disjoint(d, e + Len(t) + 1 - d, s, Len(t) + 1)
        PROVE  Strcat(m, d, s) = Patch(m, e, t \o <<0>>)
    <3>1. Fits(e, l + 1) /\ Disjoint(e, l + 1, s, l + 1)
      BY <2>0, <2>3, <2>5, <2>7, LibcStringAssumption DEF Fits, Disjoint, Addr
    <3>2. Strcat(m, d, s) = Strcpy(m, e, s)
      BY <2>4, <2>5 DEF Strcat
    <3>3. Strcpy(m, e, s) = Patch(m, e, Load(m, s, l + 1))
      BY <2>0, <2>1, <2>5, <3>1, StrcpyValue
    <3> QED
      BY <2>3, <3>2, <3>3, Zenon
  <2>8. ASSUME NEW n \in 0 .. MemSize
        PROVE  Strncpy(m, d, s, n) = LET u == Cut(t, n)
                                     IN  Patch(m, d, u \o [i \in 1 .. (n - Len(u)) |-> 0])
    <3>1. n \in Nat
      BY LibcStringAssumption
    <3> QED
      BY <1>1, <2>0, <2>1, <3>1, StrncpyValue
  <2>9. ASSUME NEW n \in 0 .. MemSize
        PROVE  Strncat(m, d, s, n) = Patch(m, e, Cut(t, n) \o <<0>>)
    <3>1. n \in Nat
      BY LibcStringAssumption
    <3>2. Strncat(m, d, s, n) = Patch(m, d + h, Cut(Str(m, s), n) \o <<0>>)
      BY <2>0, <2>1, <2>2, <3>1, StrncatValue
    <3> QED
      BY <1>1, <2>5, <3>2, Zenon
  <2> QED
    BY <2>6, <2>7, <2>8, <2>9
<1> QED
  BY <1>1 DEF CopyContracts

-----------------------------------------------------------------------------
(* Comparison.                                                             *)

LEMMA PrefixElements ==
    ASSUME NEW x \in Seq(Int), NEW y \in Seq(Int)
    PROVE  IsPrefix(x, y) <=> Len(x) <= Len(y) /\ \A i \in 1 .. Len(x) : x[i] = y[i]
<1>0. Len(x) \in Nat /\ Len(y) \in Nat
  OBVIOUS
<1> SUFFICES ASSUME Len(x) <= Len(y)
             PROVE  SubSeq(x, 1, Len(x)) = SubSeq(y, 1, Len(x)) <=>
                        \A i \in 1 .. Len(x) : x[i] = y[i]
  BY <1>0 DEF IsPrefix
<1> DEFINE s == SubSeq(x, 1, Len(x))
           t == SubSeq(y, 1, Len(x))
<1>1. s \in Seq(Int) /\ Len(s) = Len(x) /\ \A i \in 1 .. Len(x) : s[i] = x[i]
  OBVIOUS
<1>2. t \in Seq(Int) /\ Len(t) = Len(x) /\ \A i \in 1 .. Len(x) : t[i] = y[i]
  OBVIOUS
<1> HIDE DEF s, t
<1>3. s = t <=> \A i \in 1 .. Len(s) : s[i] = t[i]
  BY <1>1, <1>2, SeqEqual
<1>4. s = t <=> \A i \in 1 .. Len(x) : x[i] = y[i]
  BY <1>1, <1>2, <1>3
<1> QED
  BY <1>4 DEF s, t

(* Order, by the length k of what two sequences have in common.            *)
LEMMA OrderValue ==
    ASSUME NEW s \in Seq(Int), NEW t \in Seq(Int), NEW k \in Nat, k <= Len(s), k <= Len(t),
           \A i \in 1 .. k : s[i] = t[i]
    PROVE  /\ k = Len(s) /\ k = Len(t) => Order(s, t) = 0
           /\ k = Len(s) /\ k < Len(t) => Order(s, t) = -1
           /\ k < Len(s) /\ k = Len(t) => Order(s, t) = 1
           /\ k < Len(s) /\ k < Len(t) /\ s[k + 1] # t[k + 1] =>
                 Order(s, t) = Sign(s[k + 1] - t[k + 1])
<1>0. Len(s) # Len(t) => s # t
  OBVIOUS
<1>1. /\ IsPrefix(s, t) <=> Len(s) <= Len(t) /\ \A i \in 1 .. Len(s) : s[i] = t[i]
      /\ IsPrefix(t, s) <=> Len(t) <= Len(s) /\ \A i \in 1 .. Len(t) : t[i] = s[i]
  BY PrefixElements
<1>2. Len(s) \in Nat /\ Len(t) \in Nat
  OBVIOUS
<1>3. CASE k = Len(s) /\ k = Len(t)
  <2>0. s = t
    BY <1>3, SeqEqual
  <2>1. s = t /\ ~ IsStrictPrefix(s, t) /\ ~ IsStrictPrefix(t, s)
    BY <2>0 DEF IsStrictPrefix
  <2> QED
    BY <1>2, <1>3, <2>1 DEF Order
<1>4. CASE k = Len(s) /\ k < Len(t)
  <2>1. s # t /\ IsStrictPrefix(s, t) /\ ~ IsStrictPrefix(t, s)
    BY <1>0, <1>1, <1>2, <1>4 DEF IsStrictPrefix
  <2> QED
    BY <1>2, <1>4, <2>1 DEF Order
<1>5. CASE k < Len(s) /\ k = Len(t)
  <2>1. s # t /\ IsStrictPrefix(t, s) /\ ~ IsStrictPrefix(s, t)
    BY <1>0, <1>1, <1>2, <1>5 DEF IsStrictPrefix
  <2> QED
    BY <1>2, <1>5, <2>1 DEF Order
<1>6. CASE k < Len(s) /\ k < Len(t) /\ s[k + 1] # t[k + 1]
  <2> DEFINE First(j) == s[j] # t[j] /\ \A i \in 1 .. (j - 1) : s[i] = t[i]
             c == CHOOSE j \in 1 .. Len(s) : First(j)
  <2>1. k + 1 \in 1 .. Len(s) /\ k + 1 \in 1 .. Len(t) /\ First(k + 1)
    <3>1. k + 1 \in 1 .. Len(s) /\ k + 1 \in 1 .. Len(t) /\ (k + 1) - 1 = k
      BY <1>2, <1>6
    <3> QED
      BY <1>6, <3>1
  <2>2. s # t /\ ~ IsStrictPrefix(t, s) /\ ~ IsStrictPrefix(s, t)
    BY <1>1, <1>2, <1>6, <2>1 DEF IsStrictPrefix
  <2>3. c \in 1 .. Len(s) /\ First(c)
    BY <2>1
  <2>4. Order(s, t) = Sign(s[c] - t[c])
    BY <2>2 DEF Order
  <2> HIDE DEF c
  <2>5. c = k + 1
    BY <1>2, <2>1, <2>3
  <2> QED
    BY <1>2, <1>6, <2>4, <2>5
<1> QED
  BY <1>2, <1>3, <1>4, <1>5, <1>6

LEMMA LoadBytes ==
    ASSUME NEW m \in Mem, NEW a \in Addr, NEW k \in Nat, Fits(a, k)
    PROVE  Load(m, a, k) \in Seq(Int)
<1>1. ASSUME NEW i \in 1 .. k PROVE m[a + i - 1] \in Int
  <2>1. a + i - 1 \in Addr
    BY LibcStringAssumption DEF Fits, Addr
  <2>2. m[a + i - 1] \in 0 .. 255
    BY <2>1, LibcStringAssumption DEF Mem
  <2> QED
    BY <2>2
<1>2. Load(m, a, k) \in [1 .. k -> Int]
  BY <1>1 DEF Load
<1> QED
  BY <1>2, SeqDef

(* The strings at a and b have at least j bytes, and the same first j.     *)
Agree(m, a, b, j) == \A i \in 0 .. (j - 1) : m[a + i] # 0 /\ m[a + i] = m[b + i]

LEMMA OrderLoaded ==
    ASSUME NEW m \in Mem, NEW a \in Addr, NEW b \in Addr, NEW k \in Nat, NEW l \in Nat,
           Fits(a, k), Fits(b, l), NEW j \in Nat, j <= k, j <= l, Agree(m, a, b, j),
           NEW o, o = Order(Load(m, a, k), Load(m, b, l))
    PROVE  /\ j = k /\ j = l => o = 0
           /\ j = k /\ j < l => o = -1
           /\ j < k /\ j = l => o = 1
           /\ j < k /\ j < l /\ m[a + j] # m[b + j] => o = Sign(m[a + j] - m[b + j])
<1> DEFINE s == Load(m, a, k)
           t == Load(m, b, l)
<1>0. a \in Nat /\ b \in Nat
  BY LibcStringAssumption DEF Addr
<1>1. Len(s) = k /\ DOMAIN s = 1 .. k /\ \A i \in 1 .. k : s[i] = m[a + i - 1]
  BY LoadFacts
<1>2. Len(t) = l /\ DOMAIN t = 1 .. l /\ \A i \in 1 .. l : t[i] = m[b + i - 1]
  BY LoadFacts
<1>3. s \in Seq(Int)
  BY LoadBytes
<1>4. t \in Seq(Int)
  BY LoadBytes
<1> HIDE DEF s, t
<1>5. ASSUME NEW i \in 1 .. j PROVE s[i] = t[i]
  <2>1. i \in 1 .. k /\ i \in 1 .. l /\ i - 1 \in 0 .. (j - 1)
    OBVIOUS
  <2>2. a + i - 1 = a + (i - 1) /\ b + i - 1 = b + (i - 1)
    BY <1>0
  <2>3. s[i] = m[a + (i - 1)] /\ t[i] = m[b + (i - 1)]
    BY <1>1, <1>2, <2>1, <2>2
  <2> QED
    BY <2>1, <2>3 DEF Agree
<1>6. /\ j < k => s[j + 1] = m[a + j]
      /\ j < l => t[j + 1] = m[b + j]
  <2>1. a + (j + 1) - 1 = a + j /\ b + (j + 1) - 1 = b + j
    BY <1>0
  <2> QED
    BY <1>1, <1>2, <2>1
<1>7. o = Order(s, t)
  BY DEF s, t
<1>8. /\ j = Len(s) /\ j = Len(t) => o = 0
      /\ j = Len(s) /\ j < Len(t) => o = -1
      /\ j < Len(s) /\ j = Len(t) => o = 1
      /\ j < Len(s) /\ j < Len(t) /\ s[j + 1] # t[j + 1] => o = Sign(s[j + 1] - t[j + 1])
  BY <1>1, <1>2, <1>3, <1>4, <1>5, <1>7, OrderValue
<1> QED
  BY <1>1, <1>2, <1>6, <1>8

(* No terminator among the first j bytes: the string has at least j.       *)
Runs(m, a, j) == \A i \in 0 .. (j - 1) : m[a + i] # 0

LEMMA RunsWithin ==
    ASSUME NEW m \in Mem, NEW a \in Addr, NEW k, Ends(m, a, k), NEW j \in Nat, Runs(m, a, j)
    PROVE  j <= k /\ m[a + j] \in 0 .. 255 /\ (m[a + j] = 0 <=> j = k)
<1>1. k \in Nat /\ a \in Nat
  BY LibcStringAssumption DEF Ends, Addr
<1>2. j <= k
  BY <1>1 DEF Ends, Runs
<1>3. a + j \in Addr
  BY <1>1, <1>2, LibcStringAssumption DEF Ends, Addr
<1>4. m[a + j] \in 0 .. 255
  BY <1>3, LibcStringAssumption DEF Mem
<1>5. m[a + j] = 0 <=> j = k
  BY <1>1, <1>2 DEF Ends
<1> QED
  BY <1>2, <1>4, <1>5

(* strcmp and strncmp stop at the first difference or the end.             *)
LEMMA StrcmpRight ==
    ASSUME NEW m \in Mem, NEW a \in Addr, NEW b \in Addr, NEW k, NEW l,
           Ends(m, a, k), Ends(m, b, l)
    PROVE  Sign(Strcmp(m, a, b)) = Order(Str(m, a), Str(m, b))
<1> DEFINE P == {i \in 0 .. k : ~ (m[a + i] # 0 /\ m[a + i] = m[b + i])}
           V == [i \in 0 .. k |-> m[a + i] - m[b + i]]
           Q(f) == f = [i \in 0 .. Strlen(m, a) |->
                          IF m[a + i] # 0 /\ m[a + i] = m[b + i] THEN f[i + 1]
                          ELSE m[a + i] - m[b + i]]
           c == CHOOSE f : Q(f)
           o == Order(Load(m, a, k), Load(m, b, l))
<1>0. k \in Nat /\ l \in Nat /\ Fits(a, k) /\ Fits(b, l)
  BY LibcStringAssumption DEF Ends, Addr, Fits
<1>1. k \in P /\ 0 \in 0 .. k
  BY <1>0 DEF Ends
<1>2. Strlen(m, a) = k
  BY StrlenValue
<1>3. \A f : Scans(f, 0, k, P, V) <=> Q(f)
  BY <1>2 DEF Scans
<1>4. Strcmp(m, a, b) = c[0]
  BY DEF Strcmp
<1>5. Str(m, a) = Load(m, a, k) /\ Str(m, b) = Load(m, b, l)
  BY StrValue
<1>6. PICK j \in 0 .. k : Stops(P, 0, j)
  <2> HIDE DEF P
  <2> QED
    BY <1>0, <1>1, FirstStop
<1>7. /\ Agree(m, a, b, j)
      /\ m[a + j] = 0 \/ m[a + j] # m[b + j]
      /\ V[j] = m[a + j] - m[b + j]
  BY <1>0, <1>6 DEF Stops, Agree
<1> HIDE DEF P, V, Q
<1>8. Q(c)
  <2>1. \E f : Scans(f, 0, k, P, V)
    BY <1>0, <1>1, ScanExists
  <2>2. \E f : Q(f)
    BY <1>3, <2>1
  <2> QED
    BY <2>2, Zenon
<1>9. c[0] = V[j]
  <2>1. Scans(c, 0, k, P, V)
    BY <1>3, <1>8
  <2> HIDE DEF c
  <2> QED
    BY <1>0, <1>1, <1>6, <2>1, ScanValue
<1> HIDE DEF c, o
<1>a. j \in Nat
  BY <1>0
<1>10. /\ j <= k /\ j <= l /\ m[a + j] \in 0 .. 255 /\ m[b + j] \in 0 .. 255
       /\ m[a + j] = 0 <=> j = k
       /\ m[b + j] = 0 <=> j = l
  <2>1. Runs(m, a, j) /\ Runs(m, b, j)
    BY <1>7 DEF Agree, Runs
  <2> QED
    BY <1>a, <2>1, RunsWithin
<1>11. /\ j = k /\ j = l => o = 0
       /\ j = k /\ j < l => o = -1
       /\ j < k /\ j = l => o = 1
       /\ j < k /\ j < l /\ m[a + j] # m[b + j] => o = Sign(m[a + j] - m[b + j])
  BY <1>0, <1>7, <1>a, <1>10, OrderLoaded DEF o
<1>12. Sign(m[a + j] - m[b + j]) = o
  BY <1>0, <1>7, <1>a, <1>10, <1>11 DEF Sign
<1> QED
  BY <1>4, <1>5, <1>7, <1>9, <1>12 DEF o

LEMMA StrncmpRight ==
    ASSUME NEW m \in Mem, NEW a \in Addr, NEW b \in Addr, NEW k, NEW l,
           Ends(m, a, k), Ends(m, b, l), NEW n \in Nat
    PROVE  Sign(Strncmp(m, a, b, n)) = Order(Cut(Str(m, a), n), Cut(Str(m, b), n))
<1> DEFINE P == {i \in 0 .. n : ~ (i < n /\ m[a + i] = m[b + i] /\ m[a + i] # 0)}
           V == [i \in 0 .. n |-> IF i < n THEN m[a + i] - m[b + i] ELSE 0]
           Q(f) == f = [i \in 0 .. n |->
                          IF i < n /\ m[a + i] = m[b + i] /\ m[a + i] # 0 THEN f[i + 1]
                          ELSE IF i < n THEN m[a + i] - m[b + i] ELSE 0]
           c == CHOOSE f : Q(f)
           kn == IF n < k THEN n ELSE k
           ln == IF n < l THEN n ELSE l
           o == Order(Load(m, a, kn), Load(m, b, ln))
<1>0. k \in Nat /\ l \in Nat /\ kn \in Nat /\ ln \in Nat /\ Fits(a, kn) /\ Fits(b, ln)
  BY LibcStringAssumption DEF Ends, Addr, Fits
<1>1. n \in P /\ 0 \in 0 .. n
  OBVIOUS
<1>3. \A f : Scans(f, 0, n, P, V) <=> Q(f)
  BY DEF Scans
<1>4. Strncmp(m, a, b, n) = c[0]
  BY DEF Strncmp
<1>5. Cut(Str(m, a), n) = Load(m, a, kn) /\ Cut(Str(m, b), n) = Load(m, b, ln)
  BY CutValue
<1>6. PICK j \in 0 .. n : Stops(P, 0, j)
  <2> HIDE DEF P
  <2> QED
    BY <1>1, FirstStop
<1>7. /\ Agree(m, a, b, j)
      /\ j = n \/ m[a + j] = 0 \/ m[a + j] # m[b + j]
      /\ V[j] = IF j < n THEN m[a + j] - m[b + j] ELSE 0
  BY <1>6 DEF Stops, Agree
<1> HIDE DEF P, V, Q
<1>8. Q(c)
  <2>1. \E f : Scans(f, 0, n, P, V)
    BY <1>1, ScanExists
  <2>2. \E f : Q(f)
    BY <1>3, <2>1
  <2> QED
    BY <2>2, Zenon
<1>9. c[0] = V[j]
  <2>1. Scans(c, 0, n, P, V)
    BY <1>3, <1>8
  <2> HIDE DEF c
  <2> QED
    BY <1>1, <1>6, <2>1, ScanValue
<1> HIDE DEF c, o
<1>a. j \in Nat
  BY <1>0
<1>10. /\ j <= k /\ j <= l /\ m[a + j] \in 0 .. 255 /\ m[b + j] \in 0 .. 255
       /\ m[a + j] = 0 <=> j = k
       /\ m[b + j] = 0 <=> j = l
  <2>1. Runs(m, a, j) /\ Runs(m, b, j)
    BY <1>7 DEF Agree, Runs
  <2> QED
    BY <1>a, <2>1, RunsWithin
<1>11. /\ j = kn /\ j = ln => o = 0
       /\ j = kn /\ j < ln => o = -1
       /\ j < kn /\ j = ln => o = 1
       /\ j < kn /\ j < ln /\ m[a + j] # m[b + j] => o = Sign(m[a + j] - m[b + j])
  <2>1. j <= kn /\ j <= ln
    BY <1>0, <1>a, <1>10
  <2> HIDE DEF kn, ln
  <2> QED
    BY <1>0, <1>7, <1>a, <2>1, OrderLoaded DEF o
<1>12. Sign(V[j]) = o
  BY <1>0, <1>7, <1>a, <1>10, <1>11 DEF Sign
<1> QED
  BY <1>4, <1>5, <1>9, <1>12 DEF o

-----------------------------------------------------------------------------
(* Search.                                                                 *)

LEMMA PrefixBytes ==
    ASSUME NEW m \in Mem, NEW x \in Addr, NEW b \in Addr, NEW k, NEW l,
           Ends(m, x, k), Ends(m, b, l)
    PROVE  IsPrefix(Str(m, b), Str(m, x)) <=>
               l <= k /\ \A i \in 0 .. (l - 1) : m[b + i] = m[x + i]
<1> DEFINE s == Load(m, b, l)
           t == Load(m, x, k)
<1>0. k \in Nat /\ l \in Nat /\ b \in Nat /\ x \in Nat /\ Fits(x, k) /\ Fits(b, l)
  BY LibcStringAssumption DEF Ends, Addr, Fits
<1>a. Str(m, b) = s /\ Str(m, x) = t
  BY StrValue
<1>1. s \in Seq(Int) /\ t \in Seq(Int)
  BY <1>0, LoadBytes
<1>2. Len(s) = l /\ \A i \in 1 .. l : s[i] = m[b + i - 1]
  BY <1>0, LoadFacts
<1>3. Len(t) = k /\ \A i \in 1 .. k : t[i] = m[x + i - 1]
  BY <1>0, LoadFacts
<1> HIDE DEF s, t
<1>4. IsPrefix(s, t) <=> l <= k /\ \A i \in 1 .. l : m[b + i - 1] = m[x + i - 1]
  <2>1. IsPrefix(s, t) <=> Len(s) <= Len(t) /\ \A i \in 1 .. Len(s) : s[i] = t[i]
    BY <1>1, PrefixElements
  <2>2. ASSUME l <= k, NEW i \in 1 .. l
        PROVE  s[i] = m[b + i - 1] /\ t[i] = m[x + i - 1]
    <3>1. i \in 1 .. k
      BY <1>0, <2>2
    <3> QED
      BY <1>2, <1>3, <3>1
  <2> QED
    BY <1>0, <1>2, <1>3, <2>1, <2>2
<1>5. (\A i \in 1 .. l : m[b + i - 1] = m[x + i - 1]) <=>
          \A i \in 0 .. (l - 1) : m[b + i] = m[x + i]
  <2>1. ASSUME \A i \in 1 .. l : m[b + i - 1] = m[x + i - 1], NEW i \in 0 .. (l - 1)
        PROVE  m[b + i] = m[x + i]
    <3>1. i + 1 \in 1 .. l /\ b + (i + 1) - 1 = b + i /\ x + (i + 1) - 1 = x + i
      BY <1>0
    <3> QED
      BY <2>1, <3>1
  <2>2. ASSUME \A i \in 0 .. (l - 1) : m[b + i] = m[x + i], NEW i \in 1 .. l
        PROVE  m[b + i - 1] = m[x + i - 1]
    <3>1. i - 1 \in 0 .. (l - 1) /\ b + (i - 1) = b + i - 1 /\ x + (i - 1) = x + i - 1
      BY <1>0
    <3> QED
      BY <2>2, <3>1
  <2> QED
    BY <2>1, <2>2
<1> QED
  BY <1>a, <1>4, <1>5

LEMMA EmptyNeedle ==
    ASSUME NEW m \in Mem, NEW x \in Addr, NEW b \in Addr, NEW k,
           Ends(m, x, k), m[b] = 0
    PROVE  IsPrefix(Str(m, b), Str(m, x))
<1>0. b \in Nat /\ b + 0 = b /\ k \in Nat
  BY LibcStringAssumption DEF Ends, Addr
<1>1. Ends(m, b, 0)
  BY <1>0 DEF Ends
<1>2. IsPrefix(Str(m, b), Str(m, x)) <=>
          0 <= k /\ \A i \in 0 .. (0 - 1) : m[b + i] = m[x + i]
  BY <1>1, PrefixBytes
<1> QED
  BY <1>0, <1>2

(* The inner loop of strstr gets to the end of the needle exactly if the   *)
(* needle is a prefix.                                                     *)
LEMMA MatchesPrefix ==
    ASSUME NEW m \in Mem, NEW x \in Addr, NEW b \in Addr, NEW k, NEW l,
           Ends(m, x, k), Ends(m, b, l)
    PROVE  Matches(m, x, b) <=> IsPrefix(Str(m, b), Str(m, x))
<1> DEFINE P == {i \in 0 .. l : ~ (m[x + i] # 0 /\ m[b + i] # 0 /\ m[x + i] = m[b + i])}
           V == [i \in 0 .. l |-> i]
           Q(f) == f = [i \in 0 .. Strlen(m, b) |->
                          IF m[x + i] # 0 /\ m[b + i] # 0 /\ m[x + i] = m[b + i]
                          THEN f[i + 1] ELSE i]
           c == CHOOSE f : Q(f)
<1>0. k \in Nat /\ l \in Nat /\ b \in Nat /\ x \in Nat /\ Fits(x, k) /\ Fits(b, l)
  BY LibcStringAssumption DEF Ends, Addr, Fits
<1>1. l \in P /\ 0 \in 0 .. l
  BY <1>0 DEF Ends
<1>2. Strlen(m, b) = l
  BY StrlenValue
<1>3. \A f : Scans(f, 0, l, P, V) <=> Q(f)
  BY <1>2 DEF Scans
<1>4. Matches(m, x, b) <=> m[b + c[0]] = 0
  BY DEF Matches
<1>6. PICK j \in 0 .. l : Stops(P, 0, j)
  <2> HIDE DEF P
  <2> QED
    BY <1>0, <1>1, FirstStop
<1>7. /\ j \in Nat /\ V[j] = j /\ Agree(m, x, b, j)
      /\ m[x + j] = 0 \/ m[b + j] = 0 \/ m[x + j] # m[b + j]
  BY <1>0, <1>6 DEF Stops, Agree
<1> HIDE DEF P, V, Q
<1>8. Q(c)
  <2>1. \E f : Scans(f, 0, l, P, V)
    BY <1>0, <1>1, ScanExists
  <2>2. \E f : Q(f)
    BY <1>3, <2>1
  <2> QED
    BY <2>2, Zenon
<1>9. c[0] = j
  <2>1. Scans(c, 0, l, P, V)
    BY <1>3, <1>8
  <2> HIDE DEF c
  <2>2. c[0] = V[j]
    BY <1>0, <1>1, <1>6, <2>1, ScanValue
  <2> QED
    BY <1>7, <2>2
<1> HIDE DEF c
<1>10. Runs(m, x, j) /\ Runs(m, b, j)
  BY <1>7 DEF Agree, Runs
<1>11. j <= k /\ (m[b + j] = 0 <=> j = l)
  BY <1>7, <1>10, RunsWithin
<1>12. IsPrefix(Str(m, b), Str(m, x)) <=> l <= k /\ \A i \in 0 .. (l - 1) : m[b + i] = m[x + i]
  BY PrefixBytes
<1>13. ASSUME j = l PROVE IsPrefix(Str(m, b), Str(m, x))
  BY <1>7, <1>11, <1>12, <1>13 DEF Agree
<1>14. ASSUME IsPrefix(Str(m, b), Str(m, x)) PROVE j = l
  <2> SUFFICES ASSUME j # l PROVE FALSE
    OBVIOUS
  <2>1. j \in 0 .. (l - 1)
    BY <1>0
  <2>2. m[b + j] # 0 /\ m[b + j] = m[x + j]
    BY <1>12, <1>14, <2>1 DEF Ends
  <2> QED
    BY <1>7, <2>2
<1> QED
  BY <1>4, <1>9, <1>11, <1>13, <1>14

LEMMA StrstrRight ==
    ASSUME NEW m \in Mem, NEW a \in Addr, NEW b \in Addr, NEW k, NEW l,
           Ends(m, a, k), Ends(m, b, l), NEW found,
           found = {x \in a .. (a + k) : IsPrefix(Str(m, b), Str(m, x))}
    PROVE  Strstr(m, a, b) = IF found = {} THEN -1
                             ELSE CHOOSE x \in found : \A y \in found : x <= y
<1> DEFINE hi == a + k
           P == {x \in a .. hi : m[x] = 0 \/ (m[x] = m[b] /\ Matches(m, x, b))}
           V == [x \in a .. hi |-> IF m[x] = 0 THEN -1 ELSE x]
           Q(f) == f = [x \in a .. (a + Strlen(m, a)) |->
                          IF m[x] = 0 THEN -1
                          ELSE IF m[x] = m[b] /\ Matches(m, x, b) THEN x ELSE f[x + 1]]
           c == CHOOSE f : Q(f)
           least == CHOOSE x \in found : \A y \in found : x <= y
<1>0. k \in Nat /\ l \in Nat /\ a \in Nat /\ b \in Nat /\ hi \in Nat /\ hi \in Addr
  BY LibcStringAssumption DEF Ends, Addr
<1>1. Strlen(m, a) = k
  BY StrlenValue
<1>2. Strstr(m, a, b) = IF m[b] = 0 THEN a ELSE c[a]
  BY DEF Strstr
(* Every place in the haystack is a string, and found says what matches.   *)
<1>3. ASSUME NEW x \in a .. hi
      PROVE  x \in Addr /\ Ends(m, x, hi - x) /\ (m[x] = 0 <=> x = hi)
  <2>1. x \in Nat /\ x \in Addr /\ hi - x \in Nat /\ x + (hi - x) = hi /\ m[hi] = 0
    BY <1>0, LibcStringAssumption DEF Addr, Ends
  <2>2. ASSUME NEW i \in 0 .. (hi - x - 1) PROVE m[x + i] # 0
    <3>1. x - a + i \in 0 .. (k - 1) /\ a + (x - a + i) = x + i
      BY <1>0, <2>1
    <3> QED
      BY <3>1 DEF Ends
  <2>3. Ends(m, x, hi - x)
    BY <1>0, <2>1, <2>2 DEF Ends
  <2>4. x # hi => m[x] # 0
    <3>1. x # hi => 0 \in 0 .. (hi - x - 1) /\ x + 0 = x
      BY <2>1
    <3> QED
      BY <2>2, <3>1
  <2> QED
    BY <2>1, <2>3, <2>4
<1>4. \A x \in a .. hi : x \in found <=> Matches(m, x, b)
  <2> TAKE x \in a .. hi
  <2>1. x \in Addr /\ Ends(m, x, hi - x)
    BY <1>3
  <2>2. Matches(m, x, b) <=> IsPrefix(Str(m, b), Str(m, x))
    BY <2>1, MatchesPrefix
  <2> QED
    BY <2>2
<1>5. found \subseteq a .. hi
  OBVIOUS
<1>6. ASSUME found # {} PROVE least \in found /\ \A y \in found : least <= y
  <2>1. found \subseteq Nat
    BY <1>0, <1>5
  <2>2. \E x \in found : \A y \in found : x <= y
    BY <1>6, <2>1, LeastNumber
  <2> QED
    BY <2>2
<1>7. CASE m[b] = 0
  <2>1. a \in a .. hi /\ l = 0
    BY <1>0, <1>7 DEF Ends
  <2>2. IsPrefix(Str(m, b), Str(m, a))
    BY <1>7, EmptyNeedle
  <2>3. a \in found
    BY <1>0, <2>1, <2>2
  <2> HIDE DEF least
  <2>4. least = a
    BY <1>0, <1>5, <1>6, <2>3
  <2> QED
    BY <1>2, <1>7, <2>3, <2>4 DEF least
<1>8. CASE m[b] # 0
  <2>1. l > 0 /\ 0 \in 0 .. (l - 1) /\ b + 0 = b
    BY <1>0, <1>8 DEF Ends
  <2>2. ASSUME NEW x \in found PROVE m[x] = m[b]
    <3>1. x \in a .. hi /\ IsPrefix(Str(m, b), Str(m, x)) /\ x + 0 = x
      BY <1>0
    <3>2. x \in Addr /\ Ends(m, x, hi - x)
      BY <1>3, <3>1
    <3>3. m[b + 0] = m[x + 0]
      BY <2>1, <3>1, <3>2, PrefixBytes
    <3> QED
      BY <2>1, <3>1, <3>3
  <2>3. \A x \in a .. hi : x \in P <=> x = hi \/ x \in found
    BY <1>3, <1>4, <2>2
  <2>4. hi \notin found
    BY <1>0, <1>3, <1>8, <2>2
  <2>5. \A f : Scans(f, a, hi, P, V) <=> Q(f)
    BY <1>1 DEF Scans
  <2>6. hi \in P /\ a \in 0 .. hi
    BY <1>0, <1>3
  <2>7. \A x \in a .. hi : V[x] = IF x = hi THEN -1 ELSE x
    BY <1>3
  <2>8. PICK j \in a .. hi : Stops(P, a, j)
    <3> HIDE DEF P, hi
    <3> QED
      BY <1>0, <2>6, FirstStop
  <2>9. ASSUME NEW x \in found PROVE j <= x /\ j \in found
    <3>1. x \in a .. hi /\ x \in P /\ x # hi
      BY <1>5, <2>3, <2>4
    <3>2. j <= x
      BY <1>0, <2>8, <3>1 DEF Stops
    <3>3. j # hi /\ j \in P
      BY <1>0, <2>8, <3>1, <3>2 DEF Stops
    <3> QED
      BY <2>3, <3>2, <3>3
  <2>10. found = {} => j = hi
    BY <2>3, <2>8 DEF Stops
  <2> HIDE DEF P, V, Q, hi
  <2>11. Q(c)
    <3>1. \E f : Scans(f, a, hi, P, V)
      BY <1>0, <2>6, ScanExists
    <3>2. \E f : Q(f)
      BY <2>5, <3>1
    <3> QED
      BY <3>2, Zenon
  <2>12. Scans(c, a, hi, P, V)
    BY <2>5, <2>11
  <2> HIDE DEF c, least
  <2>13. c[a] = V[j]
    BY <1>0, <2>6, <2>8, <2>12, ScanValue
  <2>14. found = {} => c[a] = -1
    BY <2>7, <2>10, <2>13
  <2>15. ASSUME found # {} PROVE c[a] = least
    <3>1. j \in found
      BY <2>9, <2>15
    <3>2. least <= j /\ j <= least /\ least \in a .. hi
      BY <1>5, <1>6, <2>9, <2>15, <3>1
    <3>3. c[a] = j
      BY <2>4, <2>7, <2>13, <3>1
    <3> QED
      BY <1>0, <3>2, <3>3
  <2> QED
    BY <1>2, <1>8, <2>14, <2>15 DEF least
<1> QED
  BY <1>7, <1>8

LEMMA SearchesRight ==
    ASSUME NEW m \in Mem
    PROVE  SearchContracts(m)
<1> DEFINE S == {x \in Addr : IsString(m, x)}
<1>1. ASSUME NEW a \in S, NEW b \in S
      PROVE  /\ Sign(Strcmp(m, a, b)) = Order(Str(m, a), Str(m, b))
             /\ \A n \in 0 .. MemSize :
                   Sign(Strncmp(m, a, b, n)) = Order(Cut(Str(m, a), n), Cut(Str(m, b), n))
             /\ LET t     == Str(m, b)
                    found == {x \in a .. (a + Len(Str(m, a))) : IsPrefix(t, Str(m, x))}
                IN  Strstr(m, a, b) = IF found = {} THEN -1
                                      ELSE CHOOSE x \in found : \A y \in found : x <= y
  <2>0. a \in Addr /\ b \in Addr /\ IsString(m, a) /\ IsString(m, b)
    OBVIOUS
  <2> HIDE DEF S
  <2>1. PICK k \in Nat : Ends(m, a, k)
    BY <2>0, StringEnds
  <2>2. PICK l \in Nat : Ends(m, b, l)
    BY <2>0, StringEnds
  <2>3. Len(Str(m, a)) = k
    BY <2>0, <2>1, StrValue
  <2>4. Sign(Strcmp(m, a, b)) = Order(Str(m, a), Str(m, b))
    BY <2>0, <2>1, <2>2, StrcmpRight
  <2>5. ASSUME NEW n \in 0 .. MemSize
        PROVE  Sign(Strncmp(m, a, b, n)) = Order(Cut(Str(m, a), n), Cut(Str(m, b), n))
    <3>1. n \in Nat
      BY LibcStringAssumption
    <3> QED
      BY <2>0, <2>1, <2>2, <3>1, StrncmpRight
  <2> DEFINE found == {x \in a .. (a + Len(Str(m, a))) : IsPrefix(Str(m, b), Str(m, x))}
  <2>6. found = {x \in a .. (a + k) : IsPrefix(Str(m, b), Str(m, x))}
    BY <2>3
  <2>7. Strstr(m, a, b) = IF found = {} THEN -1
                          ELSE CHOOSE x \in found : \A y \in found : x <= y
    <3> HIDE DEF found
    <3> QED
      BY <2>0, <2>1, <2>2, <2>6, StrstrRight
  <2> QED
    BY <2>4, <2>5, <2>7
<1> QED
  BY <1>1 DEF SearchContracts

-----------------------------------------------------------------------------
(* The writing functions store bytes, so memory stays one.                 *)

LEMMA PatchKeeps ==
    ASSUME NEW m \in Mem, NEW d \in Nat, NEW t \in Seq(Bytes)
    PROVE  Patch(m, d, t) \in Mem
<1>0. Len(t) \in Nat /\ \A i \in 1 .. Len(t) : t[i] \in Bytes
  OBVIOUS
<1>1. ASSUME NEW u \in Addr
      PROVE  (IF u \in d .. (d + Len(t) - 1) THEN t[u - d + 1] ELSE m[u]) \in Bytes
  <2>1. u \in d .. (d + Len(t) - 1) => u - d + 1 \in 1 .. Len(t)
    BY <1>0
  <2>2. m[u] \in Bytes
    BY DEF Mem
  <2> QED
    BY <1>0, <2>1, <2>2
<1> QED
  BY <1>1 DEF Patch, Mem

LEMMA LoadKeeps ==
    ASSUME NEW m \in Mem, NEW a \in Addr, NEW k \in Nat, Fits(a, k)
    PROVE  Load(m, a, k) \in Seq(Bytes)
<1>1. ASSUME NEW i \in 1 .. k PROVE m[a + i - 1] \in Bytes
  <2>1. a + i - 1 \in Addr
    BY LibcStringAssumption DEF Addr, Fits
  <2> QED
    BY <2>1 DEF Mem
<1> QED
  BY <1>1 DEF Load

(* Zeros after bytes are bytes.                                            *)
LEMMA ZerosKeep ==
    ASSUME NEW t \in Seq(Bytes), NEW n \in Nat
    PROVE  t \o [i \in 1 .. n |-> 0] \in Seq(Bytes)
<1>1. [i \in 1 .. n |-> 0] \in Seq(Bytes)
  BY LibcStringAssumption
<1> QED
  BY <1>1

LEMMA StringTypeNext ==
    ASSUME mem \in Mem, [StringNext]_mem
    PROVE  mem' \in Mem
<1>1. CASE UNCHANGED mem
  BY <1>1
<1>2. ASSUME NEW d \in Addr, NEW s \in Addr, NEW n \in 0 .. MemSize, CopyBytes(d, s, n)
      PROVE  mem' \in Mem
  <2>1. n \in Nat /\ d \in Nat
    BY LibcStringAssumption DEF Addr
  <2>2. mem' = Patch(mem, d, Load(mem, s, n))
    BY <1>2, <2>1, MemcpyValue DEF CopyBytes
  <2>3. Load(mem, s, n) \in Seq(Bytes)
    BY <1>2, <2>1, LoadKeeps DEF CopyBytes
  <2> QED
    BY <2>1, <2>2, <2>3, PatchKeeps
<1>3. ASSUME NEW d \in Addr, NEW n \in 0 .. MemSize, NEW c \in Bytes, SetBytes(d, c, n)
      PROVE  mem' \in Mem
  <2>1. n \in Nat /\ d \in Nat
    BY LibcStringAssumption DEF Addr
  <2>2. mem' = Patch(mem, d, [i \in 1 .. n |-> c])
    BY <1>3, <2>1, MemsetValue DEF SetBytes
  <2>3. [i \in 1 .. n |-> c] \in Seq(Bytes)
    BY <2>1
  <2> QED
    BY <2>1, <2>2, <2>3, PatchKeeps
<1>4. ASSUME NEW d \in Addr, NEW s \in Addr, NEW l \in Nat, Ends(mem, s, l)
      PROVE  Load(mem, s, l + 1) \in Seq(Bytes) /\ d \in Nat
  <2>1. l + 1 \in Nat /\ Fits(s, l + 1) /\ d \in Nat
    BY <1>4, LibcStringAssumption DEF Ends, Fits, Addr
  <2> QED
    BY <2>1, LoadKeeps
<1>5. ASSUME NEW d \in Addr, NEW s \in Addr, CopyString(d, s)
      PROVE  mem' \in Mem
  <2>1. PICK l \in Nat : Ends(mem, s, l)
    BY <1>5, StringEnds DEF CopyString
  <2>2. Len(Str(mem, s)) = l
    BY <2>1, StrValue
  <2>3. ASSUME NEW e \in Addr, Fits(e, l + 1), Disjoint(e, l + 1, s, l + 1),
               mem' = Strcpy(mem, e, s)
        PROVE  mem' \in Mem
    <3>1. mem' = Patch(mem, e, Load(mem, s, l + 1))
      BY <2>1, <2>3, StrcpyValue
    <3> QED
      BY <1>4, <2>1, <3>1, PatchKeeps
  <2>4. CASE Fits(d, l + 1) /\ Disjoint(d, l + 1, s, l + 1) /\ mem' = Strcpy(mem, d, s)
    BY <2>3, <2>4
  <2>5. CASE /\ IsString(mem, d)
             /\ LET e == d + Len(Str(mem, d))
                IN  Fits(e, l + 1) /\ Disjoint(d, e + (l + 1) - d, s, l + 1)
             /\ mem' = Strcat(mem, d, s)
    <3>1. PICK h \in Nat : Ends(mem, d, h)
      BY <2>5, StringEnds
    <3>2. Len(Str(mem, d)) = h /\ Strlen(mem, d) = h
      BY <3>1, StrValue, StrlenValue
    <3>3. d + h \in Addr /\ d \in Nat /\ s \in Nat
      BY <3>1, LibcStringAssumption DEF Ends, Addr
    <3>4. Fits(d + h, l + 1) /\ Disjoint(d + h, l + 1, s, l + 1)
      BY <2>5, <3>2, <3>3 DEF Disjoint
    <3>5. mem' = Strcpy(mem, d + h, s)
      BY <2>5, <3>2 DEF Strcat
    <3> QED
      BY <2>3, <3>3, <3>4, <3>5
  <2> QED
    BY <1>5, <2>2, <2>4, <2>5 DEF CopyString
<1>6. ASSUME NEW d \in Addr, NEW s \in Addr, NEW n \in 0 .. MemSize, CopyAtMost(d, s, n)
      PROVE  mem' \in Mem
  <2>0. n \in Nat /\ d \in Nat
    BY LibcStringAssumption DEF Addr
  <2>1. PICK l \in Nat : Ends(mem, s, l)
    BY <1>6, StringEnds DEF CopyAtMost
  <2> DEFINE t == Cut(Str(mem, s), n)
             k == IF n < l THEN n ELSE l
  <2>2. t = Load(mem, s, k) /\ Len(t) = k
    BY <2>0, <2>1, CutValue
  <2>3. k \in Nat /\ n - k \in Nat /\ Fits(s, k)
    BY <2>0, <2>1, LibcStringAssumption DEF Ends, Fits, Addr
  <2>4. t \in Seq(Bytes)
    <3> HIDE DEF t, k
    <3> QED
      BY <2>2, <2>3, LoadKeeps
  <2>5. ASSUME mem' = Strncpy(mem, d, s, n) PROVE mem' \in Mem
    <3>1. mem' = Patch(mem, d, t \o [i \in 1 .. (n - Len(t)) |-> 0])
      BY <2>0, <2>1, <2>5, StrncpyValue
    <3> HIDE DEF t, k
    <3>2. t \o [i \in 1 .. (n - Len(t)) |-> 0] \in Seq(Bytes)
      BY <2>2, <2>3, <2>4, ZerosKeep
    <3> QED
      BY <2>0, <3>1, <3>2, PatchKeeps
  <2>6. ASSUME IsString(mem, d), mem' = Strncat(mem, d, s, n) PROVE mem' \in Mem
    <3>1. PICK h \in Nat : Ends(mem, d, h)
      BY <2>6, StringEnds
    <3>2. mem' = Patch(mem, d + h, t \o <<0>>)
      <4>1. ASSUME NEW m \in Mem, m = mem
            PROVE  Strncat(m, d, s, n) = Patch(m, d + h, Cut(Str(m, s), n) \o <<0>>)
        <5>1. Ends(m, s, l) /\ Ends(m, d, h) /\ n \in Nat
          BY <2>0, <2>1, <3>1, <4>1
        <5> HIDE DEF t, k
        <5> QED
          BY <5>1, StrncatValue
      <4> QED
        BY <2>6, <4>1, Zenon
    <3> HIDE DEF t, k
    <3>3. <<0>> \in Seq(Bytes) /\ d + h \in Nat
      BY <2>0, LibcStringAssumption
    <3>4. t \o <<0>> \in Seq(Bytes)
      BY <2>4, <3>3, ConcatProperties
    <3> QED
      BY <3>2, <3>3, <3>4, PatchKeeps
  <2> QED
    BY <1>6, <2>5, <2>6 DEF CopyAtMost
<1> QED
  BY <1>1, <1>2, <1>3, <1>5, <1>6 DEF StringNext

(* Whatever calls have been made, every function of string.c keeps its     *)
(* contract on the memory they left, for every size of memory and of a     *)
(* word and every set of bytes: memcpy and memset (word loop and byte      *)
(* loop), the copying functions with the terminator and padding they       *)
(* write, the order of strcmp and strncmp, the first match of strstr.      *)
THEOREM StringFunctionsRight == StringSpec => []StringContracts
<1>1. StringInit => mem \in Mem
  BY DEF StringInit
<1>2. mem \in Mem /\ [StringNext]_mem => (mem \in Mem)'
  BY StringTypeNext
<1>3. mem \in Mem => StringContracts
  BY BlocksRight, CopiesRight, SearchesRight DEF StringContracts
<1> QED
  BY <1>1, <1>2, <1>3, PTL DEF StringSpec

(***************************************************************************)
(* 4. vCPUs.                                                               *)
(***************************************************************************)

(* Every saved context is that of its own guest, and so are the listed     *)
(* registers of the CPU while a vCPU is the current one.                   *)
Content == [guest : Vcpus \cup {NULL}, steps : Int]

ContextInv ==
    /\ NULL \notin Vcpus /\ READY \notin Vcpus
    /\ current \in Vcpus \cup {READY, NULL}
    /\ saved \in [Vcpus -> [Listed -> Content]]
    /\ regs \in [Registers -> Content]
    /\ \A v \in Vcpus, c \in Listed : saved[v][c].guest = v
    /\ current \in Vcpus /\ ~ faulted => \A c \in Listed : regs[c].guest = current

(* The guest of v has changed one of its listed registers.                 *)
OwnStep(v) ==
    /\ current = v /\ current' = v
    /\ \E c \in Listed : /\ regs[c].guest = v
                         /\ regs' = [regs EXCEPT ![c].steps = @ + 1]

OthersStay == ~ faulted' => \A v \in Vcpus : Context(v)' # Context(v) => OwnStep(v)

(* The guest in the CPU changes a register.                                *)
LEMMA ContextGuest ==
    ASSUME ContextInv, NEW r \in Registers, GuestStep(r)
    PROVE  ContextInv' /\ OthersStay
<1> DEFINE g == regs["rest"].guest
<1>1. /\ ~ faulted /\ g # NULL /\ UNCHANGED <<current, saved, faulted>>
      /\ regs' = [regs EXCEPT ![r] = [guest |-> g, steps |-> @.steps + 1]]
  BY DEF GuestStep
<1>2. g \in Vcpus /\ regs[r] \in Content /\ regs \in [Registers -> Content]
  BY <1>1 DEF ContextInv, Content, Registers, Listed
<1>3. current \in Vcpus => g = current
  BY <1>1 DEF ContextInv, Listed
<1>4. /\ regs' \in [Registers -> Content]
      /\ \A c \in Registers : regs'[c] = IF c = r THEN [guest |-> g, steps |-> regs[r].steps + 1]
                                         ELSE regs[c]
  BY <1>1, <1>2 DEF Content
<1>5. ContextInv'
  BY <1>1, <1>3, <1>4 DEF ContextInv, Registers
<1>6. ASSUME NEW v \in Vcpus, Context(v)' # Context(v)
      PROVE  OwnStep(v)
  <2>1. current = v /\ current' = v
    BY <1>1, <1>6 DEF Context
  <2>2. r \in Listed
    <3>1. SUFFICES ASSUME r \notin Listed PROVE FALSE
      OBVIOUS
    <3>2. \A c \in Listed : regs'[c] = regs[c]
      BY <1>4, <3>1 DEF Registers
    <3> QED
      BY <1>6, <2>1, <3>2 DEF Context
  <2>3. regs[r].guest = v /\ g = v
    BY <1>1, <1>3, <2>1, <2>2 DEF ContextInv
  <2>4. [guest |-> g, steps |-> regs[r].steps + 1] = [regs[r] EXCEPT !.steps = @ + 1]
    BY <1>2, <2>3 DEF Content
  <2>5. regs' = [regs EXCEPT ![r].steps = @ + 1]
    BY <1>1, <1>2, <2>4
  <2> QED
    BY <2>1, <2>2, <2>3, <2>5 DEF OwnStep
<1> QED
  BY <1>5, <1>6 DEF OthersStay

(* vcpu_save_context leaves every vCPU's context where Context finds it.   *)
LEMMA SaveKeeps ==
    ASSUME ContextInv, ~ faulted
    PROVE  /\ SavedContext \in [Vcpus -> [Listed -> Content]]
           /\ \A v \in Vcpus : SavedContext[v] = Context(v)
           /\ \A v \in Vcpus, c \in Listed : SavedContext[v][c].guest = v
<1>1. [c \in Listed |-> regs[c]] \in [Listed -> Content]
  BY DEF ContextInv, Registers
<1>2. CASE current \in Vcpus
  <2>1. SavedContext = [saved EXCEPT ![current] = [c \in Listed |-> regs[c]]]
    BY <1>2 DEF SavedContext
  <2> QED
    BY <1>1, <1>2, <2>1 DEF ContextInv, Context
<1>3. CASE current \notin Vcpus
  BY <1>3 DEF ContextInv, Context, SavedContext
<1> QED
  BY <1>2, <1>3

(* pcpu_switch, to a vCPU or to what is none.                              *)
LEMMA ContextSwitch ==
    ASSUME ContextInv, ~ faulted, saved' = SavedContext,
           current' \in Vcpus \cup {READY, NULL},
           NEW context \in [Listed -> Content],
           \/ RestoreContext(context)
           \/ current' = NULL /\ UNCHANGED <<regs, faulted>>,
           current' \in Vcpus => context = SavedContext[current']
    PROVE  ContextInv' /\ OthersStay
<1>0. NULL \notin Vcpus /\ READY \notin Vcpus /\ regs \in [Registers -> Content]
  BY DEF ContextInv
<1>1. CASE /\ regs' = [c \in Registers |-> IF c \in Listed THEN context[c] ELSE regs[c]]
           /\ UNCHANGED faulted
  <2>1. regs' \in [Registers -> Content] /\ \A c \in Listed : regs'[c] = context[c]
    BY <1>0, <1>1 DEF Registers
  <2>2. ContextInv'
    BY <1>0, <2>1, SaveKeeps DEF ContextInv
  <2>3. ASSUME NEW v \in Vcpus PROVE Context(v)' = SavedContext[v]
    <3>1. CASE v = current'
      <4>1. [c \in Listed |-> regs'[c]] = context
        BY <2>1
      <4> QED
        BY <3>1, <4>1 DEF Context
    <3>2. CASE v # current'
      BY <3>2 DEF Context
    <3> QED
      BY <3>1, <3>2
  <2> QED
    BY <2>2, <2>3, SaveKeeps DEF OthersStay
<1>2. CASE regs' = [regs EXCEPT !["entry"] = context["entry"]] /\ faulted' = TRUE
  <2>1. regs' \in [Registers -> Content]
    BY <1>0, <1>2 DEF Registers, Listed
  <2> QED
    BY <1>0, <1>2, <2>1, SaveKeeps DEF ContextInv, OthersStay
<1>3. CASE current' = NULL /\ UNCHANGED <<regs, faulted>>
  <2>1. ContextInv'
    BY <1>0, <1>3, SaveKeeps DEF ContextInv
  <2>2. \A v \in Vcpus : Context(v)' = SavedContext[v]
    BY <1>0, <1>3 DEF Context
  <2> QED
    BY <2>1, <2>2, SaveKeeps DEF OthersStay
<1> QED
  BY <1>1, <1>2, <1>3 DEF RestoreContext

LEMMA ContextNext ==
    ASSUME ContextInv, [PcpuNext]_pcpuVars
    PROVE  ContextInv' /\ OthersStay
<1>1. ASSUME NEW r \in Registers, GuestStep(r)
      PROVE  ContextInv' /\ OthersStay
  BY <1>1, ContextGuest
(* The start, suspend, resume and halt of a vCPU leave the registers; a    *)
(* list operation of theirs may be refused.                                *)
<1>2. ASSUME UNCHANGED <<current, regs, saved>>, faulted' = faulted \/ faulted' = TRUE
      PROVE  ContextInv' /\ OthersStay
  BY <1>2 DEF ContextInv, OthersStay, Context
<1>3. ASSUME NEW v \in Vcpus, \/ VcpuStart(v) \/ VcpuSuspend(v) \/ VcpuResume(v) \/ VcpuHalt(v)
      PROVE  UNCHANGED <<current, regs, saved>> /\ (faulted' = faulted \/ faulted' = TRUE)
  BY <1>3 DEF VcpuStart, VcpuSuspend, VcpuResume, VcpuHalt, MoveTo, Stores
<1>4. ASSUME NEW v \in Vcpus, SwitchTo(v)
      PROVE  ContextInv' /\ OthersStay
  <2>1. ~ faulted /\ saved' = SavedContext /\ current' = v /\ RestoreContext(SavedContext[v])
    BY <1>4 DEF SwitchTo
  <2>2. SavedContext[v] \in [Listed -> Content]
    BY <2>1, SaveKeeps
  <2> QED
    BY <2>1, <2>2, ContextSwitch
<1>5. [c \in Listed |-> Fresh(NULL)] \in [Listed -> Content]
  BY DEF Content, Fresh
<1>6. CASE SwitchToNone
  <2>1. ~ faulted /\ saved' = SavedContext /\ current' = NULL /\ UNCHANGED <<regs, faulted>>
    BY <1>6 DEF SwitchToNone
  <2> QED
    BY <1>5, <2>1, ContextSwitch DEF ContextInv
<1>7. CASE SwitchToHead
  <2>1. /\ ~ faulted /\ saved' = SavedContext /\ current' = READY
        /\ RestoreContext([c \in Listed |-> Fresh(NULL)])
    BY <1>7 DEF SwitchToHead
  <2> QED
    BY <1>5, <2>1, ContextSwitch DEF ContextInv
<1>8. CASE UNCHANGED pcpuVars
  BY <1>2, <1>8 DEF pcpuVars
<1> QED
  BY <1>1, <1>2, <1>3, <1>4, <1>6, <1>7, <1>8 DEF PcpuNext

(* pcpu_switch keeps every guest's registers that vcpu_save_context lists, *)
(* whichever vCPU it takes, the list head included, and whatever was done  *)
(* to the one that ran: a vCPU resumes where its own guest stopped.        *)
THEOREM ContextsKept ==
    NULL \notin Vcpus /\ READY \notin Vcpus => (PcpuSpec => ContextKept)
<1> SUFFICES ASSUME NULL \notin Vcpus, READY \notin Vcpus PROVE PcpuSpec => ContextKept
  OBVIOUS
<1>1. PcpuInit => ContextInv
  BY DEF PcpuInit, ContextInv, Content, Fresh
<1>2. ContextInv /\ [PcpuNext]_pcpuVars => ContextInv'
  BY ContextNext
<1> DEFINE A == OthersStay
<1>3. ContextInv /\ [PcpuNext]_pcpuVars => [A]_pcpuVars
  BY ContextNext
<1>4. ContextKept <=> [][A]_pcpuVars
  BY DEF ContextKept, OthersStay, OwnStep
<1> HIDE DEF A
<1> QED
  BY <1>1, <1>2, <1>3, <1>4, PTL DEF PcpuSpec

(***************************************************************************)
(* 5. printf.                                                              *)
(***************************************************************************)

(* Numbers and digits.                                                     *)

Bases == {10, 16}

(* DigitValue undoes DigitChars.                                           *)
LEMMA DigitCharsDiffer ==
    \A i, j \in 1 .. 16 : DigitChars[i] = DigitChars[j] => i = j
BY DEF DigitChars

LEMMA DigitValues ==
    ASSUME NEW k \in 1 .. 16
    PROVE  DigitValue(DigitChars[k]) = k - 1
<1> DEFINE c == CHOOSE i \in 1 .. 16 : DigitChars[i] = DigitChars[k]
<1>1. c \in 1 .. 16 /\ DigitChars[c] = DigitChars[k]
  OBVIOUS
<1> HIDE DEF c
<1>2. c = k
  BY <1>1, DigitCharsDiffer
<1> QED
  BY <1>2 DEF DigitValue, c

(* The loop of fetch_digit over the first n digits of s.                   *)
Sums(f, s, base, n) ==
    f = [i \in 0 .. n |-> IF i = 0 THEN 0 ELSE f[i - 1] * base + DigitValue(s[i])]

LEMMA SumsExist ==
    ASSUME NEW s, NEW base, NEW n \in Nat
    PROVE  \E f : Sums(f, s, base, n)
<1> DEFINE Bad == {k \in Nat : ~ \E f : Sums(f, s, base, k)}
<1> SUFFICES ASSUME Bad # {} PROVE FALSE
  OBVIOUS
<1>1. PICK x \in Bad : \A y \in Bad : x <= y
  <2>1. Bad \subseteq Nat
    OBVIOUS
  <2> HIDE DEF Bad
  <2> QED
    BY <2>1, LeastNumber
<1>2. x \in Nat /\ ~ \E f : Sums(f, s, base, x)
  OBVIOUS
<1>3. CASE x = 0
  <2>1. Sums([i \in 0 .. 0 |-> 0], s, base, 0)
    BY DEF Sums
  <2> QED
    BY <1>2, <1>3, <2>1
<1>4. CASE x > 0
  <2>1. x - 1 \in Nat /\ x - 1 \notin Bad
    BY <1>1, <1>2, <1>4
  <2>2. PICK f : Sums(f, s, base, x - 1)
    BY <2>1
  <2> DEFINE g == [i \in 0 .. x |-> IF i = x THEN f[x - 1] * base + DigitValue(s[x]) ELSE f[i]]
  <2>3. ASSUME NEW i \in 0 .. x
        PROVE  g[i] = IF i = 0 THEN 0 ELSE g[i - 1] * base + DigitValue(s[i])
    <3>1. i # x => i \in 0 .. (x - 1)
      BY <1>2
    <3>2. \A k \in 0 .. (x - 1) :
             f[k] = IF k = 0 THEN 0 ELSE f[k - 1] * base + DigitValue(s[k])
      BY <2>2 DEF Sums
    <3>3. i # 0 => i - 1 \in 0 .. x /\ i - 1 # x /\ g[i - 1] = f[i - 1]
      BY <1>2
    <3> QED
      BY <1>4, <3>1, <3>2, <3>3
  <2>4. g = [i \in 0 .. x |-> g[i]]
    OBVIOUS
  <2> HIDE DEF g
  <2>5. Sums(g, s, base, x)
    BY <2>3, <2>4 DEF Sums
  <2> QED
    BY <1>2, <2>5
<1> QED
  BY <1>2, <1>3, <1>4

LEMMA ValueSums ==
    ASSUME NEW s, NEW base, Len(s) \in Nat
    PROVE  \E f : Sums(f, s, base, Len(s)) /\ ValueOf(s, base) = f[Len(s)]
<1> DEFINE Q(f) == Sums(f, s, base, Len(s))
           c == CHOOSE f : Q(f)
<1>1. \E f : Q(f)
  BY SumsExist
<1>2. Q(c)
  <2> HIDE DEF Q
  <2> QED
    BY <1>1, Zenon
<1>3. ValueOf(s, base) = c[Len(s)]
  BY DEF ValueOf, Sums
<1> QED
  BY <1>2, <1>3

LEMMA ValueEmpty ==
    ASSUME NEW base PROVE ValueOf(<<>>, base) = 0
<1>1. Len(<<>>) = 0
  OBVIOUS
<1>2. PICK f : Sums(f, <<>>, base, 0) /\ ValueOf(<<>>, base) = f[0]
  BY <1>1, ValueSums
<1> QED
  BY <1>2 DEF Sums

LEMMA ValueAppend ==
    ASSUME NEW S, NEW s \in Seq(S), NEW ch \in S, NEW base
    PROVE  ValueOf(Append(s, ch), base) = ValueOf(s, base) * base + DigitValue(ch)
<1> DEFINE n == Len(s)
           t == Append(s, ch)
<1>1. n \in Nat /\ Len(t) = n + 1 /\ t[n + 1] = ch /\ \A i \in 1 .. n : t[i] = s[i]
  OBVIOUS
<1> HIDE DEF n, t
<1>2. PICK f : Sums(f, s, base, n) /\ ValueOf(s, base) = f[n]
  BY <1>1, ValueSums DEF n
<1>3. PICK g : Sums(g, t, base, n + 1) /\ ValueOf(t, base) = g[n + 1]
  BY <1>1, ValueSums
<1>4. /\ f[0] = 0 /\ g[0] = 0
      /\ \A i \in 1 .. n : f[i] = f[i - 1] * base + DigitValue(s[i])
      /\ \A i \in 1 .. (n + 1) : g[i] = g[i - 1] * base + DigitValue(t[i])
  BY <1>1, <1>2, <1>3 DEF Sums
<1>5. \A k \in 1 .. n : f[k - 1] = g[k - 1] => f[k] = g[k]
  BY <1>1, <1>4
<1>6. \A k \in 0 .. n : f[k] = g[k]
  <2>1. n \in Nat /\ f[0] = g[0]
    BY <1>1, <1>4
  <2> QED
    BY <1>5, <2>1, LoopFollows
<1>7. g[n + 1] = g[(n + 1) - 1] * base + DigitValue(ch) /\ (n + 1) - 1 = n /\ f[n] = g[n]
  BY <1>1, <1>4, <1>6
<1> QED
  BY <1>2, <1>3, <1>7 DEF t

(* d is how n is written, without a superfluous zero.                      *)
DigitsOf(base) == {DigitChars[k] : k \in 1 .. base}

IsNumeral(d, n, base) ==
    /\ d \in Seq(DigitsOf(base)) /\ Len(d) > 0
    /\ ValueOf(d, base) = n
    /\ d[1] = "0" => n = 0
    /\ n < base => Len(d) = 1

Spells(d, u, base) ==
    d = [n \in 0 .. u |-> IF n < base THEN <<DigitChars[n + 1]>>
                          ELSE Append(d[n \div base], DigitChars[(n % base) + 1])]

LEMMA DivSmaller ==
    ASSUME NEW base \in Bases, NEW n \in Nat
    PROVE  /\ n \div base \in Nat /\ n % base \in 0 .. (base - 1)
           /\ n = (n \div base) * base + (n % base)
           /\ n >= base => n \div base < n /\ n \div base > 0
<1>1. CASE base = 10
  BY <1>1
<1>2. CASE base = 16
  BY <1>2
<1> QED
  BY <1>1, <1>2 DEF Bases

LEMMA SpellsExist ==
    ASSUME NEW base \in Bases, NEW u \in Nat
    PROVE  \E d : Spells(d, u, base)
<1> DEFINE Bad == {k \in Nat : ~ \E d : Spells(d, k, base)}
<1> SUFFICES ASSUME Bad # {} PROVE FALSE
  OBVIOUS
<1>0. base \in Nat /\ base > 0
  BY DEF Bases
<1>1. PICK x \in Bad : \A y \in Bad : x <= y
  <2>1. Bad \subseteq Nat
    OBVIOUS
  <2> HIDE DEF Bad
  <2> QED
    BY <2>1, LeastNumber
<1>2. x \in Nat /\ ~ \E d : Spells(d, x, base)
  OBVIOUS
<1>3. CASE x = 0
  <2>1. Spells([n \in 0 .. 0 |-> <<DigitChars[n + 1]>>], 0, base)
    BY <1>0 DEF Spells
  <2> QED
    BY <1>2, <1>3, <2>1
<1>4. CASE x > 0
  <2>1. x - 1 \in Nat /\ x - 1 \notin Bad
    BY <1>1, <1>2, <1>4
  <2>2. PICK d : Spells(d, x - 1, base)
    BY <2>1
  <2> DEFINE e == IF x < base THEN <<DigitChars[x + 1]>>
                  ELSE Append(d[x \div base], DigitChars[(x % base) + 1])
             g == [n \in 0 .. x |-> IF n = x THEN e ELSE d[n]]
  <2>3. ASSUME NEW n \in 0 .. x
        PROVE  g[n] = IF n < base THEN <<DigitChars[n + 1]>>
                      ELSE Append(g[n \div base], DigitChars[(n % base) + 1])
    <3>1. n # x => n \in 0 .. (x - 1)
      BY <1>2
    <3>2. \A k \in 0 .. (x - 1) :
             d[k] = IF k < base THEN <<DigitChars[k + 1]>>
                    ELSE Append(d[k \div base], DigitChars[(k % base) + 1])
      BY <2>2 DEF Spells
    <3>3. n \in Nat /\ (n >= base => n \div base \in 0 .. (x - 1))
      <4>1. n \in Nat /\ n <= x
        BY <1>2
      <4>2. n \div base \in Nat /\ (n >= base => n \div base < n)
        BY <4>1, DivSmaller
      <4> QED
        BY <1>2, <4>1, <4>2
    <3>4. \A k \in 0 .. (x - 1) : g[k] = d[k]
      BY <1>2
    <3>5. g[x] = e
      BY <1>2
    <3> HIDE DEF g
    <3>6. CASE n = x
      <4>1. n >= base => g[n \div base] = d[n \div base]
        BY <3>3, <3>4
      <4> QED
        BY <1>0, <3>3, <3>5, <3>6, <4>1
    <3>7. CASE n # x
      <4>1. n >= base => g[n \div base] = d[n \div base]
        BY <3>3, <3>4
      <4>2. g[n] = d[n] /\ n \in 0 .. (x - 1)
        BY <3>1, <3>4, <3>7
      <4> QED
        BY <1>0, <3>2, <3>3, <4>1, <4>2
    <3> QED
      BY <3>6, <3>7
  <2>4. g = [n \in 0 .. x |-> g[n]]
    OBVIOUS
  <2> HIDE DEF g
  <2>5. Spells(g, x, base)
    BY <2>3, <2>4 DEF Spells
  <2> QED
    BY <1>2, <2>5
<1> QED
  BY <1>2, <1>3, <1>4

(* print64's digits, without sign and prefix.                              *)
LEMMA DigitsNumeral ==
    ASSUME NEW base \in Bases, NEW u \in Nat
    PROVE  IsNumeral(Digits(u, base), u, base)
<1> DEFINE Q(d) == Spells(d, u, base)
           c == CHOOSE d : Q(d)
           Bad == {n \in 0 .. u : ~ IsNumeral(c[n], n, base)}
<1>0. base \in Nat /\ base > 0 /\ base <= 16
  BY DEF Bases
<1>1. Digits(u, base) = c[u]
  BY DEF Digits, Spells
<1>2. Q(c)
  <2>1. \E d : Q(d)
    BY SpellsExist
  <2> HIDE DEF Q
  <2> QED
    BY <2>1, Zenon
<1> HIDE DEF c
<1>3. \A n \in 0 .. u : c[n] = IF n < base THEN <<DigitChars[n + 1]>>
                               ELSE Append(c[n \div base], DigitChars[(n % base) + 1])
  BY <1>2 DEF Spells
<1>4. ASSUME NEW x \in 0 .. u, \A y \in 0 .. (x - 1) : IsNumeral(c[y], y, base)
      PROVE  IsNumeral(c[x], x, base)
  <2>0. c[x] = IF x < base THEN <<DigitChars[x + 1]>>
               ELSE Append(c[x \div base], DigitChars[(x % base) + 1])
    BY <1>3, Zenon
  <2>1. CASE x < base
    <3>1. c[x] = <<DigitChars[x + 1]>> /\ x + 1 \in 1 .. base /\ x + 1 \in 1 .. 16 /\ x \in Nat
      BY <1>0, <2>0, <2>1
    <3> DEFINE ch == DigitChars[x + 1]
    <3>2. ch \in DigitsOf(base) /\ DigitValue(ch) = x
      BY <3>1, DigitValues DEF DigitsOf
    <3>3. ch = "0" => x = 0
      <4>1. "0" = DigitChars[1]
        BY DEF DigitChars
      <4> QED
        BY <3>1, <4>1, DigitCharsDiffer
    <3> HIDE DEF ch
    <3>4. c[x] = Append(<<>>, ch) /\ <<>> \in Seq(DigitsOf(base))
      BY <3>1 DEF ch
    <3>5. ValueOf(c[x], base) = 0 * base + x
      <4>1. ValueOf(Append(<<>>, ch), base) = ValueOf(<<>>, base) * base + DigitValue(ch)
        BY <3>2, <3>4, ValueAppend
      <4>2. ValueOf(<<>>, base) = 0
        BY ValueEmpty
      <4> QED
        BY <3>2, <3>4, <4>1, <4>2
    <3>6. c[x] \in Seq(DigitsOf(base)) /\ Len(c[x]) = 1 /\ c[x][1] = ch
      BY <3>2, <3>4
    <3> QED
      BY <1>0, <3>1, <3>3, <3>5, <3>6 DEF IsNumeral
  <2>2. CASE x >= base
    <3> DEFINE q == x \div base
               r == x % base
               ch == DigitChars[r + 1]
    <3>1. x \in Nat /\ q \in 0 .. (x - 1) /\ q > 0 /\ r \in 0 .. (base - 1) /\ x = q * base + r
      <4>1. x \in Nat
        OBVIOUS
      <4> QED
        BY <2>2, <4>1, DivSmaller
    <3>2. c[x] = Append(c[q], ch)
      <4>1. ~ (x < base)
        BY <1>0, <2>2
      <4> QED
        BY <2>0, <4>1, Zenon
    <3> HIDE DEF q, r
    <3>3. IsNumeral(c[q], q, base)
      BY <1>4, <3>1
    <3>4. ch \in DigitsOf(base) /\ DigitValue(ch) = r
      <4>1. r + 1 \in 1 .. base /\ r + 1 \in 1 .. 16 /\ (r + 1) - 1 = r
        BY <1>0, <3>1
      <4> QED
        BY <4>1, DigitValues DEF DigitsOf
    <3> HIDE DEF ch
    <3>5. c[q] \in Seq(DigitsOf(base)) /\ Len(c[q]) > 0
      BY <3>3 DEF IsNumeral
    <3>6. ValueOf(c[x], base) = x
      <4>1. ValueOf(Append(c[q], ch), base) = ValueOf(c[q], base) * base + DigitValue(ch)
        BY <3>4, <3>5, ValueAppend
      <4>2. ValueOf(c[q], base) = q
        BY <3>3 DEF IsNumeral
      <4> QED
        BY <3>1, <3>2, <3>4, <4>1, <4>2
    <3>7. c[x] \in Seq(DigitsOf(base)) /\ Len(c[x]) > 0 /\ c[x][1] = c[q][1]
      BY <3>2, <3>4, <3>5
    <3>8. c[q][1] # "0"
      BY <3>1, <3>3 DEF IsNumeral
    <3> QED
      BY <1>0, <2>2, <3>1, <3>6, <3>7, <3>8 DEF IsNumeral
  <2> QED
    BY <1>0, <2>1, <2>2
<1>5. Bad = {}
  <2> SUFFICES ASSUME Bad # {} PROVE FALSE
    OBVIOUS
  <2>1. PICK x \in Bad : \A y \in Bad : x <= y
    <3>1. Bad \subseteq Nat
      OBVIOUS
    <3> HIDE DEF Bad
    <3> QED
      BY <3>1, LeastNumber
  <2>2. x \in 0 .. u /\ \A y \in 0 .. (x - 1) : y \in 0 .. u /\ ~ (x <= y)
    OBVIOUS
  <2>3. \A y \in 0 .. (x - 1) : IsNumeral(c[y], y, base)
    BY <2>1, <2>2
  <2> QED
    BY <1>4, <2>2, <2>3
<1> QED
  BY <1>1, <1>5

-----------------------------------------------------------------------------
(* What print64 puts out.                                                  *)

(* A text in two and in three pieces.                                      *)
Joins(w, a, b) == w = a \o b

LEMMA TwoPieces ==
    ASSUME NEW S, NEW a \in Seq(S), NEW b \in Seq(S), NEW w, Joins(w, a, b)
    PROVE  /\ w \in Seq(S) /\ Len(w) = Len(a) + Len(b)
           /\ \A i \in 1 .. Len(a) : w[i] = a[i]
           /\ \A i \in 1 .. Len(b) : w[Len(a) + i] = b[i]
           /\ SubSeq(w, 1, Len(a)) = a
           /\ SubSeq(w, Len(a) + 1, Len(w)) = b
<1>1. /\ w \in Seq(S) /\ Len(w) = Len(a) + Len(b) /\ Len(a) \in Nat /\ Len(b) \in Nat
      /\ \A i \in 1 .. Len(w) : w[i] = IF i <= Len(a) THEN a[i] ELSE b[i - Len(a)]
  BY ConcatProperties DEF Joins
<1>2. \A i \in 1 .. Len(a) : w[i] = a[i]
  BY <1>1
<1>3. \A i \in 1 .. Len(b) : w[Len(a) + i] = b[i]
  <2> TAKE i \in 1 .. Len(b)
  <2>1. Len(a) + i \in 1 .. Len(w) /\ ~ (Len(a) + i <= Len(a)) /\ Len(a) + i - Len(a) = i
    BY <1>1
  <2> QED
    BY <1>1, <2>1
<1>4. SubSeq(w, 1, Len(a)) = a
  <2>1. /\ SubSeq(w, 1, Len(a)) \in Seq(S) /\ Len(SubSeq(w, 1, Len(a))) = Len(a)
        /\ \A i \in 1 .. Len(a) : SubSeq(w, 1, Len(a))[i] = w[i]
    BY <1>1
  <2> QED
    BY <1>2, <2>1, SeqEqual
<1>5. SubSeq(w, Len(a) + 1, Len(w)) = b
  <2> DEFINE v == SubSeq(w, Len(a) + 1, Len(w))
  <2>1. /\ v \in Seq(S) /\ Len(v) = Len(b)
        /\ \A i \in 1 .. Len(b) : v[i] = w[Len(a) + i]
    BY <1>1
  <2> HIDE DEF v
  <2>2. v = b
    BY <1>3, <2>1, SeqEqual
  <2> QED
    BY <2>2 DEF v
<1> QED
  BY <1>1, <1>2, <1>3, <1>4, <1>5

LEMMA ThreePieces ==
    ASSUME NEW S, NEW a \in Seq(S), NEW b \in Seq(S), NEW c \in Seq(S),
           NEW d, NEW w, Joins(d, a, b), Joins(w, d, c)
    PROVE  /\ w \in Seq(S) /\ Len(w) = Len(a) + Len(b) + Len(c)
           /\ SubSeq(w, 1, Len(a)) = a
           /\ SubSeq(w, Len(a) + 1, Len(a) + Len(b)) = b
           /\ SubSeq(w, Len(a) + Len(b) + 1, Len(w)) = c
<1>1. /\ d \in Seq(S) /\ Len(d) = Len(a) + Len(b)
      /\ SubSeq(d, 1, Len(a)) = a /\ SubSeq(d, Len(a) + 1, Len(d)) = b
  BY TwoPieces
<1>2. Len(a) \in Nat /\ Len(b) \in Nat /\ Len(c) \in Nat
  OBVIOUS
<1>3. /\ w \in Seq(S) /\ Len(w) = Len(d) + Len(c)
      /\ \A i \in 1 .. Len(d) : w[i] = d[i]
      /\ SubSeq(w, Len(d) + 1, Len(w)) = c
  BY <1>1, TwoPieces
<1>4. ASSUME NEW m \in 1 .. Len(d) + 1, NEW n \in 0 .. Len(d)
      PROVE  SubSeq(w, m, n) = SubSeq(d, m, n)
  <2>1. /\ Len(d) \in Nat /\ Len(w) \in Nat /\ m \in Nat /\ n \in Nat /\ m >= 1
        /\ n <= Len(d) /\ n <= Len(w)
    BY <1>1, <1>2, <1>3, <1>4
  <2>2. SubSeq(w, m, n) = [i \in 1 .. (n - m + 1) |-> w[i + m - 1]]
    BY <1>3, <2>1
  <2>3. SubSeq(d, m, n) = [i \in 1 .. (n - m + 1) |-> d[i + m - 1]]
    BY <1>1, <2>1
  <2>4. \A i \in 1 .. (n - m + 1) : w[i + m - 1] = d[i + m - 1]
    <3> TAKE i \in 1 .. (n - m + 1)
    <3>1. i + m - 1 \in 1 .. Len(d)
      BY <2>1
    <3> QED
      BY <1>3, <3>1
  <2> QED
    BY <2>2, <2>3, <2>4, Zenon
<1>5. SubSeq(w, 1, Len(a)) = a /\ SubSeq(w, Len(a) + 1, Len(a) + Len(b)) = b
  <2>1. /\ 1 \in 1 .. Len(d) + 1 /\ Len(a) \in 0 .. Len(d)
        /\ Len(a) + 1 \in 1 .. Len(d) + 1 /\ Len(d) \in 0 .. Len(d)
    BY <1>1, <1>2
  <2>2. SubSeq(w, 1, Len(a)) = SubSeq(d, 1, Len(a))
    BY <1>4, <2>1
  <2>3. SubSeq(w, Len(a) + 1, Len(d)) = SubSeq(d, Len(a) + 1, Len(d))
    BY <1>4, <2>1
  <2> QED
    BY <1>1, <2>2, <2>3
<1> QED
  BY <1>1, <1>2, <1>3, <1>5

LEMMA TimesFacts ==
    ASSUME NEW S, NEW k \in Int, NEW ch \in S
    PROVE  /\ Times(k, ch) \in Seq(S) /\ AllAre(Times(k, ch), ch)
           /\ Len(Times(k, ch)) = IF k > 0 THEN k ELSE 0
BY DEF Times, AllAre

Blank == " "

PrintedChars == DigitsOf(16) \cup {"-", "0", "x", Blank}

LEMMA SomePrinted ==
    {"-", "0", "x", Blank} \subseteq PrintedChars
BY DEF PrintedChars

LEMMA LeadsPrinted ==
    /\ <<>> \in Seq(PrintedChars) /\ <<"-">> \in Seq(PrintedChars)
    /\ <<"0", "x">> \in Seq(PrintedChars)
<1>1. "-" \in PrintedChars /\ "0" \in PrintedChars /\ "x" \in PrintedChars
  BY SomePrinted
<1> QED
  BY <1>1

LEMMA NumeralChars ==
    ASSUME NEW base \in Bases, NEW n, NEW d, IsNumeral(d, n, base)
    PROVE  d \in Seq(PrintedChars)
<1>1. DigitsOf(base) \subseteq PrintedChars
  <2>1. 1 .. base \subseteq 1 .. 16
    BY DEF Bases
  <2> QED
    BY <2>1 DEF DigitsOf, PrintedChars
<1> QED
  BY <1>1 DEF IsNumeral

MinusSign(v) == IF v < 0 THEN <<"-">> ELSE <<>>
Abs(v) == IF v < 0 THEN -v ELSE v

LEMMA NumberDenotes ==
    ASSUME NEW base \in Bases, NEW v \in Int, NEW prefix \in Seq(PrintedChars), NEW d,
           IsNumeral(d, Abs(v), base), NEW lead, NEW T, Joins(lead, MinusSign(v), prefix), Joins(T, lead, d)
    PROVE  Denotes(T, v, base, prefix) /\ T \in Seq(PrintedChars)
<1> DEFINE digs == SubSeq(T, Len(lead) + 1, Len(T))
<1>0. Abs(v) \in Nat /\ base \in Nat
  BY DEF Bases, Abs
<1>1. lead \in Seq(PrintedChars)
  <2>2. MinusSign(v) \in Seq(PrintedChars)
    BY LeadsPrinted DEF MinusSign
  <2> QED
    BY <2>2, TwoPieces
<1>2. d \in Seq(PrintedChars)
  BY NumeralChars
<1>4. T \in Seq(PrintedChars) /\ digs = d
  BY <1>1, <1>2, TwoPieces
<1>6. \A i \in DOMAIN d : \E k \in 1 .. base : DigitChars[k] = d[i]
  BY DEF IsNumeral, DigitsOf
<1>7. d[1] = "0" => Len(d) = 1
  BY <1>0 DEF IsNumeral, Bases
<1> HIDE DEF digs
<1>8. /\ T = lead \o digs /\ Len(digs) > 0
      /\ \A i \in DOMAIN digs : \E k \in 1 .. base : DigitChars[k] = digs[i]
      /\ ValueOf(digs, base) = Abs(v)
      /\ digs[1] = "0" => Len(digs) = 1
  BY <1>4, <1>6, <1>7, Zenon DEF IsNumeral, Joins
<1>9. Denotes(T, v, base, prefix)
  BY <1>8, Zenon DEF Denotes, Joins, MinusSign, Abs, digs
<1> QED
  BY <1>4, <1>9

(* Text T between the padding L and R, one of them empty.                  *)
Padded(text, g, pad, v, base, prefix) ==
    LET width == IF g < 0 THEN -g ELSE g
    IN  \E i, j \in 0 .. Len(text) :
          /\ i <= j
          /\ Denotes(SubSeq(text, i + 1, j), v, base, prefix)
          /\ AllAre(SubSeq(text, 1, i), pad)
          /\ AllAre(SubSeq(text, j + 1, Len(text)), Blank)
          /\ (i > 0 => g > 0) /\ (j < Len(text) => g < 0)
          /\ Len(text) = IF width > j - i THEN width ELSE j - i

Fills(L, T, R, g) ==
    /\ Len(L) = IF g - Len(T) > 0 THEN g - Len(T) ELSE 0
    /\ Len(R) = IF g < 0 /\ -g - Len(T) > 0 THEN -g - Len(T) ELSE 0

LEMMA PiecesPadded ==
    ASSUME NEW S, NEW L \in Seq(S), NEW T \in Seq(S), NEW R \in Seq(S),
           NEW M, NEW text, Joins(M, L, T), Joins(text, M, R), NEW g \in Int, NEW pad,
           NEW v, NEW base, NEW prefix, Denotes(T, v, base, prefix),
           AllAre(L, pad), AllAre(R, Blank), Fills(L, T, R, g)
    PROVE  Padded(text, g, pad, v, base, prefix)
<1> DEFINE i == Len(L)
           j == Len(L) + Len(T)
           width == IF g < 0 THEN -g ELSE g
<1>1. Len(L) \in Nat /\ Len(T) \in Nat /\ Len(R) \in Nat
  OBVIOUS

<1>2. /\ Len(text) = Len(L) + Len(T) + Len(R)
      /\ SubSeq(text, 1, Len(L)) = L
      /\ SubSeq(text, Len(L) + 1, Len(L) + Len(T)) = T
      /\ SubSeq(text, Len(L) + Len(T) + 1, Len(text)) = R
  BY ThreePieces
<1>3. /\ i \in 0 .. Len(text) /\ j \in 0 .. Len(text) /\ i <= j
      /\ (i > 0 => g > 0) /\ (j < Len(text) => g < 0)
      /\ Len(text) = IF width > j - i THEN width ELSE j - i
  <2> DEFINE l == Len(L)
             t == Len(T)
             r == Len(R)
             n == Len(text)
  <2>1. /\ l \in Nat /\ t \in Nat /\ r \in Nat /\ n = l + t + r
        /\ l = IF g - t > 0 THEN g - t ELSE 0
        /\ r = IF g < 0 /\ -g - t > 0 THEN -g - t ELSE 0
    BY <1>1, <1>2, Zenon DEF Fills
  <2> HIDE DEF l, t, r, n
  <2>2. /\ l \in 0 .. n /\ l + t \in 0 .. n /\ l <= l + t
        /\ (l > 0 => g > 0) /\ (l + t < n => g < 0)
        /\ n = IF width > (l + t) - l THEN width ELSE (l + t) - l
    BY <2>1
  <2> QED
    BY <2>2, Zenon DEF l, t, n
<1>4. /\ Denotes(SubSeq(text, i + 1, j), v, base, prefix)
      /\ AllAre(SubSeq(text, 1, i), pad)
      /\ AllAre(SubSeq(text, j + 1, Len(text)), Blank)
  BY <1>2
<1> HIDE DEF i, j
<1> QED
  BY <1>3, <1>4, Zenon DEF Padded

-----------------------------------------------------------------------------
(* Arguments of the two widths.                                            *)
LEMMA Residues ==
    ASSUME NEW N \in Nat, N > 0, NEW x \in Int
    PROVE  /\ x % N \in 0 .. (N - 1)
           /\ x \in 0 .. (N - 1) => x % N = x /\ (x - N) % N = x
OBVIOUS

(* print64's negation stays within 64 bits, the smallest num included.     *)
LEMMA MagnitudeRight ==
    ASSUME NEW num \in Int, num < 0, num >= -(LongSize \div 2)
    PROVE  Magnitude(num) = -num
<1> DEFINE h == LongSize \div 2
<1>1. h \in Nat /\ LongSize = h + h /\ LongSize \in Nat /\ LongSize > 0
  BY PrintfAssumption
<1> DEFINE N == LongSize
           a == num + 1
<1> HIDE DEF h
<1>2. a \in Int /\ a <= 0 /\ a > -h /\ num >= -h
  BY <1>1 DEF h
<1>3. Signed(a, N) = a
  <2>1. CASE a = 0
    <3>1. a % N = 0
      BY <1>1, <2>1, Residues
    <3> QED
      BY <1>1, <2>1, <3>1 DEF Signed, h
  <2>2. CASE a < 0
    <3>1. a + N \in 0 .. (N - 1) /\ (a + N) - N = a
      BY <1>1, <1>2, <2>2
    <3>2. a % N = a + N
      BY <1>1, <3>1, Residues
    <3> QED
      BY <1>1, <1>2, <2>2, <3>2 DEF Signed, h
  <2> QED
    BY <1>2, <2>1, <2>2
<1>4. Signed(-a, N) = -a
  <2>1. -a \in 0 .. (N - 1)
    BY <1>1, <1>2
  <2>2. (-a) % N = -a
    BY <1>1, <2>1, Residues
  <2> QED
    BY <1>1, <1>2, <2>2 DEF Signed, h
<1>5. -a + 1 = -num /\ -num \in 0 .. (N - 1)
  BY <1>1, <1>2
<1>6. (-num) % N = -num
  BY <1>1, <1>5, Residues
<1> QED
  BY <1>3, <1>4, <1>5, <1>6 DEF Magnitude

LEMMA Print64Padded ==
    ASSUME NEW base \in Bases, NEW v \in Int, NEW ox \in BOOLEAN, NEW sign \in BOOLEAN,
           NEW num \in Int, NEW zero \in BOOLEAN, NEW g \in Int,
           v < 0 <=> sign /\ num < 0,
           v < 0 => v = num /\ num >= -(LongSize \div 2),
           v >= 0 => v = num % LongSize
    PROVE  Padded(Print64(num, base, sign, g, ox, zero), g, IF zero THEN "0" ELSE Blank,
                  v, base, IF ox THEN <<"0", "x">> ELSE <<>>)
<1> DEFINE prefix == IF ox THEN <<"0", "x">> ELSE <<>>
           D == Digits(Abs(v), base)
           lead == MinusSign(v) \o prefix
           T == lead \o D
           pad == IF zero THEN "0" ELSE Blank
           L == Times(g - Len(T), pad)
           R == IF g < 0 THEN Times(-g - Len(T), Blank) ELSE <<>>
           M == L \o T
           text == Print64(num, base, sign, g, ox, zero)
<1>1. Abs(v) \in Nat
  BY DEF Abs
<1>2. IsNumeral(D, Abs(v), base)
  BY <1>1, DigitsNumeral
<1>3. prefix \in Seq(PrintedChars)
  BY LeadsPrinted
<1>4. text = M \o R
  <2>1. (IF sign /\ num < 0 THEN Magnitude(num) ELSE num % LongSize) = Abs(v)
    <3>1. CASE v < 0
      BY <3>1, MagnitudeRight DEF Abs
    <3>2. CASE ~ (v < 0)
      BY <3>2 DEF Abs
    <3> QED
      BY <3>1, <3>2
  <2>2. (IF sign /\ num < 0 THEN <<"-">> ELSE <<>>) = MinusSign(v)
    BY DEF MinusSign
  <2> QED
    BY <2>1, <2>2, Zenon DEF Print64, Blank
<1>5. Joins(lead, MinusSign(v), prefix) /\ Joins(T, lead, D) /\ Joins(M, L, T) /\ Joins(text, M, R)
  BY <1>4, Zenon DEF Joins
<1>6. pad \in PrintedChars /\ Blank \in PrintedChars
  BY SomePrinted
<1> HIDE DEF prefix, D, lead, T, pad, M, text
<1>7. Denotes(T, v, base, prefix) /\ T \in Seq(PrintedChars)
  BY <1>2, <1>3, <1>5, NumberDenotes
<1>8. Len(T) \in Nat
  BY <1>7
<1>9. /\ L \in Seq(PrintedChars) /\ AllAre(L, pad)
      /\ Len(L) = IF g - Len(T) > 0 THEN g - Len(T) ELSE 0
  <2>1. g - Len(T) \in Int
    BY <1>8
  <2> QED
    BY <1>6, <2>1, TimesFacts
<1>10. /\ R \in Seq(PrintedChars) /\ AllAre(R, Blank)
       /\ Len(R) = IF g < 0 /\ -g - Len(T) > 0 THEN -g - Len(T) ELSE 0
  <2>1. CASE g < 0
    <3>1. -g - Len(T) \in Int
      BY <1>8
    <3>2. R = Times(-g - Len(T), Blank)
      BY <2>1
    <3> HIDE DEF R
    <3> QED
      BY <1>6, <2>1, <3>1, <3>2, TimesFacts
  <2>2. CASE ~ (g < 0)
    <3>1. R = <<>>
      BY <2>2
    <3> HIDE DEF R
    <3> QED
      BY <2>2, <3>1 DEF AllAre
  <2> QED
    BY <2>1, <2>2
<1> HIDE DEF L, R
<1>11. Fills(L, T, R, g)
  BY <1>9, <1>10 DEF Fills
<1>12. Padded(text, g, pad, v, base, prefix)
  BY <1>5, <1>7, <1>9, <1>10, <1>11, PiecesPadded
<1> QED
  BY <1>12 DEF text, pad, prefix

Size(long) == IF long THEN LongSize ELSE IntSize

LEMMA Sizes ==
    ASSUME NEW long \in BOOLEAN
    PROVE  /\ Size(long) \in Nat /\ Size(long) > 0 /\ Size(long) <= LongSize
           /\ LongSize \in Nat /\ LongSize > 0 /\ Slots \subseteq 0 .. (LongSize - 1)
BY PrintfAssumption DEF Size

(* The unsigned reading of an argument fits a long, and so does the signed *)
(* one unless it is negative; a long is its own residue either way.        *)
LEMMA Readings ==
    ASSUME NEW long \in BOOLEAN, NEW v \in Slots
    PROVE  /\ v \in 0 .. (LongSize - 1)
           /\ v % Size(long) \in 0 .. (LongSize - 1)
           /\ (v % Size(long)) % LongSize = v % Size(long)
           /\ Signed(v, Size(long)) \in Int
           /\ Signed(v, Size(long)) >= -(LongSize \div 2)
           /\ Signed(v, Size(long)) >= 0 => Signed(v, Size(long)) % LongSize = Signed(v, Size(long))
           /\ Signed(v, LongSize) \in Int /\ Signed(v, LongSize) % LongSize = v
<1> DEFINE N == Size(long)
           u == v % N
<1>1. /\ N \in Nat /\ N > 0 /\ N <= LongSize /\ LongSize \in Nat /\ LongSize > 0
      /\ v \in 0 .. (LongSize - 1)
  BY Sizes
<1> HIDE DEF N
<1>2. u \in 0 .. (N - 1)
  BY <1>1, Residues
<1> HIDE DEF u
<1>3. u \in 0 .. (LongSize - 1) /\ u \in Int
  BY <1>1, <1>2
<1>4. u % LongSize = u
  BY <1>1, <1>3, Residues
<1>5. Signed(v, N) = u \/ (Signed(v, N) = u - N /\ Signed(v, N) < 0)
  BY <1>1, <1>2 DEF Signed, u
<1>6. v \in Int /\ v % LongSize = v /\ (v - LongSize) % LongSize = v
  BY <1>1, Residues
<1>7. Signed(v, LongSize) = v \/ Signed(v, LongSize) = v - LongSize
  BY <1>1, <1>6 DEF Signed
<1>8. /\ Signed(v, N) \in Int
      /\ Signed(v, N) >= 0 => Signed(v, N) % LongSize = Signed(v, N)
  BY <1>1, <1>2, <1>3, <1>4, <1>5
<1>9. Signed(v, LongSize) \in Int /\ Signed(v, LongSize) % LongSize = v
  BY <1>1, <1>6, <1>7
<1>10. Signed(v, N) >= -(LongSize \div 2)
  <2>1. N \div 2 \in Nat /\ N \div 2 >= N - (LongSize \div 2)
    BY <1>1, PrintfAssumption
  <2>2. LongSize \div 2 \in Nat /\ u \in Int
    BY <1>1, <1>2
  <2>3. CASE u >= N \div 2
    <3>1. Signed(v, N) = u - N
      BY <2>3 DEF Signed, u
    <3> QED
      BY <1>1, <2>1, <2>2, <2>3, <3>1
  <2>4. CASE ~ (u >= N \div 2)
    <3>1. Signed(v, N) = u
      BY <2>4 DEF Signed, u
    <3> QED
      BY <1>2, <2>2, <3>1
  <2> QED
    BY <2>3, <2>4
<1> QED
  BY <1>1, <1>3, <1>4, <1>8, <1>9, <1>10 DEF N, u

Entry(conv, digit, zero, long, arg, text) ==
    [conv |-> conv, digit |-> digit, zero |-> zero, long |-> long, arg |-> arg, text |-> text]

LEMMA EntryShows ==
    ASSUME NEW conv, NEW g, NEW zero, NEW long, NEW arg, NEW text, NEW x, NEW base, NEW prefix,
           Padded(text, g, IF zero /\ conv # "p" THEN "0" ELSE Blank, x, base, prefix)
    PROVE  Shows(Entry(conv, g, zero, long, arg, text), x, base, prefix)
<1> DEFINE e == Entry(conv, g, zero, long, arg, text)
<1>1. e.conv = conv /\ e.digit = g /\ e.zero = zero /\ e.text = text
  BY DEF Entry
<1> HIDE DEF e
<1>2. Padded(e.text, e.digit, IF e.zero /\ e.conv # "p" THEN "0" ELSE Blank, x, base, prefix)
  BY <1>1, Zenon
<1>3. Shows(e, x, base, prefix)
  BY <1>2, Zenon DEF Padded, Shows, Blank
<1> QED
  BY <1>3 DEF e

LEMMA EntryRead ==
    ASSUME NEW conv, NEW g, NEW zero, NEW long, NEW arg, NEW text,
           conv = "d" => Shows(Entry(conv, g, zero, long, arg, text), Signed(arg, Size(long)), 10, <<>>),
           conv = "u" => Shows(Entry(conv, g, zero, long, arg, text), arg % Size(long), 10, <<>>),
           conv = "x" => Shows(Entry(conv, g, zero, long, arg, text), arg, 16, <<>>),
           conv = "p" => Shows(Entry(conv, g, zero, long, arg, text), arg, 16, <<"0", "x">>)
    PROVE  ArgumentShown(Entry(conv, g, zero, long, arg, text))
<1> DEFINE e == Entry(conv, g, zero, long, arg, text)
<1>1. e.conv = conv /\ e.long = long /\ e.arg = arg
  BY DEF Entry
<1>2. /\ conv = "d" => Shows(e, Signed(arg, Size(long)), 10, <<>>)
      /\ conv = "u" => Shows(e, arg % Size(long), 10, <<>>)
      /\ conv = "x" => Shows(e, arg, 16, <<>>)
      /\ conv = "p" => Shows(e, arg, 16, <<"0", "x">>)
  OBVIOUS
<1> HIDE DEF e
<1>3. ArgumentShown(e)
  BY <1>1, <1>2, Zenon DEF ArgumentShown, Size
<1> QED
  BY <1>3 DEF e

(* %d, %u, %x and %p show their argument...                                *)
LEMMA DShown ==
    ASSUME NEW g \in Int, NEW zero \in BOOLEAN, NEW long \in BOOLEAN, NEW v \in Slots
    PROVE  ArgumentShown(Entry("d", g, zero, long, v,
                               Print64(Signed(v, Size(long)), 10, TRUE, g, FALSE, zero)))
<1> DEFINE x == Signed(v, Size(long))
           text == Print64(x, 10, TRUE, g, FALSE, zero)
<1>1. x \in Int /\ (x >= 0 => x = x % LongSize) /\ x >= -(LongSize \div 2)
  BY Readings
<1> HIDE DEF x
<1>2. 10 \in Bases
  BY DEF Bases
<1>3. Padded(text, g, IF zero THEN "0" ELSE Blank, x, 10, IF FALSE THEN <<"0", "x">> ELSE <<>>)
  BY <1>1, <1>2, Print64Padded
<1> HIDE DEF text
<1>4. Padded(text, g, IF zero /\ "d" # "p" THEN "0" ELSE Blank, x, 10, <<>>)
  BY <1>3
<1>5. Shows(Entry("d", g, zero, long, v, text), x, 10, <<>>)
  BY <1>4, EntryShows
<1> QED
  BY <1>5, EntryRead, Zenon DEF x, text

LEMMA UShown ==
    ASSUME NEW g \in Int, NEW zero \in BOOLEAN, NEW long \in BOOLEAN, NEW v \in Slots
    PROVE  ArgumentShown(Entry("u", g, zero, long, v,
                               Print64(v % Size(long), 10, FALSE, g, FALSE, zero)))
<1> DEFINE x == v % Size(long)
           text == Print64(x, 10, FALSE, g, FALSE, zero)
<1>1. x \in Int /\ x >= 0 /\ x = x % LongSize
  <2>1. x \in 0 .. (LongSize - 1) /\ x = x % LongSize /\ LongSize \in Nat
    BY Readings, Sizes
  <2> HIDE DEF x
  <2> QED
    BY <2>1
<1> HIDE DEF x
<1>2. 10 \in Bases /\ FALSE \in BOOLEAN /\ TRUE \in BOOLEAN
  BY DEF Bases
<1>3. /\ x < 0 <=> FALSE /\ x < 0
      /\ x < 0 => x = x
      /\ x >= 0 => x = x % LongSize
  BY <1>1
<1>4. Padded(text, g, IF zero THEN "0" ELSE Blank, x, 10, IF FALSE THEN <<"0", "x">> ELSE <<>>)
  BY <1>1, <1>2, <1>3, Print64Padded, Zenon
<1> HIDE DEF text
<1>5. Padded(text, g, IF zero /\ "u" # "p" THEN "0" ELSE Blank, x, 10, <<>>)
  BY <1>4
<1>6. Shows(Entry("u", g, zero, long, v, text), x, 10, <<>>)
  BY <1>5, EntryShows
<1> QED
  BY <1>6, EntryRead, Zenon DEF x, text

LEMMA XShown ==
    ASSUME NEW g \in Int, NEW zero \in BOOLEAN, NEW long \in BOOLEAN, NEW v \in Slots
    PROVE  ArgumentShown(Entry("x", g, zero, long, v,
                               Print64(Signed(v, LongSize), 16, FALSE, g, FALSE, zero)))
<1> DEFINE x == Signed(v, LongSize)
           text == Print64(x, 16, FALSE, g, FALSE, zero)
<1>1. v \in Int /\ v >= 0 /\ x \in Int /\ v = x % LongSize
  <2>1. v \in 0 .. (LongSize - 1) /\ x \in Int /\ v = x % LongSize /\ LongSize \in Nat
    BY Readings, Sizes
  <2> HIDE DEF x
  <2> QED
    BY <2>1
<1> HIDE DEF x
<1>2. 16 \in Bases /\ FALSE \in BOOLEAN /\ TRUE \in BOOLEAN
  BY DEF Bases
<1>3. /\ v < 0 <=> FALSE /\ x < 0
      /\ v < 0 => v = x
      /\ v >= 0 => v = x % LongSize
  BY <1>1
<1>4. Padded(text, g, IF zero THEN "0" ELSE Blank, v, 16, IF FALSE THEN <<"0", "x">> ELSE <<>>)
  BY <1>1, <1>2, <1>3, Print64Padded, Zenon
<1> HIDE DEF text
<1>5. Padded(text, g, IF zero /\ "x" # "p" THEN "0" ELSE Blank, v, 16, <<>>)
  BY <1>4
<1>6. Shows(Entry("x", g, zero, long, v, text), v, 16, <<>>)
  BY <1>5, EntryShows
<1> QED
  BY <1>6, EntryRead, Zenon DEF x, text

LEMMA PShown ==
    ASSUME NEW g \in Int, NEW zero \in BOOLEAN, NEW long \in BOOLEAN, NEW v \in Slots
    PROVE  ArgumentShown(Entry("p", g, zero, long, v,
                               Print64(Signed(v, LongSize), 16, FALSE, g, TRUE, FALSE)))
<1> DEFINE x == Signed(v, LongSize)
           text == Print64(x, 16, FALSE, g, TRUE, FALSE)
<1>1. v \in Int /\ v >= 0 /\ x \in Int /\ v = x % LongSize
  <2>1. v \in 0 .. (LongSize - 1) /\ x \in Int /\ v = x % LongSize /\ LongSize \in Nat
    BY Readings, Sizes
  <2> HIDE DEF x
  <2> QED
    BY <2>1
<1> HIDE DEF x
<1>2. 16 \in Bases /\ FALSE \in BOOLEAN /\ TRUE \in BOOLEAN
  BY DEF Bases
<1>3. /\ v < 0 <=> FALSE /\ x < 0
      /\ v < 0 => v = x
      /\ v >= 0 => v = x % LongSize
  BY <1>1
<1>4. Padded(text, g, IF FALSE THEN "0" ELSE Blank, v, 16, IF TRUE THEN <<"0", "x">> ELSE <<>>)
  BY <1>1, <1>2, <1>3, Print64Padded, Zenon
<1> HIDE DEF text
<1>5. Padded(text, g, IF zero /\ "p" # "p" THEN "0" ELSE Blank, v, 16, <<"0", "x">>)
  BY <1>4
<1>6. Shows(Entry("p", g, zero, long, v, text), v, 16, <<"0", "x">>)
  BY <1>5, EntryShows
<1> QED
  BY <1>6, EntryRead, Zenon DEF x, text

(* ...and the other entries have none to show.                             *)
LEMMA NothingShown ==
    ASSUME NEW conv, conv \notin {"d", "u", "x", "p"},
           NEW g, NEW zero, NEW long, NEW arg, NEW text
    PROVE  ArgumentShown(Entry(conv, g, zero, long, arg, text))
BY EntryRead, Zenon

LEMMA LongPointer ==
    ASSUME NEW g, NEW zero, NEW arg, NEW text
    PROVE  ArgumentShown(Entry("p", g, zero, TRUE, arg, text))
BY DEF ArgumentShown, Entry

-----------------------------------------------------------------------------
(* How a format is laid out: s holds t behind its first off elements.      *)
Holds(s, off, t) ==
    off + Len(t) <= Len(s) /\ \A k \in 1 .. Len(t) : s[off + k] = t[k]

LEMMA JoinHolds ==
    ASSUME NEW S, NEW a \in Seq(S), NEW b \in Seq(S), NEW w, Joins(w, a, b)
    PROVE  /\ w \in Seq(S) /\ Len(w) = Len(a) + Len(b)
           /\ Holds(w, 0, a) /\ Holds(w, Len(a), b)
<1>1. /\ w \in Seq(S) /\ Len(w) = Len(a) + Len(b)
      /\ \A i \in 1 .. Len(a) : w[i] = a[i]
      /\ \A i \in 1 .. Len(b) : w[Len(a) + i] = b[i]
  BY TwoPieces
<1>2. Len(a) \in Nat /\ Len(b) \in Nat
  OBVIOUS
<1> QED
  BY <1>1, <1>2 DEF Holds

LEMMA HoldsTrans ==
    ASSUME NEW s, NEW t, NEW u, NEW i \in Nat, NEW j \in Nat,
           Len(s) \in Nat, Len(t) \in Nat, Len(u) \in Nat,
           Holds(s, i, t), Holds(t, j, u)
    PROVE  Holds(s, i + j, u)
<1>1. (i + j) + Len(u) <= Len(s)
  BY DEF Holds
<1>2. ASSUME NEW k \in 1 .. Len(u) PROVE s[(i + j) + k] = u[k]
  <2>1. j + k \in 1 .. Len(t) /\ (i + j) + k = i + (j + k)
    BY DEF Holds
  <2>2. s[i + (j + k)] = t[j + k]
    BY <2>1 DEF Holds
  <2>3. t[j + k] = u[k]
    BY DEF Holds
  <2> QED
    BY <2>1, <2>2, <2>3
<1> QED
  BY <1>1, <1>2 DEF Holds

(* Induction over 0 .. n.                                                  *)
LEMMA Upwards ==
    ASSUME NEW n \in Nat, NEW T, 0 \in T, \A k \in 1 .. n : k - 1 \in T => k \in T
    PROVE  \A k \in 0 .. n : k \in T
<1> DEFINE Bad == {k \in 0 .. n : k \notin T}
<1> SUFFICES ASSUME Bad # {} PROVE FALSE
  OBVIOUS
<1>1. PICK x \in Bad : \A y \in Bad : x <= y
  <2>1. Bad \subseteq Nat
    OBVIOUS
  <2> HIDE DEF Bad
  <2> QED
    BY <2>1, LeastNumber
<1>2. x \in 1 .. n /\ x - 1 \in 0 .. n /\ ~ (x <= x - 1)
  BY <1>1
<1>3. x - 1 \in T
  BY <1>1, <1>2
<1> QED
  BY <1>1, <1>2, <1>3

(* The texts of the first items, one after the other.                      *)
Flattens(f, W, n) ==
    f = [i \in 1 .. n |-> IF i = 1 THEN W[i] ELSE f[i - 1] \o W[i]]

LEMMA FlattenExists ==
    ASSUME NEW W, NEW n \in Nat
    PROVE  \E f : Flattens(f, W, n)
<1> DEFINE T == {k \in Nat : \E f : Flattens(f, W, k)}
<1>1. 0 \in T
  <2>1. Flattens([i \in 1 .. 0 |-> <<>>], W, 0)
    BY DEF Flattens
  <2> QED
    BY <2>1
<1>2. ASSUME NEW k \in 1 .. n, k - 1 \in T PROVE k \in T
  <2>1. PICK f : Flattens(f, W, k - 1)
    BY <1>2
  <2> DEFINE g == [i \in 1 .. k |-> IF i < k THEN f[i] ELSE IF i = 1 THEN W[i] ELSE f[i - 1] \o W[i]]
  <2>2. \A i \in 1 .. (k - 1) : f[i] = IF i = 1 THEN W[i] ELSE f[i - 1] \o W[i]
    BY <2>1 DEF Flattens
  <2>3. ASSUME NEW i \in 1 .. k PROVE g[i] = IF i = 1 THEN W[i] ELSE g[i - 1] \o W[i]
    <3>1. i # 1 => i - 1 \in 1 .. k /\ i - 1 < k
      OBVIOUS
    <3>2. i # 1 => g[i - 1] = f[i - 1]
      BY <3>1
    <3>3. g[i] = IF i = 1 THEN W[i] ELSE f[i - 1] \o W[i]
      <4>1. CASE i < k
        <5>1. i \in 1 .. (k - 1)
          BY <4>1
        <5> QED
          BY <2>2, <4>1, <5>1, Zenon
      <4>2. CASE ~ (i < k)
        BY <4>2, Zenon
      <4> QED
        BY <4>1, <4>2
    <3> HIDE DEF g
    <3> QED
      BY <3>2, <3>3, Zenon
  <2>4. g = [i \in 1 .. k |-> g[i]]
    OBVIOUS
  <2> HIDE DEF g
  <2>5. Flattens(g, W, k)
    BY <2>3, <2>4, Zenon DEF Flattens
  <2> QED
    BY <2>5
<1> HIDE DEF T
<1>3. n \in T
  BY <1>1, <1>2, Upwards
<1> QED
  BY <1>3 DEF T

LEMMA FlattenValue ==
    ASSUME NEW W, NEW n \in Nat, Len(W) = n, n > 0
    PROVE  \E f : Flattens(f, W, n) /\ FlattenSeq(W) = f[n]
<1> DEFINE Q(f) == Flattens(f, W, n)
           c == CHOOSE f : Q(f)
<1>1. \E f : Q(f)
  BY FlattenExists
<1>2. Q(c)
  <2> HIDE DEF Q
  <2> QED
    BY <1>1, Zenon
<1>3. FlattenSeq(W) = c[n]
  <2>1. Len(W) # 0
    OBVIOUS
  <2> QED
    BY <2>1, Zenon DEF FlattenSeq, Flattens
<1> QED
  BY <1>2, <1>3

LEMMA FlattenNothing ==
    ASSUME NEW W, Len(W) = 0 PROVE FlattenSeq(W) = W
BY Zenon DEF FlattenSeq

(* The texts laid out: item i starts at o[i - 1].                          *)
Laid(s, W, n, o) ==
    /\ o \in [0 .. n -> Nat] /\ o[0] = 0 /\ o[n] = Len(s)
    /\ \A i \in 1 .. n : /\ o[i] = o[i - 1] + Len(W[i])
                         /\ Holds(s, o[i - 1], W[i])

Grown(g, S, k) == \A i \in 0 .. k : g[i] \in Seq(S) /\ Holds(g[k], 0, g[i])

LEMMA Grows ==
    ASSUME NEW S, NEW n \in Nat, NEW W, NEW g, g[0] = <<>>,
           \A i \in 1 .. n : W[i] \in Seq(S) /\ Joins(g[i], g[i - 1], W[i])
    PROVE  \A k \in 0 .. n : Grown(g, S, k)
<1> DEFINE T == {k \in 0 .. n : Grown(g, S, k)}
<1>1. 0 \in T
  <2>1. Holds(<<>>, 0, <<>>) /\ <<>> \in Seq(S)
    BY DEF Holds
  <2>2. \A i \in 0 .. 0 : i = 0
    OBVIOUS
  <2>3. Grown(g, S, 0)
    BY <2>1, <2>2, Zenon DEF Grown
  <2> QED
    BY <2>3
<1>2. ASSUME NEW k \in 1 .. n, k - 1 \in T PROVE k \in T
  <2>1. /\ k - 1 \in 0 .. n /\ k - 1 \in 0 .. (k - 1) /\ k \in 0 .. n
        /\ \A i \in 0 .. (k - 1) : g[i] \in Seq(S) /\ Holds(g[k - 1], 0, g[i])
    BY <1>2 DEF Grown
  <2>2. W[k] \in Seq(S) /\ Joins(g[k], g[k - 1], W[k])
    OBVIOUS
  <2>3. g[k] \in Seq(S) /\ Holds(g[k], 0, g[k - 1]) /\ g[k - 1] \in Seq(S)
    BY <2>1, <2>2, JoinHolds
  <2>4. Holds(g[k], 0, g[k])
    BY <2>3 DEF Holds
  <2>5. ASSUME NEW i \in 0 .. (k - 1) PROVE g[i] \in Seq(S) /\ Holds(g[k], 0, g[i])
    <3>1. /\ g[i] \in Seq(S) /\ Holds(g[k - 1], 0, g[i])
      BY <2>1
    <3>2. Len(g[i]) \in Nat /\ Len(g[k]) \in Nat /\ Len(g[k - 1]) \in Nat /\ 0 + 0 = 0 /\ 0 \in Nat
      BY <2>3, <3>1
    <3>3. Holds(g[k], 0 + 0, g[i])
      BY <2>3, <3>1, <3>2, HoldsTrans, Zenon
    <3> QED
      BY <3>1, <3>2, <3>3
  <2>6. \A i \in 0 .. k : i = k \/ i \in 0 .. (k - 1)
    OBVIOUS
  <2>7. Grown(g, S, k)
    BY <2>3, <2>4, <2>5, <2>6, Zenon DEF Grown
  <2> QED
    BY <2>1, <2>7
<1> HIDE DEF T
<1>3. \A k \in 0 .. n : k \in T
  BY <1>1, <1>2, Upwards
<1> QED
  BY <1>3 DEF T

LEMMA FlattenLaid ==
    ASSUME NEW S, NEW n \in Nat, NEW W, Len(W) = n, \A i \in 1 .. n : W[i] \in Seq(S),
           n = 0 => W = <<>>
    PROVE  FlattenSeq(W) \in Seq(S) /\ \E o : Laid(FlattenSeq(W), W, n, o)
<1> DEFINE s == FlattenSeq(W)
<1>1. CASE n = 0
  <2>1. s = <<>>
    BY <1>1, FlattenNothing
  <2> HIDE DEF s
  <2> DEFINE o == [i \in 0 .. 0 |-> 0]
  <2>2. o \in [0 .. n -> Nat] /\ o[0] = 0 /\ o[n] = 0 /\ Len(<<>>) = 0 /\ 1 .. n = {}
    BY <1>1
  <2> HIDE DEF o
  <2>3. Laid(s, W, n, o)
    BY <2>1, <2>2 DEF Laid
  <2>4. s \in Seq(S)
    BY <2>1
  <2> QED
    BY <2>3, <2>4 DEF s
<1>2. CASE n > 0
  <2>1. PICK f : Flattens(f, W, n) /\ s = f[n]
    BY <1>2, FlattenValue
  <2> HIDE DEF s
  <2> DEFINE g == [i \in 0 .. n |-> IF i = 0 THEN <<>> ELSE f[i]]
             o == [i \in 0 .. n |-> Len(g[i])]
  <2>2. g[0] = <<>> /\ g[n] = s
    BY <1>2, <2>1
  <2>3. ASSUME NEW i \in 1 .. n PROVE Joins(g[i], g[i - 1], W[i])
    <3>1. i \in 0 .. n /\ i - 1 \in 0 .. n /\ i # 0 /\ (i # 1 => i - 1 # 0) /\ (i = 1 => i - 1 = 0)
      OBVIOUS
    <3>2. f[i] = IF i = 1 THEN W[i] ELSE f[i - 1] \o W[i]
      BY <2>1 DEF Flattens
    <3>3. g[i] = f[i] /\ g[i - 1] = IF i = 1 THEN <<>> ELSE f[i - 1]
      BY <3>1
    <3> HIDE DEF g
    <3>4. CASE i = 1
      <4>1. <<>> \o W[i] = W[i]
        BY ConcatEmptySeq
      <4> QED
        BY <3>2, <3>3, <3>4, <4>1, Zenon DEF Joins
    <3>5. CASE i # 1
      BY <3>2, <3>3, <3>5, Zenon DEF Joins
    <3> QED
      BY <3>4, <3>5
  <2> HIDE DEF g
  <2>4. \A k \in 0 .. n : Grown(g, S, k)
    BY <2>2, <2>3, Grows
  <2>5. \A i \in 0 .. n : g[i] \in Seq(S) /\ Holds(s, 0, g[i])
    <3>1. n \in 0 .. n
      OBVIOUS
    <3> QED
      BY <2>2, <2>4, <3>1, Zenon DEF Grown
  <2>6. \A i \in 0 .. n : o[i] = Len(g[i]) /\ Len(g[i]) \in Nat
    <3> TAKE i \in 0 .. n
    <3>1. g[i] \in Seq(S)
      BY <2>5
    <3> QED
      BY <3>1
  <2>7. o \in [0 .. n -> Nat] /\ o[0] = 0 /\ o[n] = Len(s) /\ s \in Seq(S)
    <3>1. 0 \in 0 .. n /\ n \in 0 .. n /\ Len(<<>>) = 0
      OBVIOUS
    <3> QED
      BY <2>2, <2>5, <2>6, <3>1
  <2> HIDE DEF o
  <2>8. ASSUME NEW i \in 1 .. n
        PROVE  o[i] = o[i - 1] + Len(W[i]) /\ Holds(s, o[i - 1], W[i])
    <3>1. i \in 0 .. n /\ i - 1 \in 0 .. n
      OBVIOUS
    <3>2. /\ g[i] \in Seq(S) /\ g[i - 1] \in Seq(S) /\ W[i] \in Seq(S)
          /\ Holds(s, 0, g[i])
          /\ o[i] = Len(g[i]) /\ o[i - 1] = Len(g[i - 1])
      BY <2>5, <2>6, <3>1
    <3>3. Len(g[i]) = Len(g[i - 1]) + Len(W[i]) /\ Holds(g[i], Len(g[i - 1]), W[i])
      <4>1. Joins(g[i], g[i - 1], W[i])
        BY <2>3
      <4>2. \A a, b \in Seq(S) : \A w : Joins(w, a, b) => Len(w) = Len(a) + Len(b) /\ Holds(w, Len(a), b)
        BY JoinHolds
      <4> QED
        BY <3>2, <4>1, <4>2, Zenon
    <3>4. /\ Len(s) \in Nat /\ Len(g[i]) \in Nat /\ Len(g[i - 1]) \in Nat /\ Len(W[i]) \in Nat
          /\ 0 \in Nat /\ 0 + Len(g[i - 1]) = Len(g[i - 1])
      BY <2>7, <3>2
    <3>5. Holds(s, 0 + Len(g[i - 1]), W[i])
      BY <3>2, <3>3, <3>4, HoldsTrans, Zenon
    <3> QED
      BY <3>2, <3>3, <3>4, <3>5, Zenon
  <2>9. Laid(s, W, n, o)
    BY <2>7, <2>8, Zenon DEF Laid
  <2> QED
    BY <2>7, <2>9 DEF s
<1> QED
  BY <1>1, <1>2

-----------------------------------------------------------------------------
(* An item as it is written: the pieces of a directive and where they are. *)
FmtChars == DigitsOf(10) \cup {"%", "-", "0", "l"} \cup Conversions \cup {NUL}

MinusText(it) == IF it.minus THEN <<"-">> ELSE <<>>
ZeroText(it)  == IF it.zero THEN <<"0">> ELSE <<>>
WidthText(it) == IF it.width = 0 THEN <<>> ELSE Digits(it.width, 10)
LongText(it)  == IF it.long THEN <<"l">> ELSE <<>>

LEMMA ItemFields ==
    ASSUME NEW it \in Items
    PROVE  /\ it.minus \in BOOLEAN /\ it.zero \in BOOLEAN /\ it.long \in BOOLEAN
           /\ it.width \in Nat /\ it.conv \in Conversions \cup {"char"}
<1>1. 0 .. (IntSize \div 2 - 1) \subseteq Nat
  <2>1. IntSize \in Nat
    BY PrintfAssumption
  <2>2. IntSize \div 2 \in Nat
    BY <2>1
  <2> QED
    BY <2>2
<1> QED
  BY <1>1 DEF Items

LEMMA FmtCharFacts ==
    /\ "%" \in FmtChars /\ "-" \in FmtChars /\ "0" \in FmtChars /\ "l" \in FmtChars
    /\ NUL \in FmtChars /\ "k" \in FmtChars /\ DigitsOf(10) \subseteq FmtChars
    /\ Conversions \subseteq FmtChars
BY DEF FmtChars, Conversions

LEMMA OneChar ==
    ASSUME NEW S, NEW ch \in S
    PROVE  <<ch>> \in Seq(S) /\ Len(<<ch>>) = 1 /\ <<ch>>[1] = ch
OBVIOUS

LEMMA NoChar ==
    ASSUME NEW S PROVE <<>> \in Seq(S) /\ Len(<<>>) = 0
OBVIOUS

(* The digits of the width, without a leading zero.                        *)
LEMMA WidthDigits ==
    ASSUME NEW it \in Items
    PROVE  /\ WidthText(it) \in Seq(DigitsOf(10)) /\ ValueOf(WidthText(it), 10) = it.width
           /\ Len(WidthText(it)) > 0 => WidthText(it)[1] # "0"
<1>1. CASE it.width = 0
  <2>1. WidthText(it) = <<>>
    BY <1>1 DEF WidthText
  <2>2. ValueOf(<<>>, 10) = 0
    BY ValueEmpty
  <2>3. <<>> \in Seq(DigitsOf(10)) /\ Len(<<>>) = 0
    BY NoChar
  <2> QED
    BY <1>1, <2>1, <2>2, <2>3
<1>2. CASE it.width # 0
  <2>1. WidthText(it) = Digits(it.width, 10)
    BY <1>2 DEF WidthText
  <2>2. IsNumeral(Digits(it.width, 10), it.width, 10)
    <3>1. 10 \in Bases /\ it.width \in Nat
      BY ItemFields DEF Bases
    <3> QED
      BY <3>1, DigitsNumeral
  <2> QED
    BY <1>2, <2>1, <2>2, Zenon DEF IsNumeral
<1> QED
  BY <1>1, <1>2

LEMMA PiecesTyped ==
    ASSUME NEW it \in Items
    PROVE  /\ MinusText(it) \in Seq(FmtChars) /\ ZeroText(it) \in Seq(FmtChars)
           /\ WidthText(it) \in Seq(FmtChars) /\ LongText(it) \in Seq(FmtChars)
           /\ <<"%">> \in Seq(FmtChars)
<1>1. MinusText(it) \in Seq(FmtChars)
  BY FmtCharFacts, OneChar, NoChar, Zenon DEF MinusText
<1>2. ZeroText(it) \in Seq(FmtChars)
  BY FmtCharFacts, OneChar, NoChar, Zenon DEF ZeroText
<1>3. LongText(it) \in Seq(FmtChars)
  BY FmtCharFacts, OneChar, NoChar, Zenon DEF LongText
<1>4. WidthText(it) \in Seq(FmtChars)
  <2>1. WidthText(it) \in Seq(DigitsOf(10)) /\ DigitsOf(10) \subseteq FmtChars
    BY WidthDigits, FmtCharFacts
  <2> QED
    BY <2>1
<1>5. <<"%">> \in Seq(FmtChars)
  BY FmtCharFacts, OneChar, Zenon
<1> QED
  BY <1>1, <1>2, <1>3, <1>4, <1>5

Extends(y, x, p, S) ==
    /\ y \in Seq(S) /\ Len(y) = Len(x) + Len(p) /\ Holds(y, Len(x), p)
    /\ \A off \in Nat : \A t \in Seq(S) : Holds(x, off, t) => Holds(y, off, t)

LEMMA Extended ==
    ASSUME NEW S, NEW x \in Seq(S), NEW p \in Seq(S), NEW y, Joins(y, x, p)
    PROVE  Extends(y, x, p, S)
<1>1. y \in Seq(S) /\ Len(y) = Len(x) + Len(p) /\ Holds(y, Len(x), p) /\ Holds(y, 0, x)
  BY JoinHolds
<1>2. ASSUME NEW off \in Nat, NEW t \in Seq(S), Holds(x, off, t) PROVE Holds(y, off, t)
  <2>1. Len(y) \in Nat /\ Len(x) \in Nat /\ Len(t) \in Nat /\ 0 + off = off /\ 0 \in Nat
    BY <1>1
  <2>2. Holds(y, 0 + off, t)
    BY <1>1, <1>2, <2>1, HoldsTrans, Zenon
  <2> QED
    BY <2>1, <2>2
<1> QED
  BY <1>1, <1>2 DEF Extends

ZeroAt(it)  == 1 + Len(MinusText(it))
WidthAt(it) == ZeroAt(it) + Len(ZeroText(it))
LongAt(it)  == WidthAt(it) + Len(WidthText(it))
ConvAt(it)  == LongAt(it) + Len(LongText(it))

LEMMA OffsetsTyped ==
    ASSUME NEW it \in Items
    PROVE  /\ ZeroAt(it) \in Nat /\ WidthAt(it) \in Nat /\ LongAt(it) \in Nat /\ ConvAt(it) \in Nat
           /\ ZeroAt(it) > 0 /\ ZeroAt(it) <= WidthAt(it) /\ WidthAt(it) <= LongAt(it)
           /\ LongAt(it) <= ConvAt(it)
           /\ Len(MinusText(it)) = (IF it.minus THEN 1 ELSE 0)
           /\ Len(ZeroText(it)) = (IF it.zero THEN 1 ELSE 0)
           /\ Len(LongText(it)) = (IF it.long THEN 1 ELSE 0)
           /\ Len(WidthText(it)) \in Nat
<1>1. /\ Len(MinusText(it)) = (IF it.minus THEN 1 ELSE 0)
      /\ Len(ZeroText(it)) = (IF it.zero THEN 1 ELSE 0)
      /\ Len(LongText(it)) = (IF it.long THEN 1 ELSE 0)
  BY DEF MinusText, ZeroText, LongText
<1>2. Len(WidthText(it)) \in Nat
  BY PiecesTyped
<1> QED
  BY <1>1, <1>2 DEF ZeroAt, WidthAt, LongAt, ConvAt

LEMMA DirectiveWritten ==
    ASSUME NEW it \in Items, it.conv # "char"
    PROVE  /\ Written(it) \in Seq(FmtChars) /\ Len(Written(it)) = ConvAt(it) + 1
           /\ Holds(Written(it), 0, <<"%">>)
           /\ Holds(Written(it), 1, MinusText(it))
           /\ Holds(Written(it), ZeroAt(it), ZeroText(it))
           /\ Holds(Written(it), WidthAt(it), WidthText(it))
           /\ Holds(Written(it), LongAt(it), LongText(it))
           /\ Holds(Written(it), ConvAt(it), <<it.conv>>)
<1> DEFINE S == FmtChars
           a == <<"%">>
           b == a \o MinusText(it)
           c == b \o ZeroText(it)
           d == c \o WidthText(it)
           e == d \o LongText(it)
           f == e \o <<it.conv>>
<1>0. f = Written(it)
  BY Zenon DEF Written, MinusText, ZeroText, WidthText, LongText
<1>1. /\ Joins(b, a, MinusText(it)) /\ Joins(c, b, ZeroText(it)) /\ Joins(d, c, WidthText(it))
      /\ Joins(e, d, LongText(it)) /\ Joins(f, e, <<it.conv>>)
  BY Zenon DEF Joins
<1>2. /\ a \in Seq(S) /\ Len(a) = 1 /\ Holds(a, 0, a)
      /\ MinusText(it) \in Seq(S) /\ ZeroText(it) \in Seq(S) /\ WidthText(it) \in Seq(S)
      /\ LongText(it) \in Seq(S)
  <2>1. Len(a) = 1
    OBVIOUS
  <2>2. Holds(a, 0, a)
    BY DEF Holds
  <2> QED
    BY <2>1, <2>2, PiecesTyped
<1>3. <<it.conv>> \in Seq(S) /\ Len(<<it.conv>>) = 1
  <2>1. it.conv \in S
    BY ItemFields, FmtCharFacts
  <2> QED
    BY <2>1, OneChar
<1>4. /\ 1 \in Nat /\ 0 \in Nat
      /\ ZeroAt(it) \in Nat /\ WidthAt(it) \in Nat /\ LongAt(it) \in Nat /\ ConvAt(it) \in Nat
  BY OffsetsTyped
<1> HIDE DEF S, a, b, c, d, e, f
<1>5. /\ b \in Seq(S) /\ Len(b) = ZeroAt(it) /\ Holds(b, 1, MinusText(it)) /\ Holds(b, 0, a)
  <2>1. Extends(b, a, MinusText(it), S)
    BY <1>1, <1>2, Extended, Zenon
  <2> QED
    BY <1>2, <1>4, <2>1, Zenon DEF Extends, ZeroAt
<1>6. /\ c \in Seq(S) /\ Len(c) = WidthAt(it) /\ Holds(c, ZeroAt(it), ZeroText(it))
      /\ Holds(c, 1, MinusText(it)) /\ Holds(c, 0, a)
  <2>1. Extends(c, b, ZeroText(it), S)
    BY <1>1, <1>2, <1>5, Extended, Zenon
  <2> QED
    BY <1>2, <1>4, <1>5, <2>1, Zenon DEF Extends, WidthAt
<1>7. /\ d \in Seq(S) /\ Len(d) = LongAt(it) /\ Holds(d, WidthAt(it), WidthText(it))
      /\ Holds(d, ZeroAt(it), ZeroText(it))
      /\ Holds(d, 1, MinusText(it)) /\ Holds(d, 0, a)
  <2>1. Extends(d, c, WidthText(it), S)
    BY <1>1, <1>2, <1>6, Extended, Zenon
  <2> QED
    BY <1>2, <1>4, <1>6, <2>1, Zenon DEF Extends, LongAt
<1>8. /\ e \in Seq(S) /\ Len(e) = ConvAt(it) /\ Holds(e, LongAt(it), LongText(it))
      /\ Holds(e, WidthAt(it), WidthText(it))
      /\ Holds(e, ZeroAt(it), ZeroText(it))
      /\ Holds(e, 1, MinusText(it)) /\ Holds(e, 0, a)
  <2>1. Extends(e, d, LongText(it), S)
    BY <1>1, <1>2, <1>7, Extended, Zenon
  <2> QED
    BY <1>2, <1>4, <1>7, <2>1, Zenon DEF Extends, ConvAt
<1>9. /\ f \in Seq(S) /\ Len(f) = ConvAt(it) + 1 /\ Holds(f, ConvAt(it), <<it.conv>>)
      /\ Holds(f, LongAt(it), LongText(it))
      /\ Holds(f, WidthAt(it), WidthText(it))
      /\ Holds(f, ZeroAt(it), ZeroText(it))
      /\ Holds(f, 1, MinusText(it)) /\ Holds(f, 0, a)
  <2>1. Extends(f, e, <<it.conv>>, S)
    BY <1>1, <1>2, <1>3, <1>8, Extended, Zenon
  <2> QED
    BY <1>2, <1>4, <1>3, <1>8, <2>1, Zenon DEF Extends
<1> QED
  BY <1>0, <1>9 DEF S, a

-----------------------------------------------------------------------------
(* fetch_digit reads the flags and the width back.                         *)
DigitScan(f, from) ==
    f = [i \in from .. Len(fmt) |-> IF ~ IsDigit(fmt[i]) THEN i ELSE f[i + 1]]

LEMMA DigitsEnd ==
    ASSUME Len(fmt) \in Nat, NEW from \in 1 .. Len(fmt), NEW stop \in from .. Len(fmt),
           \A i \in from .. (stop - 1) : IsDigit(fmt[i]), ~ IsDigit(fmt[stop]),
           ~ IsDigit(fmt[Len(fmt)])
    PROVE  (CHOOSE f : DigitScan(f, from))[from] = stop
<1> DEFINE hi == Len(fmt)
           P == {i \in Nat : ~ IsDigit(fmt[i])}
           V == [i \in Nat |-> i]
           Q(f) == DigitScan(f, from)
           c == CHOOSE f : Q(f)
<1>1. from \in 0 .. hi /\ hi \in Nat /\ hi \in P /\ stop \in Nat /\ stop \in from .. hi
  OBVIOUS
<1>2. \A i \in from .. hi : i \in Nat
  BY <1>1
<1>3. \A i \in from .. hi : (i \in P <=> ~ IsDigit(fmt[i])) /\ V[i] = i
  BY <1>2
<1>4. Stops(P, from, stop)
  <2>1. from <= stop /\ stop \in P
    BY <1>1
  <2>2. \A i \in from .. (stop - 1) : i \in from .. hi
    BY <1>1
  <2>3. \A i \in from .. (stop - 1) : i \notin P
    BY <1>3, <2>2
  <2> QED
    BY <2>1, <2>3 DEF Stops
<1>5. V[stop] = stop
  BY <1>1
<1> HIDE DEF P, V, hi
<1>6. ASSUME NEW f PROVE Q(f) <=> Scans(f, from, hi, P, V)
  <2>1. [i \in from .. hi |-> IF ~ IsDigit(fmt[i]) THEN i ELSE f[i + 1]]
        = [i \in from .. hi |-> IF i \in P THEN V[i] ELSE f[i + 1]]
    BY <1>3, Zenon
  <2> QED
    BY <2>1, Zenon DEF Scans, DigitScan, hi
<1>7. \E f : Q(f)
  <2>1. \E f : Scans(f, from, hi, P, V)
    BY <1>1, ScanExists
  <2> HIDE DEF Q
  <2> QED
    BY <1>6, <2>1, Zenon
<1>8. Q(c)
  <2> HIDE DEF Q
  <2> QED
    BY <1>7, Zenon
<1>9. Scans(c, from, hi, P, V)
  BY <1>6, <1>8
<1> HIDE DEF c
<1>10. c[from] = V[stop]
  BY <1>1, <1>4, <1>9, ScanValue
<1> QED
  BY <1>5, <1>10 DEF c

Fetches(p, q, from, stop, neg, zero, n) ==
    /\ Len(fmt) \in Nat /\ neg \in BOOLEAN /\ zero \in BOOLEAN
    /\ (fmt[p] = "-") = neg /\ q = IF neg THEN p + 1 ELSE p
    /\ (fmt[q] = "0") = zero /\ from = IF zero THEN q + 1 ELSE q
    /\ from \in 1 .. Len(fmt) /\ stop \in from .. Len(fmt)
    /\ \A i \in from .. (stop - 1) : IsDigit(fmt[i])
    /\ ~ IsDigit(fmt[stop]) /\ ~ IsDigit(fmt[Len(fmt)])
    /\ n = ValueOf(SubSeq(fmt, from, stop - 1), 10)

LEMMA FetchDigitValue ==
    ASSUME NEW p, NEW q, NEW from, NEW stop, NEW neg, NEW zero, NEW n,
           Fetches(p, q, from, stop, neg, zero, n)
    PROVE  FetchDigit(p) = [digit |-> IF neg THEN -n ELSE n, zero |-> zero, at |-> stop]
<1> DEFINE ng == fmt[p] = "-"
           q1 == IF ng THEN p + 1 ELSE p
           zr == fmt[q1] = "0"
           fr == IF zr THEN q1 + 1 ELSE q1
           st == (CHOOSE f : DigitScan(f, fr))[fr]
           m  == ValueOf(SubSeq(fmt, fr, st - 1), 10)
<1>1. FetchDigit(p) = [digit |-> IF ng THEN -m ELSE m, zero |-> zr, at |-> st]
  BY DEF FetchDigit, DigitScan
<1>2. ng = neg
  BY DEF Fetches
<1> HIDE DEF ng
<1>3. q1 = q
  BY <1>2, Zenon DEF Fetches
<1> HIDE DEF q1
<1>4. zr = zero
  BY <1>3 DEF Fetches
<1> HIDE DEF zr
<1>5. fr = from
  BY <1>3, <1>4, Zenon DEF Fetches
<1> HIDE DEF fr
<1>6. (CHOOSE f : DigitScan(f, from))[from] = stop
  BY DigitsEnd DEF Fetches
<1>7. st = stop
  BY <1>5, <1>6, Zenon
<1> HIDE DEF st
<1>8. m = n
  BY <1>5, <1>7, Zenon DEF Fetches
<1> HIDE DEF m
<1> QED
  BY <1>1, <1>2, <1>4, <1>7, <1>8, Zenon

Selects(stop, end, long) ==
    long = (fmt[stop] \in {"l", "L"}) /\ end = IF long THEN stop + 1 ELSE stop

LEMMA DirectiveValue ==
    ASSUME NEW g, NEW zero, NEW stop, NEW long, NEW end,
           FetchDigit(pos + 1) = [digit |-> g, zero |-> zero, at |-> stop],
           Selects(stop, end, long)
    PROVE  Directive = [digit |-> g, zero |-> zero, long |-> long, conv |-> fmt[end],
                        next |-> end + 1]
<1> DEFINE d == [digit |-> g, zero |-> zero, at |-> stop]
<1>1. d.digit = g /\ d.zero = zero /\ d.at = stop
  OBVIOUS
<1>2. FetchDigit(pos + 1) = d
  OBVIOUS
<1> HIDE DEF d
<1> QED
  BY <1>1, <1>2, Zenon DEF Directive, Selects

Decimal == {"0", "1", "2", "3", "4", "5", "6", "7", "8", "9"}

LEMMA DigitChar ==
    ASSUME NEW ch PROVE IsDigit(ch) <=> ch \in Decimal
<1>1. /\ DigitChars[1] = "0" /\ DigitChars[2] = "1" /\ DigitChars[3] = "2" /\ DigitChars[4] = "3"
      /\ DigitChars[5] = "4" /\ DigitChars[6] = "5" /\ DigitChars[7] = "6" /\ DigitChars[8] = "7"
      /\ DigitChars[9] = "8" /\ DigitChars[10] = "9"
  BY DEF DigitChars
<1>2. \A i \in 1 .. 10 : i \in {1, 2, 3, 4, 5, 6, 7, 8, 9, 10}
  OBVIOUS
<1>3. \A i \in {1, 2, 3, 4, 5, 6, 7, 8, 9, 10} : i \in 1 .. 10
  OBVIOUS
<1>4. ASSUME IsDigit(ch) PROVE ch \in Decimal
  <2>1. PICK i \in 1 .. 10 : DigitChars[i] = ch
    BY <1>4 DEF IsDigit
  <2> QED
    BY <1>1, <1>2, <2>1, Zenon DEF Decimal
<1>5. ASSUME ch \in Decimal PROVE IsDigit(ch)
  BY <1>1, <1>3, <1>5, Zenon DEF Decimal, IsDigit
<1> QED
  BY <1>4, <1>5

LEMMA TailChar ==
    ASSUME NEW ch \in {"l"} \cup Conversions
    PROVE  ch # "-" /\ ch # "0" /\ ~ IsDigit(ch)
<1>1. ch # "-" /\ ch \notin Decimal
  BY DEF Conversions, Decimal
<1>2. ~ IsDigit(ch)
  BY <1>1, DigitChar
<1>3. ch # "0"
  BY <1>1 DEF Decimal
<1> QED
  BY <1>1, <1>2, <1>3

LEMMA WidthChar ==
    ASSUME NEW ch \in DigitsOf(10)
    PROVE  ch # "-" /\ IsDigit(ch)
<1>1. IsDigit(ch)
  BY DEF DigitsOf, IsDigit
<1>2. ch # "-"
  BY <1>1, DigitChar DEF Decimal
<1> QED
  BY <1>1, <1>2

LEMMA OtherChars ==
    /\ "0" # "-" /\ "l" \in {"l", "L"} /\ ~ IsDigit(NUL)
    /\ \A ch \in Conversions : ch \notin {"l", "L"} /\ ch # NUL /\ ch # "-" /\ ch # "0"
<1>1. NUL \notin Decimal
  BY DEF NUL, Decimal
<1> QED
  BY <1>1, DigitChar DEF Conversions, NUL

LEMMA HoldsChar ==
    ASSUME NEW s, NEW off \in Nat, NEW ch, Holds(s, off, <<ch>>)
    PROVE  s[off + 1] = ch
BY DEF Holds

LEMMA PiecesAt ==
    ASSUME NEW it \in Items, it.conv # "char", fmt \in Seq(FmtChars), NEW o \in Nat,
           Holds(fmt, o, Written(it))
    PROVE  /\ fmt[o + 1] = "%"
           /\ it.minus => fmt[(o + 1) + 1] = "-"
           /\ it.zero => fmt[(o + ZeroAt(it)) + 1] = "0"
           /\ Holds(fmt, o + WidthAt(it), WidthText(it))
           /\ it.long => fmt[(o + LongAt(it)) + 1] = "l"
           /\ fmt[(o + ConvAt(it)) + 1] = it.conv
           /\ o + ConvAt(it) + 1 <= Len(fmt)
<1> DEFINE w == Written(it)
<1>1. /\ w \in Seq(FmtChars) /\ Len(w) = ConvAt(it) + 1
      /\ Holds(w, 0, <<"%">>)
      /\ Holds(w, 1, MinusText(it))
      /\ Holds(w, ZeroAt(it), ZeroText(it))
      /\ Holds(w, WidthAt(it), WidthText(it))
      /\ Holds(w, LongAt(it), LongText(it))
      /\ Holds(w, ConvAt(it), <<it.conv>>)
  BY DirectiveWritten
<1>2. /\ 1 \in Nat /\ 0 \in Nat
      /\ ZeroAt(it) \in Nat /\ WidthAt(it) \in Nat /\ LongAt(it) \in Nat /\ ConvAt(it) \in Nat
      /\ o + 0 = o /\ o + 1 \in Nat
      /\ o + ZeroAt(it) \in Nat /\ o + LongAt(it) \in Nat /\ o + ConvAt(it) \in Nat
  BY OffsetsTyped
<1>3. /\ Holds(fmt, o, w) /\ Len(fmt) \in Nat /\ Len(w) \in Nat
      /\ \A ch : Len(<<ch>>) \in Nat
  BY <1>1
<1> HIDE DEF w
<1>4. ASSUME NEW j \in Nat, NEW u, Len(u) \in Nat, Holds(w, j, u) PROVE Holds(fmt, o + j, u)
  BY <1>3, <1>4, HoldsTrans, Zenon
<1>5. fmt[o + 1] = "%"
  <2>1. Holds(fmt, o + 0, <<"%">>)
    BY <1>1, <1>2, <1>3, <1>4, Zenon
  <2>2. Holds(fmt, o, <<"%">>)
    BY <1>2, <2>1, Zenon
  <2> QED
    BY <2>2, HoldsChar
<1>6. ASSUME it.minus PROVE fmt[(o + 1) + 1] = "-"
  <2>1. MinusText(it) = <<"-">>
    BY <1>6 DEF MinusText
  <2>2. Holds(fmt, o + 1, <<"-">>)
    BY <1>1, <1>2, <1>3, <1>4, <2>1, Zenon
  <2> QED
    BY <1>2, <2>2, HoldsChar, Zenon
<1>7. ASSUME it.zero PROVE fmt[(o + ZeroAt(it)) + 1] = "0"
  <2>1. ZeroText(it) = <<"0">>
    BY <1>7 DEF ZeroText
  <2>2. Holds(fmt, o + ZeroAt(it), <<"0">>)
    BY <1>1, <1>2, <1>3, <1>4, <2>1, Zenon
  <2> QED
    BY <1>2, <2>2, HoldsChar, Zenon
<1>8. Holds(fmt, o + WidthAt(it), WidthText(it))
  <2>1. Len(WidthText(it)) \in Nat
    BY PiecesTyped
  <2> QED
    BY <1>1, <1>2, <1>4, <2>1, Zenon
<1>9. ASSUME it.long PROVE fmt[(o + LongAt(it)) + 1] = "l"
  <2>1. LongText(it) = <<"l">>
    BY <1>9 DEF LongText
  <2>2. Holds(fmt, o + LongAt(it), <<"l">>)
    BY <1>1, <1>2, <1>3, <1>4, <2>1, Zenon
  <2> QED
    BY <1>2, <2>2, HoldsChar, Zenon
<1>10. fmt[(o + ConvAt(it)) + 1] = it.conv
  <2>2. Holds(fmt, o + ConvAt(it), <<it.conv>>)
    BY <1>1, <1>2, <1>3, <1>4, Zenon
  <2> QED
    BY <1>2, <2>2, HoldsChar, Zenon
<1>11. o + ConvAt(it) + 1 <= Len(fmt)
  <2>1. o + Len(w) <= Len(fmt)
    BY <1>3 DEF Holds
  <2>2. Len(w) = ConvAt(it) + 1 /\ ConvAt(it) \in Nat /\ Len(fmt) \in Nat
    BY <1>1, <1>2, <1>3
  <2> QED
    BY <2>1, <2>2
<1> QED
  BY <1>5, <1>6, <1>7, <1>8, <1>9, <1>10, <1>11

(* The item at pos is read as it was written.                              *)
WidthOf(it) == IF it.minus THEN -it.width ELSE it.width

LEMMA ItemRead ==
    ASSUME NEW it \in Items, it.conv # "char", fmt \in Seq(FmtChars), fmt[Len(fmt)] = NUL,
           NEW o \in Nat, pos = o + 1, Holds(fmt, o, Written(it))
    PROVE  /\ fmt[pos] = "%"
           /\ Directive = [digit |-> WidthOf(it), zero |-> it.zero, long |-> it.long,
                           conv |-> it.conv, next |-> o + ConvAt(it) + 2]
<1> DEFINE p == pos + 1
           q == (o + ZeroAt(it)) + 1
           from == (o + WidthAt(it)) + 1
           stop == (o + LongAt(it)) + 1
           end == (o + ConvAt(it)) + 1
           w == WidthText(it)
<1>1. /\ fmt[o + 1] = "%"
      /\ it.minus => fmt[p] = "-"
      /\ it.zero => fmt[q] = "0"
      /\ Holds(fmt, o + WidthAt(it), w)
      /\ it.long => fmt[stop] = "l"
      /\ fmt[end] = it.conv
      /\ o + ConvAt(it) + 1 <= Len(fmt)
  BY PiecesAt
<1>2. /\ it.minus \in BOOLEAN /\ it.zero \in BOOLEAN /\ it.long \in BOOLEAN
      /\ it.width \in Nat /\ it.conv \in Conversions
  BY ItemFields
<1>3. /\ p = o + 2 /\ Len(w) \in Nat /\ Len(fmt) \in Nat
      /\ q = IF it.minus THEN p + 1 ELSE p
      /\ from = IF it.zero THEN q + 1 ELSE q
      /\ stop = from + Len(w)
      /\ end = IF it.long THEN stop + 1 ELSE stop
      /\ p \in Nat /\ q \in Nat /\ from \in Nat /\ stop \in Nat /\ end \in Nat
      /\ from \in 1 .. Len(fmt) /\ stop \in from .. Len(fmt)
      /\ end + 1 = o + ConvAt(it) + 2
  <2>1. /\ ZeroAt(it) = 1 + (IF it.minus THEN 1 ELSE 0)
        /\ WidthAt(it) = ZeroAt(it) + (IF it.zero THEN 1 ELSE 0)
        /\ LongAt(it) = WidthAt(it) + Len(w)
        /\ ConvAt(it) = LongAt(it) + (IF it.long THEN 1 ELSE 0)
        /\ Len(w) \in Nat
    BY OffsetsTyped DEF ZeroAt, WidthAt, LongAt, ConvAt
  <2>2. Len(fmt) \in Nat
    OBVIOUS
  <2> DEFINE lw == Len(w)
             n == Len(fmt)
  <2>3. o + ConvAt(it) + 1 <= n /\ n \in Nat /\ lw \in Nat /\ LongAt(it) = WidthAt(it) + lw
    BY <1>1, <2>1, <2>2
  <2> HIDE DEF w, lw, n
  <2>4. /\ p = o + 2
        /\ q = IF it.minus THEN p + 1 ELSE p
        /\ from = IF it.zero THEN q + 1 ELSE q
        /\ end = IF it.long THEN stop + 1 ELSE stop
    BY <2>1
  <2>5. /\ stop = from + lw
        /\ p \in Nat /\ q \in Nat /\ from \in Nat /\ stop \in Nat /\ end \in Nat
        /\ from \in 1 .. n /\ stop \in from .. n
        /\ end + 1 = o + ConvAt(it) + 2
    <3> DEFINE z == ZeroAt(it)
               d == WidthAt(it)
               l == LongAt(it)
               c == ConvAt(it)
    <3>1. /\ z \in Nat /\ d \in Nat /\ l \in Nat /\ c \in Nat /\ l <= c /\ d <= l
          /\ o + c + 1 <= n /\ n \in Nat /\ lw \in Nat /\ l = d + lw
      BY <2>3, OffsetsTyped
    <3> HIDE DEF z, d, l, c
    <3>2. /\ (o + l) + 1 = ((o + d) + 1) + lw
          /\ pos + 1 \in Nat
          /\ (o + z) + 1 \in Nat /\ (o + d) + 1 \in Nat /\ (o + l) + 1 \in Nat
          /\ (o + c) + 1 \in Nat /\ (o + d) + 1 \in 1 .. n
          /\ (o + l) + 1 \in ((o + d) + 1) .. n
          /\ ((o + c) + 1) + 1 = o + c + 2
      BY <3>1
    <3> QED
      BY <3>2, Zenon DEF z, d, l, c
  <2> QED
    BY <2>1, <2>2, <2>4, <2>5, Zenon DEF lw, n
<1>4. /\ w \in Seq(DigitsOf(10)) /\ ValueOf(w, 10) = it.width
      /\ Len(w) > 0 => w[1] # "0"
  BY WidthDigits
<1>5. \A k \in 1 .. Len(w) : fmt[(o + WidthAt(it)) + k] = w[k]
  BY <1>1 DEF Holds
<1>6. o + WidthAt(it) = from - 1 /\ o + WidthAt(it) \in Nat
  BY OffsetsTyped
<1> HIDE DEF p, q, from, stop, end, w
<1>7. fmt[stop] \in {"l"} \cup Conversions
  BY <1>1, <1>2, <1>3
<1>8. fmt[stop] # "-" /\ fmt[stop] # "0" /\ ~ IsDigit(fmt[stop])
  BY <1>7, TailChar
<1>9. ASSUME NEW i \in from .. (stop - 1)
      PROVE  IsDigit(fmt[i]) /\ fmt[i] # "-" /\ fmt[i] = w[i - from + 1]
  <2>1. i - from + 1 \in 1 .. Len(w) /\ (from - 1) + (i - from + 1) = i
    BY <1>3
  <2>2. fmt[i] = w[i - from + 1]
    BY <1>5, <1>6, <2>1
  <2>3. w[i - from + 1] \in DigitsOf(10)
    BY <1>4, <2>1
  <2> QED
    BY <2>2, <2>3, WidthChar
<1>10. fmt[from] # "-" /\ fmt[from] # "0"
  <2>1. CASE Len(w) = 0
    BY <1>3, <1>8, <2>1
  <2>2. CASE Len(w) > 0
    <3>1. from \in from .. (stop - 1) /\ from - from + 1 = 1
      BY <1>3, <2>2
    <3>2. fmt[from] # "-" /\ fmt[from] = w[1]
      BY <1>9, <3>1
    <3> QED
      BY <1>4, <2>2, <3>2
  <2> QED
    BY <1>3, <2>1, <2>2
<1>11. (fmt[q] = "0") = it.zero /\ fmt[q] # "-"
  BY <1>1, <1>2, <1>3, <1>10, OtherChars
<1>12. (fmt[p] = "-") = it.minus
  BY <1>1, <1>2, <1>3, <1>11
<1>13. it.long = (fmt[stop] \in {"l", "L"})
  BY <1>1, <1>2, <1>3, OtherChars
<1>14. SubSeq(fmt, from, stop - 1) = w
  <2> DEFINE u == SubSeq(fmt, from, stop - 1)
  <2>1. stop - 1 <= Len(fmt) /\ (stop - 1) - from + 1 = Len(w) /\ from >= 1 /\ stop - 1 \in Int
    BY <1>3
  <2>2. /\ u \in Seq(FmtChars) /\ Len(u) = Len(w)
        /\ \A k \in 1 .. Len(w) : u[k] = fmt[from + k - 1]
    BY <1>3, <2>1
  <2>3. ASSUME NEW k \in 1 .. Len(w) PROVE u[k] = w[k]
    <3>1. from + k - 1 \in from .. (stop - 1) /\ (from + k - 1) - from + 1 = k
      BY <1>3
    <3>2. fmt[from + k - 1] = w[k]
      BY <1>9, <3>1
    <3> QED
      BY <2>2, <3>2
  <2> HIDE DEF u
  <2>4. u = w
    BY <1>4, <2>2, <2>3, SeqEqual
  <2> QED
    BY <2>4 DEF u
<1>15. FetchDigit(p) = [digit |-> WidthOf(it), zero |-> it.zero, at |-> stop]
  <2>1. it.width = ValueOf(SubSeq(fmt, from, stop - 1), 10)
    BY <1>4, <1>14
  <2>2. ~ IsDigit(fmt[Len(fmt)])
    BY OtherChars
  <2>3. \A i \in from .. (stop - 1) : IsDigit(fmt[i])
    BY <1>9
  <2>4. FetchDigit(p) = [digit |-> IF it.minus THEN -it.width ELSE it.width, zero |-> it.zero, at |-> stop]
    <3>1. Fetches(p, q, from, stop, it.minus, it.zero, it.width)
      BY <1>2, <1>3, <1>8, <1>11, <1>12, <2>1, <2>2, <2>3, Zenon DEF Fetches
    <3> QED
      BY <3>1, FetchDigitValue, Zenon
  <2> QED
    BY <2>4 DEF WidthOf
<1>16. Directive = [digit |-> WidthOf(it), zero |-> it.zero, long |-> it.long,
                    conv |-> fmt[end], next |-> end + 1]
  <2>1. FetchDigit(pos + 1) = [digit |-> WidthOf(it), zero |-> it.zero, at |-> stop]
    BY <1>15 DEF p
  <2> QED
    <3>1. Selects(stop, end, it.long)
      BY <1>3, <1>13, Zenon DEF Selects
    <3> QED
      BY <2>1, <3>1, DirectiveValue, Zenon
<1> QED
  BY <1>1, <1>3, <1>16, Zenon

-----------------------------------------------------------------------------
(* The format is laid out item by item, item i behind o[i - 1] characters, *)
(* with the terminator at the end...                                       *)
Layout(o) ==
    /\ fmt \in Seq(FmtChars) /\ Len(fmt) > 0 /\ fmt[Len(fmt)] = NUL
    /\ o \in [0 .. Len(items) -> Nat] /\ o[0] = 0 /\ o[Len(items)] + 1 = Len(fmt)
    /\ \A i \in 1 .. Len(items) : /\ o[i] = o[i - 1] + Len(Written(items[i]))
                                  /\ o[i] < Len(fmt)
                                  /\ Holds(fmt, o[i - 1], Written(items[i]))

(* ...vprintf stands where the next item starts, and what it has put out   *)
(* so far are the items before that, with their arguments.                 *)
Found(e, it) ==
    /\ e.conv = it.conv
    /\ it.conv # "char" => e.zero = it.zero /\ e.long = it.long /\ e.digit = WidthOf(it)

PrintfInv ==
    /\ items \in Seq(Items)
    /\ \E S : log \in Seq(S)
    /\ Len(log) \in 0 .. Len(items)
    /\ \E o : Layout(o) /\ pos = o[Len(log)] + 1
    /\ \A i \in 1 .. Len(log) : Found(log[i], items[i]) /\ ArgumentShown(log[i])

LEMMA OrdinaryWritten ==
    ASSUME NEW it, it.conv = "char"
    PROVE  /\ Written(it) \in Seq(FmtChars) /\ Len(Written(it)) = 1 /\ Written(it)[1] = "k"
<1>1. Written(it) = <<"k">>
  BY Zenon DEF Written
<1>2. "k" \in FmtChars
  BY FmtCharFacts
<1> QED
  BY <1>1, <1>2, OneChar

LEMMA WrittenTyped ==
    ASSUME NEW it \in Items
    PROVE  Written(it) \in Seq(FmtChars) /\ Len(Written(it)) \in Nat /\ Len(Written(it)) > 0
<1>1. CASE it.conv = "char"
  BY <1>1, OrdinaryWritten
<1>2. CASE it.conv # "char"
  <2>1. Written(it) \in Seq(FmtChars) /\ Len(Written(it)) = ConvAt(it) + 1 /\ ConvAt(it) \in Nat
    BY <1>2, DirectiveWritten, OffsetsTyped
  <2> QED
    BY <2>1
<1> QED
  BY <1>1, <1>2

LEMMA PrintfStart == PrintfInit => PrintfInv
<1> SUFFICES ASSUME PrintfInit PROVE PrintfInv
  OBVIOUS
<1> DEFINE n == Len(items)
           W == [i \in DOMAIN items |-> Written(items[i])]
           s == FlattenSeq(W)
<1>1. items \in Seq(Items) /\ n \in Nat /\ DOMAIN items = 1 .. n
  <2>1. items \in Seq(Items)
    BY PrintfAssumption DEF PrintfInit
  <2> QED
    BY <2>1
<1>2. \A i \in 1 .. n : W[i] = Written(items[i]) /\ W[i] \in Seq(FmtChars)
  <2> TAKE i \in 1 .. n
  <2>1. items[i] \in Items
    BY <1>1
  <2>2. Written(items[i]) \in Seq(FmtChars)
    BY <2>1, WrittenTyped
  <2> QED
    BY <1>1, <2>2
<1>3. W \in Seq(Seq(FmtChars)) /\ Len(W) = n
  <2>1. W = [i \in 1 .. n |-> W[i]]
    BY <1>1
  <2> HIDE DEF W
  <2> QED
    BY <1>1, <1>2, <2>1
<1>4. n = 0 => W = <<>>
  <2> HIDE DEF W
  <2> QED
    BY <1>3
<1>5. fmt = s \o <<NUL>> /\ pos = 1 /\ log = <<>>
  BY DEF PrintfInit
<1> HIDE DEF W, s, n
<1>6. s \in Seq(FmtChars) /\ \E o : Laid(s, W, n, o)
  BY <1>1, <1>2, <1>3, <1>4, FlattenLaid DEF s
<1>7. PICK o : Laid(s, W, n, o)
  BY <1>6
<1>8. /\ fmt \in Seq(FmtChars) /\ Len(fmt) = Len(s) + 1 /\ Holds(fmt, 0, s) /\ fmt[Len(fmt)] = NUL
  <2>1. Joins(fmt, s, <<NUL>>) /\ <<NUL>> \in Seq(FmtChars) /\ Len(<<NUL>>) = 1 /\ Len(s) \in Nat
    BY <1>5, <1>6, FmtCharFacts, OneChar DEF Joins
  <2>2. /\ fmt \in Seq(FmtChars) /\ Len(fmt) = Len(s) + Len(<<NUL>>)
        /\ Holds(fmt, 0, s) /\ Holds(fmt, Len(s), <<NUL>>)
    BY <1>6, <2>1, JoinHolds
  <2>3. fmt[Len(s) + 1] = NUL
    BY <2>1, <2>2, HoldsChar
  <2> QED
    BY <2>1, <2>2, <2>3
<1>9. ASSUME NEW i \in 1 .. n
      PROVE  /\ o[i] = o[i - 1] + Len(Written(items[i])) /\ o[i] < Len(fmt)
             /\ Holds(fmt, o[i - 1], Written(items[i]))
  <2>1. /\ W[i] = Written(items[i]) /\ W[i] \in Seq(FmtChars)
        /\ o[i] = o[i - 1] + Len(W[i]) /\ Holds(s, o[i - 1], W[i])
    BY <1>2, <1>7 DEF Laid
  <2>2. i - 1 \in 0 .. n /\ i \in 0 .. n
    BY <1>1
  <2>3. o[i - 1] \in Nat /\ o[i] \in Nat
    BY <1>7, <2>2 DEF Laid
  <2>4. Len(fmt) \in Nat /\ Len(s) \in Nat /\ Len(W[i]) \in Nat /\ 0 \in Nat /\ 0 + o[i - 1] = o[i - 1]
    BY <1>6, <1>8, <2>1, <2>3
  <2>5. Holds(fmt, 0 + o[i - 1], W[i])
    BY <1>8, <2>1, <2>3, <2>4, HoldsTrans, Zenon
  <2>6. o[i] <= Len(s)
    BY <2>1, <2>4 DEF Holds
  <2>7. o[i] < Len(fmt)
    BY <1>8, <2>3, <2>4, <2>6
  <2> QED
    BY <2>1, <2>4, <2>5, <2>7, Zenon
<1>10. Layout(o)
  <2>1. o \in [0 .. n -> Nat] /\ o[0] = 0 /\ o[n] = Len(s) /\ Len(s) \in Nat
    BY <1>6, <1>7 DEF Laid
  <2>2. o[n] + 1 = Len(fmt) /\ Len(fmt) > 0
    BY <1>8, <2>1
  <2> QED
    BY <1>8, <1>9, <2>1, <2>2, Zenon DEF Layout, n
<1>11. o[0] = 0
  BY <1>7 DEF Laid
<1>12. Len(log) = 0 /\ pos = o[Len(log)] + 1 /\ log \in Seq({})
  BY <1>5, <1>11
<1>13. Len(log) \in 0 .. Len(items) /\ 1 .. Len(log) = {}
  BY <1>1, <1>12 DEF n
<1> QED
  BY <1>1, <1>10, <1>12, <1>13, Zenon DEF PrintfInv

(* Before the terminator there is an item to read...                       *)
LEMMA ItemAt ==
    ASSUME PrintfInv, fmt[pos] # NUL, NEW it, it = items[Len(log) + 1]
    PROVE  /\ Len(log) + 1 \in 1 .. Len(items) /\ it \in Items /\ pos - 1 \in Nat
           /\ Holds(fmt, pos - 1, Written(it))
           /\ fmt \in Seq(FmtChars) /\ fmt[Len(fmt)] = NUL
<1> DEFINE k == Len(log)
           n == Len(items)
<1>1. PICK o : Layout(o) /\ pos = o[k] + 1
  BY DEF PrintfInv
<1>2. k \in 0 .. n /\ n \in Nat /\ items \in Seq(Items)
  BY DEF PrintfInv
<1>3. /\ o \in [0 .. n -> Nat] /\ o[n] + 1 = Len(fmt)
      /\ fmt \in Seq(FmtChars) /\ fmt[Len(fmt)] = NUL
      /\ \A i \in 1 .. n : Holds(fmt, o[i - 1], Written(items[i]))
  BY <1>1 DEF Layout
<1> HIDE DEF k, n
<1>4. k # n
  BY <1>1, <1>3
<1>5. k + 1 \in 1 .. n /\ (k + 1) - 1 = k
  BY <1>2, <1>4
<1>6. o[k] \in Nat /\ pos - 1 = o[k]
  BY <1>1, <1>2, <1>3
<1>7. Holds(fmt, o[k], Written(items[k + 1]))
  BY <1>3, <1>5
<1>8. items[k + 1] \in Items
  BY <1>2, <1>5 DEF n
<1> QED
  BY <1>3, <1>5, <1>6, <1>7, <1>8 DEF k, n

(* ...and reading it as written keeps the invariant.                       *)
Logs(e, it) ==
    /\ log' = Append(log, e) /\ pos' = pos + Len(Written(it))
    /\ items' = items /\ fmt' = fmt
    /\ Found(e, it) /\ ArgumentShown(e)

LEMMA LogGrows ==
    ASSUME PrintfInv, fmt[pos] # NUL, NEW it, it = items[Len(log) + 1], NEW e, Logs(e, it)
    PROVE  PrintfInv'
<1> DEFINE k == Len(log)
           n == Len(items)
<1>1. PICK o : Layout(o) /\ pos = o[k] + 1
  BY DEF PrintfInv
<1>2. PICK S : log \in Seq(S)
  BY DEF PrintfInv
<1>3. /\ k \in Nat /\ n \in Nat /\ k \in 0 .. n /\ items \in Seq(Items)
      /\ \A i \in 1 .. k : Found(log[i], items[i]) /\ ArgumentShown(log[i])
  BY <1>2 DEF PrintfInv
<1>4. k + 1 \in 1 .. n /\ it \in Items
  BY ItemAt
<1>5. /\ log' \in Seq(S \cup {e}) /\ Len(log') = k + 1 /\ log'[k + 1] = e
      /\ \A i \in 1 .. k : log'[i] = log[i]
  BY <1>2 DEF Logs
<1>6. Layout(o)'
  <2>1. items' = items /\ fmt' = fmt
    BY DEF Logs
  <2> QED
    BY <1>1, <2>1, Zenon DEF Layout
<1>7. pos' = o[k + 1] + 1
  <2>1. o[k + 1] = o[(k + 1) - 1] + Len(Written(items[k + 1])) /\ o \in [0 .. n -> Nat]
    BY <1>1, <1>4 DEF Layout
  <2>2. (k + 1) - 1 = k /\ k \in 0 .. n /\ k + 1 \in 0 .. n
    BY <1>3, <1>4
  <2>3. Len(Written(it)) \in Nat
    BY <1>4, WrittenTyped
  <2>4. o[k] \in Nat /\ o[k + 1] = o[k] + Len(Written(it))
    BY <2>1, <2>2
  <2>5. pos' = (o[k] + 1) + Len(Written(it))
    BY <1>1 DEF Logs
  <2> QED
    BY <2>3, <2>4, <2>5
<1>8. ASSUME NEW i \in 1 .. (k + 1) PROVE Found(log'[i], items[i]) /\ ArgumentShown(log'[i])
  <2>1. CASE i = k + 1
    BY <1>5, <2>1 DEF Logs
  <2>2. CASE i # k + 1
    <3>1. i \in 1 .. k
      BY <1>3, <2>2
    <3> QED
      BY <1>3, <1>5, <3>1
  <2> QED
    BY <2>1, <2>2
<1>9. items' = items
  BY DEF Logs
<1>10. Len(log') \in 0 .. Len(items')
  BY <1>3, <1>4, <1>5, <1>9
<1> HIDE DEF k
<1>11. /\ items' \in Seq(Items)
       /\ \E R : log' \in Seq(R)
       /\ \E r : Layout(r)' /\ pos' = r[Len(log')] + 1
       /\ \A i \in 1 .. Len(log') : Found(log'[i], items'[i]) /\ ArgumentShown(log'[i])
  BY <1>3, <1>5, <1>6, <1>7, <1>8, <1>9, Zenon
<1> QED
  BY <1>10, <1>11 DEF PrintfInv

(* A directive at pos is the next item.                                    *)
LEMMA DirectiveAt ==
    ASSUME PrintfInv, AtDirective, NEW it, it = items[Len(log) + 1]
    PROVE  /\ fmt[pos] # NUL /\ it \in Items /\ it.conv # "char"
           /\ Directive.conv = it.conv /\ Directive.digit = WidthOf(it)
           /\ Directive.zero = it.zero /\ Directive.long = it.long
           /\ Directive.next = pos + Len(Written(it))
<1>1. fmt[pos] # NUL /\ fmt[pos] = "%"
  BY DEF AtDirective, NUL
<1>2. /\ it \in Items /\ pos - 1 \in Nat /\ Holds(fmt, pos - 1, Written(it))
      /\ fmt \in Seq(FmtChars) /\ fmt[Len(fmt)] = NUL
  BY <1>1, ItemAt
<1> DEFINE o == pos - 1
<1>3. pos = o + 1 /\ o \in Nat
  <2>1. \E x : pos = x + 1 /\ x \in Nat
    BY DEF PrintfInv, Layout
  <2> QED
    BY <2>1
<1>4. Holds(fmt, o, Written(it))
  BY <1>2
<1> HIDE DEF o
<1>5. it.conv # "char"
  <2> SUFFICES ASSUME it.conv = "char" PROVE FALSE
    OBVIOUS
  <2>1. Len(Written(it)) = 1 /\ Written(it)[1] = "k"
    BY OrdinaryWritten
  <2>2. fmt[o + 1] = "k"
    BY <1>4, <2>1 DEF Holds
  <2> QED
    BY <1>1, <1>3, <2>2
<1>6. Directive = [digit |-> WidthOf(it), zero |-> it.zero, long |-> it.long,
                   conv |-> it.conv, next |-> o + ConvAt(it) + 2]
  BY <1>2, <1>3, <1>4, <1>5, ItemRead
<1>7. Len(Written(it)) = ConvAt(it) + 1 /\ ConvAt(it) \in Nat
  BY <1>2, <1>5, DirectiveWritten, OffsetsTyped
<1>8. o + ConvAt(it) + 2 = pos + Len(Written(it))
  BY <1>3, <1>7
<1> QED
  BY <1>1, <1>2, <1>5, <1>6, <1>8

LEMMA DirectiveLogs ==
    ASSUME PrintfInv, AtDirective, NEW it, it = items[Len(log) + 1], NEW arg, NEW text,
           PutDirective(Directive, arg, text),
           ArgumentShown(Entry(it.conv, WidthOf(it), it.zero, it.long, arg, text))
    PROVE  PrintfInv'
<1> DEFINE e == Entry(it.conv, WidthOf(it), it.zero, it.long, arg, text)
<1>1. /\ fmt[pos] # NUL /\ it \in Items /\ it.conv # "char"
      /\ Directive.conv = it.conv /\ Directive.digit = WidthOf(it)
      /\ Directive.zero = it.zero /\ Directive.long = it.long
      /\ Directive.next = pos + Len(Written(it))
  BY DirectiveAt
<1>2. log' = Append(log, e) /\ pos' = pos + Len(Written(it)) /\ items' = items /\ fmt' = fmt
  BY <1>1, Zenon DEF PutDirective, Emit, Entry
<1>3. Found(e, it)
  BY DEF Found, Entry
<1>4. ArgumentShown(e)
  OBVIOUS
<1> HIDE DEF e
<1>5. Logs(e, it)
  BY <1>2, <1>3, <1>4 DEF Logs
<1> QED
  BY <1>1, <1>5, LogGrows

LEMMA OrdinaryStep == PrintfInv /\ PutOrdinary => PrintfInv'
<1> SUFFICES ASSUME PrintfInv, PutOrdinary PROVE PrintfInv'
  OBVIOUS
<1> DEFINE it == items[Len(log) + 1]
           e == Entry("char", 0, FALSE, FALSE, 0, <<fmt[pos]>>)
<1>1. fmt[pos] # NUL /\ fmt[pos] # "%"
  BY DEF PutOrdinary
<1>2. /\ it \in Items /\ pos - 1 \in Nat /\ Holds(fmt, pos - 1, Written(it))
      /\ fmt \in Seq(FmtChars) /\ fmt[Len(fmt)] = NUL
  BY <1>1, ItemAt
<1>3. it.conv = "char"
  <2> SUFFICES ASSUME it.conv # "char" PROVE FALSE
    OBVIOUS
  <2> DEFINE o == pos - 1
  <2>1. pos = o + 1 /\ o \in Nat
    <3>1. \E x : pos = x + 1 /\ x \in Nat
      BY DEF PrintfInv, Layout
    <3> QED
      BY <3>1
  <2>2. Holds(fmt, o, Written(it))
    BY <1>2
  <2> HIDE DEF o, it
  <2>3. fmt[pos] = "%"
    BY <1>2, <2>1, <2>2, ItemRead
  <2> QED
    BY <1>1, <2>3
<1>4. log' = Append(log, e) /\ pos' = pos + 1 /\ items' = items /\ fmt' = fmt
  BY Zenon DEF PutOrdinary, Emit, Entry
<1>5. Len(Written(it)) = 1
  BY <1>3, OrdinaryWritten
<1>6. Found(e, it)
  BY <1>3 DEF Found, Entry
<1>7. ArgumentShown(e)
  BY NothingShown
<1> HIDE DEF e, it
<1>8. Logs(e, it)
  BY <1>4, <1>5, <1>6, <1>7 DEF Logs
<1> QED
  BY <1>1, <1>8, LogGrows DEF it

LEMMA IntegerStep ==
    ASSUME PrintfInv, NEW v \in Slots, PutInteger(v)
    PROVE  PrintfInv'
<1> DEFINE it == items[Len(log) + 1]
           d == Directive
           g == WidthOf(it)
<1>1. AtDirective
  BY DEF PutInteger
<1>2. /\ it \in Items /\ d.conv = it.conv /\ d.digit = g /\ d.zero = it.zero /\ d.long = it.long
  BY <1>1, DirectiveAt
<1> HIDE DEF it
<1>3. g \in Int /\ it.zero \in BOOLEAN /\ it.long \in BOOLEAN
  BY <1>2, ItemFields DEF WidthOf
<1> HIDE DEF g
<1>4. CASE /\ d.conv = "d"
           /\ PutDirective(d, v, Print64(Signed(v, Size(d.long)), 10, TRUE, d.digit, FALSE, d.zero))
  <2> DEFINE text == Print64(Signed(v, Size(it.long)), 10, TRUE, g, FALSE, it.zero)
  <2>1. it.conv = "d" /\ PutDirective(d, v, text)
    BY <1>2, <1>4
  <2>2. ArgumentShown(Entry("d", g, it.zero, it.long, v, text))
    BY <1>3, DShown
  <2> HIDE DEF text
  <2> QED
    BY <1>1, <2>1, <2>2, DirectiveLogs DEF g, it
<1>5. CASE /\ d.conv = "u"
           /\ PutDirective(d, v, Print64(v % Size(d.long), 10, FALSE, d.digit, FALSE, d.zero))
  <2> DEFINE text == Print64(v % Size(it.long), 10, FALSE, g, FALSE, it.zero)
  <2>1. it.conv = "u" /\ PutDirective(d, v, text)
    BY <1>2, <1>5
  <2>2. ArgumentShown(Entry("u", g, it.zero, it.long, v, text))
    BY <1>3, UShown
  <2> HIDE DEF text
  <2> QED
    BY <1>1, <2>1, <2>2, DirectiveLogs DEF g, it
<1>6. CASE /\ d.conv = "x"
           /\ PutDirective(d, v, Print64(Signed(v, LongSize), 16, FALSE, d.digit, FALSE, d.zero))
  <2> DEFINE text == Print64(Signed(v, LongSize), 16, FALSE, g, FALSE, it.zero)
  <2>1. it.conv = "x" /\ PutDirective(d, v, text)
    BY <1>2, <1>6
  <2>2. ArgumentShown(Entry("x", g, it.zero, it.long, v, text))
    BY <1>3, XShown
  <2> HIDE DEF text
  <2> QED
    BY <1>1, <2>1, <2>2, DirectiveLogs DEF g, it
<1>7. CASE /\ d.conv = "p" /\ ~ d.long
           /\ PutDirective(d, v, Print64(Signed(v, LongSize), 16, FALSE, d.digit, TRUE, FALSE))
  <2> DEFINE text == Print64(Signed(v, LongSize), 16, FALSE, g, TRUE, FALSE)
  <2>1. it.conv = "p" /\ PutDirective(d, v, text)
    BY <1>2, <1>7
  <2>2. ArgumentShown(Entry("p", g, it.zero, it.long, v, text))
    BY <1>3, PShown
  <2> HIDE DEF text
  <2> QED
    BY <1>1, <2>1, <2>2, DirectiveLogs DEF g, it
<1> QED
  BY <1>4, <1>5, <1>6, <1>7, Zenon DEF PutInteger, Size

(* %c and %s show no number, nor does what is put out verbatim.            *)
LEMMA OtherStep ==
    ASSUME PrintfInv, AtDirective, NEW arg, NEW text, PutDirective(Directive, arg, text),
           Directive.conv \notin {"d", "u", "x"}, Directive.long \/ Directive.conv # "p"
    PROVE  PrintfInv'
<1> DEFINE it == items[Len(log) + 1]
           g == WidthOf(it)
<1>1. it \in Items /\ Directive.conv = it.conv /\ Directive.long = it.long
  BY DirectiveAt
<1> HIDE DEF g, it
<1>2. it.long \in BOOLEAN
  BY <1>1, ItemFields
<1>3. ArgumentShown(Entry(it.conv, g, it.zero, it.long, arg, text))
  <2>1. CASE it.conv = "p"
    <3>1. it.long = TRUE
      BY <1>1, <1>2, <2>1
    <3> QED
      BY <2>1, <3>1, LongPointer, Zenon
  <2>2. CASE it.conv # "p"
    <3>1. it.conv \notin {"d", "u", "x", "p"}
      BY <1>1, <2>2
    <3> QED
      BY <3>1, NothingShown
  <2> QED
    BY <2>1, <2>2
<1> QED
  BY <1>3, DirectiveLogs DEF g, it

LEMMA PrintfStep == PrintfInv /\ [PrintfNext]_<<mem, printfVars>> => PrintfInv'
<1> SUFFICES ASSUME PrintfInv, [PrintfNext]_<<mem, printfVars>> PROVE PrintfInv'
  OBVIOUS
<1>1. CASE PutOrdinary
  BY <1>1, OrdinaryStep
<1>2. CASE PutVerbatim
  <2> DEFINE d == Directive
  <2>1. /\ AtDirective /\ d.conv \notin {"d", "u", "x"}
        /\ d.long \/ d.conv \notin {"p", "c", "s"}
        /\ \E text : PutDirective(d, 0, text)
    BY <1>2, Zenon DEF PutVerbatim
  <2> HIDE DEF d
  <2>2. d.long \/ d.conv # "p"
    BY <2>1
  <2> QED
    BY <2>1, <2>2, OtherStep DEF d
<1>3. ASSUME NEW v \in Slots, PutInteger(v) PROVE PrintfInv'
  BY <1>3, IntegerStep
<1>4. ASSUME NEW v \in Slots, PutCharacter(v) PROVE PrintfInv'
  <2> DEFINE d == Directive
  <2>1. AtDirective /\ d.conv = "c" /\ \E text : PutDirective(d, v, text)
    BY <1>4, Zenon DEF PutCharacter
  <2> HIDE DEF d
  <2>2. d.conv \notin {"d", "u", "x"} /\ (d.long \/ d.conv # "p")
    BY <2>1
  <2> QED
    BY <2>1, <2>2, OtherStep DEF d
<1>5. ASSUME NEW a \in Addr \cup {-1}, PutString(a) PROVE PrintfInv'
  <2> DEFINE d == Directive
  <2>1. AtDirective /\ d.conv = "s" /\ \E text : PutDirective(d, a, text)
    BY <1>5, Zenon DEF PutString
  <2> HIDE DEF d
  <2>2. d.conv \notin {"d", "u", "x"} /\ (d.long \/ d.conv # "p")
    BY <2>1
  <2> QED
    BY <2>1, <2>2, OtherStep DEF d
<1>6. CASE UNCHANGED <<mem, printfVars>>
  BY <1>6 DEF printfVars, PrintfInv, Layout
<1> QED
  BY <1>1, <1>2, <1>3, <1>4, <1>5, <1>6, Zenon DEF PrintfNext

(* Whatever the format and the arguments, vprintf takes every directive    *)
(* for what was written, and every number it prints, padded as asked,      *)
(* reads back as the argument.                                             *)
THEOREM FormatsHonoured == PrintfSpec => []PrintfFaithful
<1>1. PrintfInv => PrintfFaithful
  <2> SUFFICES ASSUME PrintfInv PROVE PrintfFaithful
    OBVIOUS
  <2>1. DOMAIN log = 1 .. Len(log) /\ items \in Seq(Items) /\ Len(log) \in 0 .. Len(items)
    BY DEF PrintfInv
  <2>2. PICK o : Layout(o) /\ pos = o[Len(log)] + 1
    BY DEF PrintfInv
  <2>3. pos <= Len(fmt)
    <3> DEFINE k == Len(log)
               n == Len(items)
    <3>1. /\ o \in [0 .. n -> Nat] /\ Len(fmt) \in Nat /\ Len(fmt) > 0 /\ o[0] = 0
          /\ \A i \in 1 .. n : o[i] < Len(fmt)
      BY <2>2 DEF Layout
    <3>2. k \in 0 .. n /\ pos = o[k] + 1 /\ n \in Nat
      BY <2>1, <2>2
    <3> HIDE DEF k, n
    <3>3. o[k] \in Nat /\ o[k] < Len(fmt)
      <4>1. k = 0 \/ k \in 1 .. n
        BY <3>2
      <4> QED
        BY <3>1, <3>2, <4>1
    <3> QED
      BY <3>1, <3>2, <3>3
  <2>4. ASSUME pos = Len(fmt) PROVE Len(log) = Len(items)
    <3> SUFFICES ASSUME Len(log) # Len(items) PROVE FALSE
      OBVIOUS
    <3> DEFINE it == items[Len(log) + 1]
    <3>1. Len(log) + 1 \in 1 .. Len(items) /\ (Len(log) + 1) - 1 = Len(log)
      BY <2>1
    <3>2. it \in Items
      BY <2>1, <3>1
    <3>3. /\ o[Len(log) + 1] = o[Len(log)] + Len(Written(it))
          /\ o[Len(log) + 1] < Len(fmt) /\ o[Len(log)] \in Nat /\ Len(fmt) \in Nat
      BY <2>1, <2>2, <3>1 DEF Layout
    <3>4. Len(Written(it)) \in Nat /\ Len(Written(it)) > 0
      BY <3>2, WrittenTyped
    <3> HIDE DEF it
    <3> QED
      BY <2>2, <2>4, <3>3, <3>4
  <2>5. ASSUME NEW i \in DOMAIN log
        PROVE  /\ log[i].conv = items[i].conv
               /\ items[i].conv # "char" =>
                    /\ log[i].zero = items[i].zero /\ log[i].long = items[i].long
                    /\ log[i].digit = IF items[i].minus THEN -items[i].width ELSE items[i].width
               /\ ArgumentShown(log[i])
    <3>1. Found(log[i], items[i]) /\ ArgumentShown(log[i])
      BY <2>1 DEF PrintfInv
    <3> QED
      BY <3>1 DEF Found, WidthOf
  <2>6. DirectivesFound
    BY <2>3, <2>4, <2>5 DEF DirectivesFound
  <2> QED
    BY <2>5, <2>6 DEF PrintfFaithful
<1>2. PrintfInit => PrintfInv
  BY PrintfStart
<1>3. PrintfInv /\ [PrintfNext]_<<mem, printfVars>> => PrintfInv'
  BY PrintfStep
<1> QED
  BY <1>1, <1>2, <1>3, PTL DEF PrintfSpec
=============================================================================
