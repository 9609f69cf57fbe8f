------------------------------ MODULE Console ------------------------------
(***************************************************************************)
(* The console table (console.c) over PL011 UARTs (pl011.c), on one CPU.   *)
(* The main program prints, reads, flushes, enables and disables consoles; *)
(* timer callbacks print from the tick interrupt, which may fall between   *)
(* the main program's look at the FIFO and its store into it.  The UART's  *)
(* line settings are left out.  The repository has one UART driver, with   *)
(* one base address for all its consoles; a further entry of the table     *)
(* stands for a driver of its own, on a device of its own.                 *)
(***************************************************************************)
EXTENDS Integers, Sequences, FiniteSets

CONSTANTS
    NrConsoles,     \* entries of the .data.console section
    FifoDepth,      \* of a UART's transmit FIFO
    MainLength,     \* bound: characters the main program prints
    IrqLength,      \* characters one callback prints
    MaxTicks        \* bound: ticks that print

ASSUME ConsoleAssumption ==
    {NrConsoles, FifoDepth, MainLength, IrqLength, MaxTicks} \subseteq Nat \ {0}

Consoles == 1 .. NrConsoles
Actors   == {"main", "irq"}

VARIABLES
    inited,         \* consoles that console_init has set up
    enabled,        \* consoles whose enabled bit is set
    stream,         \* what each UART has accepted, oldest first...
    queued,         \* ...and how many of those are still in its FIFO
    lost,           \* characters stored into a full FIFO
    pc, at, sent,   \* the code each actor is in, at which console and character
    ticks           \* how many ticks there have been

table == <<inited, enabled>>
uart  == <<stream, queued, lost>>
vars  == <<table, uart, pc, at, sent, ticks>>

Init ==
    /\ inited = {} /\ enabled = {}
    /\ stream = [c \in Consoles |-> <<>>]
    /\ queued = [c \in Consoles |-> 0]
    /\ lost = {}
    /\ pc = [a \in Actors |-> "idle"]
    /\ at = [a \in Actors |-> 0]
    /\ sent = [a \in Actors |-> 0]
    /\ ticks = 0

-----------------------------------------------------------------------------
(* The main program stands still while the interrupt is handled.           *)
MayRun(a) == a = "irq" \/ pc["irq"] = "idle"

At(a, loc)  == MayRun(a) /\ pc[a] = loc
Goto(a, to) == pc' = [pc EXCEPT ![a] = to]
Leave(a)    == Goto(a, "idle") /\ at' = [at EXCEPT ![a] = 0]

(* console_init, console_enable and console_disable(_by_id) of an entry of *)
(* the table.  A name or id that is not there changes nothing.             *)
ConsoleInit(c) ==
    /\ At("main", "idle")
    /\ inited' = inited \cup {c}
    /\ enabled' = enabled \cup {c}
    /\ UNCHANGED <<uart, pc, at, sent, ticks>>

ConsoleEnable(c) ==
    /\ At("main", "idle")
    /\ enabled' = enabled \cup {c}
    /\ UNCHANGED <<inited, uart, pc, at, sent, ticks>>

ConsoleDisable(c) ==
    /\ At("main", "idle")
    /\ enabled' = enabled \ {c}
    /\ UNCHANGED <<inited, uart, pc, at, sent, ticks>>

-----------------------------------------------------------------------------
(* putchar -> console_putc_all -> pl011_putchar, for each enabled console  *)
(* in the order of the table.  pl011's putc always returns 0, so the loop  *)
(* has no early end.                                                       *)

(* The next character of the main program's puts or printf                 *)
Putchar ==
    /\ At("main", "idle")
    /\ sent["main"] < MainLength
    /\ sent' = [sent EXCEPT !["main"] = @ + 1]
    /\ at' = [at EXCEPT !["main"] = 1]
    /\ Goto("main", "putc")
    /\ UNCHANGED <<table, uart, ticks>>

(* console_putc, on one console, enabled or not                            *)
ConsolePutc(c) ==
    /\ At("main", "idle")
    /\ sent["main"] < MainLength
    /\ sent' = [sent EXCEPT !["main"] = @ + 1]
    /\ at' = [at EXCEPT !["main"] = c]
    /\ Goto("main", "putc_one")
    /\ UNCHANGED <<table, uart, ticks>>

(* The tick, whose callback prints IrqLength characters                    *)
Tick ==
    /\ pc["irq"] = "idle"
    /\ inited # {}
    /\ ticks < MaxTicks
    /\ ticks' = ticks + 1
    /\ sent' = [sent EXCEPT !["irq"] = 1]
    /\ at' = [at EXCEPT !["irq"] = 1]
    /\ Goto("irq", "putc")
    /\ UNCHANGED <<table, uart>>

SkipDisabled(a) ==
    /\ At(a, "putc")
    /\ at[a] \in Consoles \ enabled
    /\ at' = [at EXCEPT ![a] = @ + 1]
    /\ UNCHANGED <<table, uart, pc, sent, ticks>>

(* Mutant: the FIFO is not looked at.                                      *)
PollBlind(a) ==
    /\ \/ At(a, "putc") /\ at[a] \in enabled /\ Goto(a, "store")
       \/ At(a, "putc_one") /\ Goto(a, "store_one")
    /\ UNCHANGED <<table, uart, at, sent, ticks>>

(* while (FR & TXFF) ends: there is room                                   *)
Poll(a) ==
    /\ \/ At(a, "putc") /\ at[a] \in enabled /\ Goto(a, "store")
       \/ At(a, "putc_one") /\ Goto(a, "store_one")
    /\ queued[at[a]] < FifoDepth
    /\ UNCHANGED <<table, uart, at, sent, ticks>>

Character(a) == [by |-> a, tick |-> IF a = "irq" THEN ticks ELSE 0, nr |-> sent[a]]

(* A store to DR: the UART takes the character unless its FIFO is full.    *)
WriteDr(c, ch) ==
    IF queued[c] < FifoDepth
    THEN /\ stream' = [stream EXCEPT ![c] = Append(@, ch)]
         /\ queued' = [queued EXCEPT ![c] = @ + 1]
         /\ UNCHANGED lost
    ELSE lost' = lost \cup {<<c, ch>>} /\ UNCHANGED <<stream, queued>>

(* Mutant: one look at the FIFO for a whole string.                        *)
StoreHoisted(a) ==
    /\ At(a, "store")
    /\ WriteDr(at[a], Character(a))
    /\ IF a = "main" /\ sent[a] < MainLength
       THEN sent' = [sent EXCEPT ![a] = @ + 1] /\ UNCHANGED <<pc, at>>
       ELSE at' = [at EXCEPT ![a] = @ + 1] /\ Goto(a, "putc") /\ UNCHANGED sent
    /\ UNCHANGED <<table, ticks>>

Store(a) ==
    /\ \/ At(a, "store") /\ Goto(a, "putc") /\ at' = [at EXCEPT ![a] = @ + 1]
       \/ At(a, "store_one") /\ Leave(a)
    /\ WriteDr(at[a], Character(a))
    /\ UNCHANGED <<table, sent, ticks>>

PutcDone(a) ==
    /\ At(a, "putc")
    /\ at[a] > NrConsoles
    /\ IF a = "irq" /\ sent[a] < IrqLength
       THEN /\ sent' = [sent EXCEPT ![a] = @ + 1]
            /\ at' = [at EXCEPT ![a] = 1]
            /\ UNCHANGED pc
       ELSE Leave(a) /\ UNCHANGED sent
    /\ UNCHANGED <<table, uart, ticks>>

-----------------------------------------------------------------------------
(* fflush -> console_flush_all -> pl011_flush, by the main program         *)
Fflush ==
    /\ At("main", "idle")
    /\ at' = [at EXCEPT !["main"] = 1]
    /\ Goto("main", "flush")
    /\ UNCHANGED <<table, uart, sent, ticks>>

(* Mutant: waiting until the FIFO is not full.                             *)
FlushNextNotFull ==
    /\ At("main", "flush")
    /\ at["main"] \in enabled => queued[at["main"]] < FifoDepth
    /\ IF at["main"] = NrConsoles THEN Leave("main")
       ELSE at' = [at EXCEPT !["main"] = @ + 1] /\ UNCHANGED pc
    /\ UNCHANGED <<table, uart, sent, ticks>>

(* while (!(FR & TXFE)) ends, or the console is disabled                   *)
FlushNext ==
    /\ At("main", "flush")
    /\ at["main"] \in enabled => queued[at["main"]] = 0
    /\ IF at["main"] = NrConsoles THEN Leave("main")
       ELSE at' = [at EXCEPT !["main"] = @ + 1] /\ UNCHANGED pc
    /\ UNCHANGED <<table, uart, sent, ticks>>

(* console_flush(c) and console_getc(c) begin...                           *)
Await(c, what) ==
    /\ At("main", "idle")
    /\ at' = [at EXCEPT !["main"] = c]
    /\ Goto("main", what)
    /\ UNCHANGED <<table, uart, sent, ticks>>

(* ...and wait for an empty transmit FIFO, or for a character, which may   *)
(* be there at any time.                                                   *)
AwaitOver ==
    /\ \/ At("main", "flush_one") /\ queued[at["main"]] = 0
       \/ At("main", "getc")
    /\ Leave("main")
    /\ UNCHANGED <<table, uart, sent, ticks>>

(* A UART sends a character.                                               *)
Transmit(c) ==
    /\ queued[c] > 0
    /\ queued' = [queued EXCEPT ![c] = @ - 1]
    /\ UNCHANGED <<table, stream, lost, pc, at, sent, ticks>>

-----------------------------------------------------------------------------
Printing(a) == SkipDisabled(a) \/ Poll(a) \/ Store(a) \/ PutcDone(a)

(* console.c asks for no order of calls: the program around it initialises *)
(* a console once, and before it enables or uses it.                       *)
Next ==
    \/ \E c \in Consoles \ inited : ConsoleInit(c)
    \/ \E c \in inited : \/ ConsoleEnable(c) \/ ConsolePutc(c)
                         \/ Await(c, "flush_one") \/ Await(c, "getc")
    \/ \E c \in Consoles : ConsoleDisable(c) \/ Transmit(c)
    \/ Putchar \/ Tick \/ Fflush \/ FlushNext \/ AwaitOver
    \/ \E a \in Actors : Printing(a)

Spec == Init /\ [][Next]_vars

-----------------------------------------------------------------------------
(* On every console a callback's characters stand together, complete and   *)
(* in order, and the main program's are in the order it printed them,      *)
(* wherever the tick falls in pl011_putchar and console_putc_all.          *)
OutputInOrder ==
    \A c \in Consoles : \A i, j \in DOMAIN stream[c] :
        LET x == stream[c][i]
            y == stream[c][j]
        IN  /\ x.by = "main" /\ y.by = "main" /\ i < j => x.nr < y.nr
            /\ x.by = "irq" /\ x.nr < IrqLength =>
                  \/ pc["irq"] # "idle" /\ x.tick = ticks
                  \/ /\ i < Len(stream[c])
                     /\ stream[c][i + 1] = [x EXCEPT !.nr = @ + 1]

(* A character is lost only when a tick fills the FIFO between the poll    *)
(* and the store of pl011_putchar: it is one of the main program's, and    *)
(* no tick costs more than one.                                            *)
LostOnlyToTicks ==
    /\ \A l \in lost : l[2].by = "main"
    /\ Cardinality(lost) <= ticks

(* When fflush returns nothing the main program printed before is left in  *)
(* the FIFO of an enabled console, although callbacks may have printed on  *)
(* consoles it had already waited for; console_flush says so of its own.   *)
OnlyTicksQueued(c) ==
    \A i \in DOMAIN stream[c] :
        i > Len(stream[c]) - queued[c] => stream[c][i].by = "irq"

FlushMeansSent ==
    [][pc'["main"] = "idle" =>
          /\ pc["main"] = "flush" => \A c \in enabled : OnlyTicksQueued(c)
          /\ pc["main"] = "flush_one" => OnlyTicksQueued(at["main"])]_vars
=============================================================================
