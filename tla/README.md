# z-hyper: TLA+ models, model checks and proofs

z-hyper is the beginning of an EL2 hypervisor for AArch64: it boots into
`platform_init` (`platform/aarch64/main/main.c`), sets up the exception vectors,
a console, a heap, the GICv3 and the EL2 physical timer, starts one periodic
software timer, and waits for interrupts.  This directory holds TLA+ modules
that model its core, TLC configurations that check them on small instances, and
TLAPS proofs.  `PROJECT.json` maps every definition that models code to the
lines it models, lists the runs, the mutants that show each property can fail,
the hazards the properties are aimed at, the findings and the theorems.

Paths below are relative to the repository root (`src/` in `PROJECT.json`).

## 1. Inventory

| component | state | operations | used by | what makes it correct |
|---|---|---|---|---|
| ticket spinlock, `arch_spinlock.h` | one word: `owner`, `next` | `spin_lock`, `spin_trylock`, `spin_unlock`, two queries | `run_once` | one holder; first come first served; nobody sleeps through a release; 16-bit wrap |
| read-write lock, `arch_spinlock.h` | one word: write bit, reader count | lock, trylock, unlock of both sides | nobody yet | a writer is alone; the count is exact; no lost wake-up |
| `run_once`, `utils.h` | flag, spinlock | `run_once(func)` | heap and GIC initialisation | `func` succeeds once; 0 is returned only after that; a failure is retried |
| mini heap, `miniheap.c` | headers in memory, `free_list`, `free_bytes` | `miniheap_init`, `malloc`, `free` | timers (also from the tick) | blocks tile the heap, free neighbours merge, double free is caught |
| software timers, `timer.c`, `list.h` | per-CPU list, `is_active`, the hardware timer | `create_timer_*`, `start_timer`, `timer_irq_handler` | `platform_init` | a tick calls every started timer once; freed timers are never touched; ticks go on |
| console and PL011, `console.c`, `pl011.c` | `enabled` bits, the UART FIFO | `putchar`, `puts`, `fflush`, `console_init/enable/disable`, `console_putc/getc/flush` | `printf`, from main program and callbacks | output complete and in order |
| GIC initialisation, `gicv3.c`, `gicd.c`, `gicr.c` | distributor and redistributor registers, contexts | `plat_gicv3_init` | `platform_init` | everything is quiet before a CPU interface opens; every wait ends |
| interrupt configuration, `gicv3.c`, `intr/*.c` | `irq_context`s, configuration registers | `get_irq_context`, `gic_irq_enable` | drivers (`plat_timer_init`) | an enabled interrupt is configured as asked and has its handler |
| EL2 exceptions, `el2_sync.c`, `exception.S` | saved registers | `el2_irq`, `el2_sync`, `el2_fiq` | hardware | every acknowledged interrupt is ended; no panic over a real one |
| vCPU scheduling, `vcpu.c` | per-pCPU lists, vCPU state | start, suspend, resume, halt, `pcpu_switch` | not built | a ready vCPU is on the ready list; a vCPU goes on where its guest was |
| atomics, `atomic.h` | one counter | `atomic_*` and `atomic64_*`: load-exclusive loops, plain read and set | nobody yet but read and set | each takes effect at one instant; no update is lost; calls keep completing |
| `printf.c` | position in the format, argument list | `vprintf`, `print64`, `fetch_digit` | everybody | directives are found; a number reads back as the argument |
| `string.c` | memory | `memcpy`, `memset`, `str*` | console, vCPU, printf | what C asks, on disjoint areas |
| `rand.c`, barriers, system registers, boot, translation | - | one multiplication, accessors, straight-line code, empty files | - | - |

Interactions: `platform_init` calls the initialisers in order; `run_once` takes
the spinlock; `plat_gicv3_init` runs `gicv3_init` under `run_once`;
`plat_timer_init` fills an `irq_context` and calls `gic_irq_enable`; `el2_irq`
looks the context up and calls `timer_irq_handler`, which calls timer callbacks;
these print through the console and may start timers and so use the heap.

What is hard here: instruction-level races on the lock words, with `wfe` sleeping
between them, and on the counters of `atomic.h`; weakly ordered stores in `run_once`; interrupts that fall
between any two stores of the main program, into code with no locks and no
masking (timer list, console, GIC contexts, heap); hardware that applies register
writes late; and counters at their width.  Crashes, messages and persistence do
not exist in this system.  The build has `NR_CPU = 1` (`build.sh`) and `-O0`; the
locks, atomics, `run_once` and GIC initialisation are written for more CPUs and are
modelled with more.

## 2. Modules

| module | models | note |
|---|---|---|
| `ExclusiveMonitor` | Arm exclusive monitor and event register (external) | operators shared by the locks and the atomics |
| `SpinLock` | `arch_spin_*`, one action per instruction touching shared state | proved about in `SpinLockProofs` |
| `FifoLock` | what `spinlock.h` promises: a FIFO lock | abstract specification; `SpinLock` refines it, `RunOnce` is built on it |
| `RWLock` | `arch_read_*`, `arch_write_*` | same style |
| `RunOnce` | `run_once` | instance of `FifoLock` for the lock, plus a store buffer; proved about in `LibraryProofs` |
| `MiniHeap` | `miniheap.c` | one action per loop iteration and way out |
| `Timer` | `timer.c` with `list.h` | main program against tick, store by store; proved about in `TimerProofs` |
| `Console` | `console.c` over `pl011.c` | main program against callbacks that print; proved about in `LibraryProofs` |
| `GicBoot` | `plat_gicv3_init`, `gicd_init`, `gicr_init` | CPUs against late hardware |
| `GicIrq` | `gic_irq_enable`, `intr/*.c`, `el2_irq` | driver against interrupts |
| `Atomic` | `atomic.h`, one action per access to the counter | refines `AtomicCounter` |
| `AtomicCounter` | what `atomic.h` promises: calls that take effect at one instant | abstract specification |
| `VCpu` | `vcpu.c` with `list.h` | not in the build; one violation run, one passing run about contexts, proved about in `LibraryProofs` |
| `LibcString` | `string.c` as operators on a memory, and the calls that write as actions | contracts by comparison with strings; proved about in `LibraryProofs` |
| `Printf` | `vprintf`, one action per turn of its loop | extends `LibcString` for `%s`; proved about in `LibraryProofs` |
| `MC*` | constants for TLC | |
| `*Proofs` | theorems about the module they are named after, with their proofs | section 4; not used by TLC |
| `LibraryProofs` | the same for the console, `run_once`, the string functions, vCPU switching and `printf`, one section each | the definitions of these modules have distinct names (`OnceSpec`, `PcpuSpec`, `StringSpec`, `PrintfSpec`) so that one module can extend them |

How state and actions correspond to the code:

* **SpinLock.** `lock` is the word, `lockval[c]` the register `%w0`, `tmp` the
  value `arch_spin_unlock` computes from its plain load of `owner`.  `pc` names
  the next shared access: `lock1`/`lock_stxr` are the `ldaxr`/`stxr` loop, `wfe`
  and `ldaxrh` the wait loop, `cs` the critical section, `unlock` the moment
  between the load and the `stlrh`.  `LockStxr` stores `next + 1`, keeps the old
  word as the ticket, and decides with the `eor`/`cbz` on it whether to enter or
  `sevl` and wait.  A reservation can be lost at any time (`LoseReservation`), and
  `wfe` can return for no reason (`WfeSpurious`).
* **FifoLock.** `queue` holds the CPUs that committed, `inside` the holder.  The
  mapping at the end of `SpinLock` orders the CPUs with a ticket by distance from `owner`.
* **RWLock.** The word counts readers below `WriteBit`; the trylocks share the
  `ldaxr` and `stxr` actions with the locks and differ in where they go next.
  `tmp` is set to 0 where the register is dead, which keeps the state space small.
* **RunOnce.** `buffered` holds the stores of `func` and of `flag` that are not
  visible yet; they drain in any order, because `smp_wmb` comes after the store
  to `flag` (`utils.h:27`) and `smp_rmb` before its load.  The store-release of
  `spin_unlock` waits for them.
* **MiniHeap.** Memory is counted in units of 16 bytes; a header takes one unit.
  Sizes are taken modulo `WordUnits` because the code keeps them in `uint32_t`.
  The owner fills its block (`Fill`), so a header written into it would be seen; its data
  is never taken for a header, which in the code means that it never equals the USED magic
  where `free` would look for one.
  `live`, `stale` and `frees` are history: what the caller holds, what it has freed,
  and what the list should contain.
* **Timer.** `start_timer` is split at each of the four stores of `__list_add`
  (`-O0` keeps them in order); the handler, once entered, runs with interrupts
  masked, one action per callback and per way the loop goes on.  `start_timer` asks
  nothing of its timer; `MainStart` is the program around it, which starts a timer it has
  created once.  `nr_timers`,
  intervals and tick counts are written but never read and are left out.
* **Console.** `stream` is what a UART accepted, the last `queued` characters are
  still in its FIFO, `lost` what was stored into a full FIFO.  Each actor goes
  through `console_putc_all` one console at a time, or `console_putc` with one, looking
  (`Poll`) and storing (`Store`) in two steps.  A character may wait for `getc` at any time.
  `console.c` enforces no order of its calls; `Next` has the program's: a console is
  initialised once, before it is enabled or used.  `pl011.c` keeps one global base, so it
  drives one device; further entries of the table stand for drivers with devices of their own.
* **GicBoot.** A write to `ICENABLER` or `CTLR` sets the frame's RWP and takes effect
  later (`GicdSettles`, `GicrSettles`).  `gicd_rwp` is modelled as it is written:
  it reads `GICD_STATUSR`, where the bit does not exist, and so never waits.
  `ctxId` is `gicr_ctx->cpu_id`, which is 0 when it is first used.
* **GicIrq.** A register is the set of its bits that are 1, and the words that hold the
  attributes are shared by several interrupts.  Each kind of interrupt has its table of
  operations (`SgiOps`, `PpiOps`, `SpiOps`) with the register, the number of the word, and the
  bits to clear and to set, computed with the code's shifts.  `ReadWord` is the `read32` and
  `WriteWord` the `write32`; in between, where an interrupt may be taken, the word is in
  `val`.  `Checked` is the range check of the INTID and its error return.  `ResetWords` are
  the contents of the words out of reset, `Sources` the interrupts that are raised.
  `TakeIrq` to `WriteEoir` are `el2_irq`.  `panic` prints, makes an unaligned access,
  and the exception that follows prints and hangs: one terminal state, `panicked`.
* **Atomic.** `pc` names the next access: `ldr` and `str` are the plain accesses of
  `atomic_read` and `atomic_set`, `ldxr` and `stxr` the two ends of the loop in each
  asm block.  `call` is the operation with its arguments, `cvar` the variable `c` of
  `__atomic_add_unless`, which lives across `atomic_cmpxchg`.  Barriers order other
  memory and are left out.  The mapping to `AtomicCounter` gives a call its answer at the
  step that stores, or at the load that makes it give up.
* **VCpu.** `next` and `prev` are the nodes of `list.h` and the two heads; `list_del`
  leaves NULL in both.  A store through such a NULL goes to the first bytes of memory or
  is refused, so it is a choice between no effect and `faulted`.  `list_next` of an empty
  ring is the head itself, so `pcpu_switch` with nobody ready takes the head for a vCPU
  (`SwitchToHead`) and goes on with it: registers are loaded from what lies around the head,
  and `current` is READY.  Registers come in three classes: `elr_el1` and `spsr_el1`, which
  are restored first (`entry`); the others that `vcpu_save_context` and `vcpu_restore_context`
  list, with the general registers (`rest`); and those that neither lists (`unlisted`), which
  stay as the last guest had them.  The writes to the read-only `mpidr_el1` and `midr_el1` have
  no effect or are refused, after `entry` and before `rest`.  The guest in the registers runs
  until the next switch, also when its vCPU has been suspended or halted.  `Context(v)` is
  what `v` will go on with, in the registers if it is current, else where it was saved.
* **LibcString.** Memory maps addresses to bytes; a loop is a recursive function of its
  index.  `memcpy` and `memset` go word by word and then byte by byte; the word `memset` stores
  is put together by its shifts, little endian.  `char` is unsigned.
  `CopyLoop` is the loop `strncpy` and `strncat` share, `Matches` the inner loop of `strstr`.
* **Printf.** A format is written from `items`, so that what `vprintf` takes a directive for
  can be compared with what was written; `log` keeps that, the argument slot and the
  text.  In the run `int` and `long` are 8 and 10 bits wide; a slot is a `long`, of which
  `%d` and `%u` read the low `int`.  `Magnitude` is the negation in `print64`, in the two's
  complement of a `long`, the most negative one included.  Widths fit an `int`, as `fetch_digit` keeps them in one.

## 3. Runs

Deadlock is checked except where the system really stops: a panic (MiniHeap,
GicIrq), the end of initialisation (GicBoot), the end of the format (Printf) or, in the run `vcpu`, a
fault; in `console` the handler of a fault hangs (`Hang`).

| run | instance | shows |
|---|---|---|
| `spinlock` | 3 CPUs, 4 tickets, fair | safety of the ticket lock, its inductive invariant, the refinement of `FifoLock`, `TicketServed` |
| `rwlock` | 3 CPUs, `WriteBit` 4, fair | exclusion, exact word, no lost wake-up, everybody is served once calls stop |
| `miniheap` | 8 units, requests 0, 1, 2, 4, 14 | structure and accounting of the heap, double free, data, termination |
| `timer` | 2 periodic and 2 one-shot timers, fair | list sound at every interrupt, no use after free, each tick serves exactly the due timers, ticks for ever |
| `console` | 2 consoles, FIFO of 2, 3 + 2 x 2 characters; 2 vCPUs, 2 steps per class of registers | order, losses only to ticks, what `fflush` means; `ContextKept`: a vCPU goes on where its guest was |
| `gic_boot` | 2 CPUs, 2 SPI registers, fair | quiet before open, every wait ends |
| `gic_irq` | SGI 1, PPI 26, SPI 33 enabled twice, bystanders SGI 0 and PPI 27, words all 0 or all 1 out of reset, fair | handler in place, configuration as asked, bystanders untouched, configuration only while disabled, interrupts are not ignored |
| `gic_boot_rwp` | 1 CPU | violation, finding 1 |
| `gic_irq_trigger` | PPI 26, which asks for an edge | violation, finding 3 |
| `atomic` | 3 CPUs, 2-bit counter, 7 calls, fair | a store is of a current value, the refinement of `AtomicCounter`, calls keep completing |
| `library` | strings: all memories of 6 bytes over {0, 1, 200} with 2-byte words; 192 directives, each before an ordinary character, the 64 of width 12 also before `%-3d`; 9 argument values; `run_once`: 3 CPUs, fair | `StringContracts`, `PrintfFaithful`; one success, truthful 0, visibility for callers that took the lock, every call returns |
| `vcpu` | 2 vCPUs | violation, finding 2 |

Two runs hold modules that share no state: `library` the string functions, `printf` and
`run_once`, `console` the console and the vCPUs.  In each behaviour one of them moves and the
others stand at their initial state, so every one is checked as it would be alone.

Why these bounds are enough to be interesting.  Three CPUs give a holder and two
waiters, so overtaking could show; the number of tickets is one more than the
CPUs, the smallest the assumption allows, so tickets wrap every few steps and
`owner > next` occurs.  With three CPUs and `WriteBit` 4 the reader count reaches
`WriteBit - 1`.  Eight units and requests up to four give four blocks, hence a
block freed between two free and two used neighbours, exact fits, splits and
fragmentation that refuses a request `free_bytes` would allow.  Two one-shot
timers can stand next to each other at the head of the list while a callback adds
another.  A callback prints as many characters as a FIFO holds, so it can fill
one behind the main program's back.  The registers of PPIs 26 and 27 and of SGIs
0 and 1 share a word, and words of all zeros and of all ones show a bit of a neighbour
wrongly set and wrongly cleared.  Fourteen units are the largest request whose sum with the header
fits `WordUnits`.  With three CPUs one can change the counter and change it back between
two steps of another, and the 2-bit counter passes through its sign bit and zero.  Six
bytes hold two strings with a byte to spare and copies of one, two and three words with
and without a tail; 200 tells signed from unsigned comparison.  The argument values are
0, one and two digits, and the extreme values of both widths.  No run uses symmetry.

Bounds that cut behaviour: `MainLength`, `MaxTicks` (Console), `MaxEnables`
(GicIrq), `MaxSteps` (VCpu); everything else runs for ever in a finite state space.  `Overlap`
(Timer), `SelfNumbered`, `Sources` and `ResetWords` (GicIrq) describe the environment, see
section 6 for the first two.

Each property of a passing run has a mutant in its module, a variant of one
mapped definition such as a dropped check or a lost retry, under which TLC finds
it violated.

### Fairness

* SpinLock, RWLock, RunOnce: weak fairness of each CPU's steps.  A CPU executes
  instructions; holders leave their critical section.  No fairness for calls, for
  lost reservations or spurious wake-ups.  RWLock also assumes that reservations
  are not lost to the environment for ever, which Arm guarantees for such short
  loops; the ticket lock needs it not, because `TicketServed` starts from a
  drawn ticket.
* Atomic: weak fairness of each CPU's steps, and the same promise about reservations.
  Nothing more is claimed than that some call completes: one CPU may lose every race.
* MiniHeap, Timer, GicIrq: the running code goes on, and an armed timer fires.
* GicBoot, GicIrq: a register write eventually takes effect, and a redistributor
  wakes up, as the GIC architecture says.
* The main program of GicIrq has no fairness: interrupts may starve it.

## 4. Proofs

Each `*Proofs` module proves, for every value of the constants that the module's
assumption allows, the safety properties that a run checks on one instance.

| theorem | statement |
|---|---|
| `SpinLockProofs.TypeCorrect` | `Spec => []TypeOK` |
| `SpinLockProofs.TicketInvariant` | `Spec => [](TypeOK /\ TicketInv)` |
| `SpinLockProofs.SpinLockMutualExclusion` | `Spec => []MutualExclusion` |
| `SpinLockProofs.SpinLockNoLostWakeup` | `Spec => []NoLostWakeup` |
| `SpinLockProofs.SpinLockQueries` | `Spec => []QueriesTruthful` |
| `SpinLockProofs.SpinLockOwnerOnlyReleased` | `Spec => OwnerOnlyReleased` |
| `SpinLockProofs.SpinLockIsFifo` | `Spec => ImplementsFifoLock` |
| `AtomicProofs.AtomicTypeCorrect` | `Spec => []TypeOK` |
| `AtomicProofs.StxrNeverStale` | `Spec => []ReservationFresh` |
| `AtomicProofs.AtomicsLinearizable` | `Spec => ImplementsAtomicCounter` |
| `RWLockProofs.RWTypeCorrect` | `Spec => []TypeOK` |
| `RWLockProofs.WritersExclude` | `Spec => []RWExclusion` |
| `RWLockProofs.WordIsCount` | `Spec => []WordCounts` |
| `RWLockProofs.WakeupsKept` | `Spec => []NoLostWakeup` |
| `LibraryProofs.RunOnceTypeCorrect` | `OnceSpec => []OnceTypeOK` |
| `LibraryProofs.RunsOnce` | `OnceSpec => []OnceOnly` |
| `LibraryProofs.ZeroIsHonest` | `OnceSpec => []ZeroMeansDone` |
| `LibraryProofs.LockedCallersSynchronised` | `OnceSpec => []LockedCallerSeesInit` |
| `MiniHeapProofs.BlocksTileTheHeap` | `Spec => []Tiling` |
| `MiniHeapProofs.FreeListIsSound` | `Spec => []FreeListSound` |
| `MiniHeapProofs.MagicIsReliable` | `Spec => []MagicDiscriminates` |
| `MiniHeapProofs.CallersDataIntact` | `Spec => []DataIntact` |
| `TimerProofs.TimerTypeCorrect` | `Undisturbed` gives `Spec => []TypeOK` |
| `TimerProofs.TimersStayListed` | `Undisturbed` gives `Spec => []ListSound` |
| `TimerProofs.FreedTimersLeftAlone` | `Undisturbed` gives `Spec => []NoUseAfterFree` |
| `TimerProofs.ListedTimersActive` | `Undisturbed` gives: the timer the handler is at is active |
| `TimerProofs.DueTimersServed` | `Undisturbed` gives `Spec => TickServesDue` |
| `LibraryProofs.StringFunctionsRight` | `StringSpec => []StringContracts` |
| `LibraryProofs.FormatsHonoured` | `PrintfSpec => []PrintfFaithful` |
| `LibraryProofs.ContextsKept` | `NULL, READY \notin Vcpus` gives `PcpuSpec => ContextKept` |
| `LibraryProofs.LossesBounded` | `Spec => []LostOnlyToTicks` |
| `LibraryProofs.OutputOrdered` | `Spec => []OutputInOrder` |
| `LibraryProofs.FlushSends` | `Spec => FlushMeansSent` |
| `GicBootProofs.GicBootTypeCorrect` | `Spec => []TypeOK` |
| `GicBootProofs.DistributorComesFirst` | `Spec => []DistributorFirst` |
| `GicBootProofs.RedistributorQuiet` | `Spec => []FrameQuiet` |
| `GicIrqProofs.GicIrqTypeCorrect` | `SgisNumbered` gives `Spec => []TypeOK` |
| `GicIrqProofs.RealInterruptsHandled` | `SgisNumbered` gives `Spec => []NoPanic` |
| `GicIrqProofs.RequestsStand` | `SgisNumbered` gives `Spec => []EnabledAsRequested` |
| `GicIrqProofs.OthersKeepTheirFields` | `SgisNumbered` gives `Spec => BystandersUntouched` |
| `GicIrqProofs.AttributesWhileDisabled` | `SgisNumbered` gives `Spec => ConfigWhileDisabled` |

None of the properties is inductive by itself.  Each proof finds the invariant that
is, shows `Init => Inv` and `Inv /\ [Next]_vars => Inv'` action by action, and
concludes.  TLC checked the invariants on the runs' instances before they were proved.

### SpinLock

Assumed (`SpinLockAssumption`): finitely many CPUs, more tickets than CPUs; the code has
2^16 tickets and at most 8 CPUs.

Mutual exclusion says nothing about whether the tickets in the CPUs' hands are distinct,
or whether the word a CPU is about to store is still current.  `TicketInv` adds that.
Tickets are distinct, lie in the cyclic interval
from `owner` to `next`, and there are exactly `next - owner` of them
(`TicketsDistinct`, `TicketsOutstanding`, `TicketsCounted`); a holder's ticket is
`owner`; a CPU that still has its reservation loaded the current word
(`ReservationFresh`); `owner` does not move between the load and the store of an
unlock (`UnlockReady`); and a CPU about to sleep either has an event pending or
watches a word whose `owner` is not its ticket (`WaiterArmed`).  The count is what
survives the wrap: fewer CPUs than tickets means the interval never closes on
itself (`GapDraw`, `GapRelease`).  The three lemmas `TicketsKept`, `TicketsDrawn`
and `TicketsReleased` say what the three kinds of steps do to the set of tickets;
`TicketNext` goes through the actions one by one.  Exclusion follows from
distinctness and `HolderIsOwner`, the wake-up property from `WaiterArmed`.

Refinement of `FifoLock`: the mapping chooses a sequence of the CPUs with a ticket in
ticket order.  That there is one, and only one, is where the count is needed again: as
many distinct tickets as the interval from `owner` to `next` is long must fill it
(`EveryTicketHeld`, by the pigeonhole principle), so the queue's k-th CPU is the one
with ticket `owner + k - 1` (`QueueLined`).  Drawing a ticket then appends to the queue
(`QueueAppends`), a release drops its head (`QueueAdvances`), and every other step
stutters (`RefineNext`).

### Atomic

Assumed (`AtomicAssumption`): calls with arguments of the counter's width.  `AtomicInv`
adds to `ReservationFresh` what a CPU knows at each place: which calls can be there
(`CallAtPc`), that `__atomic_add_unless` reached `cmpxchg` with a value that differs from
`u` (`UnlessHeld`), and that the value loaded passed the test of its asm block
(`TestPassed`).  With it each step of the loops is a step of `AtomicCounter`, the call
taking effect at the successful `stxr` or at the load that makes it give up, or a stutter.

### RWLock

Assumed (`RWLockAssumption`): finitely many CPUs, fewer than `WriteBit`, so that readers
never carry into the write bit.  `RWInv` joins exclusion and the exact word with
`StoreFresh` (a store that can succeed is computed from the current word) and
`SleeperArmed` (a CPU about to sleep without an event watches the word, and the word
still keeps it out).  Adding and removing one reader is arithmetic on the cardinality of
the set of readers.

### run_once (LibraryProofs)

Assumed: finitely many CPUs.  `RunOnceInv` says who holds the lock at each place
(`LockHeld`), that undrained stores belong to the CPU in the critical section
(`BufferOwned`), that a visible or buffered `flag = 1` follows a success (`FlagFollows`),
and what a place implies about completion (`PlaceKnows`).  It is proved over the actions
of `FifoLock`, which `SpinLockIsFifo` shows the real lock implements.

### MiniHeap

Assumed (`MiniHeapAssumption`): a heap below 2^32 bytes and requests whose size with
header fits 32 bits.  `HeapInv` is stated over a view of memory, the size of a block
(`Sizes`) and the link behind it (`Links`, with the list head as the link of NULL):

* the blocks tile the heap (`Tiles`) and the live ones are not free;
* from every free block and from the head the link goes to the next free block in
  address order (`Chain`), and no two free blocks touch (`Apart`);
* the magic is USED exactly on live blocks (`Marked`), a live block has room for what was
  asked (`Room`), `free_bytes` counts the free units (`Accounted`), callers' data is intact;
* in either loop `cur` is the link of `prev`, and in `free` `prev` is still before the
  block (`CallInv`).

The lemmas are about views and not about memory: splitting and joining blocks of a tiling
(`TilesSplit`, `TilesJoin`), taking out and putting in a link (`ChainRemove`,
`ChainInsert`), and counting (`UnitsMoved`: free units are those no live block covers, so
whatever is merged on the way, exactly the freed block's units are added).  Malloc's two
ways out and free's two ways out, each with and without a merge, are instances of them.
For the requests the assumption allows, a split or merged block always fits the heap, so the
reduction modulo 2^32 never changes a size; requests beyond it are outside these theorems
(section 6).

### Console (LibraryProofs)

Assumed (`ConsoleAssumption`): positive bounds, no more; consoles, FIFO depth and text
are arbitrary.  `ConsoleInv` contains:

* `LostInv`: while the main program is between poll and store, either there still is room
  and no tick is running, or there have been more ticks than losses: the tick that fills
  the FIFO pays for the character it costs;
* `MainBounded`: what is on a console is older than the character being printed, as long
  as that one has yet to be stored there; this makes the order inductive;
* `IrqTogether`: the running callback's characters on an enabled console are followed by
  their successors, the last one being at the end of the stream, and those of earlier
  ticks are complete;
* `FlushInv`: only callbacks' characters are queued on the consoles `fflush` is done with.

### Timer

Hypothesis (`Undisturbed`): callbacks start no timer while the main program is inside
`list_add`, and the main program starts periodic timers only.  Both exclude what the code
does not survive (section 6), and the repository's only use of timers satisfies both.  The
number of timers is arbitrary.

`ListSound` walks the list for as many steps as there are timers, which says nothing an
action could preserve.  `TimerInv` says instead that there is an order that `next` follows
(`InLine`): every timer has a rank, `next` leads from each started timer to the one ranked
next below it, from the head to the highest and from the lowest back to the head.  A timer
put in at the head gets a rank above all others and one that is taken out leaves a gap, so
nobody else's rank changes (`LinePush`, `LineDrop`).  `prev` mirrors `next`, but for the one
node `list_add` has reached (`Mirror`, `MirrorBut`, `AddInv`).  A started timer is allocated,
and the main program owns the one it is adding (`OwnerInv`).  While the handler runs, `n` is
the successor of `pos`, and the timers due and not served are exactly `pos`, until its callback
has run, and those ranked below it (`WalkInv`): callbacks add at the head, above, and so are
never reached in the same tick.  `WalkVisits` then recovers `ListSound`: the nodes reached
from the head contain, with each node, everything ranked above it, and a set of ranks has a
least number.

### String functions (LibraryProofs)

Assumed (`LibcStringAssumption`): positive memory and word size, bytes up to 255 with 0
among them (0 ends a string).  Each loop is a recursive function of its index, so a contract
is an induction on that index.  It is done once, from the principle that a non-empty set of
numbers has a least one (`LeastNumber`): a loop that has an answer at its end and passes it
back has it at its start (`LoopFollows`), and a scan for the first index in a set returns
what is found there (`ScanExists`, `ScanValue`).  `Ends` says where a string ends, `Copied`
what a copying loop has done after k bytes, and `CopyMore` that one more byte, or one more
word, takes it further; so word loop and byte loop of `memcpy` join without a gap for every
alignment of the length (`MemcpyValue`, `WholeWords`).  `strcmp` and `strncmp` are compared
with the order of the strings at their first difference (`OrderValue`, `OrderLoaded`),
`strstr` with the first position where the needle is a prefix (`StrstrRight`).
`StringTypeNext` shows that every call leaves a memory behind, so the contracts hold again.

### printf (LibraryProofs)

Assumed (`PrintfAssumption`): `int` is not wider than `long`, arguments are slots of a `long`,
formats are sequences of `Items`, with widths an `int` can hold, and a `long` has an even number
of values (for `MagnitudeRight`: the negation of a negative `long`, taken as unsigned, is its
absolute value, for the most negative one too).  The sizes of both types are
arbitrary, so the 8 and 10 bits of the run become 32 and 64.  The proof has four parts; its
inductions rest on `LeastNumber` again:

* digits: `Digits` writes a numeral without a superfluous zero whose value is the number
  (`DigitsNumeral`, by strong induction through the division loop), and `ValueOf`, the loop
  of `fetch_digit`, reads it back (`ValueAppend`);
* `print64`: sign, prefix, digits and padding are three pieces of one text, of the length
  asked for unless the number is longer (`Print64Padded`), and the number a slot is read as is
  the one that is printed, for `%d`, `%u`, `%x` and `%p` (`Readings`, `DShown` to `PShown`);
* the format: item i stands behind the texts of those before it (`FlattenLaid`, `Holds`);
* `fetch_digit` on an item finds its flags and where its width ends, because no conversion and
  no width starts with a character that could be taken for a flag (`ItemRead`).

`PrintfInv` then says that `vprintf` stands where the next item starts and that what it has put
out are the items before it; since the terminator is no item, it ends with the last one.

### vCPU contexts (LibraryProofs)

Assumed: NULL and the list head READY are not vCPUs.  Although `pcpu_switch` loses vCPUs from
its list (finding 2), the registers it lists are never mixed up: `ContextInv` says that the
listed registers a vCPU would go on with are of its own guest, in the CPU for the current one
and in its own memory for the others, through every suspend, halt, resume and switch, the
switch to the list head and the stores through NULL included; and only its own guest changes
them, while it is current (`ContextKept`, also checked by the run `console`).  It says
nothing of the registers that are not listed, which do pass from guest to guest, nor of what
follows a refused access, after which nothing runs.

### GicBoot

Assumed (`GicBootAssumption`): at least one CPU; any number of SPI registers, zero
included.  `GicBootInv` says that one CPU programs the distributor (`OneProgrammer`), how
far its loops have come and what they have written (`LoopProgress`), what holds once
`run_once` is over (`DistributorDone`), and for each CPU what its place implies about the
redistributor frame it uses (`FrameProgress`).

### GicIrq

Assumed: INTIDs in their architectural ranges (`GicIrqAssumption`), and `SgisNumbered`, a
hypothesis of the theorems: a driver of an SGI other than 0 numbers its context.  Without
it the operations of that driver act on SGI 0 (section 6), which nobody asked for, and
`EnabledAsRequested` and `BystandersUntouched` fail; no driver in the repository uses an
SGI.  `GicIrqInv` adds to `EnabledAsRequested`: what the calls of `gic_irq_enable` made so
far have written (`DriverInv`, `WrittenInv`), that the wait for RWP separates disabling
from the attributes (`DisableInv`), that an enabled interrupt has its handler
(`EnabledInv`), what `el2_irq` has in hand at each place (`IrqInv`), and that between
`read32` and `write32` the word in `val` is still what the register holds (`ReadInv`): the
interrupts that may be taken there write no attribute.  That a write changes no bits but the
interrupt's own is then arithmetic on bit numbers: the bytes, pairs and bits of two interrupts
that share a word lie at different offsets.

### Proved and in no run

`QueriesTruthful`: what `spin_is_locked` and `spin_is_contended` answer follows from `TicketInv`
in every state, which the run `spinlock` checks.

### Only model-checked

* Liveness: `TicketServed`, `CallReturns`, `EveryoneServedOnceQuiet`, `CallsReturn`,
  `TicksForever`, `BootCompletes`, `SomebodyAcked`, `SomebodyFinishes`.  Fairness and
  ENABLED are outside the prover's reach.
* The three violation runs.

## 5. Findings

1. **`gicd_rwp` reads the wrong register** (`gicd.c:151`, run `gic_boot_rwp`).  The
   comment at `gicd.c:134` says "must wait for RWP bit to clear before writing to
   ICENABLER"; the code polls `GICD_STATUSR`, and TLC shows an `ICENABLER` write while
   RWP is set.
2. **A vCPU that is switched out is lost** (`vcpu.c:98`, run `vcpu`).  `vcpu_save_context`
   sets the state to READY, so the test for RUNNING after it never holds and
   `list_add_tail` is not reached.  The comments where the state becomes READY say "add
   to pcpu ready list" (`vcpu.c:57`) and "move to pcpu ready list" (`vcpu.c:78`); TLC shows
   two vCPUs started and switched to in turn, the first being READY on no list.
3. **A PPI that asks for an edge stays level-sensitive** (`ppi.c:37`, run `gic_irq_trigger`).
   `gicv3.h:60` says of `trigger` "1: edge-triggered", and `gicd_regs.h:169` has
   `GICD_ICFGR_EDGE_TRIGGERED` as 0x2, which `spi.c:60` uses; `ppi.c` writes 1, the lower bit
   of the field.  The EL2 timer asks for an edge (`timer.c:107`).  `sgi.c:34` writes the same,
   without consequence: the trigger of an SGI is fixed by the architecture.

## 6. Observations without a violation run

The models also show these; no text in the repository claims otherwise, so they
are assumptions of the passing runs rather than findings.

* `get_spi_context` never sets `intid` (`spi.c:235`, against `gicv3.h:38`), so every SPI
  operation on the context returns `-EINVAL`; `get_sgi_context` has the same omission, and
  operations on any SGI then act on SGI 0, which is enabled instead.  The drivers in
  `SelfNumbered` store `ctx->intid` themselves, so that the operations behind the check are
  exercised; the theorems about `GicIrq` assume it of SGI drivers (`SgisNumbered`).
* On a GIC without SPIs (`ITLines = 0`) the loops of `gicd_init` are skipped; `GicBoot`
  allows it and the theorems cover it.
* `malloc` cuts the rounded size to 32 bits (`miniheap.c:31`): a request of 2^32 + 1 bytes
  gets a 32-byte block, and 0xfffffff0 bytes one of size 0.  `MiniHeapAssumption` keeps
  `Requests` below that.
* With more than one CPU each would program redistributor 0, because
  `gicr_ctx->cpu_id` is read before it is written (`gicv3.c:51`).  `FrameQuiet`
  therefore speaks of the redistributor that was programmed.
* `irq_enable` runs inside `run_once` (`gicv3.c:25`): secondary CPUs stay masked.
* A callback that starts a timer while the main program is inside `list_add` loses
  that timer, and a one-shot timer started by the main program can be freed under a
  second `list_add`.  With `Overlap = TRUE` TLC shows it; the run has
  `Overlap = FALSE` and a main program that starts periodic timers.
* Enabling a live interrupt a second time can make `el2_irq` read INTID 1023 and
  panic; `NoPanic` allows exactly that case.
* On the unlocked path of `run_once` a CPU may see `flag = 1` before the effects of
  `func`; `LockedCallerSeesInit` speaks of the callers that took the lock.
* Readers can starve a writer of the read-write lock.
* A character of the main program is lost when a callback fills the FIFO between
  `pl011_putchar`'s poll and its store, at most one per tick.
* `spin_is_contended` computes `next - owner` as an int and says no after `next` has
  wrapped; `QueriesTruthful` claims only that a yes is true.
* Data of a caller that equals the USED magic at a place where a freed block's header was
  makes a second `free` of that block pass its check.
* Starting the same timer twice links it into the list a second time and cuts off what was
  behind it; `start_timer` does not look at `is_active`.
* The words that hold the attributes of SPIs belong to all CPUs and are read, changed and
  written without a lock; `GicIrq` has one CPU.
* The heap is used from the tick (`free` of one-shot timers) without a lock or masking.
* `atomic_xchg` and `atomic64_xchg` use `xchg`, which is defined nowhere.
  `atomic64_add_negative` compares a `uint64_t` with 0 and is always false.
  `atomic64_dec_if_positive` looks at the sign of the difference, so at the most negative
  value it wraps and stores; `AtomicCounter` says so.
* `vcpu_suspend` and `vcpu_halt` of the running vCPU unlink a node that `pcpu_switch` has
  already unlinked, through NULL pointers; a suspended current vCPU becomes READY at the
  next switch while it is on the suspend list; with nobody ready the list head is taken for
  a vCPU (`vcpu.c:104`).
* Registers that `vcpu_save_context` does not list (`mair_el1`, `tpidr_el*`, `cpacr_el1`, FP
  and SIMD state) pass from one guest to the next, and `vcpu_restore_context` writes
  `mpidr_el1` and `midr_el1` (`vcpu.c:38`), which are read-only.
* `printf` pads with zeros before the sign (`%05d` of -7 is `000-7`), reads a 64-bit slot
  for `%x` whatever the caller passed, pads neither `%s` nor `%c`, and a `%` at the very
  end of a format runs past its terminator; formats in the run end properly.
* `memcpy` is right on overlapping areas only when the destination is the lower one.
* `rand` multiplies by its own state: after `srand(0)` it returns 0 for ever.
* `exception.S` restores SPSR_EL2 and not ELR_EL2, which is enough as long as no exception
  is taken and returned from inside a handler.

## 7. Not modelled

* `rand`: one multiplication, without a property TLC could judge; only the stress test
  calls it.
* The register save and restore of `exception.S` and `el2_fiq`: interrupts are all in group
  1, so there is no FIQ.  The dumps of `el2_sync` only print.
* Boot, barriers on their own, system-register accessors, register layouts, address
  translation (empty so far): no state of their own.
* `__gicd_spi_config_router`: no caller.
* The stress test: sequential; what it asserts is covered by `MiniHeap`.
* `free` in the tick against `malloc` in the main program (`miniheap.c:147`): the heap is not
  written for it, and nothing promises that it works.
* Time: intervals are never compared with anything in the code.

## 8. Plan

Done, in this order, most important first: locks with refinement, `run_once`, heap, timers,
GIC initialisation, interrupt configuration and dispatch, console, atomics with their
refinement, vCPU scheduling, string functions and `printf`; then the proofs of section 4.

Next:

1. `RWLock`: an abstract reader-writer lock, and the refinement from `RWInv`.
2. `RunOnce`: `func` in the abstract as one step that happens once, and the refinement.
