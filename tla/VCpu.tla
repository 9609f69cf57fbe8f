-------------------------------- MODULE VCpu --------------------------------
(***************************************************************************)
(* The vCPUs of one physical CPU (vcpu.c): each is in a state and, through *)
(* its list node, on the ready list, on the suspend list or on none.       *)
(* pcpu_switch saves the context of the vCPU that ran and restores that of *)
(* the first ready one.                                                    *)
(*                                                                         *)
(* The registers are modelled in three classes: elr_el1 and spsr_el1,      *)
(* which vcpu_restore_context writes first; the rest of what it and        *)
(* vcpu_save_context list, and the general registers; and what neither of  *)
(* them lists (mair_el1, tpidr_el*, cpacr_el1, FP and SIMD state, ...).    *)
(***************************************************************************)
EXTENDS Integers, FiniteSets

CONSTANTS
    Vcpus,
    READY, SUSPEND,     \* the list heads pcpu->ready_vcpus, suspend_vcpus
    NULL,
    MaxSteps            \* how often a guest changes its registers

Nodes == Vcpus \cup {READY, SUSPEND}
Listed == {"entry", "rest"}
Registers == Listed \cup {"unlisted"}

VARIABLES
    state,          \* vcpu->state
    next, prev,     \* the list nodes and the two list heads
    current,        \* pcpu->current_vcpu; READY if it was made from that head
    regs,           \* the registers of the CPU: which guest's, and how far it was
    saved,          \* vcpu->gpregs and vcpu->sysregs_el1
    faulted         \* an access was refused: an EL2 exception that never returns

list == <<next, prev>>
pcpuVars == <<state, list, current, regs, saved, faulted>>

Fresh(v) == [guest |-> v, steps |-> 0]
Contents == [guest : Vcpus \cup {NULL}, steps : 0 .. MaxSteps]

(* The list heads are initialised and vcpu_init has run for every vCPU;    *)
(* its zeroed context is that of a guest that has not begun.               *)
PcpuInit ==
    /\ state = [v \in Vcpus |-> "OFFLINE"]
    /\ next = [x \in Nodes |-> x]
    /\ prev = [x \in Nodes |-> x]
    /\ current = NULL
    /\ regs = [c \in Registers |-> Fresh(NULL)]
    /\ saved = [v \in Vcpus |-> [c \in Listed |-> Fresh(v)]]
    /\ faulted = FALSE

-----------------------------------------------------------------------------
(* A list is [next, prev].  list_add_tail(x, h), and list_del(x), which    *)
(* poisons the pointers of x.                                              *)

AddTail(l, x, h) ==
    LET last == l.prev[h]
        p    == [l.prev EXCEPT ![h] = x]
        n    == [l.next EXCEPT ![x] = h]
    IN  [next |-> [n EXCEPT ![last] = x], prev |-> [p EXCEPT ![x] = last]]

Del(l, x) ==
    LET p == [l.prev EXCEPT ![l.next[x]] = l.prev[x]]
        n == [l.next EXCEPT ![l.prev[x]] = l.next[x]]
    IN  [next |-> [n EXCEPT ![x] = NULL], prev |-> [p EXCEPT ![x] = NULL]]

Lists     == [next |-> next, prev |-> prev]
Become(l) == next' = l.next /\ prev' = l.prev

(* The stores, through pointers ptrs, that lead to l.  A store through a   *)
(* null pointer goes to the first bytes of memory, outside every node (to  *)
(* EXCEPT, outside the domain), or is refused.                             *)
Stores(ptrs, l) ==
    \/ Become(l) /\ UNCHANGED faulted
    \/ /\ NULL \in ptrs
       /\ faulted' = TRUE
       /\ UNCHANGED list

-----------------------------------------------------------------------------
VcpuStart(v) ==
    /\ ~ faulted
    /\ state[v] = "OFFLINE"
    /\ state' = [state EXCEPT ![v] = "READY"]
    /\ Stores({prev[READY]}, AddTail(Lists, v, READY))
    /\ UNCHANGED <<current, regs, saved>>

(* list_del from wherever the vCPU is, then list_add_tail to head h        *)
MoveTo(v, from, to, h) ==
    /\ ~ faulted
    /\ state[v] = from
    /\ state' = [state EXCEPT ![v] = to]
    /\ LET l == Del(Lists, v)
       IN  Stores({next[v], prev[v], l.prev[h]}, AddTail(l, v, h))
    /\ UNCHANGED <<current, regs, saved>>

VcpuSuspend(v) == MoveTo(v, "RUNNING", "SUSPENDED", SUSPEND)
VcpuResume(v)  == MoveTo(v, "SUSPENDED", "READY", READY)

VcpuHalt(v) ==
    /\ ~ faulted
    /\ state[v] = "RUNNING"
    /\ state' = [state EXCEPT ![v] = "HALTED"]
    /\ Stores({next[v], prev[v]}, Del(Lists, v))
    /\ UNCHANGED <<current, regs, saved>>

-----------------------------------------------------------------------------
(* vcpu_save_context also sets the state, so that the test for RUNNING     *)
(* which follows it in pcpu_switch never holds, and its list_add_tail is   *)
(* never reached.  What lies around the list head is not a vCPU of ours.   *)
SavedState == IF current \in Vcpus THEN [state EXCEPT ![current] = "READY"] ELSE state

(* Mutant: the context is saved only for a vCPU that is still running.     *)
SavedContextRunning ==
    IF current \in Vcpus /\ state[current] = "RUNNING"
    THEN [saved EXCEPT ![current] = [c \in Listed |-> regs[c]]]
    ELSE saved

SavedContext ==
    IF current \in Vcpus
    THEN [saved EXCEPT ![current] = [c \in Listed |-> regs[c]]]
    ELSE saved

(* vcpu_restore_context of a context: registers it does not list keep      *)
(* their contents.  mpidr_el1 and midr_el1 are read-only; the writes to    *)
(* them are without effect, or are refused after the first two registers.  *)
RestoreContext(context) ==
    \/ /\ regs' = [c \in Registers |-> IF c \in Listed THEN context[c] ELSE regs[c]]
       /\ UNCHANGED faulted
    \/ /\ regs' = [regs EXCEPT !["entry"] = context["entry"]]
       /\ faulted' = TRUE

(* list_next of a poisoned head is NULL.                                   *)
SwitchToNone ==
    /\ ~ faulted
    /\ next[READY] = NULL
    /\ state' = SavedState
    /\ saved' = SavedContext
    /\ current' = NULL
    /\ UNCHANGED <<list, regs, faulted>>

SwitchTo(v) ==
    /\ ~ faulted
    /\ next[READY] = v
    /\ Become(Del(Lists, v))
    /\ saved' = SavedContext
    /\ state' = [SavedState EXCEPT ![v] = "RUNNING"]
    /\ current' = v
    /\ RestoreContext(SavedContext[v])

(* list_next of an empty list is the head itself, which is not NULL: it is *)
(* unlinked, and what lies around it in struct pcpu is taken for a vCPU.   *)
(* The state stored there and the context loaded from there lie in front   *)
(* of struct pcpu, or in its id, and are nobody's.                         *)
SwitchToHead ==
    /\ ~ faulted
    /\ next[READY] = READY
    /\ Become(Del(Lists, READY))
    /\ saved' = SavedContext
    /\ state' = SavedState
    /\ current' = READY
    /\ RestoreContext([c \in Listed |-> Fresh(NULL)])

(* The guest whose registers are in the CPU runs until the next switch,    *)
(* also when its vCPU has been suspended or halted, or is current no more. *)
GuestStep(c) ==
    LET g == regs["rest"].guest
    IN  /\ ~ faulted
        /\ g # NULL
        /\ regs[c].steps < MaxSteps
        /\ regs' = [regs EXCEPT ![c] = [guest |-> g, steps |-> @.steps + 1]]
        /\ UNCHANGED <<state, list, current, saved, faulted>>

PcpuNext ==
    \/ \E v \in Vcpus : \/ VcpuStart(v) \/ VcpuSuspend(v) \/ VcpuResume(v)
                        \/ VcpuHalt(v) \/ SwitchTo(v)
    \/ SwitchToNone \/ SwitchToHead
    \/ \E c \in Registers : GuestStep(c)

PcpuSpec == PcpuInit /\ [][PcpuNext]_pcpuVars

-----------------------------------------------------------------------------
PcpuTypeOK ==
    /\ state \in [Vcpus -> {"OFFLINE", "RUNNING", "SUSPENDED", "READY", "HALTED"}]
    /\ next \in [Nodes -> Nodes \cup {NULL}]
    /\ prev \in [Nodes -> Nodes \cup {NULL}]
    /\ current \in Vcpus \cup {READY, NULL}
    /\ regs \in [Registers -> Contents]
    /\ saved \in [Vcpus -> [Listed -> Contents]]
    /\ faulted \in BOOLEAN

(* The nodes after head h.                                                 *)
OnList(h) ==
    LET reach[k \in Nat] ==
            IF k = 0 THEN {next[h]} \ {h}
            ELSE reach[k - 1] \cup {next[x] : x \in reach[k - 1] \ {h, NULL}}
    IN  reach[Cardinality(Vcpus)] \cap Vcpus


(* The listed registers of a vCPU: those of the CPU while it is the        *)
(* current one, the saved ones else.                                       *)
Context(v) == IF v = current THEN [c \in Listed |-> regs[c]] ELSE saved[v]

(* Whatever is suspended, halted, resumed or started in between and        *)
(* whichever vCPU pcpu_switch takes, the one that ran or the list head     *)
(* included, a vCPU goes on where its guest was: the registers that        *)
(* vcpu_save_context lists are changed by its own guest alone, one at a    *)
(* time, while it is the current vCPU.  (The registers it does not list    *)
(* are left as the last guest had them.)                                   *)
ContextKept ==
    [][~ faulted' =>
       \A v \in Vcpus : Context(v)' # Context(v) =>
           /\ current = v /\ current' = v
           /\ \E c \in Listed :
                /\ regs[c].guest = v
                /\ regs' = [regs EXCEPT ![c].steps = @ + 1]]_pcpuVars
=============================================================================
