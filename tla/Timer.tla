------------------------------- MODULE Timer -------------------------------
(***************************************************************************)
(* The software timers of timer.c on one CPU: the main program creates and *)
(* starts timers while timer_irq_handler, which may interrupt it between   *)
(* any two stores, walks the same intrusive list (list.h), calls back and  *)
(* frees expired one-shot timers.  The handler runs with interrupts        *)
(* masked, so the main program stands still meanwhile.  The build is -O0:  *)
(* stores happen in source order.                                          *)
(*                                                                         *)
(* Left out: nr_timers, last_tick, expired_tick, interval_ms and g_counter,*)
(* which are written and never read: every tick serves every active timer. *)
(***************************************************************************)
EXTENDS Integers, FiniteSets

CONSTANTS
    Periodic,       \* timer objects made by create_timer_periodic...
    OneShot,        \* ...and by create_timer_oneshot
    MainStarts,     \* the timers the main program starts
    CallbackStarts, \* the timers that callbacks start
    Overlap,        \* may they do so before the main program has started its own?
    HEAD, NULL

ASSUME TimerAssumption ==
    /\ IsFiniteSet(Periodic \cup OneShot)
    /\ Periodic \cap OneShot = {}
    /\ MainStarts \subseteq Periodic \cup OneShot
    /\ CallbackStarts \subseteq Periodic \cup OneShot
    /\ Overlap \in BOOLEAN
    /\ HEAD # NULL /\ {HEAD, NULL} \cap (Periodic \cup OneShot) = {}

Timers == Periodic \cup OneShot
Nodes  == Timers \cup {HEAD}

VARIABLES
    next, prev,     \* struct list_head of every node
    allocated,      \* timers obtained from malloc and not freed
    isActive,       \* timers whose is_active bit is set
    armed,          \* CNTHP_CTL_EL2.ENABLE: the tick is programmed
    mpc, mtimer, mnext,     \* main program inside start_timer
    hpc, pos, n,            \* timer_irq_handler and its loop variables
    due, served     \* history: timers started before, called in, this tick

main    == <<mpc, mtimer, mnext>>
handler == <<hpc, pos, n>>
list    == <<next, prev>>
vars    == <<list, allocated, isActive, armed, main, handler, due, served>>

(* plat_timer_init: an empty list, the handler installed, the tick armed.  *)
Init ==
    /\ next = [x \in Nodes |-> IF x = HEAD THEN HEAD ELSE NULL]
    /\ prev = [x \in Nodes |-> IF x = HEAD THEN HEAD ELSE NULL]
    /\ allocated = {}
    /\ isActive = {}
    /\ armed = TRUE
    /\ mpc = "idle" /\ mtimer = NULL /\ mnext = NULL
    /\ hpc = "idle" /\ pos = NULL /\ n = NULL
    /\ due = {} /\ served = {}

-----------------------------------------------------------------------------
(* create_timer_periodic, create_timer_oneshot: malloc and list_init; the  *)
(* handler's stack frame is gone, so the main program is running.          *)
Create(t) ==
    /\ hpc = "idle" /\ mpc = "idle"
    /\ t \in MainStarts \ allocated
    /\ allocated' = allocated \cup {t}
    /\ isActive' = isActive \ {t}
    /\ next' = [next EXCEPT ![t] = t]
    /\ prev' = [prev EXCEPT ![t] = t]
    /\ UNCHANGED <<armed, main, handler, due, served>>

(* start_timer(t, NULL), which asks nothing of t: is_active is set, then   *)
(* list_add evaluates head->next...                                        *)
StartTimer(t) ==
    /\ hpc = "idle" /\ mpc = "idle"
    /\ isActive' = isActive \cup {t}
    /\ mtimer' = t
    /\ mnext' = next[HEAD]
    /\ mpc' = "add1"
    /\ UNCHANGED <<list, allocated, armed, handler, due, served>>

(* Mutant: the node is published before it points anywhere.                *)
ListAdd1Publishes ==
    /\ hpc = "idle" /\ mpc = "add1"
    /\ next' = [next EXCEPT ![HEAD] = mtimer]
    /\ prev' = [prev EXCEPT ![mnext] = mtimer]
    /\ mpc' = "add2"
    /\ UNCHANGED <<allocated, isActive, armed, mtimer, mnext, handler,
                   due, served>>

(* ...and __list_add makes its four stores one by one.                     *)
ListAdd1 ==
    /\ hpc = "idle" /\ mpc = "add1"
    /\ prev' = [prev EXCEPT ![mnext] = mtimer]
    /\ mpc' = "add2"
    /\ UNCHANGED <<next, allocated, isActive, armed, mtimer, mnext, handler,
                   due, served>>

ListAdd2 ==
    /\ hpc = "idle" /\ mpc = "add2"
    /\ next' = [next EXCEPT ![mtimer] = mnext]
    /\ mpc' = "add3"
    /\ UNCHANGED <<prev, allocated, isActive, armed, mtimer, mnext, handler,
                   due, served>>

ListAdd3 ==
    /\ hpc = "idle" /\ mpc = "add3"
    /\ prev' = [prev EXCEPT ![mtimer] = HEAD]
    /\ mpc' = "add4"
    /\ UNCHANGED <<next, allocated, isActive, armed, mtimer, mnext, handler,
                   due, served>>

ListAdd4 ==
    /\ hpc = "idle" /\ mpc = "add4"
    /\ next' = [next EXCEPT ![HEAD] = mtimer]
    /\ mpc' = "idle"
    /\ UNCHANGED <<prev, allocated, isActive, armed, mtimer, mnext, handler,
                   due, served>>

-----------------------------------------------------------------------------
(* The timers whose start_timer has returned.                              *)
Started == isActive \ (IF mpc = "idle" THEN {} ELSE {mtimer})

(* Mutant: the walk begins behind the first timer.                         *)
TimerIrqSkipsFirst ==
    /\ hpc = "idle"
    /\ armed
    /\ armed' = FALSE
    /\ hpc' = "walk"
    /\ pos' = next[next[HEAD]]
    /\ n' = next[next[next[HEAD]]]
    /\ due' = Started
    /\ served' = {}
    /\ UNCHANGED <<list, allocated, isActive, main>>

(* The interrupt: reset_percpu_timer, then list_for_each_safe begins.      *)
TimerIrq ==
    /\ hpc = "idle"
    /\ armed
    /\ armed' = FALSE
    /\ hpc' = "walk"
    /\ pos' = next[HEAD]
    /\ n' = next[next[HEAD]]
    /\ due' = Started
    /\ served' = {}
    /\ UNCHANGED <<list, allocated, isActive, main>>

(* pos = n, n = pos->next, in the list l                                   *)
Advance(l) == pos' = n /\ n' = l[n]

(* timer->callback(timer, timer->arg), which may create and start a timer: *)
(* with interrupts masked all of list_add happens at once.  A listed timer *)
(* is always active (ListSound), so the branch that skips an inactive one  *)
(* is never taken.                                                         *)
Callback ==
    /\ hpc = "walk" /\ pos # HEAD
    /\ pos \in isActive
    /\ hpc' = "called"
    /\ served' = served \cup {pos}
    /\ UNCHANGED <<list, allocated, isActive, armed, main, pos, n, due>>

CallbackStart(t) ==
    /\ hpc = "walk" /\ pos # HEAD
    /\ pos \in isActive
    /\ t \in CallbackStarts \ allocated
    /\ Overlap \/ MainStarts \subseteq Started
    /\ hpc' = "called"
    /\ served' = served \cup {pos}
    /\ allocated' = allocated \cup {t}
    /\ isActive' = isActive \cup {t}
    /\ next' = [next EXCEPT ![t] = next[HEAD], ![HEAD] = t]
    /\ prev' = [prev EXCEPT ![next[HEAD]] = t, ![t] = HEAD]
    /\ UNCHANGED <<armed, main, pos, n, due>>

KeepPeriodic ==
    /\ hpc = "called"
    /\ pos \in Periodic
    /\ hpc' = "walk"
    /\ Advance(next)
    /\ UNCHANGED <<list, allocated, isActive, armed, main, due, served>>

(* list_del: unlink and poison.                                            *)
Unlinked(t) == [next EXCEPT ![prev[t]] = next[t], ![t] = NULL]

(* Mutant: freed without list_del.                                         *)
ExpireWithoutUnlink ==
    /\ hpc = "called"
    /\ pos \in OneShot
    /\ hpc' = "walk"
    /\ isActive' = isActive \ {pos}
    /\ allocated' = allocated \ {pos}
    /\ Advance(next)
    /\ UNCHANGED <<list, armed, main, due, served>>

(* A one-shot timer is deactivated, list_del'ed and freed.                 *)
ExpireOneShot ==
    /\ hpc = "called"
    /\ pos \in OneShot
    /\ hpc' = "walk"
    /\ isActive' = isActive \ {pos}
    /\ next' = Unlinked(pos)
    /\ prev' = [prev EXCEPT ![next[pos]] = prev[pos], ![pos] = NULL]
    /\ allocated' = allocated \ {pos}
    /\ Advance(next')
    /\ UNCHANGED <<armed, main, due, served>>

(* Mutant: the tick is not programmed again.                               *)
HandlerReturnUnarmed ==
    /\ hpc = "walk" /\ pos = HEAD
    /\ hpc' = "idle"
    /\ UNCHANGED <<list, allocated, isActive, armed, main, pos, n, due, served>>

(* set_percpu_timer(1000) and return                                       *)
HandlerReturn ==
    /\ hpc = "walk" /\ pos = HEAD
    /\ hpc' = "idle"
    /\ armed' = TRUE
    /\ UNCHANGED <<list, allocated, isActive, main, pos, n, due, served>>

-----------------------------------------------------------------------------
(* The program around start_timer: it starts a timer it has created, once. *)
(* (Linking a timer that is on the list already would cut the list.)       *)
MainStart(t) == t \in allocated \ isActive /\ StartTimer(t)

MainStep == ListAdd1 \/ ListAdd2 \/ ListAdd3 \/ ListAdd4

HandlerStep ==
    \/ Callback \/ KeepPeriodic \/ ExpireOneShot
    \/ HandlerReturn
    \/ \E t \in CallbackStarts : CallbackStart(t)

Next ==
    \/ \E t \in MainStarts : Create(t) \/ MainStart(t)
    \/ MainStep \/ TimerIrq \/ HandlerStep

Spec == Init /\ [][Next]_vars

(* The handler runs to its end, and an armed tick eventually fires.        *)
FairSpec == Spec /\ WF_vars(HandlerStep) /\ WF_vars(TimerIrq)

-----------------------------------------------------------------------------
TypeOK ==
    /\ next \in [Nodes -> Nodes \cup {NULL}]
    /\ prev \in [Nodes -> Nodes \cup {NULL}]
    /\ allocated \subseteq Timers
    /\ isActive \subseteq Timers
    /\ armed \in BOOLEAN
    /\ mpc \in {"idle", "add1", "add2", "add3", "add4"}
    /\ mtimer \in Timers \cup {NULL}
    /\ mnext \in Nodes \cup {NULL}
    /\ hpc \in {"idle", "walk", "called"}
    /\ pos \in Nodes \cup {NULL}
    /\ n \in Nodes \cup {NULL}
    /\ due \subseteq Timers
    /\ served \subseteq Timers

(* The nodes a walk along f from the head comes by in at most k steps.     *)
Walk(f) ==
    LET reach[k \in Nat] ==
            IF k = 0 THEN {f[HEAD]}
            ELSE reach[k - 1] \cup
                 {f[x] : x \in reach[k - 1] \ {HEAD, NULL}}
    IN  reach[Cardinality(Timers)]

(* Whenever the handler looks at the list, going forward from the head     *)
(* passes exactly the started timers and comes back to the head, even in   *)
(* the middle of the main program's __list_add; and between calls the prev *)
(* pointers mirror the next pointers, so that list_del takes out the right *)
(* node.                                                                   *)
ListSound ==
    /\ hpc = "idle" => Walk(next) = Started \cup {HEAD}
    /\ mpc = "idle" =>
          \A x \in isActive \cup {HEAD} :
              prev[next[x]] = x /\ next[prev[x]] = x

(* The handler never stands on, or is about to go to, a timer that has     *)
(* been freed - although its own loop frees the timer it stands on.        *)
NoUseAfterFree ==
    hpc # "idle" => {pos, n} \subseteq allocated \cup {HEAD}

(* A tick calls back every timer started before it, and no other.          *)
TickServesDue == [][hpc' = "idle" /\ hpc # "idle" => served = due]_vars

(* The handler returns, and there is always another tick.                  *)
TicksForever == []<>(hpc = "walk") /\ []<>(hpc = "idle")
=============================================================================
