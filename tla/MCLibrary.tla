----------------------------- MODULE MCLibrary -----------------------------
(* What the rest of the program is built on: the string functions on every *)
(* small memory, vprintf on every kind of directive before an ordinary     *)
(* character or a second directive, and run_once called again and again by *)
(* every CPU of a small set.                                               *)
EXTENDS Printf, RunOnce

CONSTANTS c1, c2, c3

MCCpus == {c1, c2, c3}

MCBytes == {0, 1, 200}

Item(m, z, w, l, c) == [minus |-> m, zero |-> z, width |-> w, long |-> l, conv |-> c]
Directives == {Item(m, z, w, l, c) : m, z, l \in BOOLEAN, w \in {0, 3, 12}, c \in Conversions}

MCFormats == {<<i, Item(FALSE, FALSE, 0, FALSE, "char")>> : i \in Directives}
             \cup {<<i, Item(TRUE, FALSE, 3, FALSE, "d")>> :
                       i \in {d \in Directives : d.width = 12}}

(* Zero, one- and two-digit values, the extreme int and long values.       *)
MCSlots == {0, 7, 10, 127, 128, 255, 511, 512, 1023}

libcVars == <<mem, printfVars>>
vars == <<libcVars, onceVars>>

(* The three share nothing.  Either the string functions work on memory,   *)
(* or printf runs, with the strings for %s of two bytes, of one, and       *)
(* empty, or the CPUs call run_once.                                       *)
Quiet == items = <<>> /\ fmt = <<NUL>> /\ pos = 1 /\ log = <<>>
SomeMemory == [a \in Addr |-> IF a % 3 = 2 THEN 0 ELSE 1]

Init == /\ OnceInit
        /\ \/ StringInit /\ Quiet
           \/ mem = SomeMemory /\ PrintfInit

Next == \/ OnceInit /\ Quiet /\ StringNext /\ UNCHANGED <<printfVars, onceVars>>
        \/ PrintfNext /\ UNCHANGED onceVars
        \/ mem = SomeMemory /\ Quiet /\ OnceNext /\ UNCHANGED libcVars

Spec == Init /\ [][Next]_vars /\ OnceFairness
=============================================================================
