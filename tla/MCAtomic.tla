------------------------------ MODULE MCAtomic ------------------------------
(* Three CPUs on a 2-bit counter.                                          *)
EXTENDS Atomic

CONSTANTS c1, c2, c3

MCCpus == {c1, c2, c3}

Fn(name, x, y) == [fn |-> name, x |-> x, y |-> y]

(* atomic_inc, atomic_sub(2), a compare-and-swap, inc_not_zero, ...        *)
MCCalls == {Fn("add", 1, 0), Fn("sub", 2, 0), Fn("cmpxchg", 1, 3),
            Fn("add_unless", 1, 0), Fn("dec_if_positive", 0, 0),
            Fn("set", 2, 0), Fn("read", 0, 0)}
=============================================================================
