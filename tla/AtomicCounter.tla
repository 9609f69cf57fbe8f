--------------------------- MODULE AtomicCounter ---------------------------
(***************************************************************************)
(* What atomic.h promises: a counter on which every call of a CPU takes    *)
(* effect at one instant between its beginning and its end, and returns    *)
(* what that instant saw.                                                  *)
(***************************************************************************)
EXTENDS Integers

CONSTANTS
    Cpus,
    M,          \* number of values of the counter, 2^32 or 2^64
    Calls,      \* [fn : name, x, y : arguments]
    None

VARIABLES value, call, answer

vars == <<value, call, answer>>

Init ==
    /\ value = 0
    /\ call = [c \in Cpus |-> None]
    /\ answer = [c \in Cpus |-> None]

(* Two's complement.  The smallest value minus one is not negative.        *)
Negative(v)  == v >= M \div 2
Decrement(v) == (v - 1) % M

(* The counter after call o on value v...                                  *)
Effect(o, v) ==
    CASE o.fn = "add"             -> (v + o.x) % M
      [] o.fn = "sub"             -> (v - o.x) % M
      [] o.fn = "cmpxchg"         -> IF v = o.x THEN o.y ELSE v
      [] o.fn = "add_unless"      -> IF v = o.y THEN v ELSE (v + o.x) % M
      [] o.fn = "dec_if_positive" -> IF Negative(Decrement(v)) THEN v ELSE Decrement(v)
      [] o.fn = "set"             -> o.x
      [] o.fn = "read"            -> v

(* ...and what the call returns.                                           *)
Answer(o, v) ==
    CASE o.fn \in {"add", "sub", "set"} -> Effect(o, v)
      [] o.fn = "dec_if_positive"       -> Decrement(v)
      [] OTHER                          -> v

Begin(c, o) ==
    /\ call[c] = None
    /\ call' = [call EXCEPT ![c] = o]
    /\ UNCHANGED <<value, answer>>

Happen(c) ==
    /\ call[c] # None
    /\ answer[c] = None
    /\ value' = Effect(call[c], value)
    /\ answer' = [answer EXCEPT ![c] = Answer(call[c], value)]
    /\ UNCHANGED call

End(c) ==
    /\ answer[c] # None
    /\ call' = [call EXCEPT ![c] = None]
    /\ answer' = [answer EXCEPT ![c] = None]
    /\ UNCHANGED value

Next ==
    \E c \in Cpus : Happen(c) \/ End(c) \/ \E o \in Calls : Begin(c, o)

Spec == Init /\ [][Next]_vars
=============================================================================
