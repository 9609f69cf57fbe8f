---------------------------- MODULE TimerProofs ----------------------------
(***************************************************************************)
(* Proofs about the timer list and the tick, for every set of timers.      *)
(***************************************************************************)
EXTENDS Timer, FiniteSetTheorems, WellFoundedInduction, NaturalsInduction, TLAPS

(* No tick changes the list under the main program's list_add: callbacks   *)
(* start timers only when the main program has started its own, and those  *)
(* do not expire.  Neither timer.c nor list.h provides for anything else.  *)
Undisturbed == ~ Overlap /\ MainStarts \subseteq Periodic

-----------------------------------------------------------------------------
(* The inductive invariant.  Walking the list is following an order of its *)
(* members M: r ranks them, the head counts as b, and nx leads from each   *)
(* to the one ranked next below, from the last back to the head.  A timer  *)
(* added at the head gets rank b, and the others keep theirs.              *)
Level(r, b, x) == IF x = HEAD THEN b ELSE r[x]

InLine(nx, M, r, b) ==
    /\ \A x \in M : r[x] < b
    /\ \A x, y \in M : r[x] = r[y] => x = y
    /\ \A x \in M \cup {HEAD} :
          /\ nx[x] \in M \cup {HEAD}
          /\ nx[x] \in M => r[nx[x]] < Level(r, b, x)
          /\ \A y \in M : r[y] < Level(r, b, x) => nx[x] \in M /\ r[y] <= r[nx[x]]

(* prev is the inverse of next...                                          *)
Mirror(nx, pv, M) ==
    \A x \in M \cup {HEAD} : /\ pv[nx[x]] = x
                             /\ pv[x] \in M \cup {HEAD} /\ nx[pv[x]] = x

(* ...but at m, the first timer, while a new one is being put before it.   *)
MirrorBut(nx, pv, M, m) ==
    /\ \A x \in M : pv[nx[x]] = x
    /\ \A x \in (M \cup {HEAD}) \ {m} : pv[x] \in M \cup {HEAD} /\ nx[pv[x]] = x

(* The timers the handler has still to call: pos, unless it has been, and  *)
(* what comes after it.                                                    *)
Remaining(r) ==
    {y \in Started : pos # HEAD /\ (r[y] < r[pos] \/ (hpc = "walk" /\ y = pos))}

WalkInv(r) ==
    hpc # "idle" =>
        /\ pos \in Started \cup {HEAD}
        /\ hpc = "called" => pos \in Started
        /\ n = next[pos]
        /\ Remaining(r) \subseteq due
        /\ served = due \ Remaining(r)

(* Who has started what: as long as the main program has not started all   *)
(* its timers, there are no others.                                        *)
OwnerInv ==
    /\ isActive \subseteq allocated
    /\ allocated \ isActive \subseteq MainStarts
    /\ ~ (isActive \subseteq MainStarts) => mpc = "idle" /\ MainStarts \subseteq isActive
    /\ mpc # "idle" => mtimer \in MainStarts \cap isActive

(* How far list_add has come.                                              *)
AddInv ==
    /\ mpc # "idle" => mnext = next[HEAD]
    /\ mpc \in {"add3", "add4"} => next[mtimer] = mnext
    /\ mpc = "add4" => prev[mtimer] = HEAD
    /\ mpc \in {"idle", "add1"} => Mirror(next, prev, Started)
    /\ mpc \in {"add2", "add3", "add4"} =>
          prev[mnext] = mtimer /\ MirrorBut(next, prev, Started, mnext)

Witnessed(r, b) == /\ TypeOK /\ OwnerInv /\ AddInv
                   /\ r \in [Timers -> Nat] /\ b \in Nat
                   /\ InLine(next, Started, r, b) /\ WalkInv(r)

TimerInv == \E r \in [Timers -> Nat], b \in Nat : Witnessed(r, b)

-----------------------------------------------------------------------------
(* Induction: a set of numbers has a least one, and a step can be iterated.*)
LEMMA LeastNumber ==
    ASSUME NEW T, T \subseteq Nat, T # {}
    PROVE  \E x \in T : \A y \in T : x <= y
<1> DEFINE R == OpToRel(<, Nat)
<1>1. IsWellFoundedOn(R, Nat)
  BY NatLessThanWellFounded
<1>2. \A x, y \in Nat : <<y, x>> \in R <=> y < x
  BY DEF OpToRel
<1> HIDE DEF R
<1>3. PICK x \in T : \A y \in T : ~ (<<y, x>> \in R)
  BY <1>1, WFMin
<1>4. ASSUME NEW y \in T PROVE x <= y
  <2>1. ~ (<<y, x>> \in R) /\ x \in Nat /\ y \in Nat
    BY <1>3
  <2> QED
    BY <1>2, <2>1
<1> QED
  BY <1>4

Iterates(g, k, X, a, S) ==
    /\ g \in [0 .. k -> X]
    /\ g[0] = a
    /\ \A i \in 0 .. (k - 1) : g[i + 1] = S[g[i]]

LEMMA Iteration ==
    ASSUME NEW X, NEW a \in X, NEW S \in [X -> X]
    PROVE  \E g \in [Nat -> X] : g[0] = a /\ \A k \in Nat : g[k + 1] = S[g[k]]
<1>1. ASSUME NEW k \in Nat PROVE \E g \in [0 .. k -> X] : Iterates(g, k, X, a, S)
  <2> DEFINE Bad == {i \in Nat : ~ \E g \in [0 .. i -> X] : Iterates(g, i, X, a, S)}
  <2>1. SUFFICES ASSUME Bad # {} PROVE FALSE
    OBVIOUS
  <2>2. PICK m \in Bad : \A y \in Bad : m <= y
    <3> HIDE DEF Bad
    <3>1. Bad \subseteq Nat
      BY DEF Bad
    <3> QED
      BY <2>1, <3>1, LeastNumber
  <2>3. m # 0
    <3>1. [i \in 0 .. 0 |-> a] \in [0 .. 0 -> X] /\ Iterates([i \in 0 .. 0 |-> a], 0, X, a, S)
      BY DEF Iterates
    <3> QED
      BY <3>1
  <2>4. m - 1 \in Nat /\ m - 1 \notin Bad
    BY <2>2, <2>3
  <2>5. PICK g \in [0 .. (m - 1) -> X] : Iterates(g, m - 1, X, a, S)
    BY <2>4
  <2> DEFINE h == [i \in 0 .. m |-> IF i = m THEN S[g[m - 1]] ELSE g[i]]
  <2>6. h \in [0 .. m -> X] /\ h[0] = a
    BY <2>3, <2>4, <2>5 DEF Iterates
  <2>7. ASSUME NEW i \in 0 .. (m - 1) PROVE h[i + 1] = S[h[i]]
    BY <2>4, <2>5 DEF Iterates
  <2>8. Iterates(h, m, X, a, S)
    <3> HIDE DEF h
    <3> QED
      BY <2>6, <2>7 DEF Iterates
  <2> QED
    BY <2>6, <2>8
<1>2. ASSUME NEW k \in Nat, NEW g, NEW h, Iterates(g, k, X, a, S), Iterates(h, k + 1, X, a, S)
      PROVE  h[k] = g[k]
  <2> DEFINE Bad == {i \in 0 .. k : h[i] # g[i]}
  <2>1. SUFFICES ASSUME Bad # {} PROVE FALSE
    OBVIOUS
  <2>2. PICK m \in Bad : \A y \in Bad : m <= y
    <3> HIDE DEF Bad
    <3>1. Bad \subseteq Nat
      BY DEF Bad
    <3> QED
      BY <2>1, <3>1, LeastNumber
  <2>3. m # 0
    BY <1>2 DEF Iterates
  <2>4. m - 1 \in 0 .. k /\ m - 1 \notin Bad
    BY <2>2, <2>3
  <2>5. h[m - 1] = g[m - 1] /\ h[(m - 1) + 1] = S[h[m - 1]] /\ g[(m - 1) + 1] = S[g[m - 1]]
    BY <1>2, <2>4 DEF Iterates
  <2> QED
    BY <2>2, <2>5
<1> DEFINE app(k) == CHOOSE g \in [0 .. k -> X] : Iterates(g, k, X, a, S)
<1>3. ASSUME NEW k \in Nat PROVE Iterates(app(k), k, X, a, S)
  BY <1>1, Zenon
<1> HIDE DEF app
<1> DEFINE f == [k \in Nat |-> app(k)[k]]
<1>4. f \in [Nat -> X]
  BY <1>3 DEF Iterates
<1>5. f[0] = a
  BY <1>3 DEF Iterates
<1>6. ASSUME NEW k \in Nat PROVE f[k + 1] = S[f[k]]
  <2>1. app(k + 1)[k + 1] = S[app(k + 1)[k]]
    BY <1>3 DEF Iterates
  <2>2. app(k + 1)[k] = app(k)[k]
    BY <1>2, <1>3
  <2> QED
    BY <2>1, <2>2
<1> QED
  BY <1>4, <1>5, <1>6

-----------------------------------------------------------------------------
LEMMA NodeFacts ==
    /\ HEAD \notin Timers /\ NULL \notin Timers /\ HEAD # NULL
    /\ HEAD \in Nodes /\ Timers \subseteq Nodes /\ NULL \notin Nodes
    /\ Nodes = Timers \cup {HEAD}
    /\ MainStarts \subseteq Timers /\ CallbackStarts \subseteq Timers
    /\ Periodic \subseteq Timers /\ OneShot \subseteq Timers
    /\ Periodic \cap OneShot = {}
BY TimerAssumption DEF Nodes, Timers

(* What the steps on the list do to the order: a timer is put before the   *)
(* first, or one is taken out.                                             *)
LEMMA LineKept ==
    ASSUME NEW M, M \subseteq Timers, NEW nx, NEW ny, NEW r, NEW b,
           \A x \in M \cup {HEAD} : ny[x] = nx[x],
           InLine(nx, M, r, b)
    PROVE  InLine(ny, M, r, b)
BY DEF InLine

LEMMA LinePush ==
    ASSUME NEW M, M \subseteq Timers, NEW t \in Timers \ M,
           NEW nx, NEW ny, NEW r \in [Timers -> Nat], NEW b \in Nat,
           InLine(nx, M, r, b),
           ny[HEAD] = t, ny[t] = nx[HEAD], \A x \in M : ny[x] = nx[x]
    PROVE  /\ [r EXCEPT ![t] = b] \in [Timers -> Nat]
           /\ InLine(ny, M \cup {t}, [r EXCEPT ![t] = b], b + 1)
<1> DEFINE s == [r EXCEPT ![t] = b]
<1>1. s \in [Timers -> Nat] /\ s[t] = b /\ \A x \in M : s[x] = r[x] /\ x # t
  OBVIOUS
<1>2. HEAD \notin M /\ HEAD # t
  BY NodeFacts
<1> HIDE DEF s
<1>3. \A x \in M : r[x] < b /\ r[x] \in Nat
  BY DEF InLine
<1>4. \A x \in M \cup {t} : s[x] < b + 1
  BY <1>1, <1>3
<1>5. \A x, y \in M \cup {t} : s[x] = s[y] => x = y
  BY <1>1, <1>3 DEF InLine
<1>6. ASSUME NEW x \in M \cup {t} \cup {HEAD}
      PROVE /\ ny[x] \in M \cup {t} \cup {HEAD}
            /\ ny[x] \in M \cup {t} => s[ny[x]] < Level(s, b + 1, x)
            /\ \A y \in M \cup {t} : s[y] < Level(s, b + 1, x) =>
                  ny[x] \in M \cup {t} /\ s[y] <= s[ny[x]]
  <2>1. CASE x = HEAD
    BY <1>1, <1>2, <1>3, <2>1 DEF Level
  <2>2. CASE x = t
    <3>1. ny[x] = nx[HEAD] /\ Level(s, b + 1, x) = b /\ Level(r, b, HEAD) = b
      BY <1>1, <1>2, <2>2 DEF Level
    <3> QED
      BY <1>1, <1>2, <1>3, <3>1 DEF InLine
  <2>3. CASE x \in M
    <3>1. ny[x] = nx[x] /\ Level(s, b + 1, x) = r[x] /\ Level(r, b, x) = r[x]
      BY <1>1, <1>2, <2>3 DEF Level
    <3> QED
      BY <1>1, <1>2, <1>3, <2>3, <3>1 DEF InLine
  <2> QED
    BY <2>1, <2>2, <2>3
<1>7. InLine(ny, M \cup {t}, s, b + 1)
  BY <1>4, <1>5, <1>6 DEF InLine
<1> QED
  BY <1>1, <1>7 DEF s

LEMMA LineDrop ==
    ASSUME NEW M, M \subseteq Timers, NEW t \in M, NEW p,
           NEW nx, NEW ny, NEW r \in [Timers -> Nat], NEW b \in Nat,
           InLine(nx, M, r, b),
           p \in M \cup {HEAD}, nx[p] = t,
           ny[p] = nx[t], \A x \in (M \cup {HEAD}) \ {p, t} : ny[x] = nx[x] /\ nx[x] # t
    PROVE  /\ p # t /\ nx[t] # t
           /\ InLine(ny, M \ {t}, r, b)
<1>0. HEAD \notin M
  BY NodeFacts
<1>1. \A x \in M : r[x] < b /\ r[x] \in Nat
  BY DEF InLine
<1>2. \A x \in M : Level(r, b, x) = r[x]
  BY <1>0 DEF Level
<1>3. p # t /\ nx[t] # t /\ r[t] < Level(r, b, p)
  BY <1>1, <1>2 DEF InLine
<1>4. nx[t] \in M => r[nx[t]] < r[t]
  BY <1>2 DEF InLine
<1>5. Level(r, b, p) \in Nat
  BY <1>1, <1>2 DEF Level
<1>6. ASSUME NEW x \in (M \ {t}) \cup {HEAD}
      PROVE /\ ny[x] \in (M \ {t}) \cup {HEAD}
            /\ ny[x] \in M \ {t} => r[ny[x]] < Level(r, b, x)
            /\ \A y \in M \ {t} : r[y] < Level(r, b, x) =>
                  ny[x] \in M \ {t} /\ r[y] <= r[ny[x]]
  <2>1. CASE x = p
    <3>1. ny[x] = nx[t] /\ nx[t] \in (M \ {t}) \cup {HEAD}
      BY <1>3, <2>1 DEF InLine
    <3>2. ny[x] \in M \ {t} => r[ny[x]] < Level(r, b, x)
      BY <1>1, <1>3, <1>4, <1>5, <2>1, <3>1
    <3>3. ASSUME NEW y \in M \ {t}, r[y] < Level(r, b, x)
          PROVE  ny[x] \in M \ {t} /\ r[y] <= r[ny[x]]
      <4>1. r[y] <= r[t]
        BY <2>1, <3>3 DEF InLine
      <4>2. r[y] < r[t]
        BY <1>1, <4>1 DEF InLine
      <4> QED
        BY <1>2, <1>3, <3>1, <4>2 DEF InLine
    <3> QED
      BY <3>1, <3>2, <3>3
  <2>2. CASE x # p
    <3>1. ny[x] = nx[x] /\ nx[x] # t
      BY <1>0, <2>2
    <3> QED
      BY <3>1 DEF InLine
  <2> QED
    BY <2>1, <2>2
<1> QED
  BY <1>3, <1>6 DEF InLine

(* The same for prev.                                                      *)
LEMMA MirrorKept ==
    ASSUME NEW M, NEW nx, NEW ny, NEW pv, NEW py,
           \A x \in M \cup {HEAD} : nx[x] \in M \cup {HEAD},
           \A x \in M \cup {HEAD} : ny[x] = nx[x] /\ py[x] = pv[x],
           Mirror(nx, pv, M)
    PROVE  Mirror(ny, py, M)
BY DEF Mirror

LEMMA MirrorStored ==
    ASSUME NEW M, HEAD \notin M, NEW nx, NEW pv, NEW py, NEW t,
           \A x \in M \cup {HEAD} : nx[x] \in M \cup {HEAD},
           Mirror(nx, pv, M),
           py[nx[HEAD]] = t,
           \A x \in (M \cup {HEAD}) \ {nx[HEAD]} : py[x] = pv[x]
    PROVE  MirrorBut(nx, py, M, nx[HEAD])
<1>1. pv[nx[HEAD]] = HEAD
  BY DEF Mirror
<1>2. ASSUME NEW x \in M PROVE py[nx[x]] = x
  <2>1. pv[nx[x]] = x /\ x # HEAD
    BY DEF Mirror
  <2>2. nx[x] # nx[HEAD]
    BY <1>1, <2>1
  <2>3. nx[x] \in (M \cup {HEAD}) \ {nx[HEAD]}
    BY <2>2
  <2> QED
    BY <2>1, <2>3
<1>3. ASSUME NEW x \in (M \cup {HEAD}) \ {nx[HEAD]}
      PROVE  py[x] \in M \cup {HEAD} /\ nx[py[x]] = x
  BY DEF Mirror
<1> QED
  BY <1>2, <1>3 DEF MirrorBut

LEMMA MirrorButKept ==
    ASSUME NEW M, NEW nx, NEW ny, NEW pv, NEW py, NEW m,
           \A x \in M \cup {HEAD} : nx[x] \in M \cup {HEAD},
           \A x \in M \cup {HEAD} : ny[x] = nx[x] /\ py[x] = pv[x],
           MirrorBut(nx, pv, M, m)
    PROVE  MirrorBut(ny, py, M, m)
BY DEF MirrorBut

LEMMA MirrorPush ==
    ASSUME NEW M, HEAD \notin M, NEW t, t \notin M, t # HEAD,
           NEW nx, NEW ny, NEW py,
           \A x \in M \cup {HEAD} : nx[x] \in M \cup {HEAD},
           MirrorBut(nx, py, M, nx[HEAD]),
           py[nx[HEAD]] = t, py[t] = HEAD,
           ny[HEAD] = t, ny[t] = nx[HEAD], \A x \in M : ny[x] = nx[x]
    PROVE  Mirror(ny, py, M \cup {t})
<1>1. ASSUME NEW x \in M \cup {t} \cup {HEAD} PROVE py[ny[x]] = x
  BY DEF MirrorBut
<1>2. ASSUME NEW x \in M \cup {t} \cup {HEAD}
      PROVE  py[x] \in M \cup {t} \cup {HEAD} /\ ny[py[x]] = x
  <2>1. CASE x = t
    BY <2>1
  <2>2. CASE x = nx[HEAD]
    BY <2>2
  <2>3. CASE x \in (M \cup {HEAD}) \ {nx[HEAD]}
    <3>1. py[x] \in M \cup {HEAD} /\ nx[py[x]] = x
      BY <2>3 DEF MirrorBut
    <3>2. py[x] # HEAD
      BY <2>3, <3>1
    <3> QED
      BY <3>1, <3>2
  <2> QED
    BY <2>1, <2>2, <2>3
<1> QED
  BY <1>1, <1>2 DEF Mirror

LEMMA MirrorDrop ==
    ASSUME NEW M, HEAD \notin M, NEW t \in M, NEW nx, NEW ny, NEW pv, NEW py,
           \A x \in M \cup {HEAD} : nx[x] \in M \cup {HEAD},
           Mirror(nx, pv, M), pv[t] # t, nx[t] # t,
           ny[pv[t]] = nx[t],
           \A x \in (M \cup {HEAD}) \ {pv[t], t} : ny[x] = nx[x],
           py[nx[t]] = pv[t],
           \A x \in (M \cup {HEAD}) \ {nx[t], t} : py[x] = pv[x]
    PROVE  /\ \A x \in (M \cup {HEAD}) \ {pv[t], t} : nx[x] # t
           /\ Mirror(ny, py, M \ {t})
<1>0. /\ pv[t] \in (M \ {t}) \cup {HEAD} /\ nx[pv[t]] = t
      /\ nx[t] \in (M \ {t}) \cup {HEAD} /\ pv[nx[t]] = t
  BY DEF Mirror
<1>1. \A x \in (M \cup {HEAD}) \ {pv[t], t} : nx[x] # t
  BY DEF Mirror
<1>2. \A x \in (M \cup {HEAD}) \ {nx[t], t} : pv[x] # t
  BY DEF Mirror
<1>3. ASSUME NEW x \in (M \ {t}) \cup {HEAD} PROVE py[ny[x]] = x
  <2>1. CASE x = pv[t]
    BY <2>1
  <2>2. CASE x # pv[t]
    <3>1. ny[x] = nx[x] /\ nx[x] # t /\ nx[x] \in M \cup {HEAD} /\ pv[nx[x]] = x
      BY <1>1, <2>2 DEF Mirror
    <3>2. nx[x] # nx[t]
      BY <1>0, <3>1
    <3> QED
      BY <3>1, <3>2
  <2> QED
    BY <2>1, <2>2
<1>4. ASSUME NEW x \in (M \ {t}) \cup {HEAD}
      PROVE  py[x] \in (M \ {t}) \cup {HEAD} /\ ny[py[x]] = x
  <2>1. CASE x = nx[t]
    BY <1>0, <2>1
  <2>2. CASE x # nx[t]
    <3>1. py[x] = pv[x] /\ pv[x] # t /\ pv[x] \in M \cup {HEAD} /\ nx[pv[x]] = x
      BY <1>2, <2>2 DEF Mirror
    <3>2. pv[x] # pv[t]
      BY <1>0, <3>1
    <3> QED
      BY <3>1, <3>2
  <2> QED
    BY <2>1, <2>2
<1> QED
  BY <1>1, <1>3, <1>4 DEF Mirror

-----------------------------------------------------------------------------
LEMMA StartedFacts ==
    ASSUME NEW r, NEW b, Witnessed(r, b)
    PROVE  /\ Started \subseteq Timers /\ HEAD \notin Started /\ NULL \notin Started
           /\ Started \subseteq isActive
           /\ mpc = "idle" => Started = isActive
           /\ mpc # "idle" => /\ mtimer \in MainStarts /\ mtimer \in Timers
                              /\ mtimer \notin Started /\ mtimer # HEAD
                              /\ isActive = Started \cup {mtimer}
           /\ \A x \in Started \cup {HEAD} : next[x] \in Started \cup {HEAD}
           /\ \A x \in Started : r[x] \in Nat /\ r[x] < b
BY NodeFacts DEF Witnessed, Started, TypeOK, OwnerInv, InLine

(* Steps that leave the handler and the list as it sees it alone.          *)
LEMMA HandlerKept ==
    ASSUME NEW r, NEW b, Witnessed(r, b),
           Started' = Started, hpc' = "idle",
           \A x \in Started \cup {HEAD} : next'[x] = next[x]
    PROVE  InLine(next', Started', r, b) /\ WalkInv(r)'
<1>1. InLine(next', Started, r, b)
  BY StartedFacts, LineKept DEF Witnessed
<1> QED
  BY <1>1 DEF WalkInv

(* The main program's steps.                                               *)
LEMMA CreateStep ==
    ASSUME NEW r, NEW b, Witnessed(r, b), NEW t \in MainStarts, Create(t)
    PROVE  Witnessed(r, b)'
<1>0. t \in Timers /\ t \notin isActive /\ isActive' = isActive
  BY NodeFacts DEF Create, Witnessed, OwnerInv
<1>1. TypeOK'
  BY <1>0, NodeFacts DEF Witnessed, TypeOK, Create, main, handler
<1>2. Started' = Started /\ Started = isActive
  BY <1>0 DEF Started, Create, main
<1>3. \A x \in Started \cup {HEAD} : next'[x] = next[x] /\ prev'[x] = prev[x]
  BY <1>0, <1>2, NodeFacts DEF Create, Witnessed, TypeOK
<1>4. OwnerInv'
  BY <1>0 DEF Witnessed, OwnerInv, Create, main
<1>5. AddInv'
  <2>1. Mirror(next, prev, Started)
    BY DEF Witnessed, AddInv, Create
  <2>2. Mirror(next', prev', Started)
    BY <1>3, <2>1, StartedFacts, MirrorKept
  <2> QED
    BY <1>2, <2>2 DEF AddInv, Create, main
<1>6. InLine(next', Started', r, b) /\ WalkInv(r)'
  BY <1>2, <1>3, HandlerKept DEF Create, handler
<1> QED
  BY <1>1, <1>4, <1>5, <1>6 DEF Witnessed

LEMMA StartStep ==
    ASSUME NEW r, NEW b, Witnessed(r, b), NEW t \in MainStarts, MainStart(t)
    PROVE  Witnessed(r, b)'
<1>0. t \in Timers /\ t \in allocated \ isActive /\ StartTimer(t)
  BY NodeFacts DEF MainStart
<1>1. TypeOK'
  BY <1>0, NodeFacts DEF Witnessed, TypeOK, StartTimer, list, handler
<1>2. Started' = Started /\ Started = isActive
  BY <1>0 DEF Started, StartTimer
<1>4. OwnerInv'
  BY <1>0 DEF Witnessed, OwnerInv, StartTimer
<1>5. AddInv'
  BY <1>0, <1>2 DEF Witnessed, AddInv, StartTimer, list
<1>6. InLine(next', Started', r, b) /\ WalkInv(r)'
  BY <1>0, <1>2, HandlerKept DEF StartTimer, list, handler
<1> QED
  BY <1>1, <1>4, <1>5, <1>6 DEF Witnessed

LEMMA Add1Step ==
    ASSUME NEW r, NEW b, Witnessed(r, b), ListAdd1
    PROVE  Witnessed(r, b)'
<1>0. mtimer \in Timers /\ mnext = next[HEAD] /\ mnext \in Nodes
  BY StartedFacts, NodeFacts DEF ListAdd1, Witnessed, AddInv
<1>1. TypeOK'
  BY <1>0, NodeFacts DEF Witnessed, TypeOK, ListAdd1, handler
<1>2. Started' = Started
  BY DEF Started, ListAdd1
<1>4. OwnerInv'
  BY DEF Witnessed, OwnerInv, ListAdd1
<1>5. AddInv'
  <2>1. Mirror(next, prev, Started)
    BY DEF Witnessed, AddInv, ListAdd1
  <2>2. prev'[mnext] = mtimer /\ \A x \in Nodes \ {mnext} : prev'[x] = prev[x]
    BY <1>0 DEF ListAdd1, Witnessed, TypeOK
  <2>3. MirrorBut(next, prev', Started, next[HEAD])
    BY <1>0, <2>1, <2>2, StartedFacts, MirrorStored, NodeFacts
  <2> QED
    BY <1>0, <1>2, <2>2, <2>3 DEF AddInv, ListAdd1
<1>6. InLine(next', Started', r, b) /\ WalkInv(r)'
  BY <1>2, HandlerKept DEF ListAdd1, handler
<1> QED
  BY <1>1, <1>4, <1>5, <1>6 DEF Witnessed

LEMMA Add2Step ==
    ASSUME NEW r, NEW b, Witnessed(r, b), ListAdd2
    PROVE  Witnessed(r, b)'
<1>0. /\ mtimer \in Timers /\ mtimer # HEAD /\ mtimer \notin Started
      /\ mnext = next[HEAD] /\ mnext \in Nodes /\ mnext \in Started \cup {HEAD}
  BY StartedFacts, NodeFacts DEF ListAdd2, Witnessed, AddInv
<1>1. TypeOK'
  BY <1>0, NodeFacts DEF Witnessed, TypeOK, ListAdd2, handler
<1>2. Started' = Started
  BY DEF Started, ListAdd2
<1>3. next'[mtimer] = mnext /\ \A x \in Started \cup {HEAD} : next'[x] = next[x]
  BY <1>0, StartedFacts, NodeFacts DEF ListAdd2, Witnessed, TypeOK
<1>4. OwnerInv'
  BY DEF Witnessed, OwnerInv, ListAdd2
<1>5. AddInv'
  <2>1. prev[mnext] = mtimer /\ MirrorBut(next, prev, Started, mnext)
    BY DEF Witnessed, AddInv, ListAdd2
  <2>2. MirrorBut(next', prev, Started, mnext)
    BY <1>3, <2>1, StartedFacts, MirrorButKept
  <2> QED
    BY <1>0, <1>2, <1>3, <2>1, <2>2 DEF AddInv, ListAdd2
<1>6. InLine(next', Started', r, b) /\ WalkInv(r)'
  BY <1>2, <1>3, HandlerKept DEF ListAdd2, handler
<1> QED
  BY <1>1, <1>4, <1>5, <1>6 DEF Witnessed

LEMMA Add3Step ==
    ASSUME NEW r, NEW b, Witnessed(r, b), ListAdd3
    PROVE  Witnessed(r, b)'
<1>0. /\ mtimer \in Timers /\ mtimer # HEAD /\ mtimer \notin Started
      /\ mnext = next[HEAD] /\ mnext \in Nodes /\ mnext \in Started \cup {HEAD}
  BY StartedFacts, NodeFacts DEF ListAdd3, Witnessed, AddInv
<1>1. TypeOK'
  BY <1>0, NodeFacts DEF Witnessed, TypeOK, ListAdd3, handler
<1>2. Started' = Started
  BY DEF Started, ListAdd3
<1>3. prev'[mtimer] = HEAD /\ \A x \in Started \cup {HEAD} : prev'[x] = prev[x]
  BY <1>0, StartedFacts, NodeFacts DEF ListAdd3, Witnessed, TypeOK
<1>4. OwnerInv'
  BY DEF Witnessed, OwnerInv, ListAdd3
<1>5. AddInv'
  <2>1. /\ prev[mnext] = mtimer /\ MirrorBut(next, prev, Started, mnext)
        /\ next[mtimer] = mnext
    BY DEF Witnessed, AddInv, ListAdd3
  <2>2. MirrorBut(next, prev', Started, mnext)
    BY <1>3, <2>1, StartedFacts, MirrorButKept
  <2> QED
    BY <1>0, <1>2, <1>3, <2>1, <2>2 DEF AddInv, ListAdd3
<1>6. InLine(next', Started', r, b) /\ WalkInv(r)'
  BY <1>2, HandlerKept DEF ListAdd3, handler
<1> QED
  BY <1>1, <1>4, <1>5, <1>6 DEF Witnessed

LEMMA Add4Step ==
    ASSUME NEW r, NEW b, Witnessed(r, b), ListAdd4
    PROVE  Witnessed([r EXCEPT ![mtimer] = b], b + 1)'
<1> DEFINE s == [r EXCEPT ![mtimer] = b]
<1>0. /\ mtimer \in Timers /\ mtimer # HEAD /\ mtimer \notin Started
      /\ mnext = next[HEAD] /\ mnext \in Nodes /\ mnext \in Started \cup {HEAD}
      /\ isActive = Started \cup {mtimer}
  BY StartedFacts, NodeFacts DEF ListAdd4, Witnessed, AddInv
<1>1. TypeOK'
  BY <1>0, NodeFacts DEF Witnessed, TypeOK, ListAdd4, handler
<1>2. Started' = Started \cup {mtimer}
  BY <1>0 DEF Started, ListAdd4
<1>3. /\ next'[HEAD] = mtimer /\ next'[mtimer] = next[HEAD]
      /\ \A x \in Started : next'[x] = next[x]
  BY <1>0, StartedFacts, NodeFacts DEF ListAdd4, Witnessed, TypeOK, AddInv
<1>4. OwnerInv'
  BY DEF Witnessed, OwnerInv, ListAdd4
<1>5. AddInv'
  <2>1. /\ prev[next[HEAD]] = mtimer /\ MirrorBut(next, prev, Started, next[HEAD])
        /\ prev[mtimer] = HEAD
    BY <1>0 DEF Witnessed, AddInv, ListAdd4
  <2>2. Mirror(next', prev, Started \cup {mtimer})
    BY <1>0, <1>3, <2>1, StartedFacts, MirrorPush
  <2> QED
    BY <1>2, <2>2 DEF AddInv, ListAdd4
<1>6. s \in [Timers -> Nat] /\ InLine(next', Started', s, b + 1)
  BY <1>0, <1>2, <1>3, StartedFacts, LinePush DEF Witnessed
<1>7. WalkInv(s)'
  BY DEF WalkInv, ListAdd4, handler
<1>8. b + 1 \in Nat
  BY DEF Witnessed
<1>9. mtimer' = mtimer
  BY DEF ListAdd4
<1> QED
  BY <1>1, <1>4, <1>5, <1>6, <1>7, <1>8, <1>9 DEF Witnessed

-----------------------------------------------------------------------------
(* The handler's steps.  At the interrupt every started timer remains.     *)
LEMMA IrqStep ==
    ASSUME NEW r, NEW b, Witnessed(r, b), TimerIrq
    PROVE  Witnessed(r, b)'
<1>0. next[HEAD] \in Started \cup {HEAD} /\ next[next[HEAD]] \in Started \cup {HEAD}
  BY StartedFacts
<1>1. TypeOK'
  BY <1>0, StartedFacts, NodeFacts DEF Witnessed, TypeOK, TimerIrq, list, main
<1>2. Started' = Started
  BY DEF Started, TimerIrq, main
<1>3. OwnerInv' /\ AddInv'
  BY <1>2 DEF Witnessed, OwnerInv, AddInv, TimerIrq, list, main
<1>4. InLine(next', Started', r, b)
  BY <1>2 DEF Witnessed, TimerIrq, list
<1>5. WalkInv(r)'
  <2>1. pos' = next[HEAD] /\ n' = next[pos'] /\ hpc' = "walk" /\ next' = next
    BY DEF TimerIrq, list
  <2>2. Remaining(r)' = Started
    <3>1. ASSUME NEW y \in Started
          PROVE  pos' # HEAD /\ (r[y] < r[pos'] \/ y = pos')
      <4>1. r[y] < Level(r, b, HEAD) /\ r[y] \in Nat
        BY StartedFacts DEF Level
      <4>2. next[HEAD] \in Started /\ r[y] <= r[next[HEAD]]
        BY <4>1 DEF Witnessed, InLine
      <4>3. r[y] = r[next[HEAD]] => y = next[HEAD]
        BY <4>2 DEF Witnessed, InLine
      <4>4. r[next[HEAD]] \in Nat /\ next[HEAD] # HEAD
        BY <4>2, StartedFacts
      <4> QED
        BY <2>1, <4>1, <4>2, <4>3, <4>4
    <3> QED
      BY <1>2, <2>1, <3>1 DEF Remaining
  <2> QED
    BY <1>0, <1>2, <2>1, <2>2 DEF WalkInv, TimerIrq
<1> QED
  BY <1>1, <1>3, <1>4, <1>5 DEF Witnessed

LEMMA CallbackStep ==
    ASSUME NEW r, NEW b, Witnessed(r, b), Callback
    PROVE  Witnessed(r, b)'
<1>0. pos \in Started /\ hpc = "walk" /\ pos' = pos /\ r[pos] \in Nat
  BY StartedFacts DEF Witnessed, WalkInv, Callback
<1>1. TypeOK'
  BY <1>0, StartedFacts, NodeFacts DEF Witnessed, TypeOK, Callback, list, main
<1>2. Started' = Started
  BY DEF Started, Callback, main
<1>3. OwnerInv' /\ AddInv'
  BY <1>2 DEF Witnessed, OwnerInv, AddInv, Callback, list, main
<1>4. InLine(next', Started', r, b)
  BY <1>2 DEF Witnessed, Callback, list
<1>5. WalkInv(r)'
  <2>1. Remaining(r)' = Remaining(r) \ {pos} /\ pos \in Remaining(r)
    BY <1>0, <1>2, StartedFacts DEF Remaining, Callback
  <2> QED
    BY <1>0, <1>2, <2>1 DEF Witnessed, WalkInv, Callback, list
<1> QED
  BY <1>1, <1>3, <1>4, <1>5 DEF Witnessed

(* Going on from a timer the handler is done with leaves the same timers.  *)
LEMMA Advanced ==
    ASSUME NEW M, M \subseteq Timers, HEAD \notin M, NEW nx,
           NEW r \in [Timers -> Nat], NEW b \in Nat,
           InLine(nx, M, r, b), NEW x \in M
    PROVE  {y \in M : r[y] < r[x]} =
           {y \in M : nx[x] # HEAD /\ (r[y] < r[nx[x]] \/ y = nx[x])}
<1>1. Level(r, b, x) = r[x]
  BY DEF Level
<1>2. nx[x] \in M \cup {HEAD} /\ (nx[x] \in M => r[nx[x]] < r[x])
  BY <1>1 DEF InLine
<1>3. \A y \in M : r[y] < r[x] => nx[x] \in M /\ r[y] <= r[nx[x]]
  BY <1>1 DEF InLine
<1>4. \A y \in M : nx[x] \in M /\ r[y] = r[nx[x]] => y = nx[x]
  BY DEF InLine
<1>5. \A y \in M : r[y] \in Nat
  OBVIOUS
<1> QED
  BY <1>2, <1>3, <1>4, <1>5

LEMMA KeepStep ==
    ASSUME NEW r, NEW b, Witnessed(r, b), KeepPeriodic
    PROVE  Witnessed(r, b)'
<1>0. /\ pos \in Started /\ pos # HEAD /\ n = next[pos] /\ n \in Started \cup {HEAD}
      /\ next[n] \in Started \cup {HEAD} /\ hpc = "called"
  BY StartedFacts DEF Witnessed, WalkInv, KeepPeriodic
<1>1. TypeOK'
  BY <1>0, StartedFacts, NodeFacts DEF Witnessed, TypeOK, KeepPeriodic, Advance, list, main
<1>2. Started' = Started
  BY DEF Started, KeepPeriodic, main
<1>3. OwnerInv' /\ AddInv'
  BY <1>2 DEF Witnessed, OwnerInv, AddInv, KeepPeriodic, list, main
<1>4. InLine(next', Started', r, b)
  BY <1>2 DEF Witnessed, KeepPeriodic, list
<1>5. WalkInv(r)'
  <2>1. Remaining(r) = {y \in Started : r[y] < r[pos]}
    BY <1>0 DEF Remaining
  <2>2. Remaining(r)' = {y \in Started : n # HEAD /\ (r[y] < r[n] \/ y = n)}
    BY <1>2 DEF Remaining, KeepPeriodic, Advance
  <2>3. Remaining(r)' = Remaining(r)
    BY <1>0, <2>1, <2>2, StartedFacts, Advanced DEF Witnessed
  <2> QED
    BY <1>0, <1>2, <2>3 DEF Witnessed, WalkInv, KeepPeriodic, Advance, list
<1> QED
  BY <1>1, <1>3, <1>4, <1>5 DEF Witnessed

LEMMA ReturnStep ==
    ASSUME NEW r, NEW b, Witnessed(r, b), HandlerReturn
    PROVE  Witnessed(r, b)'
<1>1. TypeOK'
  BY DEF Witnessed, TypeOK, HandlerReturn, list, main
<1>2. Started' = Started
  BY DEF Started, HandlerReturn, main
<1>3. OwnerInv' /\ AddInv'
  BY <1>2 DEF Witnessed, OwnerInv, AddInv, HandlerReturn, list, main
<1>4. InLine(next', Started', r, b) /\ WalkInv(r)'
  BY <1>2 DEF Witnessed, WalkInv, HandlerReturn, list
<1> QED
  BY <1>1, <1>3, <1>4 DEF Witnessed

LEMMA CallbackStartStep ==
    ASSUME Undisturbed, NEW r, NEW b, Witnessed(r, b),
           NEW t \in CallbackStarts, CallbackStart(t)
    PROVE  Witnessed([r EXCEPT ![t] = b], b + 1)'
<1> DEFINE s == [r EXCEPT ![t] = b]
<1>0. /\ pos \in Started /\ hpc = "walk" /\ pos' = pos /\ r[pos] \in Nat /\ r[pos] < b
      /\ n = next[pos]
  BY StartedFacts DEF Witnessed, WalkInv, CallbackStart
<1>a. MainStarts \subseteq Started
  BY DEF CallbackStart, Undisturbed
<1>b. mpc = "idle" /\ mpc' = "idle" /\ Started = isActive
  BY <1>a, StartedFacts DEF CallbackStart, main
<1>c. t \in Timers /\ t \notin isActive /\ t \notin Started /\ t # HEAD
  BY <1>b, NodeFacts DEF CallbackStart, Witnessed, OwnerInv
<1>d. next[HEAD] \in Started \cup {HEAD} /\ next[HEAD] \in Nodes
  BY StartedFacts, NodeFacts
<1>1. TypeOK'
  BY <1>0, <1>c, <1>d, StartedFacts, NodeFacts DEF Witnessed, TypeOK, CallbackStart, main
<1>2. Started' = Started \cup {t}
  BY <1>b DEF Started, CallbackStart
<1>3. OwnerInv'
  BY <1>a, <1>b DEF Witnessed, OwnerInv, CallbackStart
<1>4. /\ next'[HEAD] = t /\ next'[t] = next[HEAD]
      /\ \A x \in Started : next'[x] = next[x]
  BY <1>c, StartedFacts, NodeFacts DEF CallbackStart, Witnessed, TypeOK
<1>5. /\ prev'[next[HEAD]] = t /\ prev'[t] = HEAD
      /\ \A x \in (Started \cup {HEAD}) \ {next[HEAD]} : prev'[x] = prev[x]
  BY <1>c, <1>d, StartedFacts, NodeFacts DEF CallbackStart, Witnessed, TypeOK
<1>6. AddInv'
  <2>1. Mirror(next, prev, Started)
    BY <1>b DEF Witnessed, AddInv
  <2>2. MirrorBut(next, prev', Started, next[HEAD])
    BY <1>5, <2>1, StartedFacts, MirrorStored
  <2>3. Mirror(next', prev', Started \cup {t})
    BY <1>c, <1>4, <1>5, <2>2, StartedFacts, MirrorPush
  <2> QED
    BY <1>2, <1>b, <2>3 DEF AddInv
<1>7. s \in [Timers -> Nat] /\ InLine(next', Started', s, b + 1)
  BY <1>2, <1>4, <1>c, StartedFacts, LinePush DEF Witnessed
<1>8. WalkInv(s)'
  <2>1. s[t] = b /\ \A x \in Started : s[x] = r[x] /\ x # t
    BY <1>c, StartedFacts DEF Witnessed
  <2>2. Remaining(s)' = {y \in Started \cup {t} : pos # HEAD /\ s[y] < s[pos]}
    BY <1>0, <1>2 DEF Remaining, CallbackStart
  <2> HIDE DEF s
  <2>a. b \in Nat /\ pos # HEAD /\ \A y \in Started : r[y] \in Nat
    BY <1>0, StartedFacts DEF Witnessed
  <2>3. Remaining(s)' = {y \in Started : r[y] < r[pos]}
    BY <1>0, <2>1, <2>2, <2>a
  <2>4. Remaining(r) = {y \in Started : r[y] < r[pos] \/ y = pos}
    BY <1>0, StartedFacts DEF Remaining
  <2>5. Remaining(s)' = Remaining(r) \ {pos} /\ pos \in Remaining(r)
    BY <1>0, <2>3, <2>4, <2>a
  <2>6. n' = next'[pos']
    BY <1>0, <1>4 DEF CallbackStart
  <2> QED
    BY <1>0, <1>2, <2>5, <2>6 DEF Witnessed, WalkInv, CallbackStart
<1>9. b + 1 \in Nat
  BY DEF Witnessed
<1> QED
  BY <1>1, <1>3, <1>6, <1>7, <1>8, <1>9 DEF Witnessed

LEMMA ExpireStep ==
    ASSUME Undisturbed, NEW r, NEW b, Witnessed(r, b), ExpireOneShot
    PROVE  Witnessed(r, b)'
<1>0. /\ pos \in Started /\ pos # HEAD /\ n = next[pos] /\ n \in Started \cup {HEAD}
      /\ hpc = "called" /\ pos \in isActive
  BY StartedFacts DEF Witnessed, WalkInv, ExpireOneShot
<1>a. pos \notin MainStarts
  BY NodeFacts DEF ExpireOneShot, Undisturbed
<1>b. /\ mpc = "idle" /\ mpc' = "idle" /\ MainStarts \subseteq isActive
      /\ Started = isActive /\ Started' = Started \ {pos}
  BY <1>0, <1>a, StartedFacts DEF Witnessed, OwnerInv, ExpireOneShot, Started, main
<1>c. Mirror(next, prev, Started) /\ InLine(next, Started, r, b)
  BY <1>b DEF Witnessed, AddInv
<1>d. /\ prev[pos] \in Started \cup {HEAD} /\ next[prev[pos]] = pos
      /\ prev[n] = pos
  BY <1>0, <1>c DEF Mirror
<1>e. n # pos /\ prev[pos] # pos
  <2>1. Level(r, b, pos) = r[pos] /\ r[pos] \in Nat
    BY <1>0, StartedFacts DEF Level
  <2>2. n \in Started => r[n] < r[pos]
    BY <1>0, <1>c, <2>1 DEF InLine
  <2>3. n # pos
    BY <1>0, <2>1, <2>2
  <2> QED
    BY <1>0, <1>d, <2>3
<1>1. /\ next'[prev[pos]] = next[pos]
      /\ \A x \in (Started \cup {HEAD}) \ {prev[pos], pos} : next'[x] = next[x]
  BY <1>d, <1>e, StartedFacts, NodeFacts DEF Witnessed, TypeOK, ExpireOneShot, Unlinked
<1>2. /\ prev'[next[pos]] = prev[pos]
      /\ \A x \in (Started \cup {HEAD}) \ {next[pos], pos} : prev'[x] = prev[x]
  BY <1>0, <1>d, <1>e, StartedFacts, NodeFacts DEF Witnessed, TypeOK, ExpireOneShot
<1>3. /\ \A x \in (Started \cup {HEAD}) \ {prev[pos], pos} : next[x] # pos
      /\ Mirror(next', prev', Started')
  <2>1. HEAD \notin Started /\ \A x \in Started \cup {HEAD} : next[x] \in Started \cup {HEAD}
    BY StartedFacts
  <2>2. prev[pos] # pos /\ next[pos] # pos
    BY <1>0, <1>e
  <2>3. /\ \A x \in (Started \cup {HEAD}) \ {prev[pos], pos} : next[x] # pos
        /\ Mirror(next', prev', Started \ {pos})
    BY <1>0, <1>1, <1>2, <1>c, <2>1, <2>2, MirrorDrop
  <2> QED
    BY <1>b, <2>3
<1>4. InLine(next', Started', r, b)
  BY <1>0, <1>1, <1>3, <1>b, <1>c, <1>d, StartedFacts, LineDrop DEF Witnessed
<1>5. n \in Started' \cup {HEAD} /\ next'[n] \in Started' \cup {HEAD}
  BY <1>0, <1>4, <1>b, <1>e DEF InLine
<1>6. TypeOK'
  <2>1. next' \in [Nodes -> Nodes \cup {NULL}] /\ prev' \in [Nodes -> Nodes \cup {NULL}]
    BY <1>0, <1>d, StartedFacts, NodeFacts DEF Witnessed, TypeOK, ExpireOneShot, Unlinked
  <2>2. pos' = n /\ n' = next'[n] /\ n \in Nodes /\ next'[n] \in Nodes
    BY <1>5, <1>b, StartedFacts, NodeFacts DEF ExpireOneShot, Advance
  <2> QED
    BY <2>1, <2>2 DEF Witnessed, TypeOK, ExpireOneShot, main
<1>7. OwnerInv'
  BY <1>a, <1>b DEF Witnessed, OwnerInv, ExpireOneShot
<1>8. AddInv'
  BY <1>3, <1>b DEF AddInv
<1>9. WalkInv(r)'
  <2>1. Remaining(r) = {y \in Started : r[y] < r[pos]}
    BY <1>0 DEF Remaining
  <2>2. Remaining(r) = {y \in Started : n # HEAD /\ (r[y] < r[n] \/ y = n)}
    BY <1>0, <1>c, <2>1, StartedFacts, Advanced DEF Witnessed
  <2>3. pos \notin Remaining(r)
    BY <1>0, <2>1, StartedFacts
  <2>4. Remaining(r)' = {y \in Started \ {pos} : n # HEAD /\ (r[y] < r[n] \/ y = n)}
    BY <1>b DEF Remaining, ExpireOneShot, Advance
  <2>5. Remaining(r)' = Remaining(r)
    BY <2>2, <2>3, <2>4
  <2> QED
    BY <1>0, <1>5, <2>5 DEF Witnessed, WalkInv, ExpireOneShot, Advance
<1> QED
  BY <1>4, <1>6, <1>7, <1>8, <1>9 DEF Witnessed

LEMMA TimerInit == Init => TimerInv
<1> SUFFICES ASSUME Init PROVE TimerInv
    OBVIOUS
<1> DEFINE r == [t \in Timers |-> 0]
<1>1. Started = {} /\ next[HEAD] = HEAD /\ prev[HEAD] = HEAD
  BY NodeFacts DEF Init, Started
<1>2. TypeOK /\ OwnerInv
  BY NodeFacts DEF Init, TypeOK, OwnerInv
<1>3. AddInv
  BY <1>1 DEF Init, AddInv, Mirror
<1>4. InLine(next, Started, r, 0)
  BY <1>1 DEF InLine
<1>5. WalkInv(r)
  BY DEF Init, WalkInv
<1>6. r \in [Timers -> Nat]
  OBVIOUS
<1> HIDE DEF r
<1>7. Witnessed(r, 0)
  BY <1>2, <1>3, <1>4, <1>5, <1>6 DEF Witnessed
<1> QED
  BY <1>6, <1>7 DEF TimerInv

LEMMA TimerNext ==
    ASSUME Undisturbed
    PROVE  TimerInv /\ [Next]_vars => TimerInv'
<1> SUFFICES ASSUME TimerInv, [Next]_vars PROVE TimerInv'
    OBVIOUS
<1>0. PICK r \in [Timers -> Nat], b \in Nat : Witnessed(r, b)
  BY DEF TimerInv
<1>a. ASSUME NEW s, NEW c, Witnessed(s, c)' PROVE TimerInv'
  BY <1>a DEF TimerInv, Witnessed
<1>1. ASSUME NEW t \in MainStarts, Create(t) PROVE TimerInv'
  BY <1>0, <1>1, <1>a, CreateStep
<1>2. ASSUME NEW t \in MainStarts, MainStart(t) PROVE TimerInv'
  BY <1>0, <1>2, <1>a, StartStep
<1>3. CASE ListAdd1
  BY <1>0, <1>3, <1>a, Add1Step
<1>4. CASE ListAdd2
  BY <1>0, <1>4, <1>a, Add2Step
<1>5. CASE ListAdd3
  BY <1>0, <1>5, <1>a, Add3Step
<1>6. CASE ListAdd4
  BY <1>0, <1>6, <1>a, Add4Step
<1>7. CASE TimerIrq
  BY <1>0, <1>7, <1>a, IrqStep
<1>8. CASE Callback
  BY <1>0, <1>8, <1>a, CallbackStep
<1>9. ASSUME NEW t \in CallbackStarts, CallbackStart(t) PROVE TimerInv'
  BY <1>0, <1>9, <1>a, CallbackStartStep
<1>10. CASE KeepPeriodic
  BY <1>0, <1>10, <1>a, KeepStep
<1>11. CASE ExpireOneShot
  BY <1>0, <1>11, <1>a, ExpireStep
<1>12. CASE HandlerReturn
  BY <1>0, <1>12, <1>a, ReturnStep
<1>13. CASE UNCHANGED vars
  BY <1>13 DEF TimerInv, Witnessed, TypeOK, OwnerInv, AddInv, WalkInv, Remaining, Started,
               vars, list, main, handler
<1> QED
  BY <1>1, <1>2, <1>3, <1>4, <1>5, <1>6, <1>7, <1>8, <1>9, <1>10, <1>11, <1>12, <1>13
     DEF Next, MainStep, HandlerStep

-----------------------------------------------------------------------------
(* Walk as iteration: what k steps reach, for every k.                     *)
Reached(g, f) ==
    /\ g[0] = {f[HEAD]}
    /\ \A k \in Nat : g[k + 1] = g[k] \cup {f[x] : x \in g[k] \ {HEAD, NULL}}

LEMMA WalkReaches ==
    ASSUME NEW f \in [Nodes -> Nodes \cup {NULL}]
    PROVE  \E g : Reached(g, f) /\ Walk(f) = g[Cardinality(Timers)]
<1> DEFINE X == SUBSET (Nodes \cup {NULL})
           S == [R \in X |-> R \cup {f[x] : x \in R \ {HEAD, NULL}}]
           P(g) == g = [k \in Nat |-> IF k = 0 THEN {f[HEAD]}
                                      ELSE g[k - 1] \cup
                                           {f[x] : x \in g[k - 1] \ {HEAD, NULL}}]
           c == CHOOSE g : P(g)
<1>1. \E g : P(g)
  <2>1. {f[HEAD]} \in X /\ S \in [X -> X]
    BY NodeFacts
  <2>2. PICK g \in [Nat -> X] : g[0] = {f[HEAD]} /\ \A k \in Nat : g[k + 1] = S[g[k]]
    <3> DEFINE A == {f[HEAD]}
    <3>1. A \in X /\ S \in [X -> X]
      BY <2>1
    <3> HIDE DEF X, S, A, P, c
    <3>2. \E g \in [Nat -> X] : g[0] = A /\ \A k \in Nat : g[k + 1] = S[g[k]]
      BY <3>1, Iteration
    <3> QED
      BY <3>2 DEF A
  <2>3. ASSUME NEW k \in Nat, k # 0
        PROVE  g[k] = g[k - 1] \cup {f[x] : x \in g[k - 1] \ {HEAD, NULL}}
    <3>1. k - 1 \in Nat /\ (k - 1) + 1 = k
      BY <2>3
    <3>2. g[k] = S[g[k - 1]] /\ g[k - 1] \in X
      BY <2>2, <3>1
    <3>3. \A R \in X : S[R] = R \cup {f[x] : x \in R \ {HEAD, NULL}}
      OBVIOUS
    <3> HIDE DEF X, S
    <3> QED
      BY <3>2, <3>3
  <2>4. P(g)
    BY <2>2, <2>3
  <2> QED
    BY <2>4
<1>2. P(c)
  BY <1>1, Zenon
<1>3. Walk(f) = c[Cardinality(Timers)]
  BY DEF Walk
<1> HIDE DEF c
<1>4. c[0] = {f[HEAD]}
  BY <1>2
<1>5. ASSUME NEW k \in Nat
      PROVE  c[k + 1] = c[k] \cup {f[x] : x \in c[k] \ {HEAD, NULL}}
  <2>1. k + 1 \in Nat /\ k + 1 # 0 /\ (k + 1) - 1 = k
    OBVIOUS
  <2> QED
    BY <1>2, <2>1
<1> QED
  BY <1>3, <1>4, <1>5 DEF Reached

(* What has been reached lies in the list, nothing before it is left out,  *)
(* and it grows until the walk is back at the head.                        *)
Front(R, M, r) == \A x \in R, y \in M : x = HEAD \/ r[x] < r[y] => y \in R

LEMMA ReachesFront ==
    ASSUME NEW M, M \subseteq Timers, NEW nx, NEW r \in [Timers -> Nat], NEW b \in Nat,
           InLine(nx, M, r, b), NEW g, Reached(g, nx), NEW k \in Nat
    PROVE  /\ g[k] \subseteq M \cup {HEAD} /\ Front(g[k], M, r)
           /\ HEAD \notin g[k] => IsFiniteSet(g[k]) /\ Cardinality(g[k]) > k
<1>0. HEAD \notin M /\ NULL \notin M /\ NULL # HEAD /\ \A x \in M : r[x] \in Nat /\ r[x] < b
  BY NodeFacts DEF InLine
<1>a. IsFiniteSet(M)
  BY TimerAssumption, FS_Subset DEF Timers
<1> DEFINE Good(i) == /\ g[i] \subseteq M \cup {HEAD} /\ Front(g[i], M, r) /\ g[i] # {}
                      /\ HEAD \notin g[i] => Cardinality(g[i]) > i
<1> DEFINE Bad == {i \in Nat : ~ Good(i)}
<1>1. Good(0)
  <2>1. g[0] = {nx[HEAD]} /\ nx[HEAD] \in M \cup {HEAD}
    BY DEF Reached, InLine
  <2>2. Front(g[0], M, r)
    <3>1. ASSUME NEW y \in M PROVE nx[HEAD] \in M /\ r[y] <= r[nx[HEAD]]
      BY <1>0 DEF InLine, Level
    <3> QED
      BY <1>0, <2>1, <3>1 DEF Front
  <2>3. Cardinality(g[0]) = 1
    BY <2>1, FS_Singleton
  <2> QED
    BY <2>1, <2>2, <2>3
<1>2. ASSUME NEW i \in Nat, Good(i) PROVE Good(i + 1)
  <2>1. g[i + 1] = g[i] \cup {nx[x] : x \in g[i] \ {HEAD, NULL}}
    BY DEF Reached
  <2>2. \A x \in g[i] \ {HEAD, NULL} : x \in M /\ nx[x] \in M \cup {HEAD}
    BY <1>2 DEF InLine
  <2>3. g[i + 1] \subseteq M \cup {HEAD} /\ g[i + 1] # {}
    BY <1>2, <2>1, <2>2
  <2>4. Front(g[i + 1], M, r)
    <3> SUFFICES ASSUME NEW z \in g[i + 1], NEW y \in M, z = HEAD \/ r[z] < r[y]
                 PROVE  y \in g[i + 1]
      BY DEF Front
    <3>1. CASE z \in g[i]
      BY <1>2, <2>1, <3>1 DEF Front
    <3>2. CASE z \notin g[i]
      <4>1. PICK x \in g[i] \ {HEAD, NULL} : z = nx[x]
        BY <2>1, <3>2
      <4>2. x \in M /\ Level(r, b, x) = r[x]
        BY <1>0, <2>2, <4>1 DEF Level
      <4>3. ~ (r[y] < r[x])
        <5> SUFFICES ASSUME r[y] < r[x] PROVE FALSE
          OBVIOUS
        <5>1. nx[x] \in M /\ r[y] <= r[nx[x]]
          BY <4>2 DEF InLine
        <5> QED
          BY <1>0, <4>1, <5>1
      <4>4. y = x \/ r[x] < r[y]
        BY <1>0, <4>2, <4>3 DEF InLine
      <4> QED
        BY <1>2, <2>1, <4>1, <4>4 DEF Front
    <3> QED
      BY <3>1, <3>2
  <2>5. ASSUME HEAD \notin g[i + 1] PROVE Cardinality(g[i + 1]) > i + 1
    <3>1. HEAD \notin g[i] /\ g[i] \subseteq M /\ NULL \notin g[i]
      BY <1>0, <1>2, <2>1, <2>5
    <3>2. \A x \in g[i] : nx[x] \in g[i + 1] /\ nx[x] \in M /\ r[nx[x]] < r[x]
      <4> SUFFICES ASSUME NEW x \in g[i]
                   PROVE  nx[x] \in g[i + 1] /\ nx[x] \in M /\ r[nx[x]] < r[x]
        OBVIOUS
      <4>1. x \in M /\ Level(r, b, x) = r[x] /\ nx[x] \in g[i + 1]
        BY <1>0, <2>1, <3>1 DEF Level
      <4>2. nx[x] \in M
        BY <2>3, <2>5, <4>1
      <4> QED
        BY <4>1, <4>2 DEF InLine
    <3>3. PICK x \in g[i] : nx[x] \notin g[i]
      <4> SUFFICES ASSUME \A x \in g[i] : nx[x] \in g[i] PROVE FALSE
        OBVIOUS
      <4> DEFINE T == {r[x] : x \in g[i]}
      <4>1. T \subseteq Nat /\ T # {}
        BY <1>0, <1>2, <3>1
      <4>2. PICK m \in T : \A y \in T : m <= y
        <5> HIDE DEF T
        <5> QED
          BY <4>1, LeastNumber
      <4>3. PICK x \in g[i] : m = r[x]
        BY <4>2
      <4>4. r[nx[x]] \in T /\ r[nx[x]] < m
        BY <3>2, <4>3
      <4>5. r[nx[x]] \in Nat /\ m \in Nat /\ m <= r[nx[x]]
        <5> HIDE DEF T
        <5> QED
          BY <4>1, <4>2, <4>4
      <4> QED
        BY <4>4, <4>5
    <3>4. IsFiniteSet(g[i + 1]) /\ IsFiniteSet(g[i] \cup {nx[x]})
      BY <1>a, <2>3, <2>5, <3>1, <3>2, <3>3, FS_Subset
    <3>5. Cardinality(g[i] \cup {nx[x]}) = Cardinality(g[i]) + 1
      BY <1>a, <3>1, <3>3, FS_Subset, FS_AddElement
    <3>6. Cardinality(g[i] \cup {nx[x]}) <= Cardinality(g[i + 1])
      <4>1. g[i] \cup {nx[x]} \subseteq g[i + 1]
        BY <2>1, <3>2
      <4> QED
        BY <3>4, <4>1, FS_Subset
    <3>7. Cardinality(g[i]) \in Nat /\ Cardinality(g[i + 1]) \in Nat
      BY <1>a, <3>1, <3>4, FS_Subset, FS_CardinalityType
    <3> QED
      BY <1>2, <3>1, <3>5, <3>6, <3>7
  <2> QED
    BY <2>3, <2>4, <2>5
<1>3. Good(k)
  <2> SUFFICES ASSUME Bad # {} PROVE FALSE
    OBVIOUS
  <2>1. PICK m \in Bad : \A y \in Bad : m <= y
    <3>1. Bad \subseteq Nat
      OBVIOUS
    <3> HIDE DEF Bad
    <3> QED
      BY <3>1, LeastNumber
  <2> HIDE DEF Good
  <2>2. m \in Nat /\ ~ Good(m)
    BY <2>1
  <2>3. m # 0
    BY <1>1, <2>2
  <2>4. m - 1 \in Nat /\ ~ (m <= m - 1) /\ (m - 1) + 1 = m
    BY <2>2, <2>3
  <2>5. Good(m - 1)
    BY <2>1, <2>4
  <2>6. Good((m - 1) + 1)
    BY <1>2, <2>4, <2>5
  <2> QED
    BY <2>2, <2>4, <2>6
<1>4. HEAD \notin g[k] => IsFiniteSet(g[k])
  BY <1>3, <1>a, FS_Subset
<1> QED
  BY <1>3, <1>4

(* As many steps as there are timers lead through the whole list.          *)
LEMMA WalkVisits ==
    ASSUME NEW M, M \subseteq Timers, NEW nx \in [Nodes -> Nodes \cup {NULL}],
           NEW r \in [Timers -> Nat], NEW b \in Nat, InLine(nx, M, r, b)
    PROVE  Walk(nx) = M \cup {HEAD}
<1>1. PICK g : Reached(g, nx) /\ Walk(nx) = g[Cardinality(Timers)]
  BY WalkReaches
<1>2. IsFiniteSet(Timers) /\ Cardinality(Timers) \in Nat
  BY TimerAssumption, FS_CardinalityType DEF Timers
<1>3. /\ Walk(nx) \subseteq M \cup {HEAD} /\ Front(Walk(nx), M, r)
      /\ HEAD \notin Walk(nx) => /\ IsFiniteSet(Walk(nx))
                                 /\ Cardinality(Walk(nx)) > Cardinality(Timers)
  <2> DEFINE N == Cardinality(Timers)
  <2>1. N \in Nat /\ Walk(nx) = g[N]
    BY <1>1, <1>2
  <2> HIDE DEF N
  <2>2. /\ g[N] \subseteq M \cup {HEAD} /\ Front(g[N], M, r)
        /\ HEAD \notin g[N] => IsFiniteSet(g[N]) /\ Cardinality(g[N]) > N
    BY <1>1, <2>1, ReachesFront
  <2> QED
    BY <2>1, <2>2 DEF N
<1>4. HEAD \in Walk(nx)
  <2> SUFFICES ASSUME HEAD \notin Walk(nx) PROVE FALSE
    OBVIOUS
  <2>1. Walk(nx) \subseteq Timers
    BY <1>3
  <2>2. Cardinality(Walk(nx)) <= Cardinality(Timers) /\ Cardinality(Walk(nx)) \in Nat
    BY <1>2, <2>1, FS_Subset, FS_CardinalityType
  <2> QED
    BY <1>2, <1>3, <2>2
<1> QED
  BY <1>3, <1>4 DEF Front

-----------------------------------------------------------------------------
(* The invariant holds.                                                    *)
THEOREM TimerInvariant ==
    ASSUME Undisturbed
    PROVE  Spec => []TimerInv
<1>1. Init => TimerInv
  BY TimerInit
<1>2. TimerInv /\ [Next]_vars => TimerInv'
  BY TimerNext
<1> QED
  BY <1>1, <1>2, PTL DEF Spec

(* Pointers lead to nodes or are NULL.                                     *)
THEOREM TimerTypeCorrect ==
    ASSUME Undisturbed
    PROVE  Spec => []TypeOK
<1>1. TimerInv => TypeOK
  BY DEF TimerInv, Witnessed
<1> QED
  BY <1>1, TimerInvariant, PTL

(* Wherever between two stores of list_add the tick falls, the list it     *)
(* walks is the started timers, each once, and prev mirrors next whenever  *)
(* list_del may run.                                                       *)
THEOREM TimersStayListed ==
    ASSUME Undisturbed
    PROVE  Spec => []ListSound
<1>1. TimerInv => ListSound
  <2> SUFFICES ASSUME TimerInv PROVE ListSound
    OBVIOUS
  <2>0. PICK r \in [Timers -> Nat], b \in Nat : Witnessed(r, b)
    BY DEF TimerInv
  <2>1. Walk(next) = Started \cup {HEAD}
    BY <2>0, StartedFacts, WalkVisits DEF Witnessed, TypeOK
  <2>2. mpc = "idle" => Mirror(next, prev, isActive)
    BY <2>0, StartedFacts DEF Witnessed, AddInv
  <2> QED
    BY <2>1, <2>2 DEF ListSound, Mirror
<1> QED
  BY <1>1, TimerInvariant, PTL

(* timer_irq_handler frees the timer it stands on and never looks at a     *)
(* freed one, however callbacks reuse the memory.                          *)
THEOREM FreedTimersLeftAlone ==
    ASSUME Undisturbed
    PROVE  Spec => []NoUseAfterFree
<1>1. TimerInv => NoUseAfterFree
  <2> SUFFICES ASSUME TimerInv, hpc # "idle" PROVE {pos, n} \subseteq allocated \cup {HEAD}
    BY DEF NoUseAfterFree
  <2>0. PICK r \in [Timers -> Nat], b \in Nat : Witnessed(r, b)
    BY DEF TimerInv
  <2>1. pos \in Started \cup {HEAD} /\ n \in Started \cup {HEAD}
    BY <2>0, StartedFacts DEF Witnessed, WalkInv
  <2> QED
    BY <2>0, <2>1, StartedFacts DEF Witnessed, OwnerInv
<1> QED
  BY <1>1, TimerInvariant, PTL

(* The handler meets active timers only: the branch of its loop that skips *)
(* an inactive one is never taken.                                         *)
THEOREM ListedTimersActive ==
    ASSUME Undisturbed
    PROVE  Spec => [](hpc # "idle" /\ pos # HEAD => pos \in isActive)
<1>1. TimerInv => (hpc # "idle" /\ pos # HEAD => pos \in isActive)
  <2> SUFFICES ASSUME TimerInv, hpc # "idle", pos # HEAD PROVE pos \in isActive
    OBVIOUS
  <2>0. PICK r \in [Timers -> Nat], b \in Nat : Witnessed(r, b)
    BY DEF TimerInv
  <2> QED
    BY <2>0, StartedFacts DEF Witnessed, WalkInv
<1> QED
  BY <1>1, TimerInvariant, PTL

(* When the handler returns it has called exactly the timers that had been *)
(* started when the tick came.                                             *)
THEOREM DueTimersServed ==
    ASSUME Undisturbed
    PROVE  Spec => TickServesDue
<1>1. TimerInv /\ [Next]_vars => [hpc' = "idle" /\ hpc # "idle" => served = due]_vars
  <2> SUFFICES ASSUME TimerInv, Next, hpc' = "idle", hpc # "idle" PROVE served = due
    OBVIOUS
  <2>0. PICK r \in [Timers -> Nat], b \in Nat : Witnessed(r, b)
    BY DEF TimerInv
  <2>1. HandlerReturn
    BY DEF Next, MainStep, HandlerStep, Create, MainStart, StartTimer, ListAdd1, ListAdd2,
           ListAdd3, ListAdd4, TimerIrq, Callback, CallbackStart, KeepPeriodic, ExpireOneShot
  <2>2. pos = HEAD
    BY <2>1 DEF HandlerReturn
  <2>3. Remaining(r) = {}
    BY <2>2 DEF Remaining
  <2> QED
    BY <2>0, <2>3 DEF Witnessed, WalkInv
<1> QED
  BY <1>1, TimerInvariant, PTL DEF Spec, TickServesDue
=============================================================================
