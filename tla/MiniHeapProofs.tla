--------------------------- MODULE MiniHeapProofs ---------------------------
(***************************************************************************)
(* Proofs about the allocator, for every heap size below 2^32 bytes and    *)
(* every sequence of requests and frees.                                   *)
(***************************************************************************)
EXTENDS MiniHeap, FiniteSetTheorems, TLAPS

-----------------------------------------------------------------------------
(* A view of the heap apart from its memory: s gives the size of a block   *)
(* and k its link; k[NULL] is the head of the free list.                   *)

Sizes == [a \in Addr |-> mem[a].size]
Links == [a \in Addr \cup {NULL} |-> IF a = NULL THEN freeList ELSE mem[a].next]

(* The blocks B cover the heap without overlapping.                        *)
Tiles(B, s) ==
    /\ B \subseteq Addr
    /\ \A b \in B : s[b] \in Nat /\ s[b] >= 1 /\ b + s[b] <= Units + 1
    /\ \A u \in Addr : \E b \in B : b <= u /\ u < b + s[b]
    /\ \A a, b \in B : a < b => a + s[a] <= b

(* n is the first block of F above a.                                      *)
IsNext(F, a, n) ==
    \/ n = NULL /\ \A d \in F : d <= a
    \/ n \in F /\ n > a /\ \A d \in F : d > a => n <= d

(* The links go through F in address order.                                *)
Chain(F, k) == F \subseteq Addr /\ \A a \in F \cup {NULL} : IsNext(F, a, k[a])

(* No two blocks of F touch.                                               *)
Apart(F, s) == \A a, b \in F : a + s[a] # b

UnitsOf(F, s) == {u \in Addr : \E b \in F : b <= u /\ u < b + s[b]}

-----------------------------------------------------------------------------
(* Tilings.                                                                *)

LEMMA AddrInts == Addr \subseteq Nat \ {0} /\ Units \in Nat /\ NULL \notin Addr
BY MiniHeapAssumption DEF Addr, NULL

LEMMA TilesSame ==
    ASSUME NEW B, NEW s, NEW t, Tiles(B, s), \A b \in B : t[b] = s[b]
    PROVE  Tiles(B, t)
BY DEF Tiles

(* Two blocks that share a unit are the same.                              *)
LEMMA TilesDisjoint ==
    ASSUME NEW B, NEW s, Tiles(B, s), NEW a \in B, NEW b \in B, NEW u \in Nat,
           a <= u, u < a + s[a], b <= u, u < b + s[b]
    PROVE  a = b
<1>1. a \in Nat /\ b \in Nat /\ s[a] \in Nat /\ s[b] \in Nat
  BY AddrInts DEF Tiles
<1>2. ~ a < b
  BY <1>1 DEF Tiles
<1>3. ~ b < a
  BY <1>1 DEF Tiles
<1> QED
  BY <1>1, <1>2, <1>3

(* Splitting block c after n units.                                        *)
LEMMA TilesSplit ==
    ASSUME NEW B, NEW s, NEW t, Tiles(B, s), NEW c \in B, NEW n \in Nat,
           1 <= n, n < s[c],
           \A b \in B \ {c} : t[b] = s[b], t[c] = n, t[c + n] = s[c] - n
    PROVE  /\ Tiles(B \cup {c + n}, t)
           /\ c + n \in Addr /\ c + n \notin B
<1> DEFINE new == c + n
<1>1. /\ c \in Nat /\ s[c] \in Nat /\ c + s[c] <= Units + 1 /\ Units \in Nat
      /\ c >= 1
  BY AddrInts DEF Tiles, Addr
<1>2. new \in Addr /\ new \in Nat /\ new > c /\ new < c + s[c]
  BY <1>1 DEF Addr
<1>3. ASSUME NEW b \in B, b # c
      PROVE  /\ b \in Nat /\ s[b] \in Nat /\ t[b] = s[b] /\ b # new
             /\ b < c => b + s[b] <= c
             /\ c < b => c + s[c] <= b
  <2>1. b \in Nat /\ s[b] \in Nat /\ s[b] >= 1
    BY <1>3, AddrInts DEF Tiles
  <2>2. (b < c => b + s[b] <= c) /\ (c < b => c + s[c] <= b)
    BY <1>3 DEF Tiles
  <2> QED
    BY <1>1, <1>2, <1>3, <2>1, <2>2
<1>4. new \notin B
  BY <1>2, <1>3
<1>5. B \cup {new} \subseteq Addr
  BY <1>2 DEF Tiles
<1>6. ASSUME NEW b \in B \cup {new}
      PROVE  t[b] \in Nat /\ t[b] >= 1 /\ b + t[b] <= Units + 1
  <2>1. CASE b = new
    BY <1>1, <2>1
  <2>2. CASE b = c
    BY <1>1, <2>2
  <2>3. CASE b \in B \ {c}
    BY <2>3, <1>3 DEF Tiles
  <2> QED
    BY <2>1, <2>2, <2>3
<1>7. ASSUME NEW u \in Addr PROVE \E b \in B \cup {new} : b <= u /\ u < b + t[b]
  <2>1. PICK b \in B : b <= u /\ u < b + s[b]
    BY DEF Tiles
  <2>2. u \in Nat
    BY AddrInts
  <2>3. CASE b # c
    BY <1>3, <2>1, <2>3
  <2>4. CASE b = c /\ u < new
    BY <1>1, <2>1, <2>2, <2>4
  <2>5. CASE b = c /\ u >= new
    BY <1>1, <1>2, <2>1, <2>2, <2>5
  <2> QED
    BY <1>2, <2>2, <2>3, <2>4, <2>5
<1>8. ASSUME NEW a \in B \cup {new}, NEW b \in B \cup {new}, a < b PROVE a + t[a] <= b
  <2>1. CASE a = new
    BY <1>1, <1>2, <1>3, <1>8, <2>1
  <2>2. CASE a = c
    BY <1>1, <1>2, <1>3, <1>8, <2>2
  <2>3. CASE a \in B \ {c} /\ b = new
    BY <1>1, <1>2, <1>3, <1>8, <2>3
  <2>4. CASE a \in B \ {c} /\ b \in B
    BY <1>3, <1>8, <2>4 DEF Tiles
  <2> QED
    BY <2>1, <2>2, <2>3, <2>4
<1> QED
  BY <1>2, <1>4, <1>5, <1>6, <1>7, <1>8 DEF Tiles

(* Merging block b into the block a before it.                             *)
LEMMA TilesJoin ==
    ASSUME NEW B, NEW s, NEW t, Tiles(B, s), NEW a \in B, NEW b \in B,
           a + s[a] = b, \A c \in B \ {a, b} : t[c] = s[c], t[a] = s[a] + s[b]
    PROVE  Tiles(B \ {b}, t) /\ a < b /\ t[a] <= Units
<1>1. /\ a \in Nat /\ b \in Nat /\ s[a] \in Nat /\ s[b] \in Nat /\ s[a] >= 1 /\ s[b] >= 1
      /\ b + s[b] <= Units + 1 /\ Units \in Nat /\ a >= 1
  BY AddrInts DEF Tiles, Addr
<1>2. ASSUME NEW c \in B \ {a, b}
      PROVE  /\ c \in Nat /\ s[c] \in Nat /\ t[c] = s[c] /\ s[c] >= 1
             /\ c < a => c + s[c] <= a
             /\ a < c => b <= c
             /\ b < c => b + s[b] <= c
  BY AddrInts DEF Tiles
<1>3. ASSUME NEW c \in B \ {b}
      PROVE  t[c] \in Nat /\ t[c] >= 1 /\ c + t[c] <= Units + 1
  <2>1. CASE c = a
    BY <1>1, <2>1
  <2>2. CASE c # a
    BY <1>2, <2>2 DEF Tiles
  <2> QED
    BY <2>1, <2>2
<1>4. ASSUME NEW u \in Addr PROVE \E c \in B \ {b} : c <= u /\ u < c + t[c]
  <2>1. PICK c \in B : c <= u /\ u < c + s[c]
    BY DEF Tiles
  <2>2. u \in Nat
    BY AddrInts
  <2>3. CASE c \in {a, b}
    <3>1. a <= u /\ u < a + t[a]
      BY <1>1, <2>1, <2>2, <2>3
    <3> QED
      BY <1>1, <3>1
  <2>4. CASE c \notin {a, b}
    BY <1>2, <2>1, <2>4
  <2> QED
    BY <2>3, <2>4
<1>5. ASSUME NEW c \in B \ {b}, NEW d \in B \ {b}, c < d PROVE c + t[c] <= d
  <2>1. CASE c = a
    BY <1>1, <1>2, <1>5, <2>1
  <2>2. CASE c # a
    BY <1>2, <1>5, <2>2 DEF Tiles
  <2> QED
    BY <2>1, <2>2
<1>6. a < b /\ t[a] <= Units
  BY <1>1
<1>7. B \ {b} \subseteq Addr
  BY DEF Tiles
<1> QED
  BY <1>3, <1>4, <1>5, <1>6, <1>7 DEF Tiles

-----------------------------------------------------------------------------
(* The free list.                                                          *)

LEMMA ChainFacts ==
    ASSUME NEW F, NEW k, Chain(F, k), NEW p \in F \cup {NULL}
    PROVE  /\ p \in Nat /\ F \subseteq Nat /\ NULL \notin F
           /\ IsNext(F, p, k[p])
           /\ k[p] \in F \cup {NULL}
           /\ k[p] # NULL => k[p] \in F /\ k[p] > p
           /\ \A x \in F : x > p => k[p] # NULL /\ k[p] <= x
           /\ \A x \in F \cup {NULL} : k[x] = k[p] /\ k[p] # NULL => x = p
<1>1. p \in Nat /\ F \subseteq Nat \ {0} /\ NULL = 0
  BY AddrInts DEF Chain, NULL
<1>2. IsNext(F, p, k[p]) /\ \A x \in F \cup {NULL} : IsNext(F, x, k[x])
  BY DEF Chain
<1>3. /\ k[p] # NULL => k[p] \in F /\ k[p] > p
      /\ \A x \in F : x > p => k[p] # NULL /\ k[p] <= x
  BY <1>1, <1>2 DEF IsNext
<1>4. ASSUME NEW x \in F \cup {NULL}, k[x] = k[p], k[p] # NULL PROVE x = p
  <2>1. IsNext(F, x, k[p]) /\ IsNext(F, p, k[p]) /\ k[p] # NULL
    BY <1>2, <1>4
  <2>2. /\ k[p] \in F /\ k[p] > x /\ k[p] > p
        /\ \A d \in F : (d > x => k[p] <= d) /\ (d > p => k[p] <= d)
    BY <2>1 DEF IsNext
  <2>3. x \in Nat
    BY <1>1
  <2>4. k[p] \in Nat
    BY <1>1, <2>2
  <2>5. ~ x > p
    <3>1. x > p => x \in F
      BY <1>1, <2>3
    <3> QED
      BY <1>1, <2>2, <2>3, <2>4, <3>1
  <2>6. ~ p > x
    <3>1. p > x => p \in F
      BY <1>1, <2>3
    <3> QED
      BY <1>1, <2>2, <2>3, <2>4, <3>1
  <2> QED
    BY <1>1, <2>3, <2>5, <2>6
<1> QED
  BY <1>1, <1>2, <1>3, <1>4

(* Taking out c, the successor of p.                                       *)
LEMMA ChainRemove ==
    ASSUME NEW F, NEW k, NEW l, Chain(F, k), NEW p \in F \cup {NULL}, NEW c \in F,
           k[p] = c, l[p] = k[c], \A x \in (F \cup {NULL}) \ {c, p} : l[x] = k[x]
    PROVE  Chain(F \ {c}, l)
<1>1. F \subseteq Addr /\ F \subseteq Nat \ {0} /\ NULL = 0 /\ p \in Nat /\ c \in Nat
  BY AddrInts DEF Chain, NULL
<1>2. c > p /\ c # NULL /\ IsNext(F, c, k[c]) /\ IsNext(F, p, c)
  BY <1>1, ChainFacts DEF Chain
<1>3. IsNext(F \ {c}, p, k[c])
  <2>1. \A d \in F : d > p => c <= d
    BY <1>2 DEF IsNext
  <2>2. \A d \in F \ {c} : d > p => d > c
    BY <1>1, <2>1
  <2>3. CASE k[c] = NULL /\ \A d \in F : d <= c
    <3>1. \A d \in F \ {c} : d <= p
      BY <1>1, <2>2, <2>3
    <3> QED
      BY <2>3, <3>1 DEF IsNext
  <2>4. CASE k[c] \in F /\ k[c] > c /\ \A d \in F : d > c => k[c] <= d
    <3>1. k[c] \in Nat
      BY <1>1, <2>4
    <3>2. k[c] \in F \ {c} /\ k[c] > p
      BY <1>1, <1>2, <2>4, <3>1
    <3> QED
      BY <2>2, <2>4, <3>2 DEF IsNext
  <2> QED
    BY <1>2, <2>3, <2>4 DEF IsNext
<1>4. ASSUME NEW x \in ((F \ {c}) \cup {NULL}) \ {p} PROVE IsNext(F \ {c}, x, k[x])
  <2>1. k[x] # c /\ IsNext(F, x, k[x])
    BY <1>1, <1>2, ChainFacts DEF Chain
  <2> QED
    BY <2>1 DEF IsNext
<1> QED
  BY <1>1, <1>3, <1>4 DEF Chain

(* Putting in b behind p.                                                  *)
LEMMA ChainInsert ==
    ASSUME NEW F, NEW k, NEW l, Chain(F, k), NEW p \in F \cup {NULL}, NEW b \in Addr \ F,
           p < b, k[p] = NULL \/ k[p] > b,
           l[p] = b, l[b] = k[p], \A x \in (F \cup {NULL}) \ {p} : l[x] = k[x]
    PROVE  Chain(F \cup {b}, l)
<1>1. F \subseteq Addr /\ F \subseteq Nat \ {0} /\ NULL = 0 /\ p \in Nat /\ b \in Nat /\ b # 0
  BY AddrInts DEF Chain, NULL
<1>2. IsNext(F, p, k[p])
  BY DEF Chain
<1>3. ASSUME NEW x \in F PROVE x <= p \/ x > b
  <2>1. CASE k[p] = NULL /\ \A d \in F : d <= p
    BY <2>1
  <2>2. CASE k[p] \in F /\ k[p] > b /\ \A d \in F : d > p => k[p] <= d
    <3>1. x \in Nat /\ k[p] \in Nat /\ (x > p => k[p] <= x)
      BY <1>1, <2>2
    <3> QED
      BY <1>1, <2>2, <3>1
  <2> QED
    BY <1>1, <1>2, <2>1, <2>2 DEF IsNext
<1>4. IsNext(F \cup {b}, p, b)
  BY <1>1, <1>3 DEF IsNext
<1>5. IsNext(F \cup {b}, b, k[p])
  BY <1>1, <1>2, <1>3 DEF IsNext
<1>6. ASSUME NEW x \in (F \cup {NULL}) \ {p} PROVE IsNext(F \cup {b}, x, k[x])
  <2>1. IsNext(F, x, k[x]) /\ x \in Nat
    BY <1>1 DEF Chain
  <2>2. CASE x > b
    BY <1>1, <2>1, <2>2 DEF IsNext
  <2>3. CASE x < p
    <3>1. p \in F
      BY <1>1, <2>1, <2>3
    <3>2. k[x] \in F /\ k[x] > x /\ k[x] <= p /\ \A d \in F : d > x => k[x] <= d
      BY <1>1, <2>1, <2>3, <3>1 DEF IsNext
    <3>3. k[x] \in Nat
      BY <1>1, <3>2
    <3>4. k[x] <= b
      BY <1>1, <3>2, <3>3
    <3> QED
      BY <3>2, <3>4 DEF IsNext
  <2> QED
    BY <1>1, <1>3, <2>1, <2>2, <2>3
<1>7. ASSUME NEW x \in F \cup {b} \cup {NULL} PROVE IsNext(F \cup {b}, x, l[x])
  BY <1>1, <1>4, <1>5, <1>6
<1> QED
  BY <1>1, <1>7 DEF Chain

-----------------------------------------------------------------------------
(* Counting units.                                                         *)

LEMMA UnitsFinite ==
    ASSUME NEW S, S \subseteq Addr
    PROVE  IsFiniteSet(S) /\ Cardinality(S) \in 0 .. Units
<1>1. IsFiniteSet(Addr) /\ Cardinality(Addr) = Units
  BY FS_Interval, MiniHeapAssumption DEF Addr
<1>2. IsFiniteSet(S) /\ Cardinality(S) <= Cardinality(Addr)
  BY <1>1, FS_Subset
<1>3. Cardinality(S) \in Nat
  BY <1>2, FS_CardinalityType
<1> QED
  BY <1>1, <1>2, <1>3, MiniHeapAssumption

(* Adding or taking away n units that start at a.                          *)
LEMMA UnitsAdded ==
    ASSUME NEW S, S \subseteq Addr, NEW a \in Addr, NEW n \in Nat, n >= 1,
           NEW T, T \subseteq Addr, \A u \in Nat : a <= u /\ u < a + n => u \notin S,
           \A u \in Nat : u \in T <=> u \in S \/ (a <= u /\ u < a + n)
    PROVE  Cardinality(T) = Cardinality(S) + n
<1> DEFINE I == a .. (a + n - 1)
<1>1. a \in Nat /\ S \subseteq Nat /\ T \subseteq Nat
  BY AddrInts
<1>2. IsFiniteSet(I) /\ Cardinality(I) = n
  BY <1>1, FS_Interval
<1>3. \A u \in Nat : u \in I <=> a <= u /\ u < a + n
  BY <1>1
<1>4. I \subseteq Nat
  BY <1>1
<1>5. T = S \cup I /\ S \cap I = {}
  BY <1>1, <1>3, <1>4
<1>6. IsFiniteSet(S) /\ Cardinality(S) \in Nat
  BY UnitsFinite
<1>7. Cardinality(S \cup I) = Cardinality(S) + Cardinality(I) - Cardinality(S \cap I)
  BY <1>2, <1>6, FS_Union
<1>8. Cardinality(S \cap I) = 0
  BY <1>5, FS_EmptySet
<1> QED
  BY <1>2, <1>5, <1>6, <1>7, <1>8

(* Free blocks F and live blocks L become G and M when block b is freed:   *)
(* the other live blocks stay, the free ones may be split or merged.       *)
Freed(F, L, s, G, M, t, b) ==
    /\ Tiles(F \cup L, s) /\ L \cap F = {}
    /\ Tiles(G \cup M, t) /\ M \cap G = {}
    /\ b \notin M /\ L = M \cup {b}
    /\ \A x \in M : t[x] = s[x]

(* The free units are the ones no live block covers, so those of b join    *)
(* them.                                                                   *)
LEMMA UnitsMoved ==
    ASSUME NEW F, NEW L, NEW s, NEW G, NEW M, NEW t, NEW b,
           Freed(F, L, s, G, M, t, b)
    PROVE  /\ Cardinality(UnitsOf(G, t)) = Cardinality(UnitsOf(F, s)) + s[b]
           /\ Cardinality(UnitsOf(F, s)) \in 0 .. Units
           /\ Cardinality(UnitsOf(G, t)) \in 0 .. Units
<1> USE DEF Freed
<1> DEFINE Covers(x, u, r) == x <= u /\ u < x + r[x]
<1>1. ASSUME NEW u \in Addr
      PROVE  /\ u \in UnitsOf(F, s) <=> ~ \E x \in L : Covers(x, u, s)
             /\ u \in UnitsOf(G, t) <=> ~ \E x \in M : Covers(x, u, t)
  <2>1. u \in Nat
    BY AddrInts
  <2>2. \E x \in F \cup L : Covers(x, u, s)
    BY DEF Tiles
  <2>3. \E x \in G \cup M : Covers(x, u, t)
    BY DEF Tiles
  <2>4. \A x, y \in F \cup L : Covers(x, u, s) /\ Covers(y, u, s) => x = y
    BY <2>1, TilesDisjoint
  <2>5. \A x, y \in G \cup M : Covers(x, u, t) /\ Covers(y, u, t) => x = y
    BY <2>1, TilesDisjoint
  <2>6. u \in UnitsOf(F, s) <=> \E x \in F : Covers(x, u, s)
    BY DEF UnitsOf
  <2>7. u \in UnitsOf(G, t) <=> \E x \in G : Covers(x, u, t)
    BY DEF UnitsOf
  <2> HIDE DEF Covers
  <2> QED
    BY <2>2, <2>3, <2>4, <2>5, <2>6, <2>7
<1>2. \A x \in M, u \in Addr : Covers(x, u, s) <=> Covers(x, u, t)
  OBVIOUS
<1>3. b \in Addr /\ b \in Nat /\ s[b] \in Nat /\ s[b] >= 1 /\ b + s[b] <= Units + 1 /\ b >= 1
  <2>1. b \in F \cup L
    OBVIOUS
  <2>2. b \in Addr /\ s[b] \in Nat /\ s[b] >= 1 /\ b + s[b] <= Units + 1
    BY <2>1 DEF Tiles
  <2> QED
    BY <2>2, AddrInts
<1>4. UnitsOf(F, s) \subseteq Addr /\ UnitsOf(G, t) \subseteq Addr
  BY DEF UnitsOf
<1>5. ASSUME NEW u \in Nat, b <= u, u < b + s[b] PROVE u \in Addr
  BY <1>3, <1>5, AddrInts DEF Addr
<1>6. \A u \in Nat : b <= u /\ u < b + s[b] => u \notin UnitsOf(F, s)
  BY <1>1, <1>5
<1>7. ASSUME NEW u \in Nat
      PROVE  u \in UnitsOf(G, t) <=> u \in UnitsOf(F, s) \/ (b <= u /\ u < b + s[b])
  <2>1. CASE u \notin Addr
    BY <1>4, <1>5, <2>1
  <2>2. CASE u \in Addr
    <3>1. ~ (b <= u /\ u < b + s[b] /\ \E x \in M : Covers(x, u, s))
      <4>1. SUFFICES ASSUME b <= u, u < b + s[b], NEW x \in M, Covers(x, u, s) PROVE FALSE
        OBVIOUS
      <4>2. x = b
        BY <4>1, TilesDisjoint
      <4> QED
        BY <4>2
    <3>2. (\E x \in L : Covers(x, u, s)) <=> (b <= u /\ u < b + s[b]) \/ \E x \in M : Covers(x, u, s)
      OBVIOUS
    <3>3. (\E x \in M : Covers(x, u, t)) <=> \E x \in M : Covers(x, u, s)
      BY <1>2, <2>2
    <3> HIDE DEF Covers
    <3> QED
      BY <1>1, <2>2, <3>1, <3>2, <3>3
  <2> QED
    BY <2>1, <2>2
<1>8. Cardinality(UnitsOf(G, t)) = Cardinality(UnitsOf(F, s)) + s[b]
  BY <1>3, <1>4, <1>6, <1>7, UnitsAdded
<1> QED
  BY <1>4, <1>8, UnitsFinite

-----------------------------------------------------------------------------
(* The inductive invariant.                                                *)

Marked == \A a \in Addr : mem[a].magic = "USED" <=> live[a] # 0
Room   == \A a \in Live : live[a] < mem[a].size
Accounted == freeBytes = Cardinality(UnitsOf(frees, Sizes))

(* The loops keep prev and cur next to each other on the free list; free   *)
(* is still short of the block's place.                                    *)
CallInv ==
    /\ pc = "alloc" => /\ prev \in frees \cup {NULL}
                       /\ cur = Links[prev]
                       /\ req >= 1 /\ total = req + 1
    /\ pc = "fill" => cur \in Live /\ live[cur] = req
    /\ pc = "free" => /\ block \in Live
                      /\ prev \in frees \cup {NULL}
                      /\ prev < block
                      /\ cur = Links[prev]

HeapInv ==
    /\ TypeOK
    /\ Tiles(Blocks, Sizes)
    /\ Live \cap frees = {}
    /\ Chain(frees, Links)
    /\ Apart(frees, Sizes)
    /\ Marked
    /\ Room
    /\ Accounted
    /\ DataIntact
    /\ CallInv

-----------------------------------------------------------------------------
(* What the assignments to headers do, field by field.                     *)

LEMMA WrapSmall == \A n \in 0 .. Units : Wrap(n) = n /\ n \in Size
BY MiniHeapAssumption DEF Wrap, Size

LEMMA LinkFields ==
    ASSUME NEW m \in [Addr -> Headers], NEW p \in Addr \cup {NULL}, NEW n \in Addr \cup {NULL}
    PROVE  /\ LinkFrom(p, n, m) \in [Addr -> Headers]
           /\ \A u \in Addr :
                 /\ LinkFrom(p, n, m)[u].magic = m[u].magic
                 /\ LinkFrom(p, n, m)[u].size = m[u].size
                 /\ LinkFrom(p, n, m)[u].next = IF u = p THEN n ELSE m[u].next
                 /\ u # p => LinkFrom(p, n, m)[u] = m[u]
BY AddrInts DEF LinkFrom, Headers, NULL

Used(m, c, t) == [m EXCEPT ![c].magic = "USED", ![c].size = t]

LEMMA UsedFields ==
    ASSUME NEW m \in [Addr -> Headers], NEW c \in Addr, NEW t \in Size
    PROVE  /\ Used(m, c, t) \in [Addr -> Headers]
           /\ \A u \in Addr :
                 /\ Used(m, c, t)[u].magic = IF u = c THEN "USED" ELSE m[u].magic
                 /\ Used(m, c, t)[u].size = IF u = c THEN t ELSE m[u].size
                 /\ Used(m, c, t)[u].next = m[u].next
                 /\ u # c => Used(m, c, t)[u] = m[u]
BY DEF Used, Headers

LEMMA SwallowFields ==
    ASSUME NEW m \in [Addr -> Headers], NEW b \in Addr, cur \in Addr, b # cur,
           m[b].size + m[cur].size \in 0 .. Units
    PROVE  /\ Swallow(m, b) \in [Addr -> Headers]
           /\ \A u \in Addr :
                 /\ Swallow(m, b)[u].magic = m[u].magic
                 /\ Swallow(m, b)[u].size = IF u = b THEN m[b].size + m[cur].size ELSE m[u].size
                 /\ Swallow(m, b)[u].next = IF u = b THEN m[cur].next ELSE m[u].next
                 /\ u # b => Swallow(m, b)[u] = m[u]
<1>1. Wrap(m[b].size + m[cur].size) = m[b].size + m[cur].size /\ m[b].size + m[cur].size \in Size
  BY WrapSmall
<1> QED
  BY <1>1 DEF Swallow, Headers

-----------------------------------------------------------------------------
(* Facts about a state of the invariant.                                   *)

LEMMA ViewFacts ==
    ASSUME TypeOK
    PROVE  /\ \A a \in Addr : Sizes[a] = mem[a].size /\ Links[a] = mem[a].next
           /\ Links[NULL] = freeList
           /\ \A a \in Addr : mem[a].size \in Nat /\ a \in Nat
BY AddrInts, MiniHeapAssumption DEF Sizes, Links, TypeOK, Headers, Size, NULL

LEMMA ViewFactsNext ==
    /\ \A a \in Addr : Sizes'[a] = mem'[a].size /\ Links'[a] = mem'[a].next
    /\ Links'[NULL] = freeList'
BY AddrInts DEF Sizes, Links, NULL

(* What a caller wrote is inside its own block.                            *)
LEMMA Interior ==
    ASSUME HeapInv, NEW a \in Live, NEW u \in (a + 1) .. (a + live[a])
    PROVE  /\ u \in Addr /\ u \notin Blocks
           /\ \A b \in Blocks : b <= u /\ u < b + mem[b].size => b = a
<1>1. /\ a \in Addr /\ a \in Nat /\ a \in Blocks /\ live[a] \in Nat /\ mem[a].size \in Nat
      /\ live[a] < mem[a].size /\ Sizes[a] = mem[a].size
  BY ViewFacts DEF HeapInv, Live, Room, Blocks, TypeOK
<1>2. a + mem[a].size <= Units + 1 /\ Units \in Nat /\ a >= 1
  BY <1>1, AddrInts DEF HeapInv, Tiles
<1>3. u \in Nat /\ u > a /\ u < a + mem[a].size /\ u \in Addr
  BY <1>1, <1>2 DEF Addr
<1>4. ASSUME NEW b \in Blocks, b <= u, u < b + mem[b].size PROVE b = a
  <2>1. b \in Addr /\ Sizes[b] = mem[b].size
    BY ViewFacts DEF HeapInv, Tiles
  <2> QED
    BY <1>1, <1>3, <1>4, <2>1, TilesDisjoint DEF HeapInv
<1>5. u \notin Blocks
  <2>1. SUFFICES ASSUME u \in Blocks PROVE FALSE
    OBVIOUS
  <2>2. mem[u].size >= 1 /\ mem[u].size \in Nat
    BY <1>3, <2>1, ViewFacts DEF HeapInv, Tiles
  <2>3. u = a
    BY <1>3, <1>4, <2>1, <2>2
  <2> QED
    BY <1>1, <1>3, <2>3
<1> QED
  BY <1>3, <1>4, <1>5

(* The block malloc is looking at.                                         *)
LEMMA AllocAt ==
    ASSUME HeapInv, pc = "alloc", cur # NULL
    PROVE  /\ cur \in frees /\ cur \in Addr /\ cur \in Nat /\ cur \notin Live
           /\ prev \in frees \cup {NULL} /\ prev \in Addr \cup {NULL} /\ prev # cur
           /\ Links[prev] = cur
           /\ mem[cur].next \in Addr \cup {NULL}
           /\ mem[cur].size \in Nat /\ mem[cur].size >= 1
           /\ req \in Nat /\ req >= 1 /\ total = req + 1 /\ total \in Size /\ total \in Nat
           /\ live[cur] = 0
<1>1. cur = Links[prev] /\ prev \in frees \cup {NULL}
  BY DEF HeapInv, CallInv
<1>2. cur \in frees /\ cur > prev /\ prev \in Nat /\ frees \subseteq Nat
  BY <1>1, ChainFacts DEF HeapInv
<1>3. cur \in Addr /\ cur \in Nat /\ prev # cur
  BY <1>2 DEF HeapInv, TypeOK
<1>4. cur \notin Live /\ live[cur] = 0
  BY <1>2, <1>3 DEF HeapInv, Live
<1>5. mem[cur].next \in Addr \cup {NULL} /\ mem[cur].size \in Nat
  BY <1>3, ViewFacts DEF HeapInv, TypeOK, Headers
<1>6. mem[cur].size >= 1
  BY <1>2, <1>3, ViewFacts DEF HeapInv, Tiles, Blocks
<1>7. req \in Nat /\ req >= 1 /\ total = req + 1 /\ total \in Size
  BY DEF HeapInv, CallInv, TypeOK
<1>8. total \in Nat
  BY <1>7
<1> QED
  BY <1>1, <1>2, <1>3, <1>4, <1>5, <1>6, <1>7, <1>8 DEF HeapInv, TypeOK

(* The place free has found for the block.                                 *)
LEMMA FreeAt ==
    ASSUME HeapInv, pc = "free", ~ Before
    PROVE  /\ block \in Live /\ block \in Addr /\ block \in Nat /\ block \notin frees
           /\ block \in Blocks
           /\ prev \in frees \cup {NULL} /\ prev \in Addr \cup {NULL} /\ prev \in Nat
           /\ prev < block
           /\ Links[prev] = cur /\ cur \in Addr \cup {NULL}
           /\ mem[block].size \in Nat /\ mem[block].size >= 1 /\ live[block] # 0
           /\ block + mem[block].size <= Units + 1
           /\ cur # NULL => /\ cur \in frees /\ cur \in Addr /\ cur \in Nat /\ cur > block
                            /\ Rear <= cur
           /\ \A a \in frees : a <= prev \/ (cur # NULL /\ cur <= a)
<1>1. cur = Links[prev] /\ prev \in frees \cup {NULL} /\ prev < block /\ block \in Live
  BY DEF HeapInv, CallInv
<1>2. block \in Addr /\ block \in Nat /\ block \notin frees /\ block \in Blocks /\ live[block] # 0
  BY <1>1, AddrInts DEF HeapInv, Live, Blocks
<1>3. /\ mem[block].size \in Nat /\ mem[block].size >= 1
      /\ block + mem[block].size <= Units + 1
  BY <1>2, ViewFacts DEF HeapInv, Tiles
<1>4. /\ prev \in Nat /\ frees \subseteq Nat
      /\ cur # NULL => cur \in frees
      /\ \A x \in frees : x > prev => cur # NULL /\ cur <= x
  BY <1>1, ChainFacts DEF HeapInv
<1>5. ASSUME cur # NULL PROVE cur \in Addr /\ cur \in Nat /\ cur > block /\ Rear <= cur
  <2>1. cur \in frees /\ cur \in Nat /\ cur \in Addr /\ cur \in Blocks
    BY <1>4, <1>5 DEF HeapInv, TypeOK, Blocks
  <2>2. cur > block
    BY <1>2, <1>3, <1>5, <2>1 DEF Before, Rear
  <2>3. Rear <= cur
    BY <1>2, <2>1, <2>2, ViewFacts DEF HeapInv, Tiles, Rear
  <2> QED
    BY <2>1, <2>2, <2>3
<1>6. \A a \in frees : a <= prev \/ (cur # NULL /\ cur <= a)
  BY <1>4
<1> QED
  BY <1>1, <1>2, <1>3, <1>4, <1>5, <1>6 DEF HeapInv, TypeOK

-----------------------------------------------------------------------------
(* malloc.                                                                 *)

(* The caller's data survives when only free memory, headers and the       *)
(* block handed out are written.                                           *)
LEMMA AllocKeepsData ==
    ASSUME HeapInv, pc = "alloc", cur # NULL,
           cur' = cur, pc' = "fill", live' = [live EXCEPT ![cur] = req],
           NEW new \in Addr, cur <= new, new < cur + mem[cur].size,
           \A u \in Addr \ {cur, prev, new} : mem'[u] = mem[u]
    PROVE  DataIntact'
<1> SUFFICES ASSUME NEW a \in Live', a # cur, NEW u \in (a + 1) .. (a + live'[a])
             PROVE  mem'[u] = Data(a)
  BY DEF DataIntact
<1>1. cur \in Addr /\ cur \in frees /\ cur \notin Live /\ prev \in frees \cup {NULL}
  BY AllocAt
<1>2. a \in Live /\ live'[a] = live[a]
  BY <1>1 DEF Live, HeapInv, TypeOK
<1>3. /\ u \in Addr /\ u \notin Blocks
      /\ \A b \in Blocks : b <= u /\ u < b + mem[b].size => b = a
  BY <1>2, Interior
<1>4. u # cur /\ u # prev /\ u # new
  BY <1>1, <1>3, AddrInts DEF Blocks
<1>5. mem[u] = Data(a)
  BY <1>2 DEF HeapInv, DataIntact
<1> QED
  BY <1>3, <1>4, <1>5

LEMMA AllocExactStep ==
    ASSUME HeapInv, AllocExact
    PROVE  HeapInv'
<1> DEFINE nxt == mem[cur].next
           m   == LinkFrom(prev, nxt, mem)
<1>1. pc = "alloc" /\ cur # NULL /\ mem[cur].size = total /\ mem' = Used(m, cur, total)
  BY DEF AllocExact, AllocDone, Used
<1>2. /\ cur \in frees /\ cur \in Addr /\ cur \in Nat /\ cur \notin Live
      /\ prev \in frees \cup {NULL} /\ prev \in Addr \cup {NULL} /\ prev # cur
      /\ Links[prev] = cur /\ nxt \in Addr \cup {NULL}
      /\ req \in Nat /\ req >= 1 /\ total = req + 1 /\ total \in Size /\ total \in Nat
  BY <1>1, AllocAt
<1>3. TypeOK /\ mem \in [Addr -> Headers] /\ frees \subseteq Addr /\ live \in [Addr -> Nat]
  BY DEF HeapInv, TypeOK
<1>4. /\ mem' \in [Addr -> Headers]
      /\ \A u \in Addr :
            /\ mem'[u].magic = IF u = cur THEN "USED" ELSE mem[u].magic
            /\ mem'[u].size = mem[u].size
            /\ mem'[u].next = IF u = prev THEN nxt ELSE mem[u].next
            /\ u # prev /\ u # cur => mem'[u] = mem[u]
  <2>1. /\ m \in [Addr -> Headers]
        /\ \A u \in Addr :
              /\ m[u].magic = mem[u].magic
              /\ m[u].size = mem[u].size
              /\ m[u].next = IF u = prev THEN nxt ELSE mem[u].next
              /\ u # prev => m[u] = mem[u]
    <3> HIDE DEF nxt
    <3> QED
      BY <1>2, <1>3, LinkFields
  <2> HIDE DEF m
  <2> QED
    BY <1>1, <1>2, <2>1, UsedFields
<1>5. /\ pc' = "fill" /\ live' = [live EXCEPT ![cur] = req] /\ frees' = frees \ {cur}
      /\ stale' = stale \ {cur} /\ freeBytes' = freeBytes - total
      /\ freeList' = IF prev # NULL THEN freeList ELSE nxt
      /\ prev' = prev /\ cur' = cur /\ block' = block /\ total' = total /\ req' = req
  BY DEF AllocExact, AllocDone, regs, HeadAfter
<1>6. Live' = Live \cup {cur} /\ Blocks' = Blocks
  BY <1>2, <1>3, <1>5 DEF Live, Blocks
<1>7. Tiles(Blocks', Sizes')
  <2>1. \A b \in Blocks : Sizes'[b] = Sizes[b]
    BY <1>3, <1>4, ViewFacts, ViewFactsNext DEF HeapInv, Tiles
  <2> QED
    BY <1>6, <2>1, TilesSame DEF HeapInv
<1>8. freeBytes' = Cardinality(UnitsOf(frees', Sizes')) /\ freeBytes' \in 0 .. Units
  <2>1. Tiles(frees' \cup Live', Sizes') /\ Tiles(frees \cup Live, Sizes)
    BY <1>7 DEF HeapInv, Blocks
  <2>2. Live' \cap frees' = {} /\ Live \cap frees = {} /\ cur \notin Live
    BY <1>2, <1>5, <1>6 DEF HeapInv
  <2>3. Sizes'[cur] = total /\ \A x \in Live : Sizes[x] = Sizes'[x]
    BY <1>1, <1>2, <1>3, <1>4, ViewFacts, ViewFactsNext DEF Live
  <2>4. Live' = Live \cup {cur}
    BY <1>6
  <2>5. /\ Cardinality(UnitsOf(frees, Sizes)) = Cardinality(UnitsOf(frees', Sizes')) + Sizes'[cur]
        /\ Cardinality(UnitsOf(frees', Sizes')) \in 0 .. Units
    <3>1. Freed(frees', Live', Sizes', frees, Live, Sizes, cur)
      BY <2>1, <2>2, <2>3, <2>4 DEF Freed
    <3> QED
      BY <3>1, UnitsMoved
  <2> QED
    BY <1>2, <1>5, <2>3, <2>5 DEF HeapInv, Accounted
<1>9. TypeOK'
  <2>1. live' \in [Addr -> Nat]
    BY <1>2, <1>3, <1>5
  <2>2. freeList' \in Addr \cup {NULL} /\ stale' \subseteq Addr /\ frees' \subseteq Addr
    BY <1>2, <1>5 DEF HeapInv, TypeOK
  <2> QED
    BY <1>3, <1>4, <1>5, <1>8, <2>1, <2>2 DEF TypeOK
<1>10. Chain(frees', Links')
  <2>1. Links'[prev] = Links[cur]
    BY <1>2, <1>3, <1>4, <1>5, ViewFacts, ViewFactsNext, AddrInts
  <2>2. \A x \in (frees \cup {NULL}) \ {cur, prev} : Links'[x] = Links[x]
    BY <1>2, <1>3, <1>4, <1>5, ViewFacts, ViewFactsNext, AddrInts
  <2>3. Chain(frees, Links)
    BY DEF HeapInv
  <2>4. prev \in frees \cup {NULL} /\ cur \in frees /\ Links[prev] = cur
    BY <1>2
  <2>5. Chain(frees \ {cur}, Links')
    BY <2>1, <2>2, <2>3, <2>4, ChainRemove
  <2> QED
    BY <1>5, <2>5
<1>11. Apart(frees', Sizes')
  BY <1>3, <1>4, <1>5, ViewFacts, ViewFactsNext DEF HeapInv, Apart
<1>12. Marked'
  BY <1>2, <1>3, <1>4, <1>5 DEF HeapInv, Marked
<1>13. Room'
  <2> SUFFICES ASSUME NEW a \in Live' PROVE live'[a] < mem'[a].size
    BY DEF Room
  <2>1. CASE a = cur
    BY <1>1, <1>2, <1>3, <1>4, <1>5, <2>1
  <2>2. CASE a # cur
    BY <1>2, <1>3, <1>4, <1>5, <1>6, <2>2 DEF HeapInv, Room, Live
  <2> QED
    BY <2>1, <2>2
<1>14. DataIntact'
  <2>1. cur <= cur /\ cur < cur + mem[cur].size
    BY <1>1, <1>2
  <2> QED
    BY <1>1, <1>2, <1>4, <1>5, <2>1, AllocKeepsData
<1>15. CallInv'
  BY <1>2, <1>3, <1>5, <1>6 DEF CallInv
<1>16. (Live \cap frees = {})'
  BY <1>2, <1>5, <1>6 DEF HeapInv
<1> QED
  BY <1>7, <1>8, <1>9, <1>10, <1>11, <1>12, <1>13, <1>14, <1>15, <1>16 DEF HeapInv, Accounted

LEMMA AllocSplitStep ==
    ASSUME HeapInv, AllocSplit
    PROVE  HeapInv'
<1> DEFINE new  == cur + total
           nxt  == mem[cur].next
           rest == mem[cur].size - total
           m1   == [mem EXCEPT ![new] = Header("FREE", rest, nxt)]
           m2   == LinkFrom(prev, new, m1)
<1>1. pc = "alloc" /\ cur # NULL /\ mem[cur].size > total /\ mem' = Used(m2, cur, total)
  BY DEF AllocSplit, AllocDone, Used
<1>2. /\ cur \in frees /\ cur \in Addr /\ cur \in Nat /\ cur \notin Live
      /\ prev \in frees \cup {NULL} /\ prev \in Addr \cup {NULL} /\ prev # cur
      /\ Links[prev] = cur /\ nxt \in Addr \cup {NULL}
      /\ req \in Nat /\ req >= 1 /\ total = req + 1 /\ total \in Size /\ total \in Nat
      /\ mem[cur].size \in Nat /\ live[cur] = 0
  BY <1>1, AllocAt
<1>3. TypeOK /\ mem \in [Addr -> Headers] /\ frees \subseteq Addr /\ live \in [Addr -> Nat]
  BY DEF HeapInv, TypeOK
<1>4. /\ new \in Addr /\ new \in Nat /\ new \notin Blocks /\ rest \in Size /\ rest \in Nat
      /\ rest >= 1 /\ new # cur /\ new # prev /\ new > cur /\ new + rest = cur + mem[cur].size
      /\ cur + mem[cur].size <= Units + 1 /\ Units \in Nat /\ cur >= 1
  <2>1. cur \in Blocks /\ Sizes[cur] = mem[cur].size
    BY <1>2, <1>3, ViewFacts DEF Blocks
  <2>2. cur + mem[cur].size <= Units + 1 /\ Units \in Nat /\ cur >= 1
    BY <1>2, <2>1, AddrInts DEF HeapInv, Tiles
  <2>3. rest \in Nat /\ rest >= 1 /\ rest \in Size
    <3>1. mem[cur].size \in 0 .. (WordUnits - 1)
      BY <1>2, <1>3 DEF Headers, Size
    <3> QED
      BY <1>1, <1>2, <3>1, MiniHeapAssumption DEF Size
  <2>4. new \in Addr /\ new \in Nat /\ new > cur /\ new # cur
    BY <1>1, <1>2, <2>2 DEF Addr
  <2>5. new \notin Blocks
    <3>1. SUFFICES ASSUME new \in Blocks PROVE FALSE
      OBVIOUS
    <3>2. cur + Sizes[cur] <= new
      BY <2>1, <2>4, <3>1 DEF HeapInv, Tiles
    <3> QED
      BY <1>1, <1>2, <2>1, <3>2
  <2>6. new # prev
    BY <1>2, <2>4, <2>5, AddrInts DEF Blocks
  <2>7. new + rest = cur + mem[cur].size
    BY <1>2
  <2> QED
    BY <2>2, <2>3, <2>4, <2>5, <2>6, <2>7
<1>5. /\ pc' = "fill" /\ live' = [live EXCEPT ![cur] = req]
      /\ frees' = (frees \ {cur}) \cup {new}
      /\ stale' = stale \ {cur} /\ freeBytes' = freeBytes - total
      /\ freeList' = IF prev # NULL THEN freeList ELSE new
      /\ prev' = prev /\ cur' = cur /\ block' = block /\ total' = total /\ req' = req
  BY DEF AllocSplit, AllocDone, regs, HeadAfter
<1>6. /\ mem' \in [Addr -> Headers]
      /\ \A u \in Addr :
            /\ mem'[u].magic = IF u = cur THEN "USED" ELSE IF u = new THEN "FREE" ELSE mem[u].magic
            /\ mem'[u].size = IF u = cur THEN total ELSE IF u = new THEN rest ELSE mem[u].size
            /\ mem'[u].next = IF u = prev THEN new ELSE IF u = new THEN nxt ELSE mem[u].next
            /\ u # prev /\ u # cur /\ u # new => mem'[u] = mem[u]
  <2> HIDE DEF new, nxt, rest
  <2>1. /\ m1 \in [Addr -> Headers]
        /\ \A u \in Addr :
              /\ m1[u].magic = IF u = new THEN "FREE" ELSE mem[u].magic
              /\ m1[u].size = IF u = new THEN rest ELSE mem[u].size
              /\ m1[u].next = IF u = new THEN nxt ELSE mem[u].next
              /\ u # new => m1[u] = mem[u]
    BY <1>2, <1>3, <1>4 DEF Header, Headers
  <2> HIDE DEF m1
  <2>2. /\ m2 \in [Addr -> Headers]
        /\ \A u \in Addr :
              /\ m2[u].magic = m1[u].magic
              /\ m2[u].size = m1[u].size
              /\ m2[u].next = IF u = prev THEN new ELSE m1[u].next
              /\ u # prev => m2[u] = m1[u]
    BY <1>2, <1>4, <2>1, LinkFields
  <2> HIDE DEF m2
  <2>3. /\ mem' \in [Addr -> Headers]
        /\ \A u \in Addr :
              /\ mem'[u].magic = IF u = cur THEN "USED" ELSE m2[u].magic
              /\ mem'[u].size = IF u = cur THEN total ELSE m2[u].size
              /\ mem'[u].next = m2[u].next
              /\ u # cur => mem'[u] = m2[u]
    BY <1>1, <1>2, <2>2, UsedFields
  <2> QED
    BY <1>4, <2>1, <2>2, <2>3
<1> HIDE DEF m1, m2
<1>7. Live' = Live \cup {cur} /\ Blocks' = Blocks \cup {new}
  BY <1>2, <1>3, <1>5 DEF Live, Blocks
<1>8. Tiles(Blocks', Sizes')
  <2>1. cur \in Blocks /\ Blocks \subseteq Addr /\ Tiles(Blocks, Sizes)
    BY <1>2 DEF HeapInv, Blocks, Tiles
  <2>2. \A b \in Blocks \ {cur} : Sizes'[b] = Sizes[b]
    BY <1>3, <1>4, <1>6, <2>1, ViewFacts, ViewFactsNext
  <2>3. Sizes'[cur] = total /\ Sizes[cur] = mem[cur].size /\ Sizes'[cur + total] = Sizes[cur] - total
    BY <1>2, <1>3, <1>4, <1>6, ViewFacts, ViewFactsNext
  <2>4. 1 <= total /\ total < Sizes[cur]
    BY <1>1, <1>2, <2>3
  <2>5. Tiles(Blocks \cup {cur + total}, Sizes')
    BY <1>2, <2>1, <2>2, <2>3, <2>4, TilesSplit
  <2> QED
    BY <1>7, <2>5
<1>9. freeBytes' = Cardinality(UnitsOf(frees', Sizes')) /\ freeBytes' \in 0 .. Units
  <2>1. Tiles(frees' \cup Live', Sizes') /\ Tiles(frees \cup Live, Sizes)
    BY <1>8 DEF HeapInv, Blocks
  <2>2. Live' \cap frees' = {} /\ Live \cap frees = {} /\ cur \notin Live
    BY <1>2, <1>4, <1>5, <1>7 DEF HeapInv, Blocks
  <2>3. Sizes'[cur] = total /\ \A x \in Live : Sizes[x] = Sizes'[x]
    BY <1>2, <1>3, <1>4, <1>6, ViewFacts, ViewFactsNext DEF Live, Blocks
  <2>4. Live' = Live \cup {cur}
    BY <1>7
  <2>5. /\ Cardinality(UnitsOf(frees, Sizes)) = Cardinality(UnitsOf(frees', Sizes')) + Sizes'[cur]
        /\ Cardinality(UnitsOf(frees', Sizes')) \in 0 .. Units
    <3>1. Freed(frees', Live', Sizes', frees, Live, Sizes, cur)
      BY <2>1, <2>2, <2>3, <2>4 DEF Freed
    <3> QED
      BY <3>1, UnitsMoved
  <2> QED
    BY <1>2, <1>5, <2>3, <2>5 DEF HeapInv, Accounted
<1>10. TypeOK'
  <2>1. live' \in [Addr -> Nat]
    BY <1>2, <1>3, <1>5
  <2>2. freeList' \in Addr \cup {NULL} /\ stale' \subseteq Addr /\ frees' \subseteq Addr
    BY <1>2, <1>4, <1>5 DEF HeapInv, TypeOK
  <2> QED
    BY <1>3, <1>5, <1>6, <1>9, <2>1, <2>2 DEF TypeOK
<1>11. Chain(frees', Links')
  <2> HIDE DEF new, nxt
  <2> DEFINE F == frees \cup {new}
             l == [Links EXCEPT ![cur] = new, ![new] = nxt]
  <2>1. Chain(frees, Links) /\ cur \in frees \cup {NULL} /\ new \in Addr \ frees /\ cur < new
    BY <1>2, <1>4 DEF HeapInv, Blocks
  <2>2. Links[cur] = nxt
    BY <1>2, <1>3, ViewFacts DEF nxt
  <2>3. Links[cur] = NULL \/ Links[cur] > new
    <3>1. SUFFICES ASSUME Links[cur] # NULL PROVE Links[cur] > new
      OBVIOUS
    <3>2. Links[cur] \in frees /\ Links[cur] > cur
      BY <2>1, <3>1, ChainFacts
    <3>3. cur + mem[cur].size <= Links[cur] /\ Links[cur] \in Nat
      BY <1>2, <1>3, <3>2, ViewFacts, AddrInts DEF HeapInv, Tiles, Blocks
    <3> QED
      BY <1>1, <1>2, <1>4, <3>3 DEF new
  <2>4. l[cur] = new /\ l[new] = nxt /\ \A x \in (frees \cup {NULL}) \ {cur} : l[x] = Links[x]
    BY <1>2, <1>3, <1>4, AddrInts DEF Links, Blocks
  <2> HIDE DEF l
  <2>5. Chain(F, l)
    BY <2>1, <2>2, <2>3, <2>4, ChainInsert
  <2>6. prev \in F \cup {NULL} /\ cur \in F /\ l[prev] = cur
    BY <1>2, <2>4
  <2>7. Links'[prev] = l[cur]
    BY <1>2, <1>4, <1>5, <1>6, <2>4, ViewFactsNext, AddrInts
  <2>8. \A x \in (F \cup {NULL}) \ {cur, prev} : Links'[x] = l[x]
    BY <1>2, <1>3, <1>4, <1>5, <1>6, <2>4, ViewFacts, ViewFactsNext, AddrInts
  <2> HIDE DEF F
  <2>9. Chain(F \ {cur}, Links')
    BY <2>5, <2>6, <2>7, <2>8, ChainRemove
  <2>10. F \ {cur} = frees'
    BY <1>4, <1>5 DEF F
  <2> QED
    BY <2>9, <2>10
<1>12. Apart(frees', Sizes')
  <2> SUFFICES ASSUME NEW a \in frees', NEW b \in frees' PROVE a + Sizes'[a] # b
    BY DEF Apart
  <2>1. /\ a \in Nat /\ b \in Nat /\ a \in Addr /\ b \in Addr
        /\ Sizes'[a] = (IF a = new THEN rest ELSE mem[a].size) /\ mem[a].size \in Nat
    BY <1>3, <1>4, <1>5, <1>6, ViewFacts, ViewFactsNext
  <2>2. /\ b # new => cur + mem[cur].size # b
        /\ a # new /\ b # new => a + mem[a].size # b
    BY <1>2, <1>3, <1>5, <2>1, ViewFacts DEF HeapInv, Apart
  <2>3. a # new => (a + mem[a].size <= cur \/ a > new)
    <3>1. ASSUME a # new PROVE a \in Blocks /\ cur \in Blocks /\ a # cur
      BY <1>2, <1>5, <3>1 DEF Blocks
    <3>2. ASSUME a # new, a < cur PROVE a + mem[a].size <= cur
      BY <1>2, <1>3, <2>1, <3>1, <3>2, ViewFacts DEF HeapInv, Tiles
    <3>3. ASSUME a # new, a > cur PROVE a > new
      <4>1. cur + mem[cur].size <= a
        BY <1>2, <1>3, <2>1, <3>1, <3>3, ViewFacts DEF HeapInv, Tiles
      <4> QED
        BY <1>1, <1>2, <2>1, <4>1
    <3> QED
      BY <1>2, <2>1, <3>1, <3>2, <3>3
  <2> QED
    BY <1>1, <1>2, <1>4, <2>1, <2>2, <2>3
<1>13. Marked'
  <2>1. live[new] = 0
    BY <1>4 DEF Blocks, Live
  <2> QED
    BY <1>2, <1>3, <1>4, <1>5, <1>6, <2>1 DEF HeapInv, Marked
<1>14. Room'
  <2> SUFFICES ASSUME NEW a \in Live' PROVE live'[a] < mem'[a].size
    BY DEF Room
  <2>1. CASE a = cur
    BY <1>1, <1>2, <1>3, <1>5, <1>6, <2>1
  <2>2. CASE a # cur
    <3>1. a \in Live /\ a \in Addr /\ a # new
      BY <1>4, <1>7, <2>2 DEF Live, Blocks
    <3> QED
      BY <1>3, <1>5, <1>6, <2>2, <3>1 DEF HeapInv, Room
  <2> QED
    BY <2>1, <2>2
<1>15. DataIntact'
  <2>1. cur <= new /\ new < cur + mem[cur].size
    BY <1>1, <1>2, <1>4
  <2>2. \A u \in Addr \ {cur, prev, new} : mem'[u] = mem[u]
    BY <1>6
  <2> HIDE DEF new
  <2> QED
    BY <1>1, <1>4, <1>5, <2>1, <2>2, AllocKeepsData
<1>16. CallInv'
  BY <1>2, <1>3, <1>5, <1>7 DEF CallInv
<1>17. (Live \cap frees = {})'
  BY <1>2, <1>4, <1>5, <1>7 DEF HeapInv, Blocks
<1> QED
  BY <1>8, <1>9, <1>10, <1>11, <1>12, <1>13, <1>14, <1>15, <1>16, <1>17 DEF HeapInv, Accounted

-----------------------------------------------------------------------------
(* free.                                                                   *)

LEMMA FreeMoves ==
    ASSUME HeapInv, pc = "free", ~ Before, FreeDone(mem[block].size)
    PROVE  /\ live' = [live EXCEPT ![block] = 0] /\ Live' = Live \ {block}
           /\ live' \in [Addr -> Nat] /\ stale' \subseteq Addr
           /\ pc' = "idle" /\ freeBytes' = freeBytes + mem[block].size
           /\ prev' = prev /\ cur' = cur /\ block' = block /\ total' = total /\ req' = req
<1>1. block \in Addr /\ live \in [Addr -> Nat] /\ stale \subseteq Addr
  BY FreeAt DEF HeapInv, TypeOK
<1> QED
  BY <1>1 DEF FreeDone, regs, Live

(* Once the list and the tiling are right, so is everything else.          *)
LEMMA FreeRest ==
    ASSUME HeapInv, pc = "free", ~ Before, FreeDone(mem[block].size),
           mem' \in [Addr -> Headers], freeList' \in Addr \cup {NULL},
           frees' \subseteq frees \cup {block},
           \A u \in Addr : mem'[u].magic = IF u = block THEN "FREE" ELSE mem[u].magic,
           \A u \in Addr \ {block, prev} : mem'[u] = mem[u],
           Tiles(Blocks', Sizes'), Chain(frees', Links'), Apart(frees', Sizes')
    PROVE  HeapInv'
<1>1. /\ block \in Live /\ block \in Addr /\ block \notin frees
      /\ prev \in frees \cup {NULL} /\ mem[block].size \in Nat /\ live[block] # 0
  BY FreeAt
<1>2. /\ live' = [live EXCEPT ![block] = 0] /\ Live' = Live \ {block}
      /\ live' \in [Addr -> Nat] /\ stale' \subseteq Addr
      /\ pc' = "idle" /\ freeBytes' = freeBytes + mem[block].size
      /\ prev' = prev /\ cur' = cur /\ block' = block /\ total' = total /\ req' = req
  BY FreeMoves
<1>3. TypeOK /\ live \in [Addr -> Nat] /\ frees \subseteq Addr /\ Live \cap frees = {}
  BY DEF HeapInv, TypeOK
<1>4. (Live \cap frees = {})'
  BY <1>2, <1>3
<1>5. ASSUME NEW a \in Live' PROVE a \in Live /\ a \in Addr /\ mem'[a] = mem[a] /\ live'[a] = live[a]
  <2>1. a \in Live /\ a # block /\ a \in Addr
    BY <1>2 DEF Live
  <2>2. a # prev
    BY <1>1, <1>3, <2>1, AddrInts
  <2> QED
    BY <1>2, <1>3, <2>1, <2>2
<1>6. freeBytes' = Cardinality(UnitsOf(frees', Sizes')) /\ freeBytes' \in 0 .. Units
  <2>1. Tiles(frees' \cup Live', Sizes') /\ Tiles(frees \cup Live, Sizes)
    BY DEF HeapInv, Blocks
  <2>2. \A x \in Live' : Sizes'[x] = Sizes[x]
    BY <1>3, <1>5, ViewFacts, ViewFactsNext
  <2>3. block \notin Live' /\ Live = Live' \cup {block}
    BY <1>1, <1>2
  <2>4. Freed(frees, Live, Sizes, frees', Live', Sizes', block)
    BY <1>3, <1>4, <2>1, <2>2, <2>3 DEF Freed
  <2>5. /\ Cardinality(UnitsOf(frees', Sizes')) = Cardinality(UnitsOf(frees, Sizes)) + Sizes[block]
        /\ Cardinality(UnitsOf(frees', Sizes')) \in 0 .. Units
    BY <2>4, UnitsMoved
  <2>6. Sizes[block] = mem[block].size /\ freeBytes = Cardinality(UnitsOf(frees, Sizes))
    BY <1>1, <1>3, ViewFacts DEF HeapInv, Accounted
  <2> QED
    BY <1>2, <2>5, <2>6
<1>7. TypeOK'
  <2>1. frees' \subseteq Addr
    BY <1>1, <1>3
  <2> QED
    BY <1>2, <1>3, <1>6, <2>1 DEF TypeOK
<1>8. Marked'
  BY <1>1, <1>2, <1>3 DEF HeapInv, Marked
<1>9. Room'
  BY <1>5 DEF HeapInv, Room
<1>10. DataIntact'
  <2> SUFFICES ASSUME NEW a \in Live', NEW u \in (a + 1) .. (a + live'[a])
               PROVE  mem'[u] = Data(a)
    BY DEF DataIntact
  <2>1. a \in Live /\ u \in (a + 1) .. (a + live[a])
    BY <1>5
  <2>2. u \in Addr /\ u \notin Blocks
    BY <2>1, Interior
  <2>3. u # block /\ u # prev
    BY <1>1, <2>2, AddrInts DEF Blocks
  <2>4. mem[u] = Data(a)
    BY <2>1 DEF HeapInv, DataIntact
  <2> QED
    BY <2>2, <2>3, <2>4
<1>11. CallInv'
  BY <1>2 DEF CallInv
<1> QED
  BY <1>4, <1>6, <1>7, <1>8, <1>9, <1>10, <1>11 DEF HeapInv, Accounted

(* No free block but prev ends where the block starts, none but cur starts *)
(* where it ends.                                                          *)
LEMMA FreeNeighbours ==
    ASSUME HeapInv, pc = "free", ~ Before, NEW a \in frees
    PROVE  /\ a + mem[a].size = block => a = prev
           /\ Rear = a => a = cur
           /\ a \in Nat /\ mem[a].size \in Nat /\ a # block
           /\ a < block => a + mem[a].size <= block
           /\ block < a => Rear <= a
<1>1. /\ block \in Nat /\ block \in Blocks /\ prev \in frees \cup {NULL} /\ prev \in Nat
      /\ prev < block /\ mem[block].size \in Nat /\ mem[block].size >= 1 /\ block \notin frees
      /\ cur # NULL => cur \in frees /\ cur \in Nat /\ cur > block /\ Rear <= cur
      /\ a <= prev \/ (cur # NULL /\ cur <= a)
      /\ block \in Addr
  BY FreeAt
<1>2. /\ a \in Addr /\ a \in Nat /\ mem[a].size \in Nat /\ a \in Blocks /\ a # block
      /\ mem[a].size >= 1
  BY <1>1, AddrInts, ViewFacts DEF HeapInv, TypeOK, Blocks, Tiles
<1>3. \A x, y \in Blocks : x < y => x + mem[x].size <= y
  BY ViewFacts DEF HeapInv, Tiles
<1>4. a < block => a + mem[a].size <= block
  BY <1>1, <1>2, <1>3
<1>5. block < a => Rear <= a
  BY <1>1, <1>2, <1>3 DEF Rear
<1>6. ASSUME a + mem[a].size = block PROVE a = prev
  <2>1. a <= prev
    BY <1>1, <1>2, <1>6
  <2>2. ~ a < prev
    <3>1. SUFFICES ASSUME a < prev PROVE FALSE
      OBVIOUS
    <3>2. prev \in Blocks
      BY <1>1, <1>2, <3>1 DEF Blocks, NULL
    <3>3. a + mem[a].size <= prev
      BY <1>2, <1>3, <3>1, <3>2
    <3> QED
      BY <1>1, <1>6, <3>3
  <2> QED
    BY <1>1, <1>2, <2>1, <2>2
<1>7. ASSUME Rear = a PROVE a = cur
  <2>1. a > block
    BY <1>1, <1>7 DEF Rear
  <2>2. cur # NULL /\ cur <= a
    BY <1>1, <1>2, <2>1
  <2>3. Rear <= cur /\ cur \in Nat
    BY <1>1, <2>2
  <2> QED
    BY <1>2, <1>7, <2>2, <2>3
<1> QED
  BY <1>2, <1>4, <1>5, <1>6, <1>7

LEMMA FreeInsertStep ==
    ASSUME HeapInv, FreeInsert
    PROVE  HeapInv'
<1> DEFINE size  == mem[block].size
           m0    == [mem EXCEPT ![block] = Header("FREE", size, cur)]
           m     == LinkFrom(prev, block, m0)
           joins == cur # NULL /\ Rear = cur
           F     == frees \cup {block}
           l     == [x \in Addr \cup {NULL} |->
                        IF x = prev THEN block ELSE IF x = block THEN cur ELSE Links[x]]
<1>1. /\ pc = "free" /\ ~ Before /\ ~ JoinsPrev /\ FreeDone(mem[block].size)
      /\ mem' = IF joins THEN Swallow(m, block) ELSE m
      /\ frees' = (IF joins THEN frees \ {cur} ELSE frees) \cup {block}
      /\ freeList' = IF prev # NULL THEN freeList ELSE block
  BY DEF FreeInsert, HeadAfter
<1>2. /\ block \in Live /\ block \in Addr /\ block \in Nat /\ block \notin frees
      /\ block \in Blocks
      /\ prev \in frees \cup {NULL} /\ prev \in Addr \cup {NULL} /\ prev \in Nat
      /\ prev < block /\ prev # block
      /\ Links[prev] = cur /\ cur \in Addr \cup {NULL}
      /\ size \in Nat /\ size >= 1 /\ block + size <= Units + 1
  BY <1>1, FreeAt
<1>3. /\ cur # NULL => cur \in frees /\ cur \in Addr /\ cur \in Nat /\ cur > block /\ cur # prev
      /\ cur # block
  <2>1. cur # NULL => cur \in frees /\ cur \in Addr /\ cur \in Nat /\ cur > block
    BY <1>1, FreeAt
  <2> QED
    BY <1>2, <2>1, AddrInts
<1>4. TypeOK /\ mem \in [Addr -> Headers] /\ frees \subseteq Addr
  BY DEF HeapInv, TypeOK
<1>5. Live' = Live \ {block} /\ Blocks = F \cup Live' /\ Blocks' = frees' \cup Live'
  BY <1>1, <1>2, FreeMoves DEF Blocks
<1>6. /\ m \in [Addr -> Headers]
      /\ \A u \in Addr :
            /\ m[u].magic = IF u = block THEN "FREE" ELSE mem[u].magic
            /\ m[u].size = mem[u].size
            /\ m[u].next = IF u = prev THEN block ELSE IF u = block THEN cur ELSE mem[u].next
            /\ u # block /\ u # prev => m[u] = mem[u]
  <2>1. /\ m0 \in [Addr -> Headers]
        /\ \A u \in Addr :
              /\ m0[u].magic = IF u = block THEN "FREE" ELSE mem[u].magic
              /\ m0[u].size = mem[u].size
              /\ m0[u].next = IF u = block THEN cur ELSE mem[u].next
              /\ u # block => m0[u] = mem[u]
    BY <1>2, <1>4 DEF Header, Headers
  <2> HIDE DEF m0
  <2>2. /\ m \in [Addr -> Headers]
        /\ \A u \in Addr :
              /\ m[u].magic = m0[u].magic
              /\ m[u].size = m0[u].size
              /\ m[u].next = IF u = prev THEN block ELSE m0[u].next
              /\ u # prev => m[u] = m0[u]
    BY <1>2, <2>1, LinkFields
  <2> HIDE DEF m
  <2> QED
    BY <1>2, <2>1, <2>2
<1> HIDE DEF m0, m
<1>7. freeList' \in Addr \cup {NULL} /\ frees' \subseteq frees \cup {block}
  BY <1>1, <1>2, <1>4 DEF TypeOK
<1>8. Chain(F, l)
  <2>1. Chain(frees, Links) /\ block \in Addr \ frees
    BY <1>2 DEF HeapInv
  <2>2. Links[prev] = NULL \/ Links[prev] > block
    BY <1>2, <1>3
  <2>3. /\ l[prev] = block /\ l[block] = Links[prev]
        /\ \A x \in (frees \cup {NULL}) \ {prev} : l[x] = Links[x]
    <3>1. block # NULL /\ \A x \in frees : x # block /\ x \in Addr
      BY <1>2, <1>4, AddrInts
    <3> QED
      BY <1>2, <3>1
  <2>4. prev \in frees \cup {NULL} /\ prev < block
    BY <1>2
  <2> HIDE DEF l
  <2> QED
    BY <2>1, <2>2, <2>3, <2>4, ChainInsert
<1>9. \A a, b \in F : a + mem[a].size = b => a = block /\ b = cur /\ Rear = cur
  <2> SUFFICES ASSUME NEW a \in F, NEW b \in F, a + mem[a].size = b
               PROVE  a = block /\ b = cur /\ Rear = cur
    OBVIOUS
  <2>1. CASE a = block /\ b = block
    BY <1>2, <2>1
  <2>2. CASE a \in frees /\ b \in frees
    BY <1>4, <2>2, ViewFacts DEF HeapInv, Apart
  <2>3. CASE a = block /\ b \in frees
    BY <1>1, <2>3, FreeNeighbours DEF Rear
  <2>4. CASE a \in frees /\ b = block
    <3>1. a = prev
      BY <1>1, <2>4, FreeNeighbours
    <3>2. prev # NULL /\ prev + mem[prev].size = block
      BY <1>4, <2>4, <3>1, AddrInts
    <3> QED
      BY <1>1, <3>2 DEF JoinsPrev
  <2> QED
    BY <2>1, <2>2, <2>3, <2>4
<1>10. CASE ~ joins
  <2>1. mem' = m /\ frees' = F
    BY <1>1, <1>10
  <2>2. Tiles(Blocks', Sizes')
    <3>1. Blocks' = Blocks /\ Tiles(Blocks, Sizes) /\ Blocks \subseteq Addr
      BY <1>5, <2>1 DEF HeapInv, Tiles
    <3>2. \A b \in Blocks : Sizes'[b] = Sizes[b]
      BY <1>4, <1>6, <2>1, <3>1, ViewFacts, ViewFactsNext
    <3> QED
      BY <3>1, <3>2, TilesSame
  <2>3. Chain(frees', Links')
    <3>1. \A x \in F \cup {NULL} : Links'[x] = l[x]
      BY <1>1, <1>2, <1>4, <1>6, <2>1, ViewFacts, ViewFactsNext, AddrInts
    <3> QED
      BY <1>8, <2>1, <3>1 DEF Chain
  <2>4. Apart(frees', Sizes')
    <3>1. \A a \in F : Sizes'[a] = mem[a].size
      BY <1>2, <1>4, <1>6, <2>1, ViewFactsNext
    <3>2. \A a, b \in F : a + mem[a].size # b
      <4>1. NULL \notin F
        BY <1>2, <1>4, AddrInts
      <4> QED
        BY <1>9, <1>10, <4>1
    <3> QED
      BY <2>1, <3>1, <3>2 DEF Apart
  <2> QED
    BY <1>1, <1>6, <1>7, <2>1, <2>2, <2>3, <2>4, FreeRest
<1>11. CASE joins
  <2>1. mem' = Swallow(m, block) /\ frees' = F \ {cur}
    BY <1>1, <1>3, <1>11
  <2>2. /\ cur \in frees /\ cur \in Addr /\ cur \in Nat /\ cur # block /\ cur # prev
        /\ cur \in Blocks /\ mem[cur].size \in Nat /\ cur + mem[cur].size <= Units + 1
        /\ block + size = cur
    <3>1. cur \in Blocks /\ cur \in Addr
      BY <1>3, <1>11 DEF Blocks
    <3>2. mem[cur].size \in Nat /\ cur + mem[cur].size <= Units + 1
      BY <1>4, <3>1, ViewFacts DEF HeapInv, Tiles
    <3> QED
      BY <1>3, <1>11, <3>1, <3>2 DEF Rear
  <2>3. size + mem[cur].size \in 0 .. Units
    BY <1>2, <2>2, AddrInts
  <2>4. /\ mem' \in [Addr -> Headers]
        /\ \A u \in Addr :
              /\ mem'[u].magic = IF u = block THEN "FREE" ELSE mem[u].magic
              /\ mem'[u].size = IF u = block THEN size + mem[cur].size ELSE mem[u].size
              /\ mem'[u].next = IF u = block THEN mem[cur].next
                                ELSE IF u = prev THEN block ELSE mem[u].next
              /\ u # block /\ u # prev => mem'[u] = mem[u]
    <3>1. /\ m[block].size + m[cur].size = size + mem[cur].size
          /\ m[cur].next = mem[cur].next
      BY <1>2, <1>6, <2>2
    <3>2. /\ Swallow(m, block) \in [Addr -> Headers]
          /\ \A u \in Addr :
                /\ Swallow(m, block)[u].magic = m[u].magic
                /\ Swallow(m, block)[u].size = IF u = block THEN m[block].size + m[cur].size ELSE m[u].size
                /\ Swallow(m, block)[u].next = IF u = block THEN m[cur].next ELSE m[u].next
                /\ u # block => Swallow(m, block)[u] = m[u]
      BY <1>2, <1>6, <2>2, <2>3, <3>1, SwallowFields
    <3> QED
      BY <1>2, <1>6, <2>1, <2>2, <3>1, <3>2
  <2>5. Tiles(Blocks', Sizes')
    <3>1. Tiles(Blocks, Sizes) /\ Blocks \subseteq Addr
      BY DEF HeapInv, Tiles
    <3>2. /\ block + Sizes[block] = cur
          /\ Sizes'[block] = Sizes[block] + Sizes[cur]
          /\ \A c \in Blocks \ {block, cur} : Sizes'[c] = Sizes[c]
      BY <1>2, <1>4, <2>2, <2>4, <3>1, ViewFacts, ViewFactsNext
    <3>3. Tiles(Blocks \ {cur}, Sizes')
      BY <1>2, <2>2, <3>1, <3>2, TilesJoin
    <3>4. Blocks' = Blocks \ {cur}
      BY <1>2, <1>5, <2>1, <2>2 DEF HeapInv
    <3> QED
      BY <3>3, <3>4
  <2>6. Chain(frees', Links')
    <3>1. block \in F \cup {NULL} /\ cur \in F /\ l[block] = cur
      BY <1>2, <2>2
    <3>2. Links'[block] = l[cur]
      BY <1>2, <1>4, <2>2, <2>4, ViewFacts, ViewFactsNext
    <3>3. \A x \in (F \cup {NULL}) \ {cur, block} : Links'[x] = l[x]
      BY <1>1, <1>2, <1>4, <2>4, ViewFacts, ViewFactsNext, AddrInts
    <3> HIDE DEF F, l
    <3>4. Chain(F \ {cur}, Links')
      BY <1>8, <3>1, <3>2, <3>3, ChainRemove
    <3> QED
      BY <2>1, <3>4
  <2>7. Apart(frees', Sizes')
    <3> SUFFICES ASSUME NEW a \in F \ {cur}, NEW b \in F \ {cur} PROVE a + Sizes'[a] # b
      BY <2>1 DEF Apart
    <3>1. CASE a = block
      <4>1. a + Sizes'[a] = cur + mem[cur].size
        BY <1>2, <2>2, <2>4, <3>1, ViewFactsNext
      <4> QED
        BY <1>2, <1>9, <2>2, <4>1
    <3>2. CASE a # block
      <4>1. Sizes'[a] = mem[a].size
        BY <1>4, <2>4, <3>2, ViewFactsNext
      <4> QED
        BY <1>9, <3>2, <4>1
    <3> QED
      BY <3>1, <3>2
  <2> QED
    BY <1>1, <1>7, <2>4, <2>5, <2>6, <2>7, FreeRest
<1> QED
  BY <1>10, <1>11

LEMMA FreeJoinPrevStep ==
    ASSUME HeapInv, FreeJoinPrev
    PROVE  HeapInv'
<1> DEFINE size  == mem[block].size
           both  == mem[prev].size + size
           m     == [mem EXCEPT ![block].magic = "FREE", ![prev].size = Wrap(@ + size)]
           joins == cur # NULL /\ prev + m[prev].size = cur
           B     == Blocks \ {block}
           s     == [Sizes EXCEPT ![prev] = both]
<1>1. /\ pc = "free" /\ ~ Before /\ prev # NULL /\ prev + mem[prev].size = block
      /\ FreeDone(mem[block].size)
      /\ mem' = IF joins THEN Swallow(m, prev) ELSE m
      /\ frees' = IF joins THEN frees \ {cur} ELSE frees
      /\ freeList' = freeList
  BY DEF FreeJoinPrev, JoinsPrev
<1>2. /\ block \in Live /\ block \in Addr /\ block \in Nat /\ block \notin frees
      /\ block \in Blocks
      /\ prev \in frees /\ prev \in Addr /\ prev \in Nat /\ prev \in Blocks
      /\ prev < block /\ prev # block
      /\ Links[prev] = cur /\ cur \in Addr \cup {NULL}
      /\ size \in Nat /\ size >= 1 /\ block + size <= Units + 1
  BY <1>1, FreeAt DEF Blocks
<1>3. /\ cur # NULL => cur \in frees /\ cur \in Addr /\ cur \in Nat /\ cur > block /\ cur # prev
      /\ cur # block
  <2>1. cur # NULL => cur \in frees /\ cur \in Addr /\ cur \in Nat /\ cur > block
    BY <1>1, FreeAt
  <2> QED
    BY <1>2, <2>1, AddrInts
<1>4. TypeOK /\ mem \in [Addr -> Headers] /\ frees \subseteq Addr
  BY DEF HeapInv, TypeOK
<1>5. Live' = Live \ {block} /\ B = frees \cup Live' /\ Blocks' = frees' \cup Live'
  BY <1>1, <1>2, FreeMoves DEF Blocks
<1>6. /\ mem[prev].size \in Nat /\ both \in 0 .. Units /\ both \in Nat
      /\ Wrap(both) = both /\ both \in Size /\ prev + both = Rear
  <2>1. mem[prev].size \in Nat /\ prev >= 1 /\ Units \in Nat
    BY <1>2, <1>4, ViewFacts, AddrInts
  <2>2. both \in 0 .. Units /\ both \in Nat /\ prev + both = Rear
    BY <1>1, <1>2, <2>1 DEF Rear
  <2> QED
    BY <2>1, <2>2, WrapSmall
<1>7. /\ m \in [Addr -> Headers]
      /\ \A u \in Addr :
            /\ m[u].magic = IF u = block THEN "FREE" ELSE mem[u].magic
            /\ m[u].size = IF u = prev THEN both ELSE mem[u].size
            /\ m[u].next = mem[u].next
            /\ u # block /\ u # prev => m[u] = mem[u]
  BY <1>2, <1>4, <1>6 DEF Headers
<1>8. joins <=> cur # NULL /\ Rear = cur
  BY <1>2, <1>6, <1>7
<1> HIDE DEF m, joins
<1>9. freeList' \in Addr \cup {NULL} /\ frees' \subseteq frees \cup {block}
  BY <1>1, <1>4 DEF TypeOK
<1>10. Tiles(B, s) /\ s[prev] = both /\ \A c \in Addr \ {prev} : s[c] = mem[c].size
  <2>1. Tiles(Blocks, Sizes) /\ Blocks \subseteq Addr
    BY DEF HeapInv, Tiles
  <2>2. s[prev] = both /\ \A c \in Addr \ {prev} : s[c] = mem[c].size
    BY <1>2, <1>4 DEF Sizes
  <2>3. /\ prev + Sizes[prev] = block /\ s[prev] = Sizes[prev] + Sizes[block]
        /\ \A c \in Blocks \ {prev, block} : s[c] = Sizes[c]
    BY <1>1, <1>2, <1>4, <2>1, <2>2, ViewFacts
  <2> HIDE DEF s
  <2>4. Tiles(Blocks \ {block}, s)
    BY <1>2, <2>1, <2>3, TilesJoin
  <2> QED
    BY <2>2, <2>4
<1>11. /\ \A a, b \in frees : a + mem[a].size # b
       /\ \A b \in frees : prev + both = b => b = cur
  <2>1. \A a, b \in frees : a + mem[a].size # b
    BY <1>4, ViewFacts DEF HeapInv, Apart
  <2>2. \A b \in frees : prev + both = b => b = cur
    BY <1>1, <1>6, FreeNeighbours
  <2> QED
    BY <2>1, <2>2
<1> HIDE DEF s
<1>12. CASE ~ joins
  <2>1. mem' = m /\ frees' = frees
    BY <1>1, <1>12
  <2>2. Tiles(Blocks', Sizes')
    <3>1. Blocks' = B /\ B \subseteq Addr
      BY <1>5, <1>10, <2>1 DEF Tiles
    <3>2. \A b \in B : Sizes'[b] = s[b]
      BY <1>2, <1>7, <1>10, <2>1, <3>1, ViewFactsNext
    <3> QED
      BY <1>10, <3>1, <3>2, TilesSame
  <2>3. Chain(frees', Links')
    <3>1. \A x \in frees \cup {NULL} : Links'[x] = Links[x]
      BY <1>1, <1>4, <1>7, <2>1, ViewFacts, ViewFactsNext
    <3> QED
      BY <2>1, <3>1 DEF HeapInv, Chain
  <2>4. Apart(frees', Sizes')
    <3> SUFFICES ASSUME NEW a \in frees, NEW b \in frees PROVE a + Sizes'[a] # b
      BY <2>1 DEF Apart
    <3>1. Sizes'[a] = IF a = prev THEN both ELSE mem[a].size
      BY <1>4, <1>7, <2>1, ViewFactsNext
    <3>2. b # NULL
      BY <1>4, AddrInts
    <3>3. CASE a = prev
      BY <1>6, <1>8, <1>11, <1>12, <3>1, <3>2, <3>3
    <3>4. CASE a # prev
      BY <1>11, <3>1, <3>4
    <3> QED
      BY <3>3, <3>4
  <2> QED
    BY <1>1, <1>7, <1>9, <2>1, <2>2, <2>3, <2>4, FreeRest
<1>13. CASE joins
  <2>1. mem' = Swallow(m, prev) /\ frees' = frees \ {cur}
    BY <1>1, <1>13
  <2>2. /\ cur \in frees /\ cur \in Addr /\ cur \in Nat /\ cur # block /\ cur # prev
        /\ cur \in Blocks /\ mem[cur].size \in Nat /\ cur + mem[cur].size <= Units + 1
        /\ prev + both = cur
    <3>1. cur \in Blocks /\ cur \in Addr
      BY <1>3, <1>8, <1>13 DEF Blocks
    <3>2. mem[cur].size \in Nat /\ cur + mem[cur].size <= Units + 1
      BY <1>4, <3>1, ViewFacts DEF HeapInv, Tiles
    <3> QED
      BY <1>3, <1>6, <1>8, <1>13, <3>1, <3>2
  <2>3. both + mem[cur].size \in 0 .. Units
    BY <1>2, <1>6, <2>2, AddrInts
  <2>4. /\ mem' \in [Addr -> Headers]
        /\ \A u \in Addr :
              /\ mem'[u].magic = IF u = block THEN "FREE" ELSE mem[u].magic
              /\ mem'[u].size = IF u = prev THEN both + mem[cur].size ELSE mem[u].size
              /\ mem'[u].next = IF u = prev THEN mem[cur].next ELSE mem[u].next
              /\ u # block /\ u # prev => mem'[u] = mem[u]
    <3>1. /\ m[prev].size + m[cur].size = both + mem[cur].size
          /\ m[cur].next = mem[cur].next
      BY <1>2, <1>7, <2>2
    <3>2. /\ Swallow(m, prev) \in [Addr -> Headers]
          /\ \A u \in Addr :
                /\ Swallow(m, prev)[u].magic = m[u].magic
                /\ Swallow(m, prev)[u].size = IF u = prev THEN m[prev].size + m[cur].size ELSE m[u].size
                /\ Swallow(m, prev)[u].next = IF u = prev THEN m[cur].next ELSE m[u].next
                /\ u # prev => Swallow(m, prev)[u] = m[u]
      BY <1>2, <1>7, <2>2, <2>3, <3>1, SwallowFields
    <3> QED
      BY <1>2, <1>7, <2>1, <2>2, <3>1, <3>2
  <2>5. Tiles(Blocks', Sizes')
    <3>1. B \subseteq Addr /\ prev \in B /\ cur \in B
      BY <1>2, <1>10, <2>2 DEF Tiles
    <3>2. /\ prev + s[prev] = cur
          /\ Sizes'[prev] = s[prev] + s[cur]
          /\ \A c \in B \ {prev, cur} : Sizes'[c] = s[c]
      BY <1>2, <1>10, <2>2, <2>4, <3>1, ViewFactsNext
    <3>3. Blocks' = B \ {cur}
      BY <1>5, <2>1, <2>2 DEF HeapInv
    <3> HIDE DEF B
    <3>4. Tiles(B \ {cur}, Sizes')
      BY <1>10, <3>1, <3>2, TilesJoin
    <3> QED
      BY <3>3, <3>4
  <2>6. Chain(frees', Links')
    <3>1. prev \in frees \cup {NULL} /\ cur \in frees /\ Links[prev] = cur
      BY <1>2, <2>2
    <3>2. Links'[prev] = Links[cur]
      BY <1>2, <1>4, <2>2, <2>4, ViewFacts, ViewFactsNext
    <3>3. \A x \in (frees \cup {NULL}) \ {cur, prev} : Links'[x] = Links[x]
      BY <1>1, <1>4, <2>4, ViewFacts, ViewFactsNext
    <3>4. Chain(frees, Links)
      BY DEF HeapInv
    <3>5. Chain(frees \ {cur}, Links')
      BY <3>1, <3>2, <3>3, <3>4, ChainRemove
    <3> QED
      BY <2>1, <3>5
  <2>7. Apart(frees', Sizes')
    <3> SUFFICES ASSUME NEW a \in frees \ {cur}, NEW b \in frees \ {cur} PROVE a + Sizes'[a] # b
      BY <2>1 DEF Apart
    <3>1. CASE a = prev
      <4>1. a + Sizes'[a] = cur + mem[cur].size
        BY <1>2, <1>6, <2>2, <2>4, <3>1, ViewFactsNext
      <4> QED
        BY <1>11, <2>2, <4>1
    <3>2. CASE a # prev
      <4>1. Sizes'[a] = mem[a].size
        BY <1>4, <2>4, <3>2, ViewFactsNext
      <4> QED
        BY <1>11, <4>1
    <3> QED
      BY <3>1, <3>2
  <2> QED
    BY <1>1, <1>9, <2>4, <2>5, <2>6, <2>7, FreeRest
<1> QED
  BY <1>12, <1>13

-----------------------------------------------------------------------------
(* The steps that leave the heap alone, and the caller's own writes.       *)

LEMMA QuietStep ==
    ASSUME HeapInv, UNCHANGED <<mem, freeList, freeBytes, live, frees>>,
           TypeOK', CallInv', pc # "fill", pc' # "fill"
    PROVE  HeapInv'
<1>1. Sizes' = Sizes /\ Links' = Links /\ Live' = Live /\ Blocks' = Blocks
  BY DEF Sizes, Links, Live, Blocks
<1>2. Marked' /\ Room'
  BY <1>1 DEF HeapInv, Marked, Room
<1>3. DataIntact'
  BY <1>1 DEF HeapInv, DataIntact
<1>4. Accounted'
  BY <1>1 DEF HeapInv, Accounted
<1> QED
  BY <1>1, <1>2, <1>3, <1>4 DEF HeapInv

LEMMA CallSteps ==
    ASSUME HeapInv,
           \/ \E n \in Requests : AllocRefuse(n) \/ AllocCall(n)
           \/ AllocScan \/ AllocFail
           \/ \E a \in Addr : FreePanic(a) \/ FreeCall(a)
           \/ FreeScan
    PROVE  HeapInv'
<1>1. TypeOK /\ CallInv /\ Chain(frees, Links) /\ frees \subseteq Addr
  BY DEF HeapInv, TypeOK
<1>2. Links[NULL] = freeList /\ \A a \in Addr : Links[a] = mem[a].next
  BY <1>1, ViewFacts
<1>3. ASSUME UNCHANGED <<mem, freeList>> PROVE Links' = Links
  BY <1>3 DEF Links
<1>4. ASSUME NEW n \in Requests, AllocRefuse(n) PROVE HeapInv'
  <2>1. n \in Nat
    BY MiniHeapAssumption
  <2>2. TypeOK' /\ CallInv'
    BY <1>1, <1>4, <2>1 DEF AllocRefuse, TypeOK, CallInv
  <2> QED
    BY <1>4, <2>2, QuietStep DEF AllocRefuse
<1>5. ASSUME NEW n \in Requests, AllocCall(n) PROVE HeapInv'
  <2>1. n \in Nat /\ n >= 1 /\ TotalSize(n) = n + 1 /\ TotalSize(n) \in Size
    <3>1. n \in 0 .. (WordUnits - 2) /\ WordUnits \in Nat /\ WordUnits > 0
      BY MiniHeapAssumption
    <3>2. Wrap(n) = n /\ Wrap(n + 1) = n + 1
      BY <3>1 DEF Wrap
    <3>3. Wrap(n) # 0
      BY <1>5 DEF AllocCall, AllocRefused
    <3> QED
      BY <3>1, <3>2, <3>3 DEF TotalSize, Size
  <2>2. TypeOK'
    BY <1>1, <1>5, <2>1 DEF AllocCall, TypeOK, NULL
  <2>3. Links' = Links
    BY <1>3, <1>5 DEF AllocCall
  <2>4. CallInv'
    BY <1>2, <1>5, <2>1, <2>3 DEF AllocCall, CallInv
  <2> QED
    BY <1>5, <2>2, <2>4, QuietStep DEF AllocCall
<1>6. ASSUME AllocScan PROVE HeapInv'
  <2>1. cur \in frees /\ cur \in Addr /\ mem[cur].next \in Addr \cup {NULL}
    BY <1>6, AllocAt DEF AllocScan
  <2>2. TypeOK'
    BY <1>1, <1>6, <2>1 DEF AllocScan, TypeOK
  <2>3. Links' = Links
    BY <1>3, <1>6 DEF AllocScan
  <2>4. CallInv'
    BY <1>1, <1>2, <1>6, <2>1, <2>3 DEF AllocScan, CallInv
  <2> QED
    BY <1>6, <2>2, <2>4, QuietStep DEF AllocScan
<1>7. ASSUME AllocFail PROVE HeapInv'
  <2>1. TypeOK' /\ CallInv'
    BY <1>1, <1>7 DEF AllocFail, regs, TypeOK, CallInv
  <2> QED
    BY <1>7, <2>1, QuietStep DEF AllocFail
<1>8. ASSUME NEW a \in Addr, FreePanic(a) PROVE HeapInv'
  <2>1. TypeOK' /\ CallInv'
    BY <1>1, <1>8 DEF FreePanic, regs, TypeOK, CallInv
  <2> QED
    BY <1>8, <2>1, QuietStep DEF FreePanic
<1>9. ASSUME NEW a \in Addr, FreeCall(a) PROVE HeapInv'
  <2>1. TypeOK'
    BY <1>1, <1>9 DEF FreeCall, TypeOK, NULL
  <2>2. Links' = Links /\ Live' = Live
    BY <1>3, <1>9 DEF FreeCall, Live
  <2>3. a \in Live /\ NULL < a
    BY <1>9, AddrInts DEF FreeCall, HeapInv, Marked, Live, NULL
  <2>4. CallInv'
    BY <1>2, <1>9, <2>2, <2>3 DEF FreeCall, CallInv
  <2> QED
    BY <1>9, <2>1, <2>4, QuietStep DEF FreeCall
<1>10. ASSUME FreeScan PROVE HeapInv'
  <2>1. cur \in frees /\ cur \in Addr /\ cur < block /\ mem[cur].next \in Addr \cup {NULL}
    <3>1. prev \in frees \cup {NULL} /\ cur = Links[prev] /\ cur # NULL /\ cur < block
      BY <1>1, <1>10 DEF FreeScan, Before, CallInv
    <3>2. cur \in frees
      BY <1>1, <3>1, ChainFacts
    <3> QED
      BY <1>1, <3>1, <3>2 DEF TypeOK, Headers
  <2>2. TypeOK'
    BY <1>1, <1>10, <2>1 DEF FreeScan, TypeOK
  <2>3. Links' = Links /\ Live' = Live
    BY <1>3, <1>10 DEF FreeScan, Live
  <2>4. CallInv'
    BY <1>1, <1>2, <1>10, <2>1, <2>3 DEF FreeScan, CallInv
  <2> QED
    BY <1>10, <2>2, <2>4, QuietStep DEF FreeScan
<1> QED
  BY <1>4, <1>5, <1>6, <1>7, <1>8, <1>9, <1>10

LEMMA FillStep ==
    ASSUME HeapInv, Fill
    PROVE  HeapInv'
<1>1. /\ pc = "fill" /\ pc' = "idle" /\ cur \in Live /\ cur \in Addr /\ live[cur] = req
      /\ UNCHANGED <<freeList, freeBytes, prev, cur, block, total, req, live, stale, frees>>
      /\ mem' = [u \in Addr |-> IF u \in (cur + 1) .. (cur + req) THEN Data(cur) ELSE mem[u]]
  BY DEF Fill, regs, HeapInv, CallInv, Live
<1>2. TypeOK /\ mem \in [Addr -> Headers] /\ Blocks \subseteq Addr /\ frees \subseteq Blocks
      /\ Live \subseteq Blocks
  BY DEF HeapInv, TypeOK, Tiles, Blocks
<1>3. ASSUME NEW u \in (cur + 1) .. (cur + req)
      PROVE  /\ u \in Addr /\ u \notin Blocks /\ live[u] = 0
             /\ \A b \in Blocks : b <= u /\ u < b + mem[b].size => b = cur
  <2>1. u \in Addr /\ u \notin Blocks /\ \A b \in Blocks : b <= u /\ u < b + mem[b].size => b = cur
    BY <1>1, Interior
  <2> QED
    BY <2>1 DEF Blocks, Live
<1>4. \A b \in Blocks : mem'[b] = mem[b]
  BY <1>1, <1>2, <1>3
<1>5. Data(cur) \in Headers /\ Data(cur).magic # "USED"
  BY <1>1, MiniHeapAssumption DEF Data, Header, Headers, Addr, Size
<1>6. TypeOK'
  <2>1. mem' \in [Addr -> Headers]
    BY <1>1, <1>2, <1>5
  <2> QED
    BY <1>1, <1>2, <2>1 DEF TypeOK
<1>7. Live' = Live /\ Blocks' = Blocks /\ frees' = frees
  BY <1>1 DEF Live, Blocks
<1>8. \A b \in Blocks : Sizes'[b] = Sizes[b] /\ Links'[b] = Links[b]
  BY <1>2, <1>4, ViewFacts, ViewFactsNext
<1>9. Tiles(Blocks', Sizes')
  BY <1>7, <1>8, TilesSame DEF HeapInv
<1>10. Chain(frees', Links') /\ Apart(frees', Sizes')
  <2>1. Links'[NULL] = Links[NULL]
    BY <1>1, <1>2, ViewFacts, ViewFactsNext
  <2> QED
    BY <1>2, <1>7, <1>8, <2>1 DEF HeapInv, Chain, Apart
<1>11. Accounted'
  <2>1. UnitsOf(frees', Sizes') = UnitsOf(frees, Sizes)
    BY <1>2, <1>7, <1>8 DEF UnitsOf
  <2> QED
    BY <1>1, <2>1 DEF HeapInv, Accounted
<1>12. Marked'
  <2> SUFFICES ASSUME NEW a \in Addr PROVE mem'[a].magic = "USED" <=> live[a] # 0
    BY <1>1 DEF Marked
  <2>1. CASE a \in (cur + 1) .. (cur + req)
    BY <1>1, <1>3, <1>5, <2>1
  <2>2. CASE a \notin (cur + 1) .. (cur + req)
    BY <1>1, <2>2 DEF HeapInv, Marked
  <2> QED
    BY <2>1, <2>2
<1>13. Room'
  BY <1>1, <1>2, <1>4, <1>7 DEF HeapInv, Room
<1>14. DataIntact'
  <2> SUFFICES ASSUME NEW a \in Live, NEW u \in (a + 1) .. (a + live[a])
               PROVE  mem'[u] = Data(a)
    BY <1>1, <1>7 DEF DataIntact
  <2>1. u \in Addr /\ \A b \in Blocks : b <= u /\ u < b + mem[b].size => b = a
    BY Interior
  <2>2. CASE a = cur
    BY <1>1, <2>1, <2>2
  <2>3. CASE a # cur
    <3>1. mem[u] = Data(a)
      BY <1>1, <2>3 DEF HeapInv, DataIntact
    <3>2. a <= u /\ u < a + mem[a].size
      <4>1. a \in Nat /\ live[a] \in Nat /\ mem[a].size \in Nat /\ live[a] < mem[a].size
        BY <1>2, ViewFacts DEF HeapInv, Room, Live, TypeOK
      <4> QED
        BY <4>1
    <3>3. u \notin (cur + 1) .. (cur + req)
      BY <1>2, <1>3, <2>3, <3>2
    <3> QED
      BY <1>1, <2>1, <3>1, <3>3
  <2> QED
    BY <2>2, <2>3
<1>15. CallInv' /\ (Live \cap frees = {})'
  BY <1>1, <1>7 DEF HeapInv, CallInv
<1> QED
  BY <1>6, <1>9, <1>10, <1>11, <1>12, <1>13, <1>14, <1>15 DEF HeapInv

-----------------------------------------------------------------------------
(* The invariant.                                                          *)

LEMMA HeapInit == Init => HeapInv
<1> SUFFICES ASSUME Init PROVE HeapInv
  OBVIOUS
<1>1. Units \in Nat /\ Units >= 1 /\ 1 \in Addr /\ NULL = 0 /\ Units < WordUnits /\ WordUnits \in Nat
  BY MiniHeapAssumption DEF Addr, NULL
<1>2. TypeOK
  <2>1. mem \in [Addr -> Headers]
    BY <1>1 DEF Init, Header, Headers, Size
  <2>2. live \in [Addr -> Nat]
    BY DEF Init
  <2> QED
    BY <1>1, <2>1, <2>2 DEF Init, TypeOK, Size
<1>3. frees = {1} /\ Live = {} /\ Blocks = {1} /\ \A a \in Addr : live[a] = 0
  BY DEF Init, Live, Blocks
<1>4. /\ mem[1].size = Units /\ mem[1].next = NULL /\ freeList = 1
      /\ \A a \in Addr : mem[a].magic # "USED"
  BY <1>1 DEF Init, Header
<1>5. Sizes[1] = Units /\ Links[1] = NULL /\ Links[NULL] = 1
  BY <1>1, <1>2, <1>4, ViewFacts
<1>6. Tiles(Blocks, Sizes)
  BY <1>1, <1>3, <1>5 DEF Tiles, Addr
<1>7. Chain(frees, Links)
  BY <1>1, <1>3, <1>5 DEF Chain, IsNext
<1>8. Apart(frees, Sizes)
  BY <1>1, <1>3, <1>5 DEF Apart
<1>9. Accounted
  <2>1. UnitsOf(frees, Sizes) = Addr
    BY <1>1, <1>3, <1>5 DEF UnitsOf, Addr
  <2>2. Cardinality(Addr) = Units
    BY <1>1, FS_Interval DEF Addr
  <2> QED
    BY <2>1, <2>2 DEF Init, Accounted
<1>10. Marked /\ Room /\ DataIntact
  BY <1>3, <1>4 DEF Marked, Room, DataIntact
<1>11. CallInv
  BY DEF Init, CallInv
<1> QED
  BY <1>2, <1>3, <1>6, <1>7, <1>8, <1>9, <1>10, <1>11 DEF HeapInv

LEMMA HeapStutter == HeapInv /\ UNCHANGED vars => HeapInv'
<1> SUFFICES ASSUME HeapInv, UNCHANGED vars PROVE HeapInv'
  OBVIOUS
<1>1. UNCHANGED <<mem, freeList, freeBytes, pc, prev, cur, block, total, req, live, stale, frees>>
  BY DEF vars, regs
<1>2. Sizes' = Sizes /\ Links' = Links /\ Live' = Live /\ Blocks' = Blocks /\ frees' = frees
  BY <1>1 DEF Sizes, Links, Live, Blocks
<1>3. TypeOK'
  BY <1>1 DEF HeapInv, TypeOK
<1>4. Marked' /\ Room' /\ DataIntact'
  BY <1>1, <1>2 DEF HeapInv, Marked, Room, DataIntact
<1>5. Accounted' /\ CallInv'
  BY <1>1, <1>2 DEF HeapInv, Accounted, CallInv
<1> QED
  BY <1>2, <1>3, <1>4, <1>5 DEF HeapInv

LEMMA HeapNext == HeapInv /\ [Next]_vars => HeapInv'
<1> SUFFICES ASSUME HeapInv, Next PROVE HeapInv'
  BY HeapStutter
<1>1. CASE \/ \E n \in Requests : AllocRefuse(n) \/ AllocCall(n)
           \/ AllocScan \/ AllocFail
           \/ \E a \in Addr : FreePanic(a) \/ FreeCall(a)
           \/ FreeScan
  BY <1>1, CallSteps
<1>2. CASE AllocExact
  BY <1>2, AllocExactStep
<1>3. CASE AllocSplit
  BY <1>3, AllocSplitStep
<1>4. CASE Fill
  BY <1>4, FillStep
<1>5. CASE FreeJoinPrev
  BY <1>5, FreeJoinPrevStep
<1>6. CASE FreeInsert
  BY <1>6, FreeInsertStep
<1> QED
  BY <1>1, <1>2, <1>3, <1>4, <1>5, <1>6 DEF Next

(* The heap's inductive invariant: blocks tile the heap, the list links    *)
(* the free ones in address order, magic numbers and byte count agree.     *)
THEOREM HeapInvariant == Spec => []HeapInv
<1>1. Init => HeapInv
  BY HeapInit
<1>2. HeapInv /\ [Next]_vars => HeapInv'
  BY HeapNext
<1> QED
  BY <1>1, <1>2, PTL DEF Spec

(* The variables keep their types, for requests whose rounded size and     *)
(* header fit 32 bits (MiniHeapAssumption).                                *)
THEOREM HeapTypeCorrect == Spec => []TypeOK
<1>1. HeapInv => TypeOK
  BY DEF HeapInv
<1> QED
  BY <1>1, HeapInvariant, PTL

(* Every unit of the heap is in exactly one block, allocated blocks hold   *)
(* what was asked for, and free_bytes counts the free units.               *)
THEOREM BlocksTileTheHeap == Spec => []Tiling
<1>1. ASSUME HeapInv PROVE Tiling
  <2>1. TypeOK /\ Tiles(Blocks, Sizes) /\ Room /\ Accounted /\ frees \subseteq Blocks
    BY <1>1 DEF HeapInv, Blocks
  <2>2. \A b \in Blocks : Sizes[b] = mem[b].size /\ b \in Nat /\ mem[b].size \in Nat /\ b \in Addr
    BY <2>1, ViewFacts DEF Tiles
  <2>3. \A b \in Blocks, u \in Addr : u \in Extent(b) <=> b <= u /\ u < b + Sizes[b]
    BY <2>2, AddrInts DEF Extent
  <2>4. \A b \in Blocks : mem[b].size >= 1 /\ b + mem[b].size <= Units + 1
    BY <2>1, <2>2 DEF Tiles
  <2>5. \A u \in Addr : \E b \in Blocks : u \in Extent(b)
    BY <2>1, <2>3 DEF Tiles
  <2>6. \A a, b \in Blocks : a < b => a + mem[a].size <= b
    BY <2>1, <2>2 DEF Tiles
  <2>7. \A a \in Live : mem[a].size > live[a]
    BY <2>1, <2>2 DEF Room, Blocks, Live, TypeOK
  <2>8. UnitsOf(frees, Sizes) = {u \in Addr : \E b \in frees : u \in Extent(b)}
    BY <2>1, <2>3 DEF UnitsOf
  <2> QED
    BY <2>1, <2>4, <2>5, <2>6, <2>7, <2>8 DEF Tiling, Accounted
<1> QED
  BY <1>1, HeapInvariant, PTL

LEMMA NextFreeIs ==
    ASSUME frees \subseteq Nat, NEW a \in Nat, NEW n, IsNext(frees, a, n)
    PROVE  n = NextFree(a)
<1>1. CASE n = NULL /\ \A d \in frees : d <= a
  <2>1. ~ \E b \in frees : b > a
    BY <1>1
  <2> QED
    BY <1>1, <2>1 DEF NextFree
<1>2. CASE n \in frees /\ n > a /\ \A d \in frees : d > a => n <= d
  <2> DEFINE P(b) == b \in frees /\ b > a /\ \A d \in frees : d > a => b <= d
             c == CHOOSE b \in frees : b > a /\ \A d \in frees : d > a => b <= d
  <2>1. NextFree(a) = c
    BY <1>2 DEF NextFree
  <2>2. P(c)
    BY <1>2
  <2> HIDE DEF c
  <2>3. n \in Nat /\ c \in Nat /\ n <= c /\ c <= n
    BY <1>2, <2>2
  <2> QED
    BY <2>1, <2>3
<1> QED
  BY <1>1, <1>2 DEF IsNext

(* The list free and malloc walk is exactly the free blocks in address     *)
(* order, and no two of them touch: coalescing is never missed.            *)
THEOREM FreeListIsSound == Spec => []FreeListSound
<1>1. ASSUME HeapInv PROVE FreeListSound
  <2>1. TypeOK /\ Chain(frees, Links) /\ Apart(frees, Sizes)
    BY <1>1 DEF HeapInv
  <2>2. frees \subseteq Addr /\ frees \subseteq Nat /\ NULL = 0 /\ NULL \in Nat
    BY <2>1, AddrInts DEF Chain, NULL
  <2>3. IsNext(frees, NULL, freeList) /\ \A a \in frees : IsNext(frees, a, mem[a].next)
    BY <2>1, <2>2, ViewFacts DEF Chain
  <2>4. freeList = NextFree(0)
    BY <2>2, <2>3, NextFreeIs
  <2>5. \A a \in frees : mem[a].next = NextFree(a)
    BY <2>2, <2>3, NextFreeIs
  <2>6. \A a, b \in frees : a + mem[a].size # b
    BY <2>1, <2>2, ViewFacts DEF Apart
  <2> QED
    BY <2>4, <2>5, <2>6 DEF FreeListSound
<1> QED
  BY <1>1, HeapInvariant, PTL

(* free accepts every pointer that is allocated and panics on every one    *)
(* that was freed before.                                                  *)
THEOREM MagicIsReliable == Spec => []MagicDiscriminates
<1>1. HeapInv => MagicDiscriminates
  BY DEF HeapInv, Marked, MagicDiscriminates
<1> QED
  BY <1>1, HeapInvariant, PTL

(* Neither malloc nor free writes into memory a caller holds.              *)
THEOREM CallersDataIntact == Spec => []DataIntact
<1>1. HeapInv => DataIntact
  BY DEF HeapInv
<1> QED
  BY <1>1, HeapInvariant, PTL
=============================================================================
