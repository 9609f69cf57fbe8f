----------------------------- MODULE LibcString -----------------------------
(***************************************************************************)
(* The functions of string.c on a memory: a function from addresses to     *)
(* bytes, 0 being the terminator.  A loop is a recursive function of its   *)
(* index; a pointer is an address.  Words have WordBytes bytes, 8 in the   *)
(* code; char is unsigned, as on AArch64.                                  *)
(***************************************************************************)
EXTENDS Integers, FiniteSets, Sequences, SequencesExt

CONSTANTS MemSize, WordBytes, Bytes

ASSUME LibcStringAssumption ==
    /\ MemSize \in Nat \ {0}
    /\ WordBytes \in Nat \ {0}
    /\ Bytes \subseteq 0 .. 255 /\ 0 \in Bytes

VARIABLE mem

Addr == 0 .. (MemSize - 1)
Mem  == [Addr -> Bytes]

(* m with the bytes at a, a + 1, ... replaced by s                         *)
Patch(m, a, s) ==
    [u \in Addr |-> IF u \in a .. (a + Len(s) - 1) THEN s[u - a + 1] ELSE m[u]]

Load(m, a, k) == [i \in 1 .. k |-> m[a + i - 1]]

-----------------------------------------------------------------------------
(* memcpy: whole words first, then the remaining bytes.                    *)
Memcpy(m, d, s, n) ==
    LET steps == n \div WordBytes
        word[i \in 0 .. steps] ==
            IF i = 0 THEN m
            ELSE LET at == (i - 1) * WordBytes
                 IN  Patch(word[i - 1], d + at, Load(word[i - 1], s + at, WordBytes))
        done == steps * WordBytes
        byte[i \in 0 .. (n % WordBytes)] ==
            IF i = 0 THEN word[steps]
            ELSE LET at == done + i - 1
                 IN  Patch(byte[i - 1], d + at, Load(byte[i - 1], s + at, 1))
    IN  byte[n % WordBytes]

(* memset: word_c is the byte shifted by 0, 8, 16, ... bits, or-ed, which  *)
(* puts it at one byte of the (little-endian) word each time.              *)
Memset(m, d, c, n) ==
    LET steps  == n \div WordBytes
        byte   == c % 256
        shifts == {8 * k : k \in 0 .. (WordBytes - 1)}
        word   == [i \in 1 .. WordBytes |-> IF 8 * (i - 1) \in shifts THEN byte ELSE 0]
        words  == [i \in 1 .. (steps * WordBytes) |-> word[((i - 1) % WordBytes) + 1]]
        tail   == [i \in 1 .. (n % WordBytes) |-> byte]
    IN  Patch(Patch(m, d, words), d + steps * WordBytes, tail)

-----------------------------------------------------------------------------
(* Where the loop that looks for the terminator stops, or memory does: the *)
(* functions below are called on strings.                                  *)
Strlen(m, s) ==
    LET len[k \in 0 .. (MemSize - s)] ==
            IF k = MemSize - s \/ m[s + k] = 0 THEN k ELSE len[k + 1]
    IN  len[0]

Strcmp(m, s1, s2) ==
    LET cmp[k \in 0 .. Strlen(m, s1)] ==
            IF m[s1 + k] # 0 /\ m[s1 + k] = m[s2 + k] THEN cmp[k + 1]
            ELSE m[s1 + k] - m[s2 + k]
    IN  cmp[0]

Strncmp(m, s1, s2, n) ==
    LET cmp[i \in 0 .. n] ==
            IF i < n /\ m[s1 + i] = m[s2 + i] /\ m[s1 + i] # 0 THEN cmp[i + 1]
            ELSE IF i < n THEN m[s1 + i] - m[s2 + i] ELSE 0
    IN  cmp[0]

(* *d++ = *src++ until the terminator has been copied                      *)
Strcpy(m, d, s) ==
    LET cpy[k \in 0 .. Strlen(m, s)] ==
            LET before == IF k = 0 THEN m ELSE cpy[k - 1]
            IN  Patch(before, d + k, Load(before, s + k, 1))
    IN  cpy[Strlen(m, s)]

(* How many bytes the first loop of strncpy and strncat copies.            *)
CopyLoop(m, s, n) ==
    LET i[k \in 0 .. n] == IF k < n /\ m[s + k] # 0 THEN i[k + 1] ELSE k
    IN  i[0]

(* Mutant: the second loop stops one byte early.                           *)
StrncpyShort(m, d, s, n) ==
    LET i == CopyLoop(m, s, n)
    IN  Patch(m, d, Load(m, s, i) \o [k \in 1 .. (n - i - 1) |-> 0])

(* The second loop fills up with zeros.                                    *)
Strncpy(m, d, s, n) ==
    LET i == CopyLoop(m, s, n)
    IN  Patch(m, d, Load(m, s, i) \o [k \in 1 .. (n - i) |-> 0])

Strcat(m, d, s) == Strcpy(m, d + Strlen(m, d), s)

Strncat(m, d, s, n) ==
    Patch(m, d + Strlen(m, d), Load(m, s, CopyLoop(m, s, n)) \o <<0>>)

(* The inner loop of strstr stops at k[0]; at the end of the needle?       *)
Matches(m, h, n) ==
    LET k[i \in 0 .. Strlen(m, n)] ==
            IF m[h + i] # 0 /\ m[n + i] # 0 /\ m[h + i] = m[n + i]
            THEN k[i + 1] ELSE i
    IN  m[n + k[0]] = 0

(* NULL is -1.                                                             *)
Strstr(m, h, n) ==
    LET from[a \in h .. (h + Strlen(m, h))] ==
            IF m[a] = 0 THEN -1
            ELSE IF m[a] = m[n] /\ Matches(m, a, n) THEN a ELSE from[a + 1]
    IN  IF m[n] = 0 THEN h ELSE from[h]

-----------------------------------------------------------------------------
(* What the functions are for, by the strings they work on.                *)

IsString(m, a) == \E b \in Addr : b >= a /\ m[b] = 0
Str(m, a) == Load(m, a, CHOOSE k \in 0 .. MemSize :
                            m[a + k] = 0 /\ \A j \in 0 .. (k - 1) : m[a + j] # 0)

Disjoint(a, k, b, l) == a + k <= b \/ b + l <= a
Fits(a, k) == a + k <= MemSize

Sign(x) == IF x < 0 THEN -1 ELSE IF x > 0 THEN 1 ELSE 0
Order(s, t) ==
    CASE s = t -> 0
      [] IsStrictPrefix(s, t) -> -1
      [] IsStrictPrefix(t, s) -> 1
      [] OTHER -> LET i == CHOOSE k \in 1 .. Len(s) :
                               s[k] # t[k] /\ \A j \in 1 .. (k - 1) : s[j] = t[j]
                  IN  Sign(s[i] - t[i])
Cut(s, n) == SubSeq(s, 1, IF n < Len(s) THEN n ELSE Len(s))

StringInit == mem \in Mem

(* The calls that write, with arguments for which C defines them.          *)
CopyBytes(d, s, n) ==
    /\ Fits(d, n) /\ Fits(s, n) /\ Disjoint(d, n, s, n)
    /\ mem' = Memcpy(mem, d, s, n)

SetBytes(d, c, n) ==
    /\ Fits(d, n)
    /\ mem' = Memset(mem, d, c, n)

(* strcpy and strcat, strncpy and strncat: the text of s ends up at e, the *)
(* start or the end of the string at d.                                    *)
CopyString(d, s) ==
    /\ IsString(mem, s)
    /\ LET k == Len(Str(mem, s)) + 1 IN
        \/ /\ Fits(d, k) /\ Disjoint(d, k, s, k)
           /\ mem' = Strcpy(mem, d, s)
        \/ /\ IsString(mem, d)
           /\ LET e == d + Len(Str(mem, d)) IN Fits(e, k) /\ Disjoint(d, e + k - d, s, k)
           /\ mem' = Strcat(mem, d, s)

CopyAtMost(d, s, n) ==
    /\ IsString(mem, s)
    /\ LET k == Len(Str(mem, s)) + 1 IN
        \/ /\ Fits(d, n) /\ Disjoint(d, n, s, k)
           /\ mem' = Strncpy(mem, d, s, n)
        \/ /\ IsString(mem, d)
           /\ LET e == d + Len(Str(mem, d)) IN Fits(e, k) /\ Disjoint(d, e + k - d, s, k)
           /\ mem' = Strncat(mem, d, s, n)

StringNext ==
    \E d, s \in Addr :
        \/ CopyString(d, s)
        \/ \E n \in 0 .. MemSize :
              \/ CopyBytes(d, s, n)
              \/ CopyAtMost(d, s, n)
              \/ \E c \in Bytes : SetBytes(d, c, n)

StringSpec == StringInit /\ [][StringNext]_mem

-----------------------------------------------------------------------------
(* memcpy moves n bytes exactly if the areas are disjoint or the           *)
(* destination is the lower one; memset sets n bytes; nothing else changes.*)
BlockContracts(m) ==
    \A d, s \in Addr : \A n \in 0 .. (MemSize - d) :
        /\ Fits(s, n) /\ (d <= s \/ Disjoint(d, n, s, n)) =>
              Memcpy(m, d, s, n) = Patch(m, d, Load(m, s, n))
        /\ \A c \in Bytes : Memset(m, d, c, n) = Patch(m, d, [i \in 1 .. n |-> c])

(* strcpy, strcat and strncat leave the string they should, terminated,    *)
(* strncpy n bytes whatever the length of the source; no other byte of     *)
(* memory changes.                                                         *)
CopyContracts(m) ==
    \A d, s \in {a \in Addr : IsString(m, a)} :
        LET t == Str(m, s)
            e == d + Len(Str(m, d))
        IN  /\ Fits(d, Len(t) + 1) /\ Disjoint(d, Len(t) + 1, s, Len(t) + 1) =>
                  Strcpy(m, d, s) = Patch(m, d, t \o <<0>>)
            /\ Fits(e, Len(t) + 1) /\ Disjoint(d, e + Len(t) + 1 - d, s, Len(t) + 1) =>
                  Strcat(m, d, s) = Patch(m, e, t \o <<0>>)
            /\ \A n \in 0 .. MemSize :
                  LET u == Cut(t, n)
                  IN /\ Fits(d, n) /\ Disjoint(d, n, s, Len(t) + 1) =>
                           Strncpy(m, d, s, n) =
                               Patch(m, d, u \o [i \in 1 .. (n - Len(u)) |-> 0])
                     /\ Fits(e, Len(u) + 1) /\ Disjoint(d, e + Len(u) + 1 - d, s, Len(t) + 1) =>
                           Strncat(m, d, s, n) = Patch(m, e, u \o <<0>>)

(* strcmp and strncmp order strings as their bytes do, and strstr finds    *)
(* the first occurrence.                                                   *)
SearchContracts(m) ==
    \A a, b \in {x \in Addr : IsString(m, x)} :
        /\ Sign(Strcmp(m, a, b)) = Order(Str(m, a), Str(m, b))
        /\ \A n \in 0 .. MemSize :
              Sign(Strncmp(m, a, b, n)) = Order(Cut(Str(m, a), n), Cut(Str(m, b), n))
        /\ LET t     == Str(m, b)
               found == {x \in a .. (a + Len(Str(m, a))) : IsPrefix(t, Str(m, x))}
           IN  Strstr(m, a, b) = IF found = {} THEN -1
                                 ELSE CHOOSE x \in found : \A y \in found : x <= y

(* string.c does what C asks of it, on every memory: copies and fills      *)
(* reach exactly the bytes they should, comparison and search agree with   *)
(* the strings.                                                            *)
StringContracts == BlockContracts(mem) /\ CopyContracts(mem) /\ SearchContracts(mem)
=============================================================================
