------------------------------ MODULE MiniHeap ------------------------------
(***************************************************************************)
(* The first-fit allocator of miniheap.c behind malloc and free, one       *)
(* action per loop iteration and per way out of the loops.                 *)
(*                                                                         *)
(* Memory is counted in units of MINIHEAP_ALIGNMENT (16) bytes: addresses  *)
(* 1 .. Units, 0 is NULL, and every header fills one unit                  *)
(* (MINIHEAP_USEDHEADER_SIZE).  Block sizes are uint32_t in the code, so   *)
(* they are computed modulo WordUnits = 2^32 / 16.                         *)
(***************************************************************************)
EXTENDS Integers, FiniteSets

CONSTANTS
    Units,      \* size of the heap
    WordUnits,  \* block sizes wrap at this many units
    Requests    \* the sizes malloc is called with, rounded up to units

(* ZHYPER_HEAP_SIZE is far below 4 GiB, and nobody asks for the last unit  *)
(* below 4 GiB or more: the rounded size and its header must fit 32 bits   *)
(* (a request of 2^32 - 16 bytes would get a block of size 0).             *)
ASSUME MiniHeapAssumption ==
    /\ Units \in Nat \ {0}
    /\ WordUnits \in Nat
    /\ Units < WordUnits
    /\ Requests \subseteq 0 .. (WordUnits - 2)

VARIABLES
    mem,        \* what each unit holds: a header, or somebody's data
    freeList,   \* heap->free_list
    freeBytes,  \* heap->free_bytes, in units
    pc,         \* where the running call is
    prev, cur,  \* the loop variables of both functions
    block,      \* miniheap_free: the block being freed
    total,      \* miniheap_alloc: total_size
    req,        \* miniheap_alloc: the size asked for
    live,       \* history: block -> units asked for, 0 if not allocated
    stale,      \* history: blocks that were allocated and freed again
    frees       \* history: the blocks put on the free list and not taken off

regs == <<prev, cur, block, total, req>>
vars == <<mem, freeList, freeBytes, pc, regs, live, stale, frees>>

NULL == 0
Addr == 1 .. Units
Size == 0 .. (WordUnits - 1)

(* A header, and a unit of the data that the owner of block a wrote.       *)
Header(m, s, n) == [magic |-> m, size |-> s, next |-> n]
Data(a)         == Header("DATA", a, NULL)

Wrap(n) == n % WordUnits

(* prev->next = a, or heap->free_list = a when there is no prev            *)
LinkFrom(p, a, m) == IF p # NULL THEN [m EXCEPT ![p].next = a] ELSE m
HeadAfter(p, a)   == IF p # NULL THEN freeList ELSE a

-----------------------------------------------------------------------------
(* miniheap_init: one free block spans the heap.                           *)
Init ==
    /\ mem = [u \in Addr |-> IF u = 1 THEN Header("FREE", Units, NULL)
                                      ELSE Header("DATA", 0, NULL)]
    /\ freeList = 1
    /\ freeBytes = Units
    /\ pc = "idle"
    /\ prev = NULL /\ cur = NULL /\ block = NULL
    /\ total = 0 /\ req = 0
    /\ live = [a \in Addr |-> 0]
    /\ stale = {}
    /\ frees = {1}

-----------------------------------------------------------------------------
(* malloc -> miniheap_alloc(size)                                          *)

(* Mutant: no room for the header.                                         *)
TotalSizeNoHeader(n) == Wrap(n)

(* total_size: the rounded size is cut to 32 bits, then the header added.  *)
TotalSize(n) == Wrap(Wrap(n) + 1)

AllocRefused(n) == Wrap(n) = 0 \/ TotalSize(n) > freeBytes

(* The early "return NULL"s.                                               *)
AllocRefuse(n) ==
    /\ pc = "idle"
    /\ AllocRefused(n)
    /\ req' = n
    /\ UNCHANGED <<mem, freeList, freeBytes, pc, prev, cur, block, total,
                   live, stale, frees>>

AllocCall(n) ==
    /\ pc = "idle"
    /\ ~ AllocRefused(n)
    /\ pc' = "alloc"
    /\ req' = n
    /\ total' = TotalSize(n)
    /\ prev' = NULL
    /\ cur' = freeList
    /\ UNCHANGED <<mem, freeList, freeBytes, block, live, stale, frees>>

(* Mutant: cur is not advanced.                                            *)
AllocScanStuck ==
    /\ pc = "alloc"
    /\ cur # NULL
    /\ mem[cur].size < total
    /\ prev' = cur
    /\ UNCHANGED <<mem, freeList, freeBytes, pc, cur, block, total, req,
                   live, stale, frees>>

AllocScan ==
    /\ pc = "alloc"
    /\ cur # NULL
    /\ mem[cur].size < total
    /\ prev' = cur
    /\ cur' = mem[cur].next
    /\ UNCHANGED <<mem, freeList, freeBytes, pc, block, total, req,
                   live, stale, frees>>

(* The loop ran off the list: "return NULL".                               *)
AllocFail ==
    /\ pc = "alloc"
    /\ cur = NULL
    /\ pc' = "idle"
    /\ UNCHANGED <<mem, freeList, freeBytes, regs, live, stale, frees>>

(* The epilogue: account for the block and write the used header into m,   *)
(* leaving its third word alone; the caller then owns the block.           *)
AllocDone(m) ==
    /\ mem' = [m EXCEPT ![cur].magic = "USED", ![cur].size = total]
    /\ freeBytes' = freeBytes - total
    /\ live' = [live EXCEPT ![cur] = req]
    /\ stale' = stale \ {cur}
    /\ pc' = "fill"
    /\ UNCHANGED regs

(* just fit                                                                *)
AllocExact ==
    /\ pc = "alloc"
    /\ cur # NULL
    /\ mem[cur].size = total
    /\ freeList' = HeadAfter(prev, mem[cur].next)
    /\ frees' = frees \ {cur}
    /\ AllocDone(LinkFrom(prev, mem[cur].next, mem))

(* Mutant: the remainder keeps the size of the whole block.                *)
AllocSplitWhole ==
    /\ pc = "alloc"
    /\ cur # NULL
    /\ mem[cur].size > total
    /\ LET new == cur + total
           m   == [mem EXCEPT ![new] = Header("FREE", mem[cur].size,
                                              mem[cur].next)]
       IN  /\ freeList' = HeadAfter(prev, new)
           /\ frees' = (frees \ {cur}) \cup {new}
           /\ AllocDone(LinkFrom(prev, new, m))

(* split block                                                             *)
AllocSplit ==
    /\ pc = "alloc"
    /\ cur # NULL
    /\ mem[cur].size > total
    /\ LET new == cur + total
           m   == [mem EXCEPT ![new] = Header("FREE", mem[cur].size - total,
                                              mem[cur].next)]
       IN  /\ freeList' = HeadAfter(prev, new)
           /\ frees' = (frees \ {cur}) \cup {new}
           /\ AllocDone(LinkFrom(prev, new, m))

(* The caller writes to the memory it was given, as far as it asked for.   *)
Fill ==
    /\ pc = "fill"
    /\ mem' = [u \in Addr |-> IF u \in (cur + 1) .. (cur + req)
                                 THEN Data(cur) ELSE mem[u]]
    /\ pc' = "idle"
    /\ UNCHANGED <<freeList, freeBytes, regs, live, stale, frees>>

-----------------------------------------------------------------------------
(* free -> miniheap_free(ptr), for a pointer that malloc once returned;    *)
(* free(NULL) does nothing.  A wrong magic number panics.                  *)

FreePanic(a) ==
    /\ pc = "idle"
    /\ live[a] # 0 \/ a \in stale
    /\ mem[a].magic # "USED"
    /\ pc' = "panic"
    /\ UNCHANGED <<mem, freeList, freeBytes, regs, live, stale, frees>>

FreeCall(a) ==
    /\ pc = "idle"
    /\ live[a] # 0 \/ a \in stale
    /\ mem[a].magic = "USED"
    /\ pc' = "free"
    /\ block' = a
    /\ prev' = NULL
    /\ cur' = freeList
    /\ UNCHANGED <<mem, freeList, freeBytes, total, req, live, stale, frees>>

(* The list is kept in address order: look for the block's place.          *)
Rear == block + mem[block].size
Before == cur # NULL /\ cur < block /\ ~ cur >= Rear

FreeScan ==
    /\ pc = "free"
    /\ Before
    /\ prev' = cur
    /\ cur' = mem[cur].next
    /\ UNCHANGED <<mem, freeList, freeBytes, pc, block, total, req,
                   live, stale, frees>>

(* Mutant: the adjacency test is off by one.                               *)
JoinsPrevOffByOne == prev # NULL /\ prev + mem[prev].size + 1 = block

JoinsPrev == prev # NULL /\ prev + mem[prev].size = block

(* The epilogue; size is block->size as it was on entry.                   *)
FreeDone(size) ==
    /\ freeBytes' = freeBytes + size
    /\ live' = [live EXCEPT ![block] = 0]
    /\ stale' = stale \cup {block}
    /\ pc' = "idle"
    /\ UNCHANGED regs

(* The free block nb ends where cur starts: nb swallows cur in m.          *)
Swallow(m, nb) ==
    [m EXCEPT ![nb].size = Wrap(@ + m[cur].size), ![nb].next = m[cur].next]

(* Mutant: the merged block keeps its USED magic.                          *)
FreeJoinPrevKeepsMagic ==
    /\ pc = "free"
    /\ ~ Before
    /\ JoinsPrev
    /\ LET size == mem[block].size
           m    == [mem EXCEPT ![prev].size = Wrap(@ + size)]
           joins == cur # NULL /\ prev + m[prev].size = cur
       IN  /\ mem' = IF joins THEN Swallow(m, prev) ELSE m
           /\ frees' = IF joins THEN frees \ {cur} ELSE frees
           /\ FreeDone(size)
    /\ UNCHANGED freeList

(* The block is marked free and merged with the free block before it...    *)
FreeJoinPrev ==
    /\ pc = "free"
    /\ ~ Before
    /\ JoinsPrev
    /\ LET size == mem[block].size
           m    == [mem EXCEPT ![block].magic = "FREE",
                               ![prev].size = Wrap(@ + size)]
           joins == cur # NULL /\ prev + m[prev].size = cur
       IN  /\ mem' = IF joins THEN Swallow(m, prev) ELSE m
           /\ frees' = IF joins THEN frees \ {cur} ELSE frees
           /\ FreeDone(size)
    /\ UNCHANGED freeList

(* ...or linked in behind it; either way a free block right after it is    *)
(* swallowed.                                                              *)
FreeInsert ==
    /\ pc = "free"
    /\ ~ Before
    /\ ~ JoinsPrev
    /\ LET size == mem[block].size
           m    == LinkFrom(prev, block,
                       [mem EXCEPT ![block] = Header("FREE", size, cur)])
           joins == cur # NULL /\ Rear = cur
       IN  /\ mem' = IF joins THEN Swallow(m, block) ELSE m
           /\ frees' = (IF joins THEN frees \ {cur} ELSE frees) \cup {block}
           /\ FreeDone(size)
    /\ freeList' = HeadAfter(prev, block)

-----------------------------------------------------------------------------
Next ==
    \/ \E n \in Requests : AllocRefuse(n) \/ AllocCall(n)
    \/ AllocScan \/ AllocFail \/ AllocExact \/ AllocSplit \/ Fill
    \/ \E a \in Addr : FreePanic(a) \/ FreeCall(a)
    \/ FreeScan \/ FreeJoinPrev \/ FreeInsert

Spec == Init /\ [][Next]_vars

(* A call that has begun is executed to its end.                           *)
Running == \/ AllocScan \/ AllocFail \/ AllocExact \/ AllocSplit \/ Fill
           \/ FreeScan \/ FreeJoinPrev \/ FreeInsert

FairSpec == Spec /\ WF_vars(Running)

-----------------------------------------------------------------------------
Headers == [magic : {"FREE", "USED", "DATA"}, size : Size, next : Addr \cup {NULL}]
Live    == {a \in Addr : live[a] # 0}
Blocks  == frees \cup Live
Extent(b) == b .. (b + mem[b].size - 1)

TypeOK ==
    /\ mem \in [Addr -> Headers]
    /\ freeList \in Addr \cup {NULL}
    /\ freeBytes \in 0 .. Units
    /\ pc \in {"idle", "alloc", "fill", "free", "panic"}
    /\ prev \in Addr \cup {NULL}
    /\ cur \in Addr \cup {NULL}
    /\ block \in Addr \cup {NULL}
    /\ total \in Size
    /\ req \in Nat
    /\ live \in [Addr -> Nat]
    /\ stale \subseteq Addr
    /\ frees \subseteq Addr

(* The next free block above address a, or NULL.                           *)
NextFree(a) ==
    IF \E b \in frees : b > a
      THEN CHOOSE b \in frees : b > a /\ \A d \in frees : d > a => b <= d
      ELSE NULL

(* The list in memory visits exactly the free blocks, in address order,    *)
(* and no two of them touch: freeing merges in both directions.  With      *)
(* Tiling this makes a heap whose blocks have all been freed one free      *)
(* block again, as the stress test expects.                                *)
FreeListSound ==
    /\ freeList = NextFree(0)
    /\ \A a \in frees : mem[a].next = NextFree(a)
    /\ \A a, b \in frees : a + mem[a].size # b

(* Free and allocated blocks tile the heap: every unit belongs to exactly  *)
(* one block, no block sticks out, an allocated block has room for its     *)
(* header and everything that was asked for, and heap->free_bytes, by      *)
(* which malloc refuses requests, is the size of the free ones.            *)
Tiling ==
    /\ \A b \in Blocks : mem[b].size >= 1 /\ b + mem[b].size <= Units + 1
    /\ \A u \in Addr : \E b \in Blocks : u \in Extent(b)
    /\ \A a, b \in Blocks : a < b => a + mem[a].size <= b
    /\ \A a \in Live : mem[a].size > live[a]
    /\ freeBytes = Cardinality({u \in Addr : \E b \in frees : u \in Extent(b)})

(* The USED magic marks the allocated blocks and no other pointer that     *)
(* malloc ever returned: free() accepts every live pointer and panics on   *)
(* every pointer freed before, whether its header still stands there, has  *)
(* been merged away or lies under a block handed out since.  (The data of  *)
(* callers is taken never to equal the USED magic: with such a word at the *)
(* right place free() would accept a stale pointer.)                       *)
MagicDiscriminates ==
    \A a \in Addr :
        live[a] # 0 \/ a \in stale => (mem[a].magic = "USED" <=> live[a] # 0)

(* What a caller wrote stays there until it frees the block.               *)
DataIntact ==
    \A a \in Live :
        ~ (pc = "fill" /\ cur = a) =>
            \A u \in (a + 1) .. (a + live[a]) : mem[u] = Data(a)

(* Both loops end: a call returns.                                         *)
CallsReturn == pc \in {"alloc", "free"} ~> pc = "idle"
=============================================================================
