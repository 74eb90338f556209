-------------------------------- MODULE Heap --------------------------------
(***************************************************************************)
(* The kernel heap of kernel/memory.c: one linked list of blocks, each a   *)
(* header followed by its payload.  kmalloc walks the list from free_list  *)
(* to the first free block that is large enough and splits it; kfree marks *)
(* a block free and walks the whole list merging free neighbours.          *)
(*                                                                         *)
(* Addresses and sizes are counted in words of 8 bytes.  One iteration of  *)
(* a loop of the code is one step, so that what holds half way through a   *)
(* walk can be stated.  Calls do not overlap: the code takes no lock, and  *)
(* nothing preempts it while IRQ 0 stays masked (interrupt.c:91).          *)
(***************************************************************************)
EXTENDS Integers

CONSTANTS
    HeapBase,    \* address of heap[0]; NULL is address 0
    HeapSize,    \* HEAP_SIZE
    HeaderSize,  \* sizeof(memory_block_t)
    Align,       \* the 16 bytes sizes are rounded up to
    MinSplit,    \* the 16 bytes a split must leave over
    Sizes        \* the sizes callers ask for

ASSUME HeapAssumption ==
    /\ HeapBase \in Nat \ {0}
    /\ HeaderSize \in Nat \ {0}
    /\ HeapSize \in Nat /\ HeapSize > HeaderSize
    /\ Align \in Nat \ {0}
    /\ MinSplit \in Nat
    /\ Sizes \subseteq Nat

VARIABLES
    blk,    \* header address -> [size, next, free], of every block of the list
    pc,     \* "idle", or the loop being run: "search" in kmalloc, "merge" in kfree
    curr,   \* the loop's cursor (block in kmalloc, curr in kfree)
    want,   \* the aligned size kmalloc is looking for
    reply   \* what the last kmalloc returned

vars == <<blk, pc, curr, want, reply>>

NULL == 0
HeapLimit == HeapBase + HeapSize

AlignUp(n) == ((n + Align - 1) \div Align) * Align

(* The word after block h, where the next block's header is.               *)
EndOf(h) == h + HeaderSize + blk[h].size

Fits(h) == blk[h].free /\ blk[h].size >= want

(* The pointers kmalloc has handed out and kfree has not taken back: what  *)
(* the callers in task.c and syscall.c may pass to kfree.                  *)
Live == {h + HeaderSize : h \in {g \in DOMAIN blk : ~blk[g].free}}

-----------------------------------------------------------------------------
(* memory_init, which kernel_main runs before anything allocates.          *)
Init ==
    /\ blk = [h \in {HeapBase} |->
                [size |-> HeapSize - HeaderSize, next |-> NULL, free |-> TRUE]]
    /\ pc = "idle"
    /\ curr = NULL
    /\ want = 0
    /\ reply = NULL

(* Mutant: the search starts at the second block.                          *)
KmallocCallFromSecond(n) ==
    /\ pc = "idle"
    /\ n > 0
    /\ pc' = "search"
    /\ curr' = IF blk[HeapBase].next = NULL THEN HeapBase ELSE blk[HeapBase].next
    /\ want' = AlignUp(n)
    /\ UNCHANGED <<blk, reply>>

KmallocCall(n) ==
    /\ pc = "idle"
    /\ \/ /\ n = 0
          /\ reply' = NULL
          /\ UNCHANGED <<pc, curr, want>>
       \/ /\ n > 0
          /\ pc' = "search"
          /\ curr' = HeapBase
          /\ want' = AlignUp(n)
          /\ UNCHANGED reply
    /\ UNCHANGED blk

(* Mutant: the list is walked as if it were circular.                      *)
KmallocSkipAround ==
    /\ pc = "search"
    /\ curr # NULL
    /\ ~Fits(curr)
    /\ curr' = IF blk[curr].next = NULL THEN HeapBase ELSE blk[curr].next
    /\ UNCHANGED <<blk, pc, want, reply>>

KmallocSkip ==
    /\ pc = "search"
    /\ curr # NULL
    /\ ~Fits(curr)
    /\ curr' = blk[curr].next
    /\ UNCHANGED <<blk, pc, want, reply>>

(* Mutant: the rest's own header is not taken off its size.                *)
SplitForgetsHeader(h) ==
    LET rest == h + HeaderSize + want
    IN  [g \in DOMAIN blk \cup {rest} |->
           IF g = h THEN [size |-> want, next |-> rest, free |-> FALSE]
           ELSE IF g = rest
           THEN [size |-> blk[h].size - want, next |-> blk[h].next, free |-> TRUE]
           ELSE blk[g]]

(* The block is cut to the wanted size when the rest can hold a header and *)
(* more than MinSplit words; otherwise it is handed out whole.             *)
Split(h) ==
    LET rest == h + HeaderSize + want
    IN  [g \in DOMAIN blk \cup {rest} |->
           IF g = h THEN [size |-> want, next |-> rest, free |-> FALSE]
           ELSE IF g = rest
           THEN [size |-> blk[h].size - want - HeaderSize,
                 next |-> blk[h].next, free |-> TRUE]
           ELSE blk[g]]

KmallocTake ==
    /\ pc = "search"
    /\ curr # NULL
    /\ Fits(curr)
    /\ blk' = IF blk[curr].size > want + HeaderSize + MinSplit
              THEN Split(curr)
              ELSE [blk EXCEPT ![curr].free = FALSE]
    /\ reply' = curr + HeaderSize
    /\ pc' = "idle"
    /\ curr' = NULL
    /\ want' = 0

KmallocFail ==
    /\ pc = "search"
    /\ curr = NULL
    /\ reply' = NULL
    /\ pc' = "idle"
    /\ want' = 0
    /\ UNCHANGED <<blk, curr>>

-----------------------------------------------------------------------------
KfreeCall(p) ==
    /\ pc = "idle"
    /\ blk' = [blk EXCEPT ![p - HeaderSize].free = TRUE]
    /\ pc' = "merge"
    /\ curr' = HeapBase
    /\ UNCHANGED <<want, reply>>

(* The loop's condition for merging the block at h with its successor.     *)
Mergeable(h) ==
    /\ blk[h].free
    /\ blk[h].next # NULL
    /\ blk[blk[h].next].free

(* Mutant: the merged block still points at the one it took in.            *)
MergedKeepsNext(h) ==
    LET n == blk[h].next
    IN  [g \in DOMAIN blk \ {n} |->
           IF g = h
           THEN [blk[h] EXCEPT !.size = blk[h].size + HeaderSize + blk[n].size]
           ELSE blk[g]]

Merged(h) ==
    LET n == blk[h].next
    IN  [g \in DOMAIN blk \ {n} |->
           IF g = h THEN [size |-> blk[h].size + HeaderSize + blk[n].size,
                          next |-> blk[n].next, free |-> TRUE]
           ELSE blk[g]]

(* Mutant: the cursor goes on after a merge.                               *)
KfreeMergeAdvances ==
    /\ pc = "merge"
    /\ curr # NULL
    /\ Mergeable(curr)
    /\ blk' = Merged(curr)
    /\ curr' = blk'[curr].next
    /\ UNCHANGED <<pc, want, reply>>

(* After a merge the cursor stays: the grown block may merge again.        *)
KfreeMerge ==
    /\ pc = "merge"
    /\ curr # NULL
    /\ Mergeable(curr)
    /\ blk' = Merged(curr)
    /\ UNCHANGED <<pc, curr, want, reply>>

KfreeAdvance ==
    /\ pc = "merge"
    /\ curr # NULL
    /\ ~Mergeable(curr)
    /\ curr' = blk[curr].next
    /\ UNCHANGED <<blk, pc, want, reply>>

KfreeReturn ==
    /\ pc = "merge"
    /\ curr = NULL
    /\ pc' = "idle"
    /\ UNCHANGED <<blk, curr, want, reply>>

-----------------------------------------------------------------------------
Step == KmallocSkip \/ KmallocTake \/ KmallocFail
        \/ KfreeMerge \/ KfreeAdvance \/ KfreeReturn

Next ==
    \/ \E n \in Sizes : KmallocCall(n)
    \/ \E p \in Live : KfreeCall(p)
    \/ Step

Spec == Init /\ [][Next]_vars

(* A call that has begun keeps running: the kernel is not interrupted.     *)
FairSpec == Spec /\ WF_vars(Step)

-----------------------------------------------------------------------------
Block == [size : Nat, next : DOMAIN blk \cup {NULL}, free : BOOLEAN]

TypeOK ==
    /\ DOMAIN blk \subseteq HeapBase .. HeapLimit - 1
    /\ HeapBase \in DOMAIN blk
    /\ blk \in [DOMAIN blk -> Block]
    /\ pc \in {"idle", "search", "merge"}
    /\ curr \in DOMAIN blk \cup {NULL}
    /\ want \in {0} \cup {AlignUp(n) : n \in Sizes}
    /\ reply \in Nat

(* Every word of the heap belongs to exactly one block, header or payload: *)
(* splitting and merging lose no memory and hand no word out twice.        *)
Tiling ==
    /\ \A h \in DOMAIN blk : EndOf(h) <= HeapLimit
    /\ \A g, h \in DOMAIN blk : g < h => EndOf(g) <= h
    /\ \A x \in HeapBase .. HeapLimit - 1 :
          \E h \in DOMAIN blk : h <= x /\ x < EndOf(h)

(* The list links the blocks in address order: each header points at the   *)
(* word after its own block, which is what lets kfree merge a block with   *)
(* its list successor by adding their sizes.                               *)
Linked ==
    \A h \in DOMAIN blk :
        blk[h].next = IF EndOf(h) = HeapLimit THEN NULL ELSE EndOf(h)

(* Between calls no two free blocks are neighbours: one walk of kfree's    *)
(* loop is enough to merge a run of any length.                            *)
Coalesced == pc # "merge" => \A h \in DOMAIN blk : ~Mergeable(h)

(* Behind the cursor everything is settled: kmalloc has passed no block    *)
(* that was large enough, kfree has left no two free neighbours.           *)
WalkedOver ==
    \A h \in DOMAIN blk : curr = NULL \/ h < curr =>
        /\ pc = "search" => ~Fits(h)
        /\ pc = "merge" => ~Mergeable(h)

(* kmalloc is first fit: the block it hands out is the lowest one that     *)
(* was large enough.                                                       *)
FirstFit ==
    [][\A p \in Live' \ Live :
          \A h \in DOMAIN blk : h < p - HeaderSize => ~Fits(h)]_vars

(* Every call of kmalloc or kfree returns: neither loop can run forever.   *)
CallReturns == pc # "idle" ~> pc = "idle"

(* The promise of Alloc, with a live allocation for each block in use.     *)
Abstract == INSTANCE Alloc WITH
    Base <- HeapBase,
    Limit <- HeapLimit,
    Slack <- HeaderSize + MinSplit,
    Sizes <- {AlignUp(n) : n \in Sizes},
    live <- [p \in Live |-> blk[p - HeaderSize].size],
    pending <- IF pc = "search" THEN want ELSE 0

ImplementsAlloc == Abstract!Spec
=============================================================================
