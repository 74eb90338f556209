----------------------------- MODULE HeapProofs -----------------------------
(***************************************************************************)
(* Proofs about Heap for a heap of any size, any header size, alignment    *)
(* and split threshold, and any request sizes.                             *)
(***************************************************************************)
EXTENDS Heap, TLAPS

(* The inductive invariant.  Tiling alone is not inductive: a split or a   *)
(* merge keeps it only because the list links neighbours (Linked), and     *)
(* Coalesced survives kfree only because of what its walk has left behind  *)
(* the cursor (WalkedOver).                                                *)
IInv == TypeOK /\ Tiling /\ Linked /\ Coalesced /\ WalkedOver

(* Rounding up (memory.c:48) gives a natural number.                       *)
LEMMA AlignUpNat == ASSUME NEW n \in Nat PROVE AlignUp(n) \in Nat
  BY HeapAssumption DEF AlignUp

(* The size kmalloc looks for is a natural number.                         *)
LEMMA WantNat == ASSUME TypeOK PROVE want \in Nat
  BY AlignUpNat, HeapAssumption DEF TypeOK

(* What a block header is made of, and where its block ends.               *)
LEMMA BlockTypes ==
  ASSUME TypeOK, NEW h \in DOMAIN blk
  PROVE  /\ h \in Nat /\ HeapBase <= h /\ h < HeapLimit
         /\ blk[h].size \in Nat
         /\ blk[h].free \in BOOLEAN
         /\ blk[h].next \in DOMAIN blk \cup {NULL}
         /\ EndOf(h) \in Nat /\ h < EndOf(h)
  BY HeapAssumption DEF TypeOK, Block, HeapLimit, EndOf

(* After memory_init.                                                      *)
LEMMA InitIInv == Init => IInv
<1> SUFFICES ASSUME Init PROVE IInv
  OBVIOUS
<1>1. /\ DOMAIN blk = {HeapBase}
      /\ blk[HeapBase] = [size |-> HeapSize - HeaderSize, next |-> NULL, free |-> TRUE]
  BY DEF Init
<1>2. blk \in [DOMAIN blk -> Block]
  <2>1. HeapSize - HeaderSize \in Nat
    BY HeapAssumption
  <2>2. blk[HeapBase] \in Block
    BY <1>1, <2>1 DEF Block
  <2> QED BY <1>1, <2>2 DEF Init
<1>3. TypeOK
  BY <1>1, <1>2, HeapAssumption DEF Init, TypeOK, HeapLimit, NULL
<1>4. Tiling /\ Linked
  BY <1>1, HeapAssumption DEF Tiling, Linked, EndOf, HeapLimit
<1>5. Coalesced /\ WalkedOver
  BY <1>1 DEF Init, Coalesced, WalkedOver, Mergeable
<1> QED BY <1>3, <1>4, <1>5 DEF IInv

(* Marking the one block a call names; what else the blocks say is kept.   *)
LEMMA MarkedBlocks ==
  ASSUME TypeOK, NEW h \in DOMAIN blk, NEW f \in BOOLEAN,
         blk' = [blk EXCEPT ![h].free = f]
  PROVE  /\ DOMAIN blk' = DOMAIN blk
         /\ blk'[h].free = f
         /\ \A g \in DOMAIN blk : /\ blk'[g].size = blk[g].size
                                  /\ blk'[g].next = blk[g].next
                                  /\ g # h => blk'[g] = blk[g]
         /\ blk' \in [DOMAIN blk' -> Block']
<1>1. /\ blk \in [DOMAIN blk -> Block]
      /\ blk[h] \in Block
  BY DEF TypeOK
<1>2. /\ DOMAIN blk' = DOMAIN blk
      /\ \A g \in DOMAIN blk : g # h => blk'[g] = blk[g]
      /\ blk'[h] = [blk[h] EXCEPT !.free = f]
  BY <1>1
<1>3. /\ blk'[h].size = blk[h].size
      /\ blk'[h].next = blk[h].next
      /\ blk'[h].free = f
  BY <1>1, <1>2 DEF Block
<1>4. \A g \in DOMAIN blk : blk'[g] \in Block'
  BY <1>1, <1>2 DEF Block
<1> QED BY <1>1, <1>2, <1>3, <1>4

(* Changing a free flag moves nothing, so the blocks still tile the heap.  *)
LEMMA MarkedTiling ==
  ASSUME TypeOK, Tiling, Linked,
         DOMAIN blk' = DOMAIN blk,
         \A g \in DOMAIN blk : blk'[g].size = blk[g].size /\ blk'[g].next = blk[g].next
  PROVE  Tiling' /\ Linked'
<1>1. \A g \in DOMAIN blk : EndOf(g)' = EndOf(g)
  BY DEF EndOf
<1>2. Tiling'
  BY <1>1 DEF Tiling, HeapLimit
<1>3. Linked'
  BY <1>1 DEF Linked, HeapLimit
<1> QED BY <1>2, <1>3

(* The successor of a block is the block that starts where it ends; no     *)
(* block starts in between, and none after the last.                       *)
LEMMA Successor ==
  ASSUME TypeOK, Tiling, Linked, NEW h \in DOMAIN blk
  PROVE  /\ blk[h].next # NULL => /\ blk[h].next \in DOMAIN blk
                                  /\ blk[h].next = EndOf(h)
                                  /\ h < blk[h].next
         /\ \A g \in DOMAIN blk : /\ blk[h].next # NULL /\ g < blk[h].next => g <= h
                                  /\ blk[h].next = NULL => g <= h
<1>1. /\ h \in Nat /\ h < EndOf(h) /\ EndOf(h) \in Nat
      /\ blk[h].next \in DOMAIN blk \cup {NULL}
  BY BlockTypes
<1>2. /\ blk[h].next = IF EndOf(h) = HeapLimit THEN NULL ELSE EndOf(h)
      /\ \A g \in DOMAIN blk : h < g => EndOf(h) <= g
      /\ EndOf(h) <= HeapLimit
  BY DEF Linked, Tiling
<1>3. \A g \in DOMAIN blk : g \in Nat /\ g < HeapLimit
  BY BlockTypes
<1>4. HeapLimit \in Nat
  BY HeapAssumption DEF HeapLimit
<1> QED BY <1>1, <1>2, <1>3, <1>4 DEF NULL

(* A call of kmalloc sets the cursor to the first block.                   *)
LEMMA MallocCallIInv ==
  ASSUME IInv, NEW n \in Sizes, KmallocCall(n) PROVE IInv'
<1>1. TypeOK'
  BY HeapAssumption DEF IInv, KmallocCall, TypeOK, Block, NULL
<1>2. Tiling' /\ Linked'
  BY DEF IInv, KmallocCall, Tiling, Linked, EndOf
<1>3. Coalesced'
  BY DEF IInv, KmallocCall, Coalesced, Mergeable
<1>4. WalkedOver'
  <2>1. CASE n = 0
    BY <2>1 DEF IInv, KmallocCall, WalkedOver, Mergeable
  <2>2. CASE n > 0
    <3>1. \A h \in DOMAIN blk : ~(h < HeapBase)
      BY BlockTypes, HeapAssumption DEF IInv
    <3>2. HeapBase # NULL
      BY HeapAssumption DEF NULL
    <3> QED BY <2>2, <3>1, <3>2 DEF KmallocCall, WalkedOver
  <2> QED BY <2>1, <2>2, HeapAssumption
<1> QED BY <1>1, <1>2, <1>3, <1>4 DEF IInv

(* kmalloc's loop goes on to the next block in address order.              *)
LEMMA MallocSkipIInv == ASSUME IInv, KmallocSkip PROVE IInv'
<1> USE DEF IInv
<1>1. curr \in DOMAIN blk /\ blk' = blk /\ pc = "search" /\ pc' = "search"
      /\ curr' = blk[curr].next /\ want' = want /\ reply' = reply /\ ~Fits(curr)
  BY DEF KmallocSkip, TypeOK
<1>2. TypeOK'
  <2>1. blk[curr].next \in DOMAIN blk \cup {NULL}
    BY <1>1, BlockTypes
  <2> QED BY <1>1, <2>1 DEF TypeOK, Block
<1>3. Tiling' /\ Linked'
  BY <1>1 DEF Tiling, Linked, EndOf
<1>4. Coalesced'
  BY <1>1 DEF Coalesced, Mergeable
<1>5. WalkedOver'
  <2>1. \A h \in DOMAIN blk : curr' = NULL \/ h < curr' => h <= curr
    BY <1>1, Successor
  <2>2. \A h \in DOMAIN blk : h <= curr => h = curr \/ h < curr
    BY <1>1, BlockTypes
  <2>3. \A h \in DOMAIN blk : h < curr => ~Fits(h)
    BY <1>1 DEF WalkedOver
  <2> QED BY <1>1, <2>1, <2>2, <2>3 DEF WalkedOver, Fits
<1> QED BY <1>2, <1>3, <1>4, <1>5

(* kmalloc gives up at the end of the list.                                *)
LEMMA MallocFailIInv == ASSUME IInv, KmallocFail PROVE IInv'
<1>1. TypeOK'
  BY DEF IInv, KmallocFail, TypeOK, Block, NULL
<1>2. Tiling' /\ Linked' /\ Coalesced' /\ WalkedOver'
  BY DEF IInv, KmallocFail, Tiling, Linked, EndOf, Coalesced, Mergeable, WalkedOver
<1> QED BY <1>1, <1>2 DEF IInv
(* A block is split in two that cover the same words.                      *)
LEMMA SplitTiling ==
  ASSUME IInv, pc = "search", NEW c \in DOMAIN blk, NEW w \in Nat, NEW rest,
         w = want, rest = c + HeaderSize + w, Fits(c),
         blk[c].size > w + HeaderSize + MinSplit,
         blk' = Split(c)
  PROVE  /\ Tiling' /\ Linked'
         /\ DOMAIN blk' \subseteq HeapBase .. HeapLimit - 1
         /\ HeapBase \in DOMAIN blk'
         /\ blk' \in [DOMAIN blk' -> Block']
         /\ \A h \in DOMAIN blk' : ~Mergeable(h)'
<1>1. /\ c \in Nat /\ HeapBase <= c /\ w \in Nat /\ rest \in Nat
      /\ HeaderSize \in Nat \ {0} /\ MinSplit \in Nat /\ HeapLimit \in Nat
      /\ blk[c].size \in Nat /\ EndOf(c) = c + HeaderSize + blk[c].size
      /\ EndOf(c) <= HeapLimit
  BY BlockTypes, HeapAssumption DEF IInv, EndOf, HeapLimit, Tiling
<1>2. c < rest /\ rest + HeaderSize < EndOf(c) /\ rest < HeapLimit
  BY <1>1
<1>3. rest \notin DOMAIN blk
  BY <1>1, <1>2 DEF IInv, Tiling
<1>4. /\ DOMAIN blk' = DOMAIN blk \cup {rest}
      /\ blk'[c] = [size |-> w, next |-> rest, free |-> FALSE]
      /\ blk'[rest] = [size |-> blk[c].size - w - HeaderSize,
                       next |-> blk[c].next, free |-> TRUE]
      /\ \A g \in DOMAIN blk : g # c => blk'[g] = blk[g]
  BY <1>2, <1>3 DEF Split
<1>5. /\ EndOf(c)' = rest
      /\ EndOf(rest)' = EndOf(c)
      /\ \A g \in DOMAIN blk : g # c => EndOf(g)' = EndOf(g)
  BY <1>1, <1>4 DEF EndOf
<1>6. \A g \in DOMAIN blk : g \in Nat /\ EndOf(g) \in Nat /\ g < EndOf(g)
  BY BlockTypes DEF IInv
<1>7. Tiling'
  <2>1. \A h \in DOMAIN blk' : EndOf(h)' <= HeapLimit
    BY <1>1, <1>2, <1>4, <1>5 DEF IInv, Tiling
  <2>2. ASSUME NEW g \in DOMAIN blk', NEW h \in DOMAIN blk', g < h
        PROVE  EndOf(g)' <= h
    <3>1. \A a, b \in DOMAIN blk : a < b => EndOf(a) <= b
      BY DEF IInv, Tiling
    <3>2. CASE g = rest /\ h = rest
      BY <1>1, <2>2, <3>2
    <3>3. CASE g = rest /\ h \in DOMAIN blk
      BY <1>1, <1>2, <1>5, <1>6, <2>2, <3>1, <3>3
    <3>4. CASE g \in DOMAIN blk /\ h = rest
      BY <1>1, <1>2, <1>5, <1>6, <2>2, <3>1, <3>4
    <3>5. CASE g \in DOMAIN blk /\ h \in DOMAIN blk
      BY <1>1, <1>2, <1>5, <1>6, <2>2, <3>1, <3>5
    <3> QED BY <1>4, <3>2, <3>3, <3>4, <3>5
  <2>3. ASSUME NEW x \in HeapBase .. HeapLimit - 1
        PROVE  \E h \in DOMAIN blk' : h <= x /\ x < EndOf(h)'
    <3>1. PICK g \in DOMAIN blk : g <= x /\ x < EndOf(g)
      BY DEF IInv, Tiling
    <3>2. CASE g # c
      BY <1>4, <1>5, <3>1, <3>2
    <3>3. CASE g = c
      <4>1. x \in Int
        BY HeapAssumption
      <4>2. \/ c <= x /\ x < EndOf(c)'
            \/ rest <= x /\ x < EndOf(rest)'
        BY <1>1, <1>5, <3>1, <3>3, <4>1
      <4> QED BY <1>4, <4>2
    <3> QED BY <3>2, <3>3
  <2> QED BY <2>1, <2>2, <2>3 DEF Tiling, HeapLimit
<1>8. Linked'
  <2>1. \A h \in DOMAIN blk :
          blk[h].next = IF EndOf(h) = HeapLimit THEN NULL ELSE EndOf(h)
    BY DEF IInv, Linked
  <2>2. \A h \in DOMAIN blk' :
          blk'[h].next = IF EndOf(h)' = HeapLimit THEN NULL ELSE EndOf(h)'
    BY <1>1, <1>2, <1>4, <1>5, <2>1
  <2> QED BY <2>2 DEF Linked, HeapLimit
<1>9. DOMAIN blk' \subseteq HeapBase .. HeapLimit - 1 /\ HeapBase \in DOMAIN blk'
  BY <1>1, <1>2, <1>4, HeapAssumption DEF IInv, TypeOK
<1>10. blk' \in [DOMAIN blk' -> Block']
  <2>1. blk' = [g \in DOMAIN blk' |-> blk'[g]]
    BY <1>4 DEF Split
  <2>2. \A g \in DOMAIN blk : blk[g] \in Block
    BY DEF IInv, TypeOK
  <2>3. blk'[c] \in Block'
    BY <1>1, <1>4 DEF Block
  <2>4. blk'[rest] \in Block'
    <3>1. blk[c].size - w - HeaderSize \in Nat
      BY <1>1
    <3>2. blk[c].next \in DOMAIN blk' \cup {NULL}
      BY <1>4, BlockTypes DEF IInv
    <3> QED BY <1>4, <3>1, <3>2 DEF Block
  <2>5. \A g \in DOMAIN blk : g # c => blk'[g] \in Block'
    BY <1>4, <2>2 DEF Block
  <2> QED BY <1>4, <2>1, <2>3, <2>4, <2>5
<1>11. ASSUME NEW h \in DOMAIN blk', Mergeable(h)' PROVE FALSE
  <2>1. \A g \in DOMAIN blk : ~Mergeable(g)
    BY DEF IInv, Coalesced
  <2>2. blk[c].free
    BY DEF Fits
  <2>3. \A g \in DOMAIN blk : blk[g].next # NULL => blk[g].next \in DOMAIN blk
    BY BlockTypes DEF IInv
  <2>4. h = rest => blk[c].next # NULL /\ blk'[blk[c].next].free
    BY <1>4, <1>11 DEF Mergeable
  <2>5. h = rest => blk[c].next # c
    BY <2>3, Successor, <1>1, <2>4 DEF IInv
  <2>6. h # rest
    BY <1>3, <1>4, <2>1, <2>2, <2>3, <2>4, <2>5 DEF Mergeable
  <2>7. h # c
    BY <1>4, <1>11 DEF Mergeable
  <2>8. /\ blk[h].free /\ blk[h].next # NULL /\ blk'[blk[h].next].free
        /\ blk[h].next \in DOMAIN blk
    BY <1>4, <1>11, <2>3, <2>6, <2>7 DEF Mergeable
  <2>9. blk[h].next # c
    BY <1>4, <2>8
  <2> QED BY <1>4, <2>1, <2>6, <2>7, <2>8, <2>9 DEF Mergeable
<1> QED BY <1>7, <1>8, <1>9, <1>10, <1>11

(* kmalloc hands out a block, cut to size or whole.                        *)
LEMMA MallocTakeIInv == ASSUME IInv, KmallocTake PROVE IInv'
<1>1. /\ curr \in DOMAIN blk /\ pc = "search" /\ Fits(curr)
      /\ reply' = curr + HeaderSize /\ pc' = "idle" /\ curr' = NULL /\ want' = 0
  BY DEF IInv, KmallocTake, TypeOK
<1>2. /\ Tiling' /\ Linked'
      /\ DOMAIN blk' \subseteq HeapBase .. HeapLimit - 1
      /\ HeapBase \in DOMAIN blk'
      /\ blk' \in [DOMAIN blk' -> Block']
      /\ \A h \in DOMAIN blk' : ~Mergeable(h)'
  <2> PICK c \in DOMAIN blk : c = curr
    BY <1>1
  <2>1. CASE blk[c].size > want + HeaderSize + MinSplit
    BY <1>1, <2>1, WantNat, SplitTiling DEF IInv, KmallocTake
  <2>2. CASE ~(blk[c].size > want + HeaderSize + MinSplit)
    <3>1. blk' = [blk EXCEPT ![c].free = FALSE]
      BY <2>2 DEF KmallocTake
    <3>2. /\ DOMAIN blk' = DOMAIN blk
          /\ blk'[c].free = FALSE
          /\ \A g \in DOMAIN blk : /\ blk'[g].size = blk[g].size
                                   /\ blk'[g].next = blk[g].next
                                   /\ g # c => blk'[g] = blk[g]
          /\ blk' \in [DOMAIN blk' -> Block']
      BY <3>1, MarkedBlocks DEF IInv
    <3>3. Tiling' /\ Linked'
      BY <3>2, MarkedTiling DEF IInv
    <3>4. \A h \in DOMAIN blk : ~Mergeable(h)
      BY <1>1 DEF IInv, Coalesced
    <3>5. \A h \in DOMAIN blk' : ~Mergeable(h)'
      <4> SUFFICES ASSUME NEW h \in DOMAIN blk', Mergeable(h)' PROVE FALSE
        OBVIOUS
      <4>1. h # c /\ blk[h].free /\ blk[h].next # NULL /\ blk'[blk[h].next].free
        BY <3>2 DEF Mergeable
      <4>2. blk[h].next \in DOMAIN blk /\ blk[h].next # c
        BY <3>2, <4>1, BlockTypes DEF IInv
      <4> QED BY <3>2, <3>4, <4>1, <4>2 DEF Mergeable
    <3> QED BY <3>2, <3>3, <3>5 DEF IInv, TypeOK
  <2> QED BY <2>1, <2>2
<1>3. TypeOK'
  <2>1. curr + HeaderSize \in Nat
    BY <1>1, BlockTypes, HeapAssumption DEF IInv
  <2> QED BY <1>1, <1>2, <2>1 DEF TypeOK, HeapLimit
<1> QED BY <1>1, <1>2, <1>3 DEF IInv, Coalesced, WalkedOver

(* A pointer a caller may free has a header, of a block in use.            *)
LEMMA LiveHeader ==
  ASSUME IInv, NEW p \in Live
  PROVE  p - HeaderSize \in DOMAIN blk /\ ~blk[p - HeaderSize].free
<1> PICK h \in DOMAIN blk : ~blk[h].free /\ p = h + HeaderSize
  BY DEF Live
<1>1. p - HeaderSize = h
  BY BlockTypes, HeapAssumption DEF IInv
<1> QED BY <1>1

(* kfree marks a block free: it may now be next to free blocks, so         *)
(* Coalesced is suspended until the walk has ended.                        *)
LEMMA FreeCallIInv ==
  ASSUME IInv, NEW p \in Live, KfreeCall(p) PROVE IInv'
<1> PICK c \in DOMAIN blk : c = p - HeaderSize
  BY LiveHeader
<1>1. /\ DOMAIN blk' = DOMAIN blk
      /\ \A g \in DOMAIN blk : blk'[g].size = blk[g].size /\ blk'[g].next = blk[g].next
      /\ blk' \in [DOMAIN blk' -> Block']
  BY MarkedBlocks DEF IInv, KfreeCall
<1>2. Tiling' /\ Linked'
  BY <1>1, MarkedTiling DEF IInv
<1>3. TypeOK'
  BY <1>1 DEF IInv, KfreeCall, TypeOK, HeapLimit
<1>4. Coalesced'
  BY DEF KfreeCall, Coalesced
<1>5. WalkedOver'
  <2>1. \A h \in DOMAIN blk' : ~(h < curr') /\ curr' # NULL
    BY <1>1, BlockTypes, HeapAssumption DEF IInv, KfreeCall, NULL
  <2> QED BY <2>1 DEF WalkedOver
<1> QED BY <1>2, <1>3, <1>4, <1>5 DEF IInv

(* Two neighbouring free blocks become one that covers the same words.     *)
LEMMA MergeTiling ==
  ASSUME IInv, NEW c \in DOMAIN blk, NEW n, n = blk[c].next,
         Mergeable(c), blk' = Merged(c)
  PROVE  /\ Tiling' /\ Linked'
         /\ n \in DOMAIN blk /\ c < n /\ n = EndOf(c)
         /\ DOMAIN blk' = DOMAIN blk \ {n}
         /\ DOMAIN blk' \subseteq HeapBase .. HeapLimit - 1
         /\ HeapBase \in DOMAIN blk'
         /\ blk' \in [DOMAIN blk' -> Block']
         /\ \A g \in DOMAIN blk' : g # c => blk'[g] = blk[g]
<1>1. n \in DOMAIN blk /\ c < n /\ n = EndOf(c) /\ n # NULL /\ blk[n].free
  BY Successor DEF IInv, Mergeable
<1>2. /\ HeapBase \in Nat /\ HeaderSize \in Nat \ {0} /\ HeapLimit \in Nat
      /\ c \in Nat /\ n \in Nat /\ HeapBase <= c
      /\ blk[c].size \in Nat /\ blk[n].size \in Nat
      /\ EndOf(c) = c + HeaderSize + blk[c].size
      /\ EndOf(n) = n + HeaderSize + blk[n].size
      /\ EndOf(n) <= HeapLimit
  BY <1>1, BlockTypes, HeapAssumption DEF IInv, EndOf, HeapLimit, Tiling
<1>3. /\ DOMAIN blk' = DOMAIN blk \ {n}
      /\ blk'[c] = [size |-> blk[c].size + HeaderSize + blk[n].size,
                    next |-> blk[n].next, free |-> TRUE]
      /\ \A g \in DOMAIN blk' : g # c => blk'[g] = blk[g]
      /\ c \in DOMAIN blk'
  BY <1>1, <1>2 DEF Merged
<1>4. /\ EndOf(c)' = EndOf(n)
      /\ \A g \in DOMAIN blk' : g # c => EndOf(g)' = EndOf(g)
  BY <1>1, <1>2, <1>3 DEF EndOf
<1>5. \A g \in DOMAIN blk : g \in Nat /\ EndOf(g) \in Nat /\ g < EndOf(g)
  BY BlockTypes DEF IInv
<1>6. \A a, b \in DOMAIN blk : a < b => EndOf(a) <= b
  BY DEF IInv, Tiling
<1>7. Tiling'
  <2>1. \A h \in DOMAIN blk' : EndOf(h)' <= HeapLimit
    BY <1>2, <1>3, <1>4 DEF IInv, Tiling
  <2>2. ASSUME NEW g \in DOMAIN blk', NEW h \in DOMAIN blk', g < h
        PROVE  EndOf(g)' <= h
    <3>1. CASE g = c
      <4>1. n < h
        BY <1>1, <1>2, <1>3, <1>5, <1>6, <2>2, <3>1
      <4> QED BY <1>1, <1>3, <1>4, <1>6, <3>1, <4>1
    <3>2. CASE g # c
      BY <1>3, <1>4, <1>6, <2>2, <3>2
    <3> QED BY <3>1, <3>2
  <2>3. ASSUME NEW x \in HeapBase .. HeapLimit - 1
        PROVE  \E h \in DOMAIN blk' : h <= x /\ x < EndOf(h)'
    <3>1. PICK g \in DOMAIN blk : g <= x /\ x < EndOf(g)
      BY DEF IInv, Tiling
    <3>2. x \in Int
      BY <1>2
    <3>3. CASE g = c \/ g = n
      BY <1>1, <1>2, <1>3, <1>4, <1>5, <3>1, <3>2, <3>3
    <3>4. CASE g # c /\ g # n
      BY <1>3, <1>4, <3>1, <3>4
    <3> QED BY <3>3, <3>4
  <2> QED BY <2>1, <2>2, <2>3 DEF Tiling, HeapLimit
<1>8. Linked'
  <2>1. \A h \in DOMAIN blk :
          blk[h].next = IF EndOf(h) = HeapLimit THEN NULL ELSE EndOf(h)
    BY DEF IInv, Linked
  <2>2. \A h \in DOMAIN blk' :
          blk'[h].next = IF EndOf(h)' = HeapLimit THEN NULL ELSE EndOf(h)'
    BY <1>1, <1>3, <1>4, <2>1
  <2> QED BY <2>2 DEF Linked, HeapLimit
<1>9. DOMAIN blk' \subseteq HeapBase .. HeapLimit - 1 /\ HeapBase \in DOMAIN blk'
  BY <1>1, <1>2, <1>3 DEF IInv, TypeOK
<1>10. blk' \in [DOMAIN blk' -> Block']
  <2>1. blk' = [g \in DOMAIN blk' |-> blk'[g]]
    BY <1>3 DEF Merged
  <2>2. /\ \A g \in DOMAIN blk : blk[g] \in Block
        /\ \A g \in DOMAIN blk : blk[g].next = NULL \/ blk[g].next = EndOf(g)
        /\ \A g \in DOMAIN blk : blk[g].next \in DOMAIN blk \cup {NULL}
    BY BlockTypes DEF IInv, TypeOK, Linked
  <2>3. \A g \in DOMAIN blk' : g # c => blk[g].next # n
    <3> SUFFICES ASSUME NEW g \in DOMAIN blk', g # c, blk[g].next = n PROVE FALSE
      OBVIOUS
    <3>1. EndOf(g) = EndOf(c)
      BY <1>1, <1>3, <2>2
    <3> QED BY <1>2, <1>3, <1>5, <1>6, <3>1
  <2>4. blk[n].next # n
    BY <1>1, <1>5, <2>2
  <2>5. blk'[c] \in Block'
    <3>1. blk[c].size + HeaderSize + blk[n].size \in Nat
      BY <1>2
    <3>2. blk[n].next \in DOMAIN blk' \cup {NULL}
      BY <1>1, <1>3, <2>2, <2>4
    <3> QED BY <1>3, <3>1, <3>2 DEF Block
  <2>6. \A g \in DOMAIN blk' : g # c => blk'[g] \in Block'
    <3> SUFFICES ASSUME NEW g \in DOMAIN blk', g # c PROVE blk'[g] \in Block'
      OBVIOUS
    <3>1. blk'[g] = blk[g] /\ blk[g] \in Block /\ blk[g].next \in DOMAIN blk' \cup {NULL}
      BY <1>3, <2>2, <2>3
    <3> QED BY <3>1 DEF Block
  <2> QED BY <2>1, <2>5, <2>6
<1> QED BY <1>1, <1>3, <1>7, <1>8, <1>9, <1>10

(* Merging two neighbours leaves one block over the words of both.         *)
LEMMA FreeMergeIInv == ASSUME IInv, KfreeMerge PROVE IInv'
<1> PICK c \in DOMAIN blk : c = curr
  BY DEF IInv, KfreeMerge, TypeOK
<1> PICK n \in DOMAIN blk : n = blk[c].next
  BY Successor DEF IInv, KfreeMerge, Mergeable
<1>1. /\ Mergeable(c) /\ blk' = Merged(c)
      /\ pc = "merge" /\ pc' = "merge" /\ curr' = c /\ want' = want /\ reply' = reply
  BY DEF KfreeMerge
<1>2. /\ Tiling' /\ Linked'
      /\ c < n /\ n = EndOf(c)
      /\ DOMAIN blk' = DOMAIN blk \ {n}
      /\ DOMAIN blk' \subseteq HeapBase .. HeapLimit - 1
      /\ HeapBase \in DOMAIN blk'
      /\ blk' \in [DOMAIN blk' -> Block']
      /\ \A g \in DOMAIN blk' : g # c => blk'[g] = blk[g]
  BY <1>1, MergeTiling
<1>3. c \in DOMAIN blk'
  BY <1>2, BlockTypes DEF IInv
<1>4. TypeOK'
  BY <1>1, <1>2, <1>3 DEF IInv, TypeOK, HeapLimit
<1>5. Coalesced'
  BY <1>1 DEF Coalesced
<1>6. WalkedOver'
  <2> SUFFICES ASSUME NEW h \in DOMAIN blk', h < c, Mergeable(h)' PROVE FALSE
    BY <1>1, <1>2, BlockTypes, HeapAssumption DEF WalkedOver, IInv, NULL
  <2>1. h \in DOMAIN blk /\ h # c /\ blk'[h] = blk[h]
    BY <1>2, BlockTypes DEF IInv
  <2>2. ~Mergeable(h)
    BY <1>1, <2>1 DEF IInv, WalkedOver
  <2>3. /\ blk[h].free /\ blk[h].next # NULL /\ blk'[blk[h].next].free
        /\ blk[h].next \in DOMAIN blk /\ blk[h].next = EndOf(h)
    BY <2>1, Successor DEF IInv, Mergeable
  <2>4. EndOf(h) <= c
    BY <2>1 DEF IInv, Tiling
  <2>5. blk[h].next \in DOMAIN blk'
    BY <1>2, <2>3, <2>4, BlockTypes DEF IInv
  <2>6. blk[blk[h].next].free
    BY <1>1, <1>2, <2>3, <2>5 DEF Mergeable
  <2> QED BY <2>2, <2>3, <2>6 DEF Mergeable
<1> QED BY <1>2, <1>4, <1>5, <1>6 DEF IInv

(* kfree's cursor leaves a block only when it cannot be merged.            *)
LEMMA FreeAdvanceIInv == ASSUME IInv, KfreeAdvance PROVE IInv'
<1> USE DEF IInv
<1>1. curr \in DOMAIN blk /\ blk' = blk /\ pc = "merge" /\ pc' = "merge"
      /\ curr' = blk[curr].next /\ want' = want /\ reply' = reply /\ ~Mergeable(curr)
  BY DEF KfreeAdvance, TypeOK
<1>2. TypeOK'
  <2>1. blk[curr].next \in DOMAIN blk \cup {NULL}
    BY <1>1, BlockTypes
  <2> QED BY <1>1, <2>1 DEF TypeOK, Block
<1>3. Tiling' /\ Linked' /\ Coalesced'
  BY <1>1 DEF Tiling, Linked, EndOf, Coalesced
<1>4. WalkedOver'
  <2>1. \A h \in DOMAIN blk : curr' = NULL \/ h < curr' => h <= curr
    BY <1>1, Successor
  <2>2. \A h \in DOMAIN blk : h <= curr => h = curr \/ h < curr
    BY <1>1, BlockTypes
  <2>3. \A h \in DOMAIN blk : h < curr => ~Mergeable(h)
    BY <1>1 DEF WalkedOver
  <2> QED BY <1>1, <2>1, <2>2, <2>3 DEF WalkedOver, Mergeable
<1> QED BY <1>2, <1>3, <1>4

(* At the end of the list everything has been walked over.                 *)
LEMMA FreeReturnIInv == ASSUME IInv, KfreeReturn PROVE IInv'
<1>1. TypeOK' /\ Tiling' /\ Linked'
  BY DEF IInv, KfreeReturn, TypeOK, Block, Tiling, Linked, EndOf
<1>2. Coalesced' /\ WalkedOver'
  BY DEF IInv, KfreeReturn, WalkedOver, Coalesced, Mergeable
<1> QED BY <1>1, <1>2 DEF IInv

(* A step that changes nothing.                                            *)
LEMMA StutterIInv == ASSUME IInv, UNCHANGED vars PROVE IInv'
<1>1. TypeOK' /\ Tiling' /\ Linked'
  BY DEF IInv, vars, TypeOK, Block, Tiling, Linked, EndOf
<1>2. Coalesced' /\ WalkedOver'
  BY DEF IInv, vars, Coalesced, WalkedOver, Mergeable, Fits
<1> QED BY <1>1, <1>2 DEF IInv

(* No step breaks the invariant.                                           *)
LEMMA NextIInv == IInv /\ [Next]_vars => IInv'
<1> SUFFICES ASSUME IInv, [Next]_vars PROVE IInv'
  OBVIOUS
<1>1. CASE \E n \in Sizes : KmallocCall(n)
  BY <1>1, MallocCallIInv
<1>2. CASE \E p \in Live : KfreeCall(p)
  BY <1>2, FreeCallIInv
<1>3. CASE Step
  BY <1>3, MallocSkipIInv, MallocTakeIInv, MallocFailIInv,
     FreeMergeIInv, FreeAdvanceIInv, FreeReturnIInv DEF Step
<1>4. CASE UNCHANGED vars
  BY <1>4, StutterIInv
<1> QED BY <1>1, <1>2, <1>3, <1>4 DEF Next

-----------------------------------------------------------------------------

(* IInv holds in every reachable state, in the middle of a walk too.       *)
THEOREM Inductive == Spec => []IInv
  BY InitIInv, NextIInv, PTL DEF Spec

(* memory.c's list is always well typed: headers inside the heap, links to *)
(* headers or NULL, sizes natural numbers.                                 *)
THEOREM TypeCorrect == Spec => []TypeOK
  BY Inductive, PTL DEF IInv

(* However kmalloc splits and kfree merges, every word of the heap belongs *)
(* to exactly one block of the list.                                       *)
THEOREM TilingAlways == Spec => []Tiling
  BY Inductive, PTL DEF IInv

(* The list of memory.c is the blocks in address order, so that adding the *)
(* sizes of a block and its list successor merges true neighbours.         *)
THEOREM LinkedAlways == Spec => []Linked
  BY Inductive, PTL DEF IInv

(* One walk of kfree leaves no two free neighbours anywhere.               *)
THEOREM CoalescedAlways == Spec => []Coalesced
  BY Inductive, PTL DEF IInv

(* kmalloc hands out the lowest block that is free and large enough.       *)
THEOREM FirstFitAlways == Spec => FirstFit
<1>1. IInv /\ [Next]_vars
        => [\A p \in Live' \ Live :
              \A h \in DOMAIN blk : h < p - HeaderSize => ~Fits(h)]_vars
  <2> SUFFICES ASSUME IInv, Next, NEW p \in Live' \ Live,
                      NEW h \in DOMAIN blk, h < p - HeaderSize
               PROVE  ~Fits(h)
    OBVIOUS
  <2>1. CASE KmallocTake
    <3> PICK c \in DOMAIN blk : c = curr
      BY <2>1 DEF IInv, KmallocTake, TypeOK
    <3>1. PICK g \in DOMAIN blk' : ~blk'[g].free /\ p = g + HeaderSize
      BY DEF Live
    <3>2. g \in Nat /\ HeaderSize \in Nat
      <4>1. IInv'
        BY <2>1, MallocTakeIInv
      <4> QED BY <4>1, HeapAssumption DEF IInv, TypeOK, HeapLimit
    <3>3. g \notin DOMAIN blk \/ blk[g].free
      BY <3>1 DEF Live
    <3>4. g = c
      BY <2>1, <3>1, <3>3 DEF KmallocTake, Split
    <3>5. h < c
      BY <3>1, <3>2, <3>4, BlockTypes DEF IInv
    <3> QED BY <2>1, <3>5 DEF IInv, WalkedOver, KmallocTake
  <2>2. ASSUME blk' = blk PROVE FALSE
    BY <2>2 DEF Live
  <2>3. CASE \E q \in Live : KfreeCall(q)
    <3>1. PICK c \in DOMAIN blk : blk' = [blk EXCEPT ![c].free = TRUE]
      BY <2>3, LiveHeader DEF KfreeCall
    <3> QED BY <3>1, MarkedBlocks DEF Live, IInv
  <2>4. CASE KfreeMerge
    <3>1. PICK c \in DOMAIN blk : Mergeable(c) /\ blk' = Merged(c)
      BY <2>4 DEF IInv, KfreeMerge, TypeOK
    <3> QED BY <3>1 DEF Merged, Live, Mergeable
  <2> QED BY <2>1, <2>2, <2>3, <2>4
          DEF Next, Step, KmallocCall, KmallocSkip, KmallocFail,
              KfreeAdvance, KfreeReturn
<1> QED BY <1>1, Inductive, PTL DEF Spec, FirstFit
-----------------------------------------------------------------------------
(* The heap implements Alloc.  Besides IInv it takes that a search is      *)
(* always for a positive size.                                             *)
WantPositive == pc = "search" => want > 0

(* Only an empty request is rounded to 0, which is how Alloc tells a       *)
(* pending request from none.                                              *)
LEMMA AlignUpPositive ==
  ASSUME NEW n \in Nat
  PROVE  AlignUp(0) = 0 /\ (n > 0 => AlignUp(n) > 0)
  BY HeapAssumption DEF AlignUp

(* A search is always for at least one word.                               *)
LEMMA WantPositiveAlways == Spec => []WantPositive
<1>1. Init => WantPositive
  BY DEF Init, WantPositive
<1>2. WantPositive /\ [Next]_vars => WantPositive'
  BY AlignUpPositive, HeapAssumption
     DEF WantPositive, Next, vars, Step, KmallocCall, KmallocSkip, KmallocTake,
         KmallocFail, KfreeCall, KfreeMerge, KfreeAdvance, KfreeReturn
<1> QED BY <1>1, <1>2, PTL DEF Spec
(* The refinement mapping's values, under names a proof can expand once.   *)
LiveMap == [p \in Live |-> blk[p - HeaderSize].size]
Pending == IF pc = "search" THEN want ELSE 0

(* The extent of a live pointer is that of a block in use.                 *)
LEMMA LiveExtent ==
  ASSUME IInv, NEW q \in Live
  PROVE  \E g \in DOMAIN blk :
            /\ ~blk[g].free /\ q = g + HeaderSize /\ q - HeaderSize = g
            /\ q + LiveMap[q] = EndOf(g) /\ LiveMap[q] = blk[g].size
<1> PICK g \in DOMAIN blk : ~blk[g].free /\ q = g + HeaderSize
  BY DEF Live
<1>1. q - HeaderSize = g
  BY BlockTypes, HeapAssumption DEF IInv
<1> QED BY <1>1 DEF LiveMap, EndOf

(* Blocks in use that are left alone are the same live allocations.        *)
LEMMA SameLiveMap ==
  ASSUME IInv,
         \A h \in DOMAIN blk : ~blk[h].free => h \in DOMAIN blk' /\ blk'[h] = blk[h],
         \A h \in DOMAIN blk' : ~blk'[h].free => h \in DOMAIN blk /\ ~blk[h].free
  PROVE  LiveMap' = LiveMap
<1>1. Live' = Live
  BY DEF Live
<1>2. \A p \in Live : blk'[p - HeaderSize].size = blk[p - HeaderSize].size
  BY LiveHeader
<1> QED BY <1>1, <1>2 DEF LiveMap

(* A refused request finds no room: any room would lie inside one free     *)
(* block, and the walk has found every free block too small.               *)
LEMMA FailMeansNoRoom ==
  ASSUME IInv, WantPositive, KmallocFail
  PROVE  \A p \in HeapBase .. HeapLimit : ~Abstract!Room(p, want)
<1> SUFFICES ASSUME NEW p \in HeapBase .. HeapLimit, Abstract!Room(p, want) PROVE FALSE
  OBVIOUS
<1>1. /\ want \in Nat /\ want > 0 /\ HeaderSize \in Nat \ {0}
      /\ HeapBase \in Nat /\ HeapLimit \in Nat /\ p \in Int
  BY WantNat, HeapAssumption DEF IInv, WantPositive, KmallocFail, HeapLimit
<1>2. HeapBase <= p - HeaderSize /\ p + want <= HeapLimit
  BY DEF Abstract!Room
<1>3. \A g \in DOMAIN blk : ~blk[g].free => p + want <= g \/ EndOf(g) <= p - HeaderSize
  <2> SUFFICES ASSUME NEW g \in DOMAIN blk, ~blk[g].free
               PROVE  p + want <= g \/ EndOf(g) <= p - HeaderSize
    OBVIOUS
  <2>1. g + HeaderSize \in Live /\ g + HeaderSize - HeaderSize = g
    BY BlockTypes, HeapAssumption DEF Live, IInv
  <2>2. Abstract!Clear(p, want, g + HeaderSize)
    BY <2>1 DEF Abstract!Room
  <2> QED BY <2>1, <2>2, BlockTypes, HeapAssumption DEF Abstract!Clear, EndOf, IInv
<1>4. PICK g \in DOMAIN blk : g <= p - HeaderSize /\ p - HeaderSize < EndOf(g)
  BY <1>1, <1>2 DEF IInv, Tiling
<1>5. g \in Nat /\ EndOf(g) \in Nat /\ blk[g].size \in Nat /\ EndOf(g) = g + HeaderSize + blk[g].size
  BY BlockTypes DEF IInv, EndOf
<1>6. blk[g].free
  BY <1>1, <1>3, <1>4, <1>5
<1>7. blk[g].size < want
  BY <1>1, <1>5, <1>6 DEF IInv, WalkedOver, KmallocFail, Fits
<1>8. EndOf(g) < p + want
  BY <1>1, <1>4, <1>5, <1>7
<1>9. PICK n \in DOMAIN blk : n = EndOf(g) /\ n = blk[g].next /\ n # NULL
  <2>1. EndOf(g) # HeapLimit
    BY <1>1, <1>2, <1>5, <1>8
  <2>2. blk[g].next = EndOf(g) /\ EndOf(g) # NULL
    BY <1>1, <1>4, <1>5, <2>1 DEF IInv, Linked, NULL
  <2> QED BY <2>2, BlockTypes DEF IInv
<1>10. ~blk[n].free
  BY <1>6, <1>9 DEF IInv, Coalesced, KmallocFail, Mergeable
<1> QED BY <1>1, <1>3, <1>4, <1>5, <1>8, <1>9, <1>10, BlockTypes DEF IInv

(* Handing out a block grants a request: its extent is clear of every live *)
(* one and is not much too long.                                           *)
LEMMA TakeIsGrant ==
  ASSUME IInv, WantPositive, KmallocTake PROVE Abstract!Grant
<1> PICK c \in DOMAIN blk : c = curr
  BY DEF IInv, KmallocTake, TypeOK
<1> PICK w \in Nat : w = want
  BY WantNat DEF IInv
<1>1. Fits(c) /\ pc = "search" /\ pc' = "idle" /\ reply' = c + HeaderSize /\ w > 0
  BY DEF KmallocTake, WantPositive
<1>2. /\ c \in Nat /\ HeapBase <= c /\ HeaderSize \in Nat /\ MinSplit \in Nat
      /\ HeapLimit \in Nat /\ HeapBase \in Nat /\ blk[c].size \in Nat /\ w <= blk[c].size
      /\ EndOf(c) = c + HeaderSize + blk[c].size /\ EndOf(c) <= HeapLimit
  BY <1>1, BlockTypes, HeapAssumption DEF IInv, EndOf, HeapLimit, Tiling, Fits
<1> DEFINE s == IF blk[c].size > w + HeaderSize + MinSplit THEN w ELSE blk[c].size
           P == c + HeaderSize
<1>3. /\ P \in HeapBase .. HeapLimit
      /\ s \in w .. w + (HeaderSize + MinSplit)
      /\ P - HeaderSize = c /\ P + s <= EndOf(c)
  BY <1>1, <1>2
<1>4. Abstract!Room(P, s)
  <2> SUFFICES ASSUME NEW q \in Live PROVE Abstract!Clear(P, s, q)
    BY <1>2, <1>3 DEF Abstract!Room, LiveMap
  <2> PICK g \in DOMAIN blk : /\ ~blk[g].free /\ q = g + HeaderSize /\ q - HeaderSize = g
                              /\ q + LiveMap[q] = EndOf(g)
    BY LiveExtent
  <2>1. g # c
    BY <1>1 DEF Fits
  <2>2. g \in Nat /\ EndOf(g) \in Nat
    BY BlockTypes DEF IInv
  <2>3. EndOf(c) <= g \/ EndOf(g) <= c
    <3>1. c < g \/ g < c
      BY <1>2, <2>1, <2>2
    <3> QED BY <3>1 DEF IInv, Tiling
  <2> QED BY <1>2, <1>3, <2>2, <2>3 DEF Abstract!Clear, LiveMap
<1>5. /\ c \in DOMAIN blk' /\ ~blk'[c].free /\ blk'[c].size = s
      /\ \A h \in DOMAIN blk : h # c => h \in DOMAIN blk' /\ blk'[h] = blk[h]
      /\ \A h \in DOMAIN blk' : h \notin DOMAIN blk => blk'[h].free
  <2>1. CASE blk[c].size > w + HeaderSize + MinSplit
    <3>1. blk' = Split(c)
      BY <2>1 DEF KmallocTake
    <3>2. c + HeaderSize + w > c /\ c + HeaderSize + w < EndOf(c)
      BY <1>1, <1>2, <2>1, HeapAssumption
    <3>3. c + HeaderSize + w \notin DOMAIN blk
      BY <1>2, <3>2 DEF IInv, Tiling
    <3> QED BY <2>1, <3>1, <3>2, <3>3 DEF Split
  <2>2. CASE ~(blk[c].size > w + HeaderSize + MinSplit)
    <3>1. blk' = [blk EXCEPT ![c].free = FALSE]
      BY <2>2 DEF KmallocTake
    <3> QED BY <2>2, <3>1, MarkedBlocks DEF IInv
  <2> QED BY <2>1, <2>2
<1>6. Live' = Live \cup {P}
  <2>1. \A h : h \in DOMAIN blk' /\ ~blk'[h].free
                <=> h = c \/ (h \in DOMAIN blk /\ ~blk[h].free)
    BY <1>1, <1>5 DEF Fits
  <2> QED BY <2>1 DEF Live
<1>7. LiveMap' = [q \in Live \cup {P} |-> IF q = P THEN s ELSE LiveMap[q]]
  <2>1. LiveMap' = [q \in Live \cup {P} |-> blk'[q - HeaderSize].size]
    BY <1>6 DEF LiveMap
  <2>2. \A q \in Live : q # P => blk'[q - HeaderSize].size = LiveMap[q]
    BY <1>2, <1>5, LiveHeader, BlockTypes, HeapAssumption, <1>1 DEF LiveMap, Fits
  <2> QED BY <1>3, <1>5, <2>1, <2>2
<1>8. /\ Pending = w /\ Pending' = 0 /\ DOMAIN LiveMap = Live
  BY <1>1 DEF Pending, LiveMap
<1> QED BY <1>1, <1>3, <1>4, <1>7, <1>8 DEF Abstract!Grant, LiveMap, Pending

(* Marking a block free releases its allocation.                           *)
LEMMA FreeIsRelease ==
  ASSUME IInv, NEW p \in Live, KfreeCall(p) PROVE Abstract!Release(p)
<1> PICK c \in DOMAIN blk : c = p - HeaderSize /\ ~blk[c].free
  BY LiveHeader
<1>1. /\ DOMAIN blk' = DOMAIN blk /\ blk'[c].free
      /\ \A g \in DOMAIN blk : g # c => blk'[g] = blk[g]
  BY MarkedBlocks DEF IInv, KfreeCall
<1>2. \A q \in Live : q # p => q - HeaderSize # c
  BY BlockTypes, HeapAssumption DEF IInv, Live
<1>3. Live' = Live \ {p}
  <2>1. c \in Nat /\ p = c + HeaderSize
    BY BlockTypes, HeapAssumption DEF IInv, Live
  <2>2. \A h : h \in DOMAIN blk' /\ ~blk'[h].free
                <=> h # c /\ h \in DOMAIN blk /\ ~blk[h].free
    BY <1>1
  <2>3. \A h \in DOMAIN blk : h + HeaderSize = p => h = c
    BY <2>1, BlockTypes, HeapAssumption DEF IInv
  <2> QED BY <2>1, <2>2, <2>3 DEF Live
<1>4. LiveMap' = [q \in Live \ {p} |-> LiveMap[q]]
  BY <1>1, <1>2, <1>3, LiveHeader DEF LiveMap
<1>5. Pending = 0 /\ Pending' = 0 /\ reply' = reply
  BY DEF KfreeCall, Pending
<1> QED BY <1>4, <1>5 DEF Abstract!Release, LiveMap, Pending

(* Every step of the heap is a step of Alloc or leaves Alloc's state alone.*)
LEMMA StepRefines ==
  IInv /\ WantPositive /\ [Next]_vars => [Abstract!Next]_(Abstract!vars)
<1> SUFFICES ASSUME IInv, WantPositive, [Next]_vars
             PROVE  [Abstract!Next]_(Abstract!vars)
  OBVIOUS
<1>a. ASSUME LiveMap' = LiveMap, Pending' = Pending, reply' = reply
      PROVE  UNCHANGED Abstract!vars
  BY <1>a DEF Abstract!vars, LiveMap, Pending
<1>b. ASSUME blk' = blk PROVE LiveMap' = LiveMap
  BY <1>b DEF LiveMap, Live
<1>1. ASSUME NEW n \in Sizes, KmallocCall(n) PROVE Abstract!Request(AlignUp(n))
  <2>1. /\ Pending = 0 /\ Pending' = AlignUp(n)
        /\ reply' = IF AlignUp(n) = 0 THEN NULL ELSE reply
    BY <1>1, AlignUpPositive, AlignUpNat, HeapAssumption DEF KmallocCall, Pending
  <2> QED BY <1>1, <1>b, <2>1 DEF Abstract!Request, KmallocCall, LiveMap, Pending
<1>2. CASE KmallocSkip
  BY <1>2, <1>a, <1>b DEF KmallocSkip, Pending
<1>3. CASE KmallocFail
  BY <1>3, <1>b, FailMeansNoRoom
     DEF KmallocFail, WantPositive, Abstract!Next, Abstract!Refuse, LiveMap
<1>4. CASE KfreeMerge
  <2> PICK c \in DOMAIN blk : c = curr /\ Mergeable(c) /\ blk' = Merged(c)
    BY <1>4 DEF IInv, KfreeMerge, TypeOK
  <2> PICK n \in DOMAIN blk : n = blk[c].next
    BY Successor DEF IInv, Mergeable
  <2>1. LiveMap' = LiveMap
    <3>1. /\ DOMAIN blk' = DOMAIN blk \ {n}
          /\ \A g \in DOMAIN blk' : g # c => blk'[g] = blk[g]
      BY MergeTiling
    <3>2. blk[c].free /\ blk[n].free /\ (c \in DOMAIN blk' => blk'[c].free)
      BY DEF Mergeable, Merged
    <3> QED BY <3>1, <3>2, SameLiveMap
  <2> QED BY <1>4, <1>a, <2>1 DEF KfreeMerge, Pending
<1>5. CASE KfreeAdvance \/ KfreeReturn
  BY <1>5, <1>a, <1>b DEF KfreeAdvance, KfreeReturn, Pending
<1>6. CASE UNCHANGED vars
  BY <1>6, <1>a, <1>b DEF vars, Pending
<1>7. CASE KmallocTake
  BY <1>7, TakeIsGrant DEF Abstract!Next
<1>8. ASSUME NEW p \in Live, KfreeCall(p) PROVE Abstract!Next
  BY <1>8, FreeIsRelease DEF Abstract!Next
<1> QED BY <1>1, <1>2, <1>3, <1>4, <1>5, <1>6, <1>7, <1>8 DEF Next, Step, Abstract!Next

(* kmalloc and kfree keep the promise of Alloc: what is handed out is long *)
(* enough and overlaps no live allocation, live allocations are never      *)
(* moved or resized, and a request fails only when no gap would hold it.   *)
THEOREM Refinement == Spec => ImplementsAlloc
<1>1. Init => Abstract!Init
  BY DEF Init, Abstract!Init, Live
<1> QED BY <1>1, StepRefines, Inductive, WantPositiveAlways, PTL
        DEF Spec, ImplementsAlloc, Abstract!Spec
=============================================================================
