---------------------------- MODULE LoaderProofs -----------------------------
(***************************************************************************)
(* Proofs about kernel/paging.c and kernel/elf.c: every table and frame    *)
(* number stays within memory, and a load that fails gives back its buffer *)
(* and its file.  And although the end of each table lies in the next one, *)
(* no page is found elsewhere than where it was mapped last.               *)
(***************************************************************************)
EXTENDS Loader, Lemmas

-----------------------------------------------------------------------------
LEMMA Constants ==
  /\ Memory \in Nat /\ MaxTables \in Nat /\ 2 <= MaxTables /\ MaxTables <= Memory
  /\ {0, 1} \subseteq Frames /\ Frames \subseteq Nat
  /\ \A n \in Nat : n < MaxTables => n \in Frames
  /\ IdentityPages \in Nat /\ IdentityPages # 0 /\ \A n \in 0 .. IdentityPages - 1 : n \in Frames
  /\ PageCells \in Nat \ {0} /\ Pages \subseteq Nat
BY PagingAssumption DEF Frames, EntryCells

(* What a cell holds after an entry was written, or a table cleared.       *)
LEMMA EntryCellsWritten ==
  ASSUME NEW V, NEW m \in [Cells -> V], NEW t, NEW i, NEW f, NEW x \in Cells
  PROVE  WithEntry(m, t, i, f)[x] =
           IF x = Cell(t, i, 3) \/ x = Cell(t, i, 2) THEN 0
           ELSE IF x = Cell(t, i, 1) THEN f
           ELSE IF x = Cell(t, i, 0) THEN 1
           ELSE m[x]
BY DEF WithEntry

LEMMA WithEntryType ==
  ASSUME NEW V, {0, 1} \subseteq V, NEW m \in [Cells -> V], NEW t, NEW i, NEW f \in V
  PROVE  WithEntry(m, t, i, f) \in [Cells -> V]
BY DEF WithEntry

LEMMA ClearedType ==
  ASSUME NEW V, {0, 1} \subseteq V, NEW m \in [Cells -> V], NEW t
  PROVE  Cleared(m, t) \in [Cells -> V]
BY DEF Cleared

(* What map_page writes is 0, 1, the frame it is given, and numbers below  *)
(* the frame that comes next afterwards.                                   *)
Holds(b, V) == b.mem \in [Cells -> V]
Covers(V, n) == {0, 1} \subseteq V /\ \A k \in Nat : k < n => k \in V
Walker(s) == s = [mem |-> s.mem, next |-> s.next, table |-> s.table]

(* A walk that goes down one level takes one frame or none.                *)
LEMMA DescendedFacts ==
  ASSUME NEW s, Walker(s), s.next \in Nat, NEW v, NEW level
  PROVE  LET d == Descended(s, v, level)
         IN  /\ Walker(d) /\ d.next \in {s.next, s.next + 1}
             /\ \A V : Holds(s, V) /\ Covers(V, d.next) => Holds(d, V)
<1> DEFINE d == Descended(s, v, level)
           i == IndexAt(v, level)
           kept == [s EXCEPT !.table = FrameIn(s.mem, s.table, i)]
           made == [mem |-> WithEntry(Cleared(s.mem, s.next), s.table, i, s.next),
                    next |-> s.next + 1, table |-> s.next]
<1>1. d = IF s.table = Wild THEN s ELSE IF IsPresent(s.mem, s.table, i) THEN kept ELSE made
  BY DEF Descended
<1>2. /\ made.next = s.next + 1 /\ made.mem = WithEntry(Cleared(s.mem, s.next), s.table, i, s.next)
      /\ Walker(made)
  BY DEF Walker
<1>3. kept.next = s.next /\ kept.mem = s.mem /\ Walker(kept)
  BY DEF Walker
<1>4. ASSUME NEW V, Holds(s, V), Covers(V, s.next + 1)
      PROVE  Holds(made, V)
  <2>1. s.next \in V
    BY <1>4 DEF Covers
  <2> QED BY <1>2, <1>4, <2>1, ClearedType, WithEntryType DEF Holds, Covers
<1> HIDE DEF kept, made, d
<1> QED BY <1>1, <1>2, <1>3, <1>4 DEF d, Holds

(* map_page: as many frames are taken as levels had no table.              *)
LEMMA MappedFacts ==
  ASSUME NEW b, b.next \in Nat, NEW v, NEW f
  PROVE  LET r == Mapped(b, v, f)
         IN  /\ Walker(r)
             /\ r.next \in Nat /\ b.next <= r.next /\ r.next <= b.next + 3
             /\ \A V : Holds(b, V) /\ f \in V /\ Covers(V, r.next) => Holds(r, V)
<1> DEFINE top == [mem |-> b.mem, next |-> b.next, table |-> pml4]
           pdpt == Descended(top, v, 4)
           pd == Descended(pdpt, v, 3)
           pt == Descended(pd, v, 2)
           m2 == WithEntry(pt.mem, pt.table, IndexAt(v, 1), f)
           r == Mapped(b, v, f)
<1>1. r = IF pt.table = Wild THEN pt ELSE [pt EXCEPT !.mem = m2]
  BY DEF Mapped
<1>2. top.next = b.next /\ top.mem = b.mem /\ Walker(top)
  BY DEF Walker
<1> HIDE DEF top, r
<1>3. /\ Walker(pdpt) /\ pdpt.next \in {top.next, top.next + 1}
      /\ \A V : Holds(top, V) /\ Covers(V, pdpt.next) => Holds(pdpt, V)
  BY <1>2, DescendedFacts
<1> HIDE DEF pdpt
<1>4. pdpt.next \in Nat
  BY <1>2, <1>3
<1>5. /\ Walker(pd) /\ pd.next \in {pdpt.next, pdpt.next + 1}
      /\ \A V : Holds(pdpt, V) /\ Covers(V, pd.next) => Holds(pd, V)
  BY <1>3, <1>4, DescendedFacts
<1> HIDE DEF pd
<1>6. pd.next \in Nat
  BY <1>4, <1>5
<1>7. /\ Walker(pt) /\ pt.next \in {pd.next, pd.next + 1}
      /\ \A V : Holds(pd, V) /\ Covers(V, pt.next) => Holds(pt, V)
  BY <1>5, <1>6, DescendedFacts
<1> HIDE DEF pt
<1>8. r.next = pt.next /\ (r.mem = m2 \/ r.mem = pt.mem) /\ Walker(r)
  BY <1>1, <1>7 DEF Walker
<1> HIDE DEF m2
<1>9. /\ pt.next \in Nat /\ b.next <= pt.next /\ pd.next <= pt.next /\ pdpt.next <= pt.next
      /\ pt.next <= b.next + 3
  BY <1>2, <1>3, <1>4, <1>5, <1>6, <1>7
<1>10. ASSUME NEW V, Holds(b, V), f \in V, Covers(V, pt.next) PROVE Holds(r, V)
  <2>1. Covers(V, pd.next) /\ Covers(V, pdpt.next)
    BY <1>4, <1>6, <1>9, <1>10 DEF Covers
  <2>2. pt.mem \in [Cells -> V]
    BY <1>2, <1>3, <1>5, <1>7, <1>10, <2>1 DEF Holds
  <2>3. m2 \in [Cells -> V]
    BY <1>10, <2>2, WithEntryType DEF Covers, m2
  <2> QED BY <1>8, <2>2, <2>3 DEF Holds
<1> QED BY <1>8, <1>9, <1>10 DEF r

-----------------------------------------------------------------------------
(* paging_init maps one page after the other.                              *)
BootStart == [mem |-> Cleared(Cleared(Before, pml4), 1), next |-> 2, table |-> pml4]

(* The tables that a step down may come to from those of T.                *)
Below(T) ==
    T \cup Nat \cup {FrameIn(m, t, IndexAt(v, l)) : m \in [Cells -> Nat], t \in T, v \in Nat, l \in 2 .. 4}

LEMMA DescendedNat ==
  ASSUME NEW s, Walker(s), s.mem \in [Cells -> Nat], s.next \in Nat, NEW v, NEW level
  PROVE  LET d == Descended(s, v, level)
         IN  Walker(d) /\ d.next \in Nat /\ d.mem \in [Cells -> Nat]
<1> DEFINE d == Descended(s, v, level)
<1>1. /\ Walker(d) /\ d.next \in {s.next, s.next + 1}
      /\ Holds(s, Nat) /\ Covers(Nat, d.next) => Holds(d, Nat)
  BY DescendedFacts
<1> HIDE DEF d
<1>2. Holds(s, Nat) /\ Covers(Nat, d.next)
  BY DEF Holds, Covers
<1> QED BY <1>1, <1>2 DEF Holds, d

LEMMA DescendedTable ==
  ASSUME NEW s, Walker(s), s.mem \in [Cells -> Nat], s.next \in Nat, NEW T, s.table \in T,
         NEW v \in Nat, NEW level \in 2 .. 4
  PROVE  Descended(s, v, level).table \in Below(T)
<1> DEFINE f == FrameIn(s.mem, s.table, IndexAt(v, level))
<1>1. f \in Below(T)
  BY DEF Below
<1> HIDE DEF f
<1>2. [s EXCEPT !.table = f].table = f
  BY DEF Walker
<1>3. s.table \in Below(T) /\ s.next \in Below(T)
  BY DEF Below
<1> QED BY <1>1, <1>2, <1>3 DEF Descended, f

LEMMA MappedTable ==
  ASSUME NEW b, b.mem \in [Cells -> Nat], b.next \in Nat, NEW v \in Nat, NEW f \in Nat
  PROVE  Mapped(b, v, f).table \in Below(Below(Below({pml4})))
<1> DEFINE top == [mem |-> b.mem, next |-> b.next, table |-> pml4]
           pdpt == Descended(top, v, 4)
           pd == Descended(pdpt, v, 3)
           pt == Descended(pd, v, 2)
           A == Below({pml4})
           B == Below(A)
           C == Below(B)
<1>1. top.next \in Nat /\ top.mem \in [Cells -> Nat] /\ Walker(top) /\ top.table \in {pml4}
  BY DEF Walker
<1> HIDE DEF top, A, B, C
<1>2. Walker(pdpt) /\ pdpt.next \in Nat /\ pdpt.mem \in [Cells -> Nat]
  BY <1>1, DescendedNat
<1>3. pdpt.table \in A
  BY <1>1, DescendedTable DEF A
<1> HIDE DEF pdpt
<1>4. Walker(pd) /\ pd.next \in Nat /\ pd.mem \in [Cells -> Nat]
  BY <1>2, DescendedNat
<1>5. pd.table \in B
  BY <1>2, <1>3, DescendedTable DEF B
<1> HIDE DEF pd
<1>6. Walker(pt)
  BY <1>4, DescendedFacts
<1>7. pt.table \in C
  BY <1>4, <1>5, DescendedTable DEF C
<1> HIDE DEF pt
<1>8. [pt EXCEPT !.mem = WithEntry(pt.mem, pt.table, IndexAt(v, 1), f)].table = pt.table
  BY <1>6 DEF Walker
<1> QED BY <1>7, <1>8 DEF Mapped, top, pdpt, pd, pt, A, B, C

LEMMA BootUnfolds ==
  /\ Boot[0] = BootStart
  /\ \A n \in 1 .. IdentityPages : Boot[n] = Mapped(Boot[n - 1], n - 1, n - 1)
<1> DEFINE T == Below(Below(Below({pml4})))
           S == [mem : [Cells -> Nat], next : Nat, table : T]
           N == IdentityPages
           g == [x \in Nat \X S |-> Mapped(x[2], x[1] - 1, x[1] - 1)]
           Step(r) == [n \in 0 .. N |-> IF n = 0 THEN BootStart ELSE Mapped(r[n - 1], n - 1, n - 1)]
<1>1. N \in Nat
  BY Constants
<1>2. BootStart \in S
  <2>1. Before \in [Cells -> Nat] /\ {0, 1} \subseteq Nat
    BY PagingAssumption, Constants
  <2>2. Cleared(Cleared(Before, pml4), 1) \in [Cells -> Nat]
    BY <2>1, ClearedType
  <2>3. pml4 \in T
    BY DEF Below
  <2> HIDE DEF T
  <2> QED BY <2>2, <2>3 DEF BootStart
<1> HIDE DEF T
<1>3. ASSUME NEW n \in Nat \ {0}, NEW s \in S
      PROVE  g[<<n, s>>] = Mapped(s, n - 1, n - 1) /\ g[<<n, s>>] \in S
  <2>1. g[<<n, s>>] = Mapped(s, n - 1, n - 1)
    OBVIOUS
  <2>2. n - 1 \in Nat /\ s.next \in Nat /\ Holds(s, Nat) /\ s.mem \in [Cells -> Nat]
    BY DEF Holds
  <2> DEFINE r == Mapped(s, n - 1, n - 1)
  <2>3. /\ Walker(r) /\ r.next \in Nat
        /\ \A V : Holds(s, V) /\ n - 1 \in V /\ Covers(V, r.next) => Holds(r, V)
    BY <2>2, MappedFacts
  <2>6. r.table \in T
    BY <2>2, MappedTable DEF T
  <2> HIDE DEF r, g
  <2>4. Covers(Nat, r.next)
    BY DEF Covers
  <2>5. r.mem \in [Cells -> Nat]
    BY <2>2, <2>3, <2>4 DEF Holds
  <2> QED BY <2>1, <2>3, <2>5, <2>6 DEF r, Walker
<1> HIDE DEF g
<1>4. PICK f : IsRecursion(f, BootStart, g, N, S)
  <2> HIDE DEF S, N
  <2>1. StaysIn(g, S)
    BY <1>3 DEF StaysIn
  <2> QED BY <1>1, <1>2, <2>1, RecursionExists
<1>5. f = Step(f)
  <2>1. \A n \in 0 .. N : n # 0 => n \in Nat \ {0} /\ n \in 1 .. N /\ n - 1 \in 0 .. N
                                   /\ f[n - 1] \in S
    <3> HIDE DEF S, N
    <3> QED BY <1>1, <1>4 DEF IsRecursion
  <2>2. \A n \in 0 .. N : f[n] = IF n = 0 THEN BootStart ELSE Mapped(f[n - 1], n - 1, n - 1)
    <3> HIDE DEF S, N
    <3> QED BY <1>3, <1>4, <2>1 DEF IsRecursion
  <2>3. f = [n \in 0 .. N |-> f[n]]
    BY <1>4 DEF IsRecursion
  <2> QED BY <2>2, <2>3
<1>6. Boot = CHOOSE r : r = Step(r)
  BY DEF Boot, BootStart
<1>7. Boot = Step(Boot)
  <2> HIDE DEF Step
  <2> QED BY <1>5, <1>6
<1>8. 0 \in 0 .. N /\ \A n \in 1 .. N : n \in 0 .. N /\ n # 0
  BY <1>1
<1> QED BY <1>7, <1>8

LEMMA BootFacts ==
  /\ Boot[IdentityPages].next \in 2 .. MaxTables
  /\ Boot[IdentityPages].mem \in [Cells -> Frames]
<1> DEFINE N == IdentityPages
           Good(n) == /\ Boot[n].next \in Nat /\ 2 <= Boot[n].next
                      /\ Boot[n].mem \in [Cells -> Frames]
           P == {n \in Nat : n \in 0 .. N => Good(n)}
<1>1. N \in Nat
  BY Constants
<1>2. 0 \in P
  BY BootUnfolds, ClearedType, PagingAssumption, Constants DEF BootStart
<1>3. ASSUME NEW n \in Nat, n \in P PROVE n + 1 \in P
  <2> SUFFICES ASSUME n + 1 \in 0 .. N PROVE Good(n + 1)
    OBVIOUS
  <2>1. n \in 0 .. N /\ n + 1 \in 1 .. N /\ (n + 1) - 1 = n /\ n \in 0 .. N - 1
    BY <1>1
  <2>2. Good(n)
    BY <1>3, <2>1
  <2> DEFINE r == Mapped(Boot[n], n, n)
  <2>3. Boot[n + 1] = r
    BY <2>1, BootUnfolds
  <2>4. /\ r.next \in Nat /\ Boot[n].next <= r.next
        /\ Holds(Boot[n], Frames) /\ n \in Frames /\ Covers(Frames, r.next) => Holds(r, Frames)
    BY <2>2, MappedFacts
  <2>5. r.next <= MaxTables
    <3>1. Boot[n + 1].next + 3 <= MaxTables
      BY BootAssumption
    <3> HIDE DEF r
    <3> QED BY <2>3, <2>4, <3>1, Constants
  <2> HIDE DEF r
  <2>6. Covers(Frames, r.next) /\ n \in Frames
    BY <2>1, <2>4, <2>5, Constants DEF Covers
  <2> QED BY <2>2, <2>3, <2>4, <2>6 DEF Holds
<1>4. N \in P
  <2> HIDE DEF P
  <2> QED BY <1>1, <1>2, <1>3, SetInduction
<1>5. Good(N)
  BY <1>1, <1>4
<1>6. Boot[N].next + 3 <= MaxTables
  BY <1>1, BootAssumption
<1> QED BY <1>5, <1>6, Constants

-----------------------------------------------------------------------------
(* Operations keep the types of the page tables.                           *)
PagingType ==
    /\ mem \in [Cells -> Frames]
    /\ next_physical_addr \in 2 .. MaxTables
    /\ page_table \in [Callers -> {NoTable} \cup (2 .. next_physical_addr - 1)]
    /\ mapped \in [Pages -> Frames \cup {Unmapped}]

LEMMA PagingInitType == PagingInit => PagingType
<1>1. \A v \in Pages : v < IdentityPages => v \in 0 .. IdentityPages - 1
  BY Constants
<1> QED BY <1>1, BootFacts, Constants DEF PagingInit, PagingType

LEMMA MapPageType ==
  ASSUME PagingType, NEW v, NEW f \in Frames, MapPage(v, f), UNCHANGED page_table
  PROVE  PagingType'
<1> DEFINE b == [mem |-> mem, next |-> next_physical_addr]
           r == Mapped(b, v, f)
<1>1. b.next = next_physical_addr /\ b.next \in Nat /\ Holds(b, Frames)
  BY Constants DEF PagingType, Holds
<1>2. b.next + 3 <= MaxTables /\ mem' = r.mem /\ next_physical_addr' = r.next
  BY DEF MapPage
<1> HIDE DEF b
<1>3. /\ r.next \in Nat /\ b.next <= r.next /\ r.next <= b.next + 3
      /\ Holds(b, Frames) /\ f \in Frames /\ Covers(Frames, r.next) => Holds(r, Frames)
  BY <1>1, MappedFacts
<1> HIDE DEF r
<1>4. r.next <= MaxTables /\ Covers(Frames, r.next)
  BY <1>1, <1>2, <1>3, Constants DEF Covers
<1>5. mem' \in [Cells -> Frames]
  BY <1>1, <1>2, <1>3, <1>4 DEF Holds
<1>6. next_physical_addr' \in 2 .. MaxTables /\ next_physical_addr <= next_physical_addr'
  BY <1>1, <1>2, <1>3, <1>4, Constants DEF PagingType
<1>7. page_table' \in [Callers -> {NoTable} \cup (2 .. next_physical_addr' - 1)]
  <2>1. 2 .. next_physical_addr - 1 \subseteq 2 .. next_physical_addr' - 1
    <3>1. \A a, c \in Nat : a <= c => 2 .. a - 1 \subseteq 2 .. c - 1
      OBVIOUS
    <3>2. next_physical_addr \in Nat /\ next_physical_addr' \in Nat
      BY <1>1, <1>2, <1>3
    <3> QED BY <1>6, <3>1, <3>2
  <2> QED BY <2>1 DEF PagingType
<1>8. mapped' \in [Pages -> Frames \cup {Unmapped}]
  BY DEF MapPage, PagingType
<1> QED BY <1>5, <1>6, <1>7, <1>8 DEF PagingType

LEMMA UnmapPageType ==
  ASSUME PagingType, NEW v, UnmapPage(v), UNCHANGED page_table
  PROVE  PagingType'
<1> DEFINE gone(c) == \E t \in LastTables(mem, v) : c = PresentCell(t, IndexAt(v, 1))
<1>1. mem' = [c \in Cells |-> IF gone(c) THEN 0 ELSE mem[c]]
  BY DEF UnmapPage
<1> HIDE DEF gone
<1>2. mem' \in [Cells -> Frames]
  BY <1>1, Constants DEF PagingType
<1>3. mapped' \in [Pages -> Frames \cup {Unmapped}]
  BY DEF UnmapPage, PagingType
<1> QED BY <1>2, <1>3 DEF UnmapPage, PagingType

LEMMA CreateSpaceType ==
  ASSUME PagingType, NEW p \in Callers, NEW refused, CreateSpace(p, refused)
  PROVE  PagingType'
<1>1. next_physical_addr \in Nat /\ 2 <= next_physical_addr /\ next_physical_addr < MaxTables
  BY Constants DEF PagingType, CreateSpace
<1>2. next_physical_addr' = next_physical_addr + 1 /\ next_physical_addr' \in 2 .. MaxTables
  BY <1>1, Constants DEF CreateSpace
<1>3. mem' \in [Cells -> Frames]
  <2> DEFINE t == next_physical_addr
             upper == {Cell(t, i, c) : i \in Fanout \div 2 .. Fanout - 1, c \in 0 .. 4}
             lower == Written(t, 0 .. Fanout \div 2 - 1)
  <2>1. ASSUME NEW c \in upper PROVE c - t * PageCells \in Cells
    <3>1. PICK i \in Fanout \div 2 .. Fanout - 1, k \in 0 .. 4 : c = Cell(t, i, k)
      OBVIOUS
    <3>2. i \in Nat /\ i + 1 <= Fanout /\ Fanout \in Nat /\ MaxTables \in Nat /\ PageCells \in Nat
      <4>1. Fanout \in Nat /\ Fanout \div 2 \in Nat
        BY PagingAssumption
      <4> QED BY <4>1, PagingAssumption
    <3>3. t * PageCells \in Nat /\ MaxTables * PageCells \in Nat
      BY <1>1, <3>2
    <3>4. c - t * PageCells = i * 5 + k
      BY <3>1, <3>2, <3>3 DEF Cell, EntryCells
    <3> QED BY <3>2, <3>3, <3>4 DEF Cells, EntryCells
  <2>2. mem' = [c \in Cells |-> IF c \in upper THEN mem[c - t * PageCells]
                                ELSE IF c \in lower THEN 0 ELSE mem[c]]
    BY DEF CreateSpace, WithUpperHalf
  <2> HIDE DEF upper, lower, t
  <2> QED BY <2>1, <2>2, Constants DEF PagingType
<1>4. page_table' \in [Callers -> {NoTable} \cup (2 .. next_physical_addr' - 1)]
  BY <1>1, <1>2 DEF PagingType, CreateSpace
<1> QED BY <1>2, <1>3, <1>4 DEF PagingType, CreateSpace

LEMMA KernelStepType ==
  ASSUME PagingType, KernelStep
  PROVE  PagingType'
<1>1. UNCHANGED page_table
  BY DEF KernelStep
<1>2. PICK v \in KernelMaps : UnmapPage(v) \/ \E f \in KernelFrames : MapPage(v, f)
  BY DEF KernelStep
<1>3. KernelFrames \subseteq Frames
  BY PagingAssumption
<1> QED BY <1>1, <1>2, <1>3, UnmapPageType, MapPageType

-----------------------------------------------------------------------------
(* What is to be done: the pages of every segment and the stack's are      *)
(* mapped, and every segment is written.                                   *)
SegmentType == [vaddr : Nat, filesz : Nat, memsz : Nat]
StepType == {MapStep(v) : v \in Pages} \cup {WriteStep(s) : s \in SegmentType}
StepSeq == Seq(StepType)

LEMMA StepsType ==
  ASSUME NEW s \in SegmentType, SegmentPages(s) \subseteq Pages
  PROVE  StepsOf(s) \in StepSeq
<1> DEFINE first == PageOf(s.vaddr)
           last == PageOf(s.vaddr + s.memsz + PageCells - 1) - 1
           n == Cardinality(SegmentPages(s))
           maps == [i \in 1 .. n |-> MapStep(first + i - 1)]
<1>1. first \in Nat /\ last \in Int
  <2>1. s.vaddr \in Nat /\ s.vaddr + s.memsz + PageCells - 1 \in Nat /\ PageCells \in Nat \ {0}
    BY Constants DEF SegmentType
  <2> QED BY <2>1, DivMod DEF PageOf
<1>2. SegmentPages(s) = first .. last
  BY DEF SegmentPages
<1> HIDE DEF first, last
<1>3. n = IF first > last THEN 0 ELSE last - first + 1
  BY <1>1, <1>2, FS_Interval
<1> HIDE DEF n
<1>4. n \in Nat /\ \A i \in 1 .. n : first + i - 1 \in Pages
  BY <1>1, <1>2, <1>3
<1>5. maps \in StepSeq
  <2>1. \A i \in 1 .. n : MapStep(first + i - 1) \in StepType
    BY <1>4 DEF StepType
  <2> QED BY <1>4, <2>1 DEF StepSeq
<1>6. <<WriteStep(s)>> \in StepSeq
  BY DEF StepSeq, StepType
<1>7. StepsOf(s) = maps \o <<WriteStep(s)>>
  BY DEF StepsOf, first, n
<1> HIDE DEF maps
<1> QED BY <1>5, <1>6, <1>7, ConcatProperties DEF StepSeq

LEMMA ProgramType ==
  ASSUME NEW e \in EntryIds
  PROVE  ProgramSteps(e) \in StepSeq
<1> DEFINE N == Len(Segments[e])
           segment(n) == StepsOf(Segments[e][n])
           g == [x \in Nat \X StepSeq |-> IF x[1] \in 1 .. N THEN x[2] \o segment(x[1]) ELSE x[2]]
           Step(r) == [n \in 0 .. N |-> IF n = 0 THEN << >> ELSE r[n - 1] \o segment(n)]
           upTo == CHOOSE r : r = Step(r)
           stack == MapStep(PageOf(user_stack))
<1>1. /\ N \in Nat
      /\ \A n \in 1 .. N : Segments[e][n] \in SegmentType /\ SegmentPages(Segments[e][n]) \subseteq Pages
  <2>1. Segments[e] \in Seq(SegmentType) /\ DOMAIN Segments[e] = 1 .. N
    BY LoaderAssumption DEF SegmentType
  <2>2. \A n \in DOMAIN Segments[e] : SegmentPages(Segments[e][n]) \subseteq Pages
    BY LoaderAssumption
  <2> QED BY <2>1, <2>2
<1>2. ASSUME NEW n \in 1 .. N PROVE segment(n) \in StepSeq
  BY <1>1, StepsType
<1> HIDE DEF segment
<1>3. << >> \in StepSeq
  BY DEF StepSeq
<1>4. ASSUME NEW n \in Nat \ {0}, NEW s \in StepSeq
      PROVE  /\ g[<<n, s>>] = IF n \in 1 .. N THEN s \o segment(n) ELSE s
             /\ g[<<n, s>>] \in StepSeq
  <2>1. g[<<n, s>>] = IF n \in 1 .. N THEN s \o segment(n) ELSE s
    OBVIOUS
  <2>2. n \in 1 .. N => s \o segment(n) \in StepSeq
    BY <1>2, ConcatProperties DEF StepSeq
  <2> HIDE DEF g
  <2> QED BY <2>1, <2>2
<1> HIDE DEF g
<1>5. PICK f : IsRecursion(f, << >>, g, N, StepSeq)
  <2> HIDE DEF N
  <2>1. StaysIn(g, StepSeq)
    BY <1>4 DEF StaysIn
  <2> QED BY <1>1, <1>3, <2>1, RecursionExists
<1>6. f = Step(f)
  <2>1. \A n \in 0 .. N : n # 0 => n \in Nat \ {0} /\ n \in 1 .. N /\ n - 1 \in 0 .. N
                                   /\ f[n - 1] \in StepSeq
    <3>1. f \in [0 .. N -> StepSeq]
      BY <1>5 DEF IsRecursion
    <3> HIDE DEF N
    <3> QED BY <1>1, <3>1
  <2>2. ASSUME NEW n \in 0 .. N PROVE f[n] = IF n = 0 THEN << >> ELSE f[n - 1] \o segment(n)
    <3>1. CASE n = 0
      BY <1>5, <3>1 DEF IsRecursion
    <3>2. CASE n # 0
      <4>1. f[n] = g[<<n, f[n - 1]>>]
        BY <1>5, <2>1, <3>2 DEF IsRecursion
      <4>2. g[<<n, f[n - 1]>>] = f[n - 1] \o segment(n)
        BY <1>4, <2>1, <3>2
      <4> QED BY <3>2, <4>1, <4>2
    <3> QED BY <3>1, <3>2
  <2>3. f = [n \in 0 .. N |-> f[n]]
    BY <1>5 DEF IsRecursion
  <2> QED BY <2>2, <2>3
<1>7. upTo = Step(upTo)
  <2> HIDE DEF Step
  <2> QED BY <1>6
<1> HIDE DEF upTo
<1> DEFINE P == {n \in Nat : n \in 0 .. N => upTo[n] \in StepSeq}
<1>8. 0 \in P
  BY <1>1, <1>3, <1>7
<1>9. ASSUME NEW n \in Nat, n \in P PROVE n + 1 \in P
  <2> SUFFICES ASSUME n + 1 \in 0 .. N PROVE upTo[n + 1] \in StepSeq
    OBVIOUS
  <2>1. n \in 0 .. N /\ n + 1 \in 1 .. N /\ (n + 1) - 1 = n /\ n + 1 # 0
    BY <1>1
  <2>2. upTo[n] \in StepSeq /\ segment(n + 1) \in StepSeq
    BY <1>2, <1>9, <2>1
  <2>3. upTo[n + 1] = upTo[n] \o segment(n + 1)
    BY <1>7, <2>1
  <2> QED BY <2>2, <2>3, ConcatProperties DEF StepSeq
<1>10. upTo[N] \in StepSeq
  <2>1. N \in P
    <3> HIDE DEF P
    <3> QED BY <1>1, <1>8, <1>9, SetInduction
  <2> QED BY <1>1, <2>1
<1>11. <<stack>> \in StepSeq
  <2>1. stack \in StepType
    BY LoaderAssumption DEF StepType
  <2> HIDE DEF stack
  <2> QED BY <2>1 DEF StepSeq
<1>12. ProgramSteps(e) = upTo[N] \o <<stack>>
  BY DEF ProgramSteps, upTo, segment
<1> HIDE DEF stack
<1> QED BY <1>10, <1>11, <1>12, ConcatProperties DEF StepSeq

(* The next thing to do has its type, and so has what then is left.        *)
LEMMA TodoFacts ==
  ASSUME NEW todo \in StepSeq, todo # << >>
  PROVE  Tail(todo) \in StepSeq /\ (Head(todo).op = "map" => Head(todo).page \in Pages)
<1>1. Head(todo) \in StepType /\ Tail(todo) \in StepSeq
  BY HeadTailProperties DEF StepSeq
<1>2. CASE Head(todo) \in {MapStep(v) : v \in Pages}
  <2>1. PICK v \in Pages : Head(todo) = [op |-> "map", page |-> v]
    BY <1>2 DEF MapStep
  <2> QED BY <1>1, <2>1
<1>3. CASE Head(todo) \in {WriteStep(s) : s \in SegmentType}
  <2>1. PICK s \in SegmentType : Head(todo) = [op |-> "write", segment |-> s]
    BY <1>3 DEF WriteStep
  <2> QED BY <1>1, <2>1
<1> QED BY <1>1, <1>2, <1>3 DEF StepType

-----------------------------------------------------------------------------
(* Descriptors are opened and closed one at a time.                        *)
FileType == [FileFds -> [stage : {"unused", "open", "closed"},
                         entry : EntryIds \cup {NoFile}, pos : Nat]]

LEMMA OpenFacts ==
  ASSUME file \in FileType, NEW n \in FileFds, NEW e \in EntryIds, Table!Open(n, e)
  PROVE  file' \in FileType /\ OpenFds' = OpenFds \cup {n}
<1>1. file' = [file EXCEPT ![n] = [stage |-> "open", entry |-> e, pos |-> 0]]
  BY DEF Table!Open, Table!At
<1>2. file' \in FileType
  BY <1>1 DEF FileType
<1>3. \A m \in FileFds : file'[m].stage = IF m = n THEN "open" ELSE file[m].stage
  BY <1>1 DEF FileType
<1> QED BY <1>2, <1>3 DEF OpenFds

LEMMA CloseFacts ==
  ASSUME file \in FileType, NEW n \in FileFds, Table!Close(n)
  PROVE  file' \in FileType /\ OpenFds' = OpenFds \ {n}
<1>1. file' = [file EXCEPT ![n] = [stage |-> "closed", entry |-> NoFile, pos |-> 0]]
  BY DEF Table!Close, Table!At, Table!NoEntry, NoFile
<1>2. file' \in FileType
  BY <1>1 DEF FileType
<1>3. \A m \in FileFds : file'[m].stage = IF m = n THEN "closed" ELSE file[m].stage
  BY <1>1 DEF FileType
<1> QED BY <1>2, <1>3 DEF OpenFds

LEMMA ReadFacts ==
  ASSUME file \in FileType, NEW n \in FileFds, Table!Read(n)
  PROVE  file' \in FileType
<1>1. PICK p \in file[n].pos .. Size[file[n].entry] : file' = [file EXCEPT ![n].pos = p]
  BY DEF Table!Read
<1>2. file[n] \in [stage : {"unused", "open", "closed"}, entry : EntryIds \cup {NoFile}, pos : Nat]
  BY DEF FileType
<1>3. p \in Nat
  BY <1>1, <1>2
<1>4. [file[n] EXCEPT !.pos = p] \in
         [stage : {"unused", "open", "closed"}, entry : EntryIds \cup {NoFile}, pos : Nat]
  BY <1>2, <1>3
<1> QED BY <1>1, <1>4 DEF FileType

(* The loader's own close, whatever its descriptor names by now.           *)
LEMMA CloseFileFacts ==
  ASSUME file \in FileType, load.fd \in FileFds, CloseFile
  PROVE  file' \in FileType /\ OpenFds' = OpenFds \ {load.fd}
<1>1. CASE file[load.fd].stage = "open"
  <2>1. Table!Close(load.fd)
    BY <1>1 DEF CloseFile
  <2> QED BY <2>1, CloseFacts
<1>2. CASE file[load.fd].stage # "open"
  <2>1. UNCHANGED file
    BY <1>2 DEF CloseFile
  <2> QED BY <1>2, <2>1 DEF OpenFds
<1> QED BY <1>1, <1>2

-----------------------------------------------------------------------------
(* Beyond TypeOK: the load's own fields have their types; until its file   *)
(* has been read, only that may be open and not have been before; and      *)
(* afterwards nothing is.                                                  *)
Stages == {"idle", "opened", "buffered", "read", "created", "loading"}

Loads == [stage : Stages, fd : FileFds \cup {NoFile}, entry : EntryIds \cup {NoFile},
          proc : Callers \cup {NoProc}, todo : StepSeq, before : SUBSET FileFds]

LoadType == load \in Loads

FilesInv ==
    /\ file \in FileType
    /\ load.stage \in {"opened", "buffered"} =>
          load.fd \in FileFds /\ OpenFds \subseteq load.before \cup {load.fd}
    /\ load.stage \in {"read", "created", "loading"} => OpenFds \subseteq load.before

ProcInv ==
    /\ state \in [Callers -> {"none", "READY", "loaded"}]
    /\ load.stage \in {"created", "loading"} =>
          load.proc \in Callers /\ state[load.proc] = "READY"

BufferInv ==
    buffer = IF load.stage \in {"buffered", "read", "created", "loading"} THEN TRUE ELSE FALSE

BlocksInv ==
    /\ used \subseteq Blocks
    /\ intact \in BOOLEAN

IInv == PagingType /\ LoadType /\ FilesInv /\ ProcInv /\ BufferInv /\ BlocksInv

LEMMA IdleType == Idle \in Loads /\ Idle.stage = "idle"
BY DEF Idle, Loads, Stages, StepSeq

LEMMA InitEstablishes == Init => IInv
<1> SUFFICES ASSUME Init PROVE IInv
  OBVIOUS
<1>1. file \in FileType
  BY DEF Init, Table!Init, Table!At, Table!NoEntry, NoFile, FileType
<1>2. load = Idle /\ load.stage = "idle" /\ LoadType
  BY IdleType DEF Init, LoadType
<1>3. PagingType
  BY PagingInitType DEF Init
<1> QED BY <1>1, <1>2, <1>3 DEF Init, IInv, FilesInv, ProcInv, BufferInv, BlocksInv

(* The call may return at any point at which it keeps no file.             *)
LEMMA ReturnKeeps ==
  ASSUME IInv, Returns, buffer' = FALSE, file' \in FileType,
         UNCHANGED <<used, intact>>, PagingType',
         state' \in [Callers -> {"none", "READY", "loaded"}]
  PROVE  IInv'
<1>1. load' = Idle /\ load'.stage = "idle" /\ LoadType'
  BY IdleType DEF Returns, LoadType
<1> QED BY <1>1 DEF IInv, FilesInv, ProcInv, BufferInv, BlocksInv

LEMMA PagingKept ==
  ASSUME IInv, UNCHANGED paging
  PROVE  PagingType'
BY DEF IInv, PagingType, paging

LEMMA OthersKeep ==
  ASSUME IInv, OtherFiles \/ OtherPages
  PROVE  IInv'
<1>1. load.stage = "idle" /\ UNCHANGED <<load, buffer, used, intact, state>>
  BY DEF OtherFiles, OtherPages
<1>2. file' \in FileType
  <2>1. CASE OtherPages
    BY <2>1 DEF OtherPages, IInv, FilesInv
  <2>2. CASE OtherFiles
    <3>1. PICK n \in FileFds : \/ \E e \in EntryIds : Table!Open(n, e)
                               \/ Table!Read(n)
                               \/ Table!Close(n)
      BY <2>2 DEF OtherFiles, Table!Next
    <3> QED BY <3>1, OpenFacts, ReadFacts, CloseFacts DEF IInv, FilesInv
  <2> QED BY <2>1, <2>2
<1>3. PagingType'
  <2>1. CASE OtherPages
    BY <2>1, KernelStepType DEF OtherPages, IInv
  <2>2. CASE OtherFiles
    BY <2>2, PagingKept DEF OtherFiles
  <2> QED BY <2>1, <2>2
<1> QED BY <1>1, <1>2, <1>3
        DEF IInv, LoadType, FilesInv, ProcInv, BufferInv, BlocksInv

LEMMA StartKeeps ==
  ASSUME IInv, NEW e \in EntryIds, Start(e)
  PROVE  IInv'
<1>1. /\ load.stage = "idle" /\ file \in FileType /\ PagingType'
      /\ UNCHANGED <<buffer, used, intact, state>>
  BY PagingKept DEF Start, IInv, FilesInv
<1>2. ASSUME NEW fd \in FileFds
      PROVE  /\ Opened(fd, e) \in Loads /\ Opened(fd, e).stage = "opened"
             /\ Opened(fd, e).fd = fd /\ Opened(fd, e).before = OpenFds
  <2>1. OpenFds \in SUBSET FileFds /\ << >> \in StepSeq
    BY DEF OpenFds, StepSeq
  <2> QED BY <2>1 DEF Opened, Loads, Stages
<1>3. ASSUME NEW fd \in FileFds, load' = Opened(fd, e), file' \in FileType,
             OpenFds' \subseteq OpenFds \cup {fd}
      PROVE  IInv'
  BY <1>1, <1>2, <1>3 DEF IInv, LoadType, FilesInv, ProcInv, BufferInv, BlocksInv
<1>4. ASSUME NEW fd \in FileFds, Table!Open(fd, e), load' = Opened(fd, e)
      PROVE  IInv'
  BY <1>1, <1>3, <1>4, OpenFacts
<1>5. ASSUME load' = Opened(3, e), UNCHANGED file PROVE IInv'
  BY <1>1, <1>3, <1>5, LoaderAssumption DEF OpenFds
<1> QED BY <1>4, <1>5 DEF Start

LEMMA AllocBufferKeeps ==
  ASSUME IInv, NEW refused, AllocBuffer(refused)
  PROVE  IInv'
<1>1. /\ load.stage = "opened" /\ file \in FileType /\ load.fd \in FileFds /\ PagingType'
      /\ UNCHANGED <<used, intact, state>> /\ buffer = FALSE
  BY PagingKept DEF AllocBuffer, IInv, FilesInv, BufferInv
<1>2. CASE refused
  <2>1. Returns /\ CloseFile /\ buffer' = FALSE
    BY <1>1, <1>2 DEF AllocBuffer
  <2>2. file' \in FileType
    BY <1>1, <2>1, CloseFileFacts
  <2> QED BY <1>1, <2>1, <2>2, ReturnKeeps DEF IInv, ProcInv
<1>3. CASE ~refused
  <2>1. load' = [load EXCEPT !.stage = "buffered"] /\ buffer' = TRUE /\ UNCHANGED file
    BY <1>3 DEF AllocBuffer
  <2>2. /\ load'.stage = "buffered" /\ load'.fd = load.fd /\ load'.before = load.before
        /\ LoadType'
    BY <2>1 DEF IInv, LoadType, Loads, Stages
  <2>3. OpenFds' = OpenFds
    BY <2>1 DEF OpenFds
  <2> QED BY <1>1, <2>1, <2>2, <2>3 DEF IInv, FilesInv, ProcInv, BufferInv, BlocksInv
<1> QED BY <1>2, <1>3

LEMMA ReadFileKeeps ==
  ASSUME IInv, ReadFile
  PROVE  IInv'
<1>1. /\ load.stage = "buffered" /\ file \in FileType /\ load.fd \in FileFds /\ PagingType'
      /\ OpenFds \subseteq load.before \cup {load.fd}
      /\ UNCHANGED <<used, intact, state>> /\ CloseFile /\ buffer = TRUE
  BY PagingKept DEF ReadFile, IInv, FilesInv, BufferInv
<1>2. file' \in FileType /\ OpenFds' \subseteq load.before
  BY <1>1, CloseFileFacts
<1>3. CASE Returns /\ buffer' = FALSE
  BY <1>1, <1>2, <1>3, ReturnKeeps DEF IInv, ProcInv
<1>4. CASE load' = [load EXCEPT !.stage = "read", !.entry = FileRead] /\ UNCHANGED buffer
  <2>1. FileRead \in EntryIds \cup {NoFile}
    BY <1>1 DEF FileRead, FileType
  <2>2. load'.stage = "read" /\ load'.before = load.before /\ LoadType'
    BY <1>4, <2>1 DEF IInv, LoadType, Loads, Stages
  <2> QED BY <1>1, <1>2, <1>4, <2>2 DEF IInv, FilesInv, ProcInv, BufferInv, BlocksInv
<1> QED BY <1>3, <1>4 DEF ReadFile

LEMMA FailuresKeep ==
  ASSUME IInv, TaskRefused \/ PageRefused
  PROVE  IInv'
<1>1. Returns /\ buffer' = FALSE /\ UNCHANGED <<paging, file, used, intact, state>>
  BY DEF TaskRefused, PageRefused, Maps
<1>2. file' \in FileType /\ state' \in [Callers -> {"none", "READY", "loaded"}]
  BY <1>1 DEF IInv, FilesInv, ProcInv
<1> QED BY <1>1, <1>2, ReturnKeeps, PagingKept

LEMMA TaskCreateKeeps ==
  ASSUME IInv, NEW p \in Callers, NEW refused, TaskCreate(p, refused)
  PROVE  IInv'
<1>1. /\ load.stage = "read" /\ UNCHANGED <<file, buffer, used, intact>>
      /\ PagingType' /\ state' = [state EXCEPT ![p] = "READY"]
      /\ load' = [load EXCEPT !.stage = "created", !.proc = p]
  BY CreateSpaceType DEF TaskCreate, IInv
<1>2. load'.stage = "created" /\ load'.proc = p /\ load'.before = load.before /\ LoadType'
  BY <1>1 DEF IInv, LoadType, Loads, Stages
<1>3. OpenFds' = OpenFds
  BY <1>1 DEF OpenFds
<1>4. FilesInv' /\ BufferInv' /\ BlocksInv'
  BY <1>1, <1>2, <1>3 DEF IInv, FilesInv, BufferInv, BlocksInv
<1>5. ProcInv'
  BY <1>1, <1>2 DEF IInv, ProcInv
<1> QED BY <1>1, <1>2, <1>4, <1>5 DEF IInv

LEMMA ValidateKeeps ==
  ASSUME IInv, Validate
  PROVE  IInv'
<1>1. load.stage = "created" /\ UNCHANGED <<paging, file, used, intact, state>>
  BY DEF Validate
<1>2. CASE Returns /\ buffer' = FALSE
  BY <1>1, <1>2, ReturnKeeps, PagingKept DEF IInv, FilesInv, ProcInv
<1>3. CASE /\ load.entry \in Valid /\ UNCHANGED buffer
           /\ load' = [load EXCEPT !.stage = "loading", !.todo = ProgramSteps(load.entry)]
  <2>1. ProgramSteps(load.entry) \in StepSeq
    BY <1>3, ProgramType, LoaderAssumption
  <2>2. /\ load'.stage = "loading" /\ load'.proc = load.proc /\ load'.before = load.before
        /\ LoadType'
    BY <1>3, <2>1 DEF IInv, LoadType, Loads, Stages
  <2>3. OpenFds' = OpenFds /\ PagingType'
    BY <1>1, PagingKept DEF OpenFds
  <2> QED BY <1>1, <1>3, <2>2, <2>3 DEF IInv, FilesInv, ProcInv, BufferInv, BlocksInv
<1> QED BY <1>2, <1>3 DEF Validate

LEMMA LoadPageKeeps ==
  ASSUME IInv, LoadPage
  PROVE  IInv'
<1> DEFINE next == Head(load.todo)
<1>1. /\ load.stage = "loading" /\ load.todo # << >> /\ next.op = "map"
      /\ load' = [load EXCEPT !.todo = Tail(@)]
      /\ UNCHANGED <<page_table, file, buffer, intact, state>>
  BY DEF LoadPage, Maps
<1>2. PICK b \in Blocks : used' = used \cup {b} /\ MapPage(next.page, PageOf(b))
  BY DEF LoadPage
<1>3. PagingType'
  <2>1. PageOf(b) \in Frames
    BY LoaderAssumption
  <2> HIDE DEF next
  <2> QED BY <1>1, <1>2, <2>1, MapPageType DEF IInv
<1>4. load.todo \in StepSeq
  BY DEF IInv, LoadType, Loads
<1>5. Tail(load.todo) \in StepSeq
  BY <1>1, <1>4, TodoFacts
<1>6. /\ load'.stage = load.stage /\ load'.proc = load.proc /\ load'.before = load.before
      /\ LoadType'
  BY <1>1, <1>5 DEF IInv, LoadType, Loads
<1>7. BlocksInv'
  BY <1>1, <1>2 DEF IInv, BlocksInv
<1>8. OpenFds' = OpenFds
  BY <1>1 DEF OpenFds
<1> QED BY <1>1, <1>3, <1>6, <1>7, <1>8 DEF IInv, FilesInv, ProcInv, BufferInv

LEMMA WriteSegmentKeeps ==
  ASSUME IInv, WriteSegment
  PROVE  IInv'
<1> DEFINE cells == SegmentCells(Head(load.todo).segment)
           kept == \A a \in cells : Physical(a) \notin Headers
<1>1. /\ load.stage = "loading" /\ load.todo # << >>
      /\ load' = [load EXCEPT !.todo = Tail(@)]
      /\ UNCHANGED <<paging, file, buffer, used, state>>
  BY DEF WriteSegment
<1>2. intact' = (intact /\ kept)
  BY DEF WriteSegment
<1> HIDE DEF kept
<1>3. BlocksInv'
  <2>1. intact' \in BOOLEAN
    BY <1>2
  <2> QED BY <1>1, <2>1 DEF IInv, BlocksInv
<1>4. load.todo \in StepSeq
  BY DEF IInv, LoadType, Loads
<1>5. Tail(load.todo) \in StepSeq
  BY <1>1, <1>4, TodoFacts
<1>6. /\ load'.stage = load.stage /\ load'.proc = load.proc /\ load'.before = load.before
      /\ LoadType'
  BY <1>1, <1>5 DEF IInv, LoadType, Loads
<1>7. OpenFds' = OpenFds /\ PagingType'
  BY <1>1, PagingKept DEF OpenFds
<1> QED BY <1>1, <1>3, <1>6, <1>7 DEF IInv, FilesInv, ProcInv, BufferInv

LEMMA FinishKeeps ==
  ASSUME IInv, Finish
  PROVE  IInv'
<1>1. /\ Returns /\ buffer' = FALSE /\ UNCHANGED <<paging, file, used, intact>>
      /\ state' = [state EXCEPT ![load.proc] = "loaded"]
  BY DEF Finish
<1>2. file' \in FileType /\ state' \in [Callers -> {"none", "READY", "loaded"}]
  BY <1>1 DEF IInv, FilesInv, ProcInv
<1> QED BY <1>1, <1>2, ReturnKeeps, PagingKept

LEMMA StepKeeps == IInv /\ [Next]_vars => IInv'
<1> SUFFICES ASSUME IInv, [Next]_vars PROVE IInv'
  OBVIOUS
<1>1. CASE OtherFiles \/ OtherPages
  BY <1>1, OthersKeep
<1>2. ASSUME NEW e \in EntryIds, Start(e) PROVE IInv'
  BY <1>2, StartKeeps
<1>3. ASSUME NEW refused \in BOOLEAN, AllocBuffer(refused) PROVE IInv'
  BY <1>3, AllocBufferKeeps
<1>4. CASE ReadFile
  BY <1>4, ReadFileKeeps
<1>5. CASE TaskRefused \/ PageRefused
  BY <1>5, FailuresKeep
<1>6. ASSUME NEW p \in Callers, NEW refused \in BOOLEAN, TaskCreate(p, refused) PROVE IInv'
  BY <1>6, TaskCreateKeeps
<1>7. CASE Validate
  BY <1>7, ValidateKeeps
<1>8. CASE LoadPage
  BY <1>8, LoadPageKeeps
<1>9. CASE Finish
  BY <1>9, FinishKeeps
<1>11. CASE WriteSegment
  BY <1>11, WriteSegmentKeeps
<1>10. CASE UNCHANGED vars
  <2>1. UNCHANGED <<paging, file, load, buffer, used, intact, state>>
    BY <1>10 DEF vars
  <2>2. OpenFds' = OpenFds /\ PagingType'
    BY <2>1, PagingKept DEF OpenFds
  <2> QED BY <2>1, <2>2 DEF IInv, LoadType, FilesInv, ProcInv, BufferInv, BlocksInv
<1> QED BY <1>1, <1>2, <1>3, <1>4, <1>5, <1>6, <1>7, <1>8, <1>9, <1>10, <1>11 DEF Next, LoadStep

(* The invariant holds in every state, whichever allocations fail.         *)
THEOREM LoaderInductive == Spec => []IInv
BY InitEstablishes, StepKeeps, PTL DEF Spec

(* Whatever an entry holds, written whole or half overwritten by the table *)
(* before it, the tables and frames that it names lie in memory; tables    *)
(* lie below next_physical_addr (paging.c:18-117, 167-195); a process is   *)
(* under construction in the middle of a load only (elf.c:219-279).        *)
THEOREM LoaderTypeCorrect == Spec => []TypeOK
<1>1. ASSUME IInv PROVE TypeOK
  <2>1. buffer \in BOOLEAN /\ (buffer <=> load.stage \in {"buffered", "read", "created", "loading"})
    BY <1>1 DEF IInv, BufferInv
  <2>2. load.stage \in Stages
    BY <1>1 DEF IInv, LoadType, Loads
  <2> QED BY <1>1, <2>1, <2>2 DEF IInv, PagingType, Stages, BlocksInv, ProcInv, TypeOK
<1>2. IInv => TypeOK
  BY <1>1
<1> QED BY <1>2, LoaderInductive, PTL

(* Every way out of elf_create_process gives back the buffer, and leaves   *)
(* no file open that was not open when it was called (elf.c:219-279).      *)
THEOREM NothingEverKept == Spec => NothingKept
<1>1. ASSUME IInv, IInv', [Next]_vars, load.stage # "idle", load'.stage = "idle"
      PROVE  ~buffer' /\ OpenFds' \subseteq load.before
  <2>1. ~buffer'
    BY <1>1 DEF IInv, BufferInv
  <2>2. ASSUME UNCHANGED file, load.stage \in {"read", "created", "loading"}
        PROVE  OpenFds' \subseteq load.before
    BY <1>1, <2>2 DEF IInv, FilesInv, OpenFds
  <2>3. ASSUME CloseFile, load.stage \in {"opened", "buffered"}
        PROVE  OpenFds' \subseteq load.before
    <3>1. /\ file \in FileType /\ load.fd \in FileFds
          /\ OpenFds \subseteq load.before \cup {load.fd}
      BY <1>1, <2>3 DEF IInv, FilesInv
    <3> QED BY <2>3, <3>1, CloseFileFacts
  <2>4. CASE OtherFiles \/ OtherPages \/ \E e \in EntryIds : Start(e)
    BY <1>1, <2>4 DEF OtherFiles, OtherPages, Start
  <2>5. ASSUME NEW refused \in BOOLEAN, AllocBuffer(refused)
        PROVE  OpenFds' \subseteq load.before
    <3>1. CASE refused
      BY <2>3, <2>5, <3>1 DEF AllocBuffer
    <3>2. CASE ~refused
      <4>1. load'.stage = "buffered"
        BY <1>1, <2>5, <3>2 DEF AllocBuffer, IInv, LoadType, Loads
      <4> QED BY <1>1, <4>1
    <3> QED BY <3>1, <3>2
  <2>6. CASE ReadFile
    BY <2>1, <2>3, <2>6 DEF ReadFile
  <2>7. CASE TaskRefused \/ Validate \/ PageRefused \/ Finish
    BY <2>1, <2>2, <2>7 DEF TaskRefused, Validate, PageRefused, Maps, Finish
  <2>8. CASE (\E p \in Callers, refused \in BOOLEAN : TaskCreate(p, refused)) \/ LoadPage \/ WriteSegment
    BY <2>1, <2>2, <2>8 DEF TaskCreate, LoadPage, Maps, WriteSegment
  <2>9. CASE UNCHANGED vars
    BY <1>1, <2>9 DEF vars
  <2> QED BY <1>1, <2>1, <2>4, <2>5, <2>6, <2>7, <2>8, <2>9 DEF Next, LoadStep
<1>2. IInv /\ IInv' /\ [Next]_vars
        => [load.stage # "idle" /\ load'.stage = "idle"
              => ~buffer' /\ OpenFds' \subseteq load.before]_vars
  BY <1>1
<1> QED BY <1>2, LoaderInductive, PTL DEF Spec, NothingKept

-----------------------------------------------------------------------------
(* What an entry says, leaving aside the high bits of its frame, and what  *)
(* a walk then finds on its way down.                                      *)
Entry(m, t, i) == IF IsPresent(m, t, i) THEN m[Cell(t, i, 1)] ELSE Unmapped

Down(m, t, v, level) == IF t = NoTable THEN NoTable ELSE Entry(m, t, IndexAt(v, level))

Walk3(m, v) == Down(m, pml4, v, 4)
Walk2(m, v) == Down(m, Walk3(m, v), v, 3)
Walk1(m, v) == Down(m, Walk2(m, v), v, 2)
Leaf(m, v) == Down(m, Walk1(m, v), v, 1)

(* The table that a walk uses at a level; at 0, what the page is mapped to.*)
WalkTo(m, v, level) ==
    IF level = 4 THEN pml4
    ELSE IF level = 3 THEN Walk3(m, v)
    ELSE IF level = 2 THEN Walk2(m, v)
    ELSE IF level = 1 THEN Walk1(m, v)
    ELSE Leaf(m, v)

LEMMA WalkStep ==
  ASSUME NEW m, NEW v, NEW l \in 1 .. 4
  PROVE  WalkTo(m, v, l - 1) = Down(m, WalkTo(m, v, l), v, l)
<1>1. l = 1 \/ l = 2 \/ l = 3 \/ l = 4
  OBVIOUS
<1>2. CASE l = 4
  BY <1>2, 4 - 1 = 3 DEF WalkTo, Walk3
<1>3. CASE l = 3
  BY <1>3, 3 - 1 = 2 DEF WalkTo, Walk2
<1>4. CASE l = 2
  BY <1>4, 2 - 1 = 1 DEF WalkTo, Walk1
<1>5. CASE l = 1
  BY <1>5, 1 - 1 = 0 DEF WalkTo, Leaf
<1> QED BY <1>1, <1>2, <1>3, <1>4, <1>5

(* What holds at a level and goes down with each step holds below it.      *)
LEMMA DownFrom ==
  ASSUME NEW S, NEW top \in 0 .. 4, top \in S,
         \A l \in 1 .. top : l \in S => l - 1 \in S
  PROVE  \A l \in 0 .. top : l \in S
<1>1. 4 \in 1 .. top /\ 4 \in S => 3 \in S
  BY 4 - 1 = 3
<1>2. 3 \in 1 .. top /\ 3 \in S => 2 \in S
  BY 3 - 1 = 2
<1>3. 2 \in 1 .. top /\ 2 \in S => 1 \in S
  BY 2 - 1 = 1
<1>4. 1 \in 1 .. top /\ 1 \in S => 0 \in S
  BY 1 - 1 = 0
<1> QED BY <1>1, <1>2, <1>3, <1>4

(* An index into a table is one of its entries.                            *)
LEMMA IndexFacts ==
  ASSUME NEW v \in Pages, NEW l \in 1 .. 4
  PROVE  IndexAt(v, l) \in Indices
<1>1. Fanout \in Nat \ {0} /\ v \in Nat
  BY PagingAssumption
<1>2. Fanout * Fanout \in Nat \ {0}
  BY <1>1
<1>3. Fanout * Fanout * Fanout \in Nat \ {0}
  BY <1>1, <1>2
<1>4. Span[l] \in Nat \ {0}
  <2>1. l = 1 \/ l = 2 \/ l = 3 \/ l = 4
    OBVIOUS
  <2> QED BY <1>1, <1>2, <1>3, <2>1 DEF Span
<1>5. v \div Span[l] \in Nat
  BY <1>1, <1>4, DivMod
<1> QED BY <1>1, <1>5, DivMod DEF IndexAt, Indices

(* A page is given by its four indices.                                    *)
LEMMA IndicesDiffer ==
  ASSUME NEW v \in Pages, NEW w \in Pages,
         \A l \in 1 .. 4 : IndexAt(v, l) = IndexAt(w, l)
  PROVE  v = w
<1>1. /\ Fanout \in Nat \ {0} /\ v \in Nat /\ w \in Nat
      /\ v < Fanout * Fanout * Fanout * Fanout /\ w < Fanout * Fanout * Fanout * Fanout
  <2>1. Fanout * Fanout * Fanout * Fanout \in Nat
    <3>1. \A a \in Nat : a * Fanout \in Nat
      BY PagingAssumption
    <3> QED BY <3>1, PagingAssumption
  <2> DEFINE G == Fanout * Fanout * Fanout * Fanout
  <2>2. v \in 0 .. G - 1 /\ w \in 0 .. G - 1
    BY PagingAssumption
  <2> HIDE DEF G
  <2>3. v \in Nat /\ w \in Nat /\ v < G /\ w < G
    BY <2>1, <2>2 DEF G
  <2> QED BY <2>3, PagingAssumption DEF G
<1>2. \A x : /\ IndexAt(x, 1) = (x \div 1) % Fanout
             /\ IndexAt(x, 2) = (x \div Fanout) % Fanout
             /\ IndexAt(x, 3) = (x \div (Fanout * Fanout)) % Fanout
             /\ IndexAt(x, 4) = (x \div (Fanout * Fanout * Fanout)) % Fanout
  BY DEF IndexAt, Span
<1>3. v \div 1 = v /\ w \div 1 = w
  BY <1>1
<1>4. 1 \in 1 .. 4 /\ 2 \in 1 .. 4 /\ 3 \in 1 .. 4 /\ 4 \in 1 .. 4
  OBVIOUS
<1> QED BY <1>1, <1>2, <1>3, <1>4, DigitsEqual

-----------------------------------------------------------------------------
(* A cell of two tables is in one just above the other, as different       *)
(* fields: a frame is so many entries and three cells.                     *)
LEMMA Overlap ==
  ASSUME NEW t \in Nat, NEW u \in Nat, NEW i \in Indices, NEW j \in Indices,
         NEW c \in 0 .. 4, NEW d \in 0 .. 4, Cell(t, i, c) = Cell(u, j, d)
  PROVE  \/ t = u /\ i = j /\ c = d
         \/ t = u + 1 /\ (c = d + 2 \/ d = c + 3)
         \/ u = t + 1 /\ (d = c + 2 \/ c = d + 3)
<1> DEFINE P == PageCells
           q == P \div 5
<1>1. /\ P \in Nat \ {0} /\ Fanout \in Nat /\ Fanout * 5 <= 2 * P
      /\ q \in Nat /\ P = 5 * q + 3
  <2>1. P \in Nat /\ P % 5 = 3 /\ Fanout \in Nat /\ Fanout * 5 <= 2 * P
    BY PagingAssumption DEF EntryCells
  <2> HIDE DEF P
  <2> QED BY <2>1
<1>2. i \in Nat /\ j \in Nat /\ i + 1 <= Fanout /\ j + 1 <= Fanout
  BY <1>1 DEF Indices
<1>3. t * P + i * 5 + c = u * P + j * 5 + d
  BY DEF Cell, EntryCells
<1> HIDE DEF P, q
<1>4. ASSUME NEW a \in Nat, NEW b \in Nat, a + 2 <= b PROVE a * P + 2 * P <= b * P
  <2>1. (a + 2) * P <= b * P
    BY <1>1, <1>4
  <2>2. (a + 2) * P = a * P + 2 * P
    BY <1>1
  <2> QED BY <2>1, <2>2
<1> DEFINE tp == t * P
           up == u * P
<1>5. /\ tp \in Nat /\ up \in Nat
      /\ t + 2 <= u => tp + 2 * P <= up
      /\ u + 2 <= t => up + 2 * P <= tp
      /\ t = u => tp = up
      /\ t = u + 1 => tp = up + P
      /\ u = t + 1 => up = tp + P
  <2>1. (u + 1) * P = u * P + P /\ (t + 1) * P = t * P + P
    BY <1>1
  <2> QED BY <1>1, <1>4, <2>1
<1>6. tp + i * 5 + c = up + j * 5 + d
  BY <1>3
<1> HIDE DEF tp, up
<1>7. ~(t + 2 <= u) /\ ~(u + 2 <= t)
  BY <1>1, <1>2, <1>5, <1>6
<1>8. t = u \/ t = u + 1 \/ u = t + 1
  BY <1>7
<1>9. CASE t = u
  BY <1>2, <1>5, <1>6, <1>9
<1>10. CASE t = u + 1
  <2>1. 5 * (q + i - j) = d - c - 3
    BY <1>1, <1>2, <1>5, <1>6, <1>10
  <2> QED BY <1>1, <1>2, <1>10, <2>1
<1>11. CASE u = t + 1
  <2>1. 5 * (q + j - i) = c - d - 3
    BY <1>1, <1>2, <1>5, <1>6, <1>11
  <2> QED BY <1>1, <1>2, <1>11, <2>1
<1> QED BY <1>8, <1>9, <1>10, <1>11

(* Neighbouring cells are in neighbouring fields.                          *)
LEMMA Neighbours ==
  ASSUME NEW t \in Nat, NEW u \in Nat, NEW i \in Indices, NEW j \in Indices,
         Cell(t, i, 3) = Cell(u, j, 1)
  PROVE  Cell(t, i, 2) = Cell(u, j, 0)
<1> DEFINE a == t * PageCells + i * 5
           b == u * PageCells + j * 5
<1>1. a \in Nat /\ b \in Nat
  BY Constants DEF Indices
<1>2. /\ Cell(t, i, 3) = a + 3 /\ Cell(t, i, 2) = a + 2
      /\ Cell(u, j, 1) = b + 1 /\ Cell(u, j, 0) = b + 0
  BY DEF Cell, EntryCells
<1> HIDE DEF a, b
<1> QED BY <1>1, <1>2

(* Tables in memory have their cells.                                      *)
LEMMA CellsThere ==
  ASSUME NEW t \in 0 .. MaxTables, NEW i \in Indices, NEW c \in 0 .. 4
  PROVE  Cell(t, i, c) \in Cells
<1> DEFINE P == PageCells
<1>1. /\ P \in Nat /\ Fanout \in Nat /\ MaxTables \in Nat
      /\ t \in Nat /\ t <= MaxTables /\ i \in Nat /\ i + 1 <= Fanout
  BY PagingAssumption DEF Indices
<1>2. Cells = 0 .. MaxTables * P + Fanout * 5 /\ Cell(t, i, c) = t * P + i * 5 + c
  BY DEF Cells, Cell, EntryCells
<1> HIDE DEF P
<1>3. t * P <= MaxTables * P /\ t * P \in Nat /\ MaxTables * P \in Nat
  BY <1>1
<1> DEFINE tp == t * P
           mp == MaxTables * P
<1>4. tp \in Nat /\ mp \in Nat /\ tp <= mp /\ Cells = 0 .. mp + Fanout * 5 /\ Cell(t, i, c) = tp + i * 5 + c
  BY <1>2, <1>3
<1> HIDE DEF tp, mp
<1> QED BY <1>1, <1>4

-----------------------------------------------------------------------------
(* What the operations do to entries: others than those they write stay,   *)
(* or are no longer there.                                                 *)
Fades(m, m2, u, j) == Entry(m2, u, j) \in {Entry(m, u, j), Unmapped}

LEMMA EntryWritten ==
  ASSUME NEW m \in [Cells -> Nat], NEW t \in 0 .. MaxTables, NEW i \in Indices, NEW f \in Nat
  PROVE  LET m2 == WithEntry(m, t, i, f)
         IN  /\ Entry(m2, t, i) = f
             /\ \A u \in 0 .. MaxTables, j \in Indices : (u = t /\ j = i) \/ Fades(m, m2, u, j)
<1> DEFINE m2 == WithEntry(m, t, i, f)
<1>0. t \in Nat /\ 0 .. MaxTables \subseteq Nat
  BY Constants
<1>1. ASSUME NEW x \in Cells
      PROVE  m2[x] = IF x = Cell(t, i, 3) \/ x = Cell(t, i, 2) THEN 0
                     ELSE IF x = Cell(t, i, 1) THEN f
                     ELSE IF x = Cell(t, i, 0) THEN 1
                     ELSE m[x]
  BY EntryCellsWritten
<1> HIDE DEF m2
<1>2. Entry(m2, t, i) = f
  <2>1. /\ Cell(t, i, 0) \in Cells /\ Cell(t, i, 1) \in Cells
        /\ \A c, d \in 0 .. 4 : Cell(t, i, c) = Cell(t, i, d) => c = d
    BY <1>0, CellsThere, Overlap
  <2>2. /\ Cell(t, i, 0) # Cell(t, i, 1) /\ Cell(t, i, 0) # Cell(t, i, 2) /\ Cell(t, i, 0) # Cell(t, i, 3)
        /\ Cell(t, i, 1) # Cell(t, i, 2) /\ Cell(t, i, 1) # Cell(t, i, 3)
    BY <2>1
  <2> QED BY <1>1, <2>1, <2>2 DEF Entry, IsPresent, PresentCell
<1>3. ASSUME NEW u \in 0 .. MaxTables, NEW j \in Indices, ~(u = t /\ j = i)
      PROVE  Fades(m, m2, u, j)
  <2>1. /\ Cell(u, j, 0) \in Cells /\ Cell(u, j, 1) \in Cells
    BY CellsThere
  <2>2. \A c \in 0 .. 3 : Cell(t, i, c) = Cell(u, j, 0) => c = 2 \/ c = 3
    BY <1>0, <1>3, Overlap
  <2>3. \A c \in 0 .. 3 : Cell(t, i, c) = Cell(u, j, 1) => c = 3
    BY <1>0, <1>3, Overlap
  <2>4. Cell(t, i, 3) = Cell(u, j, 1) => Cell(t, i, 2) = Cell(u, j, 0)
    BY <1>0, Neighbours
  <2>5. /\ Cell(u, j, 0) # Cell(t, i, 0) /\ Cell(u, j, 0) # Cell(t, i, 1)
        /\ Cell(u, j, 1) # Cell(t, i, 0) /\ Cell(u, j, 1) # Cell(t, i, 1) /\ Cell(u, j, 1) # Cell(t, i, 2)
    BY <2>2, <2>3
  <2>6. m2[Cell(u, j, 0)] \in {m[Cell(u, j, 0)], 0}
    BY <1>1, <2>1, <2>5
  <2>7. m2[Cell(u, j, 0)] # 0 => m2[Cell(u, j, 1)] = m[Cell(u, j, 1)]
    BY <1>1, <2>1, <2>4, <2>5
  <2> QED BY <2>6, <2>7 DEF Fades, Entry, IsPresent, PresentCell
<1> QED BY <1>2, <1>3 DEF m2

(* A new table is empty.                                                   *)
LEMMA EntryCleared ==
  ASSUME NEW m \in [Cells -> Nat], NEW n \in 0 .. MaxTables
  PROVE  /\ \A j \in Indices : Entry(Cleared(m, n), n, j) = Unmapped
         /\ \A u \in 0 .. MaxTables, j \in Indices : Fades(m, Cleared(m, n), u, j)
<1> DEFINE m2 == Cleared(m, n)
           W == Written(n, Indices)
<1>0. n \in Nat /\ 0 .. MaxTables \subseteq Nat
  BY Constants
<1>1. ASSUME NEW x \in Cells PROVE m2[x] = IF x \in W THEN 0 ELSE m[x]
  BY DEF Cleared
<1>2. \A j \in Indices, c \in 0 .. 3 : Cell(n, j, c) \in W
  BY DEF Written
<1>3. \A x \in W : \E i \in Indices, c \in 0 .. 3 : x = Cell(n, i, c)
  BY DEF Written
<1> HIDE DEF m2, W
<1>4. ASSUME NEW j \in Indices PROVE Entry(m2, n, j) = Unmapped
  BY <1>1, <1>2, CellsThere DEF Entry, IsPresent, PresentCell
<1>5. ASSUME NEW u \in 0 .. MaxTables, NEW j \in Indices PROVE Fades(m, m2, u, j)
  <2>1. /\ Cell(u, j, 0) \in Cells /\ Cell(u, j, 1) \in Cells
    BY CellsThere
  <2>2. Cell(u, j, 1) \in W => Cell(u, j, 0) \in W
    <3> SUFFICES ASSUME Cell(u, j, 1) \in W PROVE Cell(u, j, 0) \in W
      OBVIOUS
    <3>1. PICK i \in Indices, c \in 0 .. 3 : Cell(n, i, c) = Cell(u, j, 1)
      BY <1>3
    <3>2. CASE u = n
      BY <1>2, <3>2
    <3>3. CASE u # n
      <4>1. c = 3
        BY <1>0, <3>1, <3>3, Overlap
      <4>2. Cell(n, i, 2) = Cell(u, j, 0)
        BY <1>0, <3>1, <4>1, Neighbours
      <4>3. Cell(n, i, 2) \in W
        BY <1>2
      <4> QED BY <4>2, <4>3
    <3> QED BY <3>2, <3>3
  <2> QED BY <1>1, <2>1, <2>2 DEF Fades, Entry, IsPresent, PresentCell
<1> QED BY <1>4, <1>5 DEF m2

Erased(m, t, i) == [c \in Cells |-> IF c = PresentCell(t, i) THEN 0 ELSE m[c]]

LEMMA EntryErased ==
  ASSUME NEW m \in [Cells -> Nat], NEW t \in 0 .. MaxTables, NEW i \in Indices
  PROVE  /\ Entry(Erased(m, t, i), t, i) = Unmapped
         /\ \A u \in 0 .. MaxTables, j \in Indices : Fades(m, Erased(m, t, i), u, j)
<1>0. t \in Nat /\ 0 .. MaxTables \subseteq Nat
  BY Constants
<1>1. Cell(t, i, 0) \in Cells
  BY CellsThere
<1>2. ASSUME NEW u \in 0 .. MaxTables, NEW j \in Indices PROVE Fades(m, Erased(m, t, i), u, j)
  <2>1. Cell(u, j, 0) \in Cells /\ Cell(u, j, 1) \in Cells
    BY CellsThere
  <2>2. Cell(t, i, 0) # Cell(u, j, 1)
    BY <1>0, Overlap
  <2> QED BY <2>1, <2>2 DEF Fades, Entry, IsPresent, PresentCell, Erased
<1> QED BY <1>1, <1>2 DEF Entry, IsPresent, PresentCell, Erased

(* The upper half of a table lies outside the table before it: a process's *)
(* top table disturbs none.                                                *)
LEMMA EntryCopied ==
  ASSUME NEW m \in [Cells -> Nat], NEW n \in 0 .. MaxTables,
         NEW u \in 0 .. MaxTables, u < n, NEW j \in Indices
  PROVE  Fades(m, WithUpperHalf(m, n), u, j)
<1> DEFINE half == Fanout \div 2
           upper == {Cell(n, i, c) : i \in half .. Fanout - 1, c \in 0 .. 4}
           W == Written(n, 0 .. half - 1)
           m2 == WithUpperHalf(m, n)
<1>0. n \in Nat /\ u \in Nat
  BY Constants
<1>1. /\ half \in Nat /\ Fanout = 2 * half /\ Fanout \in Nat /\ PageCells \in Nat
      /\ Fanout * 5 <= 2 * PageCells
  <2>1. Fanout \in Nat /\ Fanout % 2 = 0 /\ PageCells \in Nat /\ Fanout * 5 <= 2 * PageCells
    BY PagingAssumption DEF EntryCells
  <2> QED BY <2>1
<1> HIDE DEF half
<1>2. half .. Fanout - 1 \subseteq Indices /\ 0 .. half - 1 \subseteq Indices
  BY <1>1 DEF Indices
<1>3. ASSUME NEW i \in half .. Fanout - 1, NEW c \in 0 .. 4, NEW d \in 0 .. 4
      PROVE  Cell(n, i, c) # Cell(u, j, d)
  <2> SUFFICES ASSUME Cell(n, i, c) = Cell(u, j, d) PROVE FALSE
    OBVIOUS
  <2>1. n = u + 1
    BY <1>0, <1>2, Overlap
  <2>2. (u + 1) * PageCells = u * PageCells + PageCells /\ u * PageCells \in Nat
    BY <1>0, <1>1
  <2> DEFINE up == u * PageCells
  <2>3. up + PageCells + i * 5 + c = up + j * 5 + d /\ up \in Nat
    BY <2>1, <2>2 DEF Cell, EntryCells
  <2> HIDE DEF up
  <2>4. i \in Nat /\ half <= i /\ j \in Nat /\ j + 1 <= Fanout
    BY <1>1 DEF Indices
  <2> QED BY <1>1, <2>3, <2>4
<1>4. \A x \in Cells : m2[x] = IF x \in upper THEN m[x - n * PageCells]
                                ELSE IF x \in W THEN 0 ELSE m[x]
  BY DEF WithUpperHalf, half
<1>5. Cell(u, j, 0) \notin upper /\ Cell(u, j, 1) \notin upper
  BY <1>3
<1>6. \A i \in 0 .. half - 1, c \in 0 .. 3 : Cell(n, i, c) \in W
  BY DEF Written
<1>7. \A x \in W : \E i \in 0 .. half - 1, c \in 0 .. 3 : x = Cell(n, i, c)
  BY DEF Written
<1> HIDE DEF m2, W, upper
<1>8. Cell(u, j, 0) \in Cells /\ Cell(u, j, 1) \in Cells
  BY CellsThere
<1>9. Cell(u, j, 1) \in W => Cell(u, j, 0) \in W
  <2> SUFFICES ASSUME Cell(u, j, 1) \in W PROVE Cell(u, j, 0) \in W
    OBVIOUS
  <2>1. PICK i \in 0 .. half - 1, c \in 0 .. 3 : Cell(n, i, c) = Cell(u, j, 1)
    BY <1>7
  <2>2. i \in Indices /\ u # n
    BY <1>0, <1>2
  <2>3. c = 3
    BY <1>0, <2>1, <2>2, Overlap
  <2>4. Cell(n, i, 2) = Cell(u, j, 0)
    BY <1>0, <2>1, <2>2, <2>3, Neighbours
  <2>5. Cell(n, i, 2) \in W
    BY <1>6
  <2> QED BY <2>4, <2>5
<1> QED BY <1>4, <1>5, <1>8, <1>9 DEF Fades, Entry, IsPresent, PresentCell, m2

-----------------------------------------------------------------------------
(* Every table that was taken has a level and a page that it was made for. *)
(* An entry above the last level leads to a table of the level below, for  *)
(* a page with that index and the same indices above.  Tables have level 0 *)
(* that nothing leads to: kernel_pdpt, and those of address spaces.        *)
Agree(v, w, l) == \A k \in 1 .. 4 : k > l => IndexAt(v, k) = IndexAt(w, k)

Forest(m, n, lv, rep) ==
    /\ n \in 1 .. MaxTables
    /\ m \in [Cells -> Nat]
    /\ lv \in [0 .. n - 1 -> 0 .. 4]
    /\ rep \in [0 .. n - 1 -> Pages]
    /\ lv[pml4] = 4
    /\ \A t \in 0 .. n - 1, i \in Indices, x \in Nat :
          lv[t] \in 2 .. 4 /\ Entry(m, t, i) = x
             => /\ x \in 0 .. n - 1 /\ lv[x] = lv[t] - 1
                /\ IndexAt(rep[x], lv[t]) = i
                /\ Agree(rep[x], rep[t], lv[t])

LEMMA TablesInMemory ==
  ASSUME NEW n \in 1 .. MaxTables
  PROVE  /\ n \in Nat /\ n \in 0 .. MaxTables /\ pml4 \in 0 .. n - 1 /\ n \notin 0 .. n - 1
         /\ \A t \in 0 .. n - 1 : t \in 0 .. MaxTables /\ t \in Nat /\ t # NoTable /\ t # Wild
BY Constants DEF pml4, NoTable, Wild

(* An entry of a table in memory is a number, or not there.                *)
LEMMA EntryType ==
  ASSUME NEW m \in [Cells -> Nat], NEW t \in 0 .. MaxTables, NEW i \in Indices
  PROVE  Entry(m, t, i) \in Nat \cup {Unmapped}
BY CellsThere DEF Entry

(* A walk meets tables of the level it has reached, that were made for     *)
(* pages like the one it is for.                                           *)
Owned(t, v, l, n, lv, rep) == t \in 0 .. n - 1 /\ lv[t] = l /\ Agree(v, rep[t], l)

LEMMA ChildOwned ==
  ASSUME NEW m, NEW n, NEW lv, NEW rep, Forest(m, n, lv, rep), NEW v \in Pages,
         NEW l \in 2 .. 4, NEW t, Owned(t, v, l, n, lv, rep),
         Entry(m, t, IndexAt(v, l)) # Unmapped
  PROVE  Owned(Entry(m, t, IndexAt(v, l)), v, l - 1, n, lv, rep)
<1> DEFINE i == IndexAt(v, l)
           x == Entry(m, t, i)
<1>1. i \in Indices
  BY IndexFacts
<1>2. t \in 0 .. n - 1 /\ lv[t] = l /\ Agree(v, rep[t], l) /\ t \in 0 .. MaxTables
  BY TablesInMemory DEF Owned, Forest
<1>3. x \in Nat
  <2>1. m \in [Cells -> Nat]
    BY DEF Forest
  <2> QED BY <1>1, <1>2, <2>1, EntryType
<1> HIDE DEF i, x
<1>4. /\ x \in 0 .. n - 1 /\ lv[x] = l - 1 /\ IndexAt(rep[x], l) = i
      /\ Agree(rep[x], rep[t], l)
  BY <1>1, <1>2, <1>3 DEF Forest, x
<1>5. Agree(v, rep[x], l - 1)
  <2>1. \A k \in 1 .. 4 : k > l - 1 => k = l \/ k > l
    OBVIOUS
  <2> QED BY <1>2, <1>4, <2>1 DEF Agree, i
<1> QED BY <1>4, <1>5 DEF Owned, x, i

LEMMA WalkOwned ==
  ASSUME NEW m, NEW n, NEW lv, NEW rep, Forest(m, n, lv, rep), NEW w \in Pages, NEW l \in 1 .. 4
  PROVE  WalkTo(m, w, l) = NoTable \/ Owned(WalkTo(m, w, l), w, l, n, lv, rep)
<1> DEFINE Good(k) == WalkTo(m, w, k) = NoTable \/ Owned(WalkTo(m, w, k), w, k, n, lv, rep)
           S == {k \in 0 .. 4 : k # 0 => Good(k)}
<1>1. 4 \in S
  <2>1. pml4 \in 0 .. n - 1 /\ lv[pml4] = 4
    BY TablesInMemory DEF Forest
  <2>2. Agree(w, rep[pml4], 4)
    BY DEF Agree
  <2> QED BY <2>1, <2>2 DEF Owned, WalkTo
<1>2. ASSUME NEW k \in 1 .. 4, k \in S PROVE k - 1 \in S
  <2> SUFFICES ASSUME k - 1 # 0 PROVE Good(k - 1)
    OBVIOUS
  <2>1. k \in 2 .. 4
    OBVIOUS
  <2>2. WalkTo(m, w, k - 1) = Down(m, WalkTo(m, w, k), w, k)
    BY WalkStep
  <2>3. Good(k)
    BY <1>2
  <2>4. CASE WalkTo(m, w, k) = NoTable
    BY <2>2, <2>4 DEF Down
  <2>5. CASE WalkTo(m, w, k) # NoTable
    <3>1. WalkTo(m, w, k - 1) = Entry(m, WalkTo(m, w, k), IndexAt(w, k))
      BY <2>2, <2>5 DEF Down
    <3>2. CASE WalkTo(m, w, k - 1) = Unmapped
      BY <3>2 DEF Unmapped, NoTable
    <3>3. CASE WalkTo(m, w, k - 1) # Unmapped
      BY <2>1, <2>3, <2>5, <3>1, <3>3, ChildOwned
    <3> QED BY <3>2, <3>3
  <2> QED BY <2>4, <2>5
<1>3. \A k \in 0 .. 4 : k \in S
  <2> HIDE DEF S
  <2> QED BY <1>1, <1>2, DownFrom
<1> QED BY <1>3

(* Where entries fade, walks end where they did, or nowhere.               *)
UpperFade(m, m2, n, lv) ==
    \A u \in 0 .. n - 1, j \in Indices : lv[u] \in 2 .. 4 => Fades(m, m2, u, j)

LEMMA ForestFades ==
  ASSUME NEW m, NEW n, NEW lv, NEW rep, Forest(m, n, lv, rep),
         NEW m2 \in [Cells -> Nat], UpperFade(m, m2, n, lv)
  PROVE  /\ Forest(m2, n, lv, rep)
         /\ \A w \in Pages, l \in 1 .. 4 : WalkTo(m2, w, l) \in {WalkTo(m, w, l), NoTable}
<1>1. Forest(m2, n, lv, rep)
  <2>1. ASSUME NEW t \in 0 .. n - 1, NEW i \in Indices, NEW x \in Nat,
               lv[t] \in 2 .. 4, Entry(m2, t, i) = x
        PROVE  Entry(m, t, i) = x
    BY <2>1 DEF UpperFade, Fades, Unmapped
  <2> QED BY <2>1 DEF Forest
<1>2. ASSUME NEW w \in Pages
      PROVE  \A l \in 1 .. 4 : WalkTo(m2, w, l) \in {WalkTo(m, w, l), NoTable}
  <2> DEFINE S == {k \in 0 .. 4 : k # 0 => WalkTo(m2, w, k) \in {WalkTo(m, w, k), NoTable}}
  <2>1. 4 \in S
    BY DEF WalkTo
  <2>2. ASSUME NEW k \in 1 .. 4, k \in S PROVE k - 1 \in S
    <3> SUFFICES ASSUME k - 1 # 0
                 PROVE  WalkTo(m2, w, k - 1) \in {WalkTo(m, w, k - 1), NoTable}
      OBVIOUS
    <3>1. /\ WalkTo(m, w, k - 1) = Down(m, WalkTo(m, w, k), w, k)
          /\ WalkTo(m2, w, k - 1) = Down(m2, WalkTo(m2, w, k), w, k)
          /\ WalkTo(m2, w, k) \in {WalkTo(m, w, k), NoTable}
          /\ IndexAt(w, k) \in Indices /\ k \in 2 .. 4
      BY <2>2, WalkStep, IndexFacts
    <3>2. WalkTo(m, w, k) = NoTable \/ (WalkTo(m, w, k) \in 0 .. n - 1 /\ lv[WalkTo(m, w, k)] = k)
      BY WalkOwned DEF Owned
    <3> QED BY <3>1, <3>2 DEF Down, UpperFade, Fades, NoTable, Unmapped
  <2>3. \A k \in 0 .. 4 : k \in S
    <3> HIDE DEF S
    <3> QED BY <2>1, <2>2, DownFrom
  <2> QED BY <2>3
<1> QED BY <1>1, <1>2

(* What pages are mapped to stays, or is gone.                             *)
Faded(m, m2, Q) == \A w \in Q : WalkTo(m2, w, 0) \in {WalkTo(m, w, 0), NoTable}

LEMMA LeavesFade ==
  ASSUME NEW m, NEW n, NEW lv, NEW rep, Forest(m, n, lv, rep), NEW m2 \in [Cells -> Nat],
         UpperFade(m, m2, n, lv), NEW w \in Pages,
         \A t \in 0 .. n - 1 : Owned(t, w, 1, n, lv, rep) => Fades(m, m2, t, IndexAt(w, 1))
  PROVE  WalkTo(m2, w, 0) \in {WalkTo(m, w, 0), NoTable}
<1>1. /\ WalkTo(m, w, 0) = Down(m, WalkTo(m, w, 1), w, 1)
      /\ WalkTo(m2, w, 0) = Down(m2, WalkTo(m2, w, 1), w, 1)
  BY WalkStep, 1 - 1 = 0
<1>2. WalkTo(m2, w, 1) \in {WalkTo(m, w, 1), NoTable}
  BY ForestFades
<1>3. WalkTo(m, w, 1) = NoTable \/ Owned(WalkTo(m, w, 1), w, 1, n, lv, rep)
  BY WalkOwned
<1> QED BY <1>1, <1>2, <1>3 DEF Down, Owned, Fades, NoTable, Unmapped

LEMMA AllFades ==
  ASSUME NEW m, NEW n, NEW lv, NEW rep, Forest(m, n, lv, rep), NEW m2 \in [Cells -> Nat],
         \A u \in 0 .. n - 1, j \in Indices : Fades(m, m2, u, j)
  PROVE  Forest(m2, n, lv, rep) /\ Faded(m, m2, Pages)
<1>1. UpperFade(m, m2, n, lv)
  BY DEF UpperFade
<1>2. ASSUME NEW w \in Pages PROVE WalkTo(m2, w, 0) \in {WalkTo(m, w, 0), NoTable}
  BY <1>1, LeavesFade, IndexFacts
<1> QED BY <1>1, <1>2, ForestFades DEF Faded

(* A table is made below another: an empty one, so that no page is mapped  *)
(* that was not.                                                           *)
LEMMA TableMade ==
  ASSUME NEW m, NEW n, NEW lv, NEW rep, Forest(m, n, lv, rep), n + 1 <= MaxTables,
         NEW v \in Pages, NEW L \in 2 .. 4, NEW t, Owned(t, v, L, n, lv, rep),
         WalkTo(m, v, L) \in {t, NoTable}
  PROVE  LET i == IndexAt(v, L)
             m2 == WithEntry(Cleared(m, n), t, i, n)
             lv2 == [u \in 0 .. n |-> IF u = n THEN L - 1 ELSE lv[u]]
             rep2 == [u \in 0 .. n |-> IF u = n THEN v ELSE rep[u]]
         IN  /\ Forest(m2, n + 1, lv2, rep2)
             /\ WalkTo(m2, v, L - 1) \in {n, NoTable}
             /\ Faded(m, m2, Pages)
<1> DEFINE i == IndexAt(v, L)
           m2 == WithEntry(Cleared(m, n), t, i, n)
           lv2 == [u \in 0 .. n |-> IF u = n THEN L - 1 ELSE lv[u]]
           rep2 == [u \in 0 .. n |-> IF u = n THEN v ELSE rep[u]]
<1>1. /\ n \in Nat /\ n \in 0 .. MaxTables /\ n + 1 \in 1 .. MaxTables /\ n # NoTable
      /\ m \in [Cells -> Nat] /\ (n + 1) - 1 = n /\ n \in 0 .. n
      /\ \A u \in 0 .. n - 1 : u \in 0 .. MaxTables /\ u \in 0 .. n /\ u # n /\ u \in Nat
      /\ \A u \in 0 .. n : u \in 0 .. MaxTables /\ (u # n => u \in 0 .. n - 1)
  BY Constants DEF Forest, NoTable
<1>2. /\ t \in 0 .. n - 1 /\ t \in 0 .. MaxTables /\ t # n /\ lv[t] = L /\ Agree(v, rep[t], L)
      /\ t # NoTable /\ i \in Indices
  BY <1>1, IndexFacts DEF Owned, NoTable
<1>3. Cleared(m, n) \in [Cells -> Nat] /\ m2 \in [Cells -> Nat]
  <2>1. Cleared(m, n) \in [Cells -> Nat]
    BY <1>1, ClearedType, {0, 1} \subseteq Nat
  <2> QED BY <1>1, <2>1, WithEntryType, {0, 1} \subseteq Nat
<1>4. /\ \A j \in Indices : Entry(Cleared(m, n), n, j) = Unmapped
      /\ \A u \in 0 .. MaxTables, j \in Indices : Fades(m, Cleared(m, n), u, j)
  BY <1>1, EntryCleared
<1>5. /\ Entry(m2, t, i) = n
      /\ \A u \in 0 .. MaxTables, j \in Indices :
            (u = t /\ j = i) \/ Fades(Cleared(m, n), m2, u, j)
  BY <1>1, <1>2, <1>3, EntryWritten
<1> HIDE DEF m2, i
<1>6. \A j \in Indices : Entry(m2, n, j) = Unmapped
  BY <1>1, <1>2, <1>4, <1>5 DEF Fades
<1>7. \A u \in 0 .. n - 1, j \in Indices : (u = t /\ j = i) \/ Fades(m, m2, u, j)
  BY <1>1, <1>4, <1>5 DEF Fades
<1>8. /\ lv2 \in [0 .. n -> 0 .. 4] /\ lv2[n] = L - 1 /\ rep2 \in [0 .. n -> Pages] /\ rep2[n] = v
      /\ \A u \in 0 .. n - 1 : lv2[u] = lv[u] /\ rep2[u] = rep[u]
  BY <1>1 DEF Forest
<1> HIDE DEF lv2, rep2
<1>9. Forest(m2, n + 1, lv2, rep2)
  <2>1. lv2[pml4] = 4
    BY <1>8, TablesInMemory DEF Forest
  <2>2. ASSUME NEW u \in 0 .. n, NEW j \in Indices, NEW x \in Nat,
               lv2[u] \in 2 .. 4, Entry(m2, u, j) = x
        PROVE  /\ x \in 0 .. n /\ lv2[x] = lv2[u] - 1
               /\ IndexAt(rep2[x], lv2[u]) = j
               /\ Agree(rep2[x], rep2[u], lv2[u])
    <3>1. u # n /\ u \in 0 .. n - 1 /\ lv2[u] = lv[u] /\ rep2[u] = rep[u]
      BY <1>1, <1>6, <1>8, <2>2 DEF Unmapped
    <3>2. CASE u = t /\ j = i
      BY <1>1, <1>2, <1>5, <1>8, <2>2, <3>1, <3>2 DEF i
    <3>3. CASE ~(u = t /\ j = i)
      <4>1. Entry(m, u, j) = x
        BY <1>7, <2>2, <3>1, <3>3 DEF Fades, Unmapped
      <4>2. /\ x \in 0 .. n - 1 /\ lv[x] = lv[u] - 1
            /\ IndexAt(rep[x], lv[u]) = j
            /\ Agree(rep[x], rep[u], lv[u])
        BY <2>2, <3>1, <4>1 DEF Forest
      <4> QED BY <1>1, <1>8, <3>1, <4>2
    <3> QED BY <3>2, <3>3
  <2> DEFINE N == n + 1
  <2>3. N \in 1 .. MaxTables /\ N - 1 = n
    BY <1>1
  <2> HIDE DEF N
  <2>4. Forest(m2, N, lv2, rep2)
    BY <1>3, <1>8, <2>1, <2>2, <2>3 DEF Forest
  <2> QED BY <2>4 DEF N
<1>10. ASSUME NEW w \in Pages
       PROVE  \A k \in 0 .. 4 : \/ WalkTo(m2, w, k) \in {WalkTo(m, w, k), NoTable}
                                \/ k # 0 /\ k < L /\ WalkTo(m2, w, k) = n
  <2> DEFINE S == {k \in 0 .. 4 : \/ WalkTo(m2, w, k) \in {WalkTo(m, w, k), NoTable}
                                  \/ k # 0 /\ k < L /\ WalkTo(m2, w, k) = n}
  <2>1. 4 \in S
    BY DEF WalkTo
  <2>2. ASSUME NEW k \in 1 .. 4, k \in S PROVE k - 1 \in S
    <3> DEFINE x == WalkTo(m, w, k)
               x2 == WalkTo(m2, w, k)
    <3>1. /\ WalkTo(m, w, k - 1) = Down(m, x, w, k)
          /\ WalkTo(m2, w, k - 1) = Down(m2, x2, w, k)
          /\ IndexAt(w, k) \in Indices
      BY WalkStep, IndexFacts
    <3>2. x = NoTable \/ (x \in 0 .. n - 1 /\ lv[x] = k)
      BY WalkOwned DEF Owned
    <3>3. x2 \in {x, NoTable} \/ x2 = n
      BY <2>2
    <3> HIDE DEF x, x2
    <3> SUFFICES \/ Down(m2, x2, w, k) \in {Down(m, x, w, k), NoTable}
                 \/ k - 1 # 0 /\ k - 1 < L /\ Down(m2, x2, w, k) = n
      BY <3>1
    <3>4. CASE x2 = NoTable
      BY <3>4 DEF Down
    <3>5. CASE x2 = n
      BY <1>1, <1>6, <3>1, <3>5 DEF Down, NoTable, Unmapped
    <3>6. CASE x2 = x /\ x # NoTable /\ x = t /\ IndexAt(w, k) = i
      <4>1. k = L /\ Down(m2, x2, w, k) = n
        BY <1>2, <1>5, <3>2, <3>6 DEF Down
      <4> QED BY <4>1
    <3>7. CASE x2 = x /\ x # NoTable /\ ~(x = t /\ IndexAt(w, k) = i)
      BY <1>7, <3>1, <3>2, <3>7 DEF Down, Fades, NoTable, Unmapped
    <3> QED BY <3>3, <3>4, <3>5, <3>6, <3>7
  <2>3. \A k \in 0 .. 4 : k \in S
    <3> HIDE DEF S
    <3> QED BY <2>1, <2>2, DownFrom
  <2> QED BY <2>3
<1>11. Faded(m, m2, Pages)
  BY <1>10 DEF Faded
<1>12. WalkTo(m2, v, L - 1) \in {n, NoTable}
  <2>1. WalkTo(m2, v, L) \in {t, NoTable}
    BY <1>10
  <2>2. WalkTo(m2, v, L - 1) = Down(m2, WalkTo(m2, v, L), v, L)
    BY WalkStep
  <2> QED BY <1>2, <1>5, <2>1, <2>2 DEF Down, i
<1> QED BY <1>9, <1>11, <1>12 DEF i, m2, lv2, rep2

(* map_page, on its way to the page v, is at a table of level l.           *)
Comes(s, v, l, lv, rep) ==
    /\ Walker(s)
    /\ Forest(s.mem, s.next, lv, rep)
    /\ Owned(s.table, v, l, s.next, lv, rep)
    /\ WalkTo(s.mem, v, l) \in {s.table, NoTable}

LEMMA DescendedComes ==
  ASSUME NEW v \in Pages, NEW L \in 2 .. 4, NEW s, NEW lv, NEW rep, Comes(s, v, L, lv, rep),
         s.next + 1 <= MaxTables, Descended(s, v, L).table # Wild
  PROVE  LET d == Descended(s, v, L)
         IN  /\ \E lv2, rep2 : Comes(d, v, L - 1, lv2, rep2)
             /\ Faded(s.mem, d.mem, Pages)
<1> DEFINE d == Descended(s, v, L)
           m == s.mem
           n == s.next
           t == s.table
           i == IndexAt(v, L)
           f == FrameIn(m, t, i)
           kept == [s EXCEPT !.table = f]
           m2 == WithEntry(Cleared(m, n), t, i, n)
           made == [mem |-> m2, next |-> n + 1, table |-> n]
<1>1. /\ Forest(m, n, lv, rep) /\ Owned(t, v, L, n, lv, rep) /\ t \in 0 .. n - 1
      /\ WalkTo(m, v, L) \in {t, NoTable} /\ i \in Indices
      /\ m \in [Cells -> Nat] /\ t \in 0 .. MaxTables /\ t # NoTable /\ t # Wild /\ n \in Nat
  <2>1. Forest(m, n, lv, rep) /\ Owned(t, v, L, n, lv, rep) /\ WalkTo(m, v, L) \in {t, NoTable}
    BY DEF Comes
  <2>2. n \in 1 .. MaxTables /\ t \in 0 .. n - 1 /\ m \in [Cells -> Nat]
    BY <2>1 DEF Forest, Owned
  <2> HIDE DEF m, n, t
  <2> QED BY <2>1, <2>2, TablesInMemory, IndexFacts
<1>2. d = IF IsPresent(m, t, i) THEN kept ELSE made
  BY <1>1 DEF Descended
<1>3. CASE IsPresent(m, t, i)
  <2>1. d = kept /\ kept.mem = m /\ kept.next = n /\ kept.table = f /\ Walker(kept)
    <3>1. kept.mem = m /\ kept.next = n /\ kept.table = f /\ Walker(kept)
      BY DEF Comes, Walker
    <3> QED BY <1>2, <1>3, <3>1
  <2> HIDE DEF d, kept, f, i
  <2>2. f # Wild
    BY <2>1 DEF d, i
  <2>3. f = Entry(m, t, i) /\ f # Unmapped
    <3>1. f = m[Cell(t, i, 1)]
      BY <2>2 DEF f, FrameIn
    <3>2. m[Cell(t, i, 1)] \in Nat
      BY <1>1, CellsThere
    <3> QED BY <1>3, <3>1, <3>2 DEF Entry, Unmapped
  <2>4. Owned(f, v, L - 1, n, lv, rep)
    BY <1>1, <2>3, ChildOwned DEF i
  <2>5. WalkTo(m, v, L - 1) \in {f, NoTable}
    <3>1. WalkTo(m, v, L - 1) = Down(m, WalkTo(m, v, L), v, L)
      BY WalkStep
    <3> QED BY <1>1, <2>3, <3>1 DEF Down, i
  <2>6. Comes(kept, v, L - 1, lv, rep)
    BY <1>1, <2>1, <2>4, <2>5 DEF Comes
  <2>7. Faded(m, m, Pages)
    BY DEF Faded
  <2> QED BY <2>1, <2>6, <2>7 DEF d
<1>4. CASE ~IsPresent(m, t, i)
  <2>1. d = made /\ made.mem = m2 /\ made.next = n + 1 /\ made.table = n /\ Walker(made)
    BY <1>2, <1>4 DEF Walker
  <2> DEFINE lv2 == [u \in 0 .. n |-> IF u = n THEN L - 1 ELSE lv[u]]
             rep2 == [u \in 0 .. n |-> IF u = n THEN v ELSE rep[u]]
  <2>2. /\ Forest(m2, n + 1, lv2, rep2)
        /\ WalkTo(m2, v, L - 1) \in {n, NoTable}
        /\ Faded(m, m2, Pages)
    BY <1>1, TableMade
  <2>3. Owned(n, v, L - 1, n + 1, lv2, rep2)
    <3>1. n \in 0 .. n /\ (n + 1) - 1 = n /\ lv2[n] = L - 1 /\ rep2[n] = v
      BY <1>1
    <3> HIDE DEF lv2, rep2, n
    <3> QED BY <3>1 DEF Owned, Agree
  <2> HIDE DEF d, made, m2, lv2, rep2
  <2>4. Comes(made, v, L - 1, lv2, rep2)
    BY <2>1, <2>2, <2>3 DEF Comes
  <2> QED BY <2>1, <2>2, <2>4 DEF d
<1> QED BY <1>3, <1>4

(* map_page: the page is where it is mapped, if it is found, and no other  *)
(* page moves.                                                             *)
LEMMA MappedMaps ==
  ASSUME NEW b, NEW lv, NEW rep, Forest(b.mem, b.next, lv, rep), NEW v \in Pages, NEW f \in Nat,
         b.next + 3 <= MaxTables, Mapped(b, v, f).table # Wild
  PROVE  LET r == Mapped(b, v, f)
         IN  /\ \E lv2, rep2 : Forest(r.mem, r.next, lv2, rep2)
             /\ WalkTo(r.mem, v, 0) \in {f, NoTable}
             /\ Faded(b.mem, r.mem, Pages \ {v})
<1> DEFINE top == [mem |-> b.mem, next |-> b.next, table |-> pml4]
           pdpt == Descended(top, v, 4)
           pd == Descended(pdpt, v, 3)
           pt == Descended(pd, v, 2)
           i == IndexAt(v, 1)
           m2 == WithEntry(pt.mem, pt.table, i, f)
           r == Mapped(b, v, f)
<1>1. r = IF pt.table = Wild THEN pt ELSE [pt EXCEPT !.mem = m2]
  BY DEF Mapped
<1>2. pdpt.table # Wild /\ pd.table # Wild /\ pt.table # Wild
  <2>1. pt.table # Wild
    BY <1>1
  <2>2. pd.table = Wild => pt = pd
    BY DEF Descended
  <2>3. pdpt.table = Wild => pd = pdpt
    BY DEF Descended
  <2> HIDE DEF pt, pd, pdpt
  <2> QED BY <2>1, <2>2, <2>3
<1>3. /\ top.mem = b.mem /\ top.next = b.next /\ top.table = pml4 /\ Walker(top)
      /\ top.next \in Nat
  BY Constants DEF Walker, Forest
<1>4. Comes(top, v, 4, lv, rep)
  <2>1. pml4 \in 0 .. b.next - 1 /\ lv[pml4] = 4
    BY TablesInMemory DEF Forest
  <2> HIDE DEF top
  <2> QED BY <1>3, <2>1 DEF Comes, Owned, Agree, WalkTo
<1> HIDE DEF top, r
<1>5. /\ Walker(pdpt) /\ pdpt.next \in Nat /\ pdpt.next <= b.next + 1
  <2>1. Walker(pdpt) /\ pdpt.next \in {top.next, top.next + 1}
    BY <1>3, DescendedFacts
  <2> HIDE DEF pdpt
  <2> QED BY <1>3, <2>1
<1>6. 4 \in 2 .. 4 /\ 3 \in 2 .. 4 /\ 2 \in 2 .. 4 /\ 4 - 1 = 3 /\ 3 - 1 = 2 /\ 2 - 1 = 1
  OBVIOUS
<1>7. top.next + 1 <= MaxTables
  BY <1>3, Constants
<1>8. /\ \E lv2, rep2 : Comes(pdpt, v, 3, lv2, rep2)
      /\ Faded(b.mem, pdpt.mem, Pages)
  BY <1>2, <1>3, <1>4, <1>6, <1>7, DescendedComes
<1> HIDE DEF pdpt
<1>9. PICK l3, r3 : Comes(pdpt, v, 3, l3, r3)
  BY <1>8
<1>10. pdpt.next + 1 <= MaxTables
  BY <1>3, <1>5, Constants
<1>11. /\ Walker(pd) /\ pd.next \in Nat /\ pd.next <= b.next + 2
  <2>1. Walker(pd) /\ pd.next \in {pdpt.next, pdpt.next + 1}
    BY <1>5, DescendedFacts
  <2> HIDE DEF pd
  <2> QED BY <1>3, <1>5, <2>1
<1>12. /\ \E lv2, rep2 : Comes(pd, v, 2, lv2, rep2)
       /\ Faded(pdpt.mem, pd.mem, Pages)
  BY <1>2, <1>6, <1>9, <1>10, DescendedComes
<1> HIDE DEF pd
<1>13. PICK l2, r2 : Comes(pd, v, 2, l2, r2)
  BY <1>12
<1>14. pd.next + 1 <= MaxTables
  BY <1>3, <1>11, Constants
<1>15. /\ \E lv2, rep2 : Comes(pt, v, 1, lv2, rep2)
       /\ Faded(pd.mem, pt.mem, Pages)
  BY <1>2, <1>6, <1>13, <1>14, DescendedComes
<1> HIDE DEF pt
<1>16. PICK l1, r1 : Comes(pt, v, 1, l1, r1)
  BY <1>15
<1>17. r.mem = m2 /\ r.next = pt.next
  BY <1>1, <1>2, <1>16 DEF Comes, Walker
<1>18. /\ Forest(pt.mem, pt.next, l1, r1) /\ Owned(pt.table, v, 1, pt.next, l1, r1)
       /\ WalkTo(pt.mem, v, 1) \in {pt.table, NoTable}
       /\ pt.table \in 0 .. pt.next - 1 /\ l1[pt.table] = 1 /\ Agree(v, r1[pt.table], 1)
       /\ pt.table \in 0 .. MaxTables /\ pt.mem \in [Cells -> Nat] /\ i \in Indices
       /\ pt.table # NoTable
       /\ \A u \in 0 .. pt.next - 1 : u \in 0 .. MaxTables
  <2>1. /\ Forest(pt.mem, pt.next, l1, r1) /\ Owned(pt.table, v, 1, pt.next, l1, r1)
        /\ WalkTo(pt.mem, v, 1) \in {pt.table, NoTable}
    BY <1>16 DEF Comes
  <2>2. /\ pt.table \in 0 .. pt.next - 1 /\ l1[pt.table] = 1 /\ Agree(v, r1[pt.table], 1)
        /\ pt.next \in 1 .. MaxTables /\ pt.mem \in [Cells -> Nat]
    BY <2>1 DEF Owned, Forest
  <2> QED BY <2>1, <2>2, TablesInMemory, IndexFacts
<1>19. m2 \in [Cells -> Nat]
  BY <1>18, WithEntryType, {0, 1} \subseteq Nat
<1>20. /\ Entry(m2, pt.table, i) = f
       /\ \A u \in 0 .. pt.next - 1, j \in Indices :
             (u = pt.table /\ j = i) \/ Fades(pt.mem, m2, u, j)
  BY <1>18, EntryWritten
<1> HIDE DEF m2
<1>21. UpperFade(pt.mem, m2, pt.next, l1)
  <2>1. \A u \in 0 .. pt.next - 1 : l1[u] \in 2 .. 4 => u # pt.table
    BY <1>18
  <2> QED BY <1>20, <2>1 DEF UpperFade
<1>22. Forest(m2, pt.next, l1, r1) /\ WalkTo(m2, v, 1) \in {WalkTo(pt.mem, v, 1), NoTable}
  BY <1>18, <1>19, <1>21, ForestFades
<1>23. WalkTo(m2, v, 0) \in {f, NoTable}
  <2>1. WalkTo(m2, v, 0) = Down(m2, WalkTo(m2, v, 1), v, 1)
    BY WalkStep, 1 - 1 = 0
  <2> QED BY <1>18, <1>20, <1>22, <2>1 DEF Down, i
<1>24. Faded(pt.mem, m2, Pages \ {v})
  <2>1. ASSUME NEW w \in Pages \ {v} PROVE WalkTo(m2, w, 0) \in {WalkTo(pt.mem, w, 0), NoTable}
    <3>1. ASSUME NEW t \in 0 .. pt.next - 1, Owned(t, w, 1, pt.next, l1, r1)
          PROVE  Fades(pt.mem, m2, t, IndexAt(w, 1))
      <4>1. ~(t = pt.table /\ IndexAt(w, 1) = i)
        <5> SUFFICES ASSUME t = pt.table, IndexAt(w, 1) = i PROVE FALSE
          OBVIOUS
        <5>1. Agree(w, r1[t], 1)
          BY <3>1 DEF Owned
        <5>2. \A k \in 1 .. 4 : k > 1 => IndexAt(v, k) = IndexAt(w, k)
          BY <1>18, <5>1 DEF Agree
        <5>3. \A k \in 1 .. 4 : k = 1 \/ k > 1
          OBVIOUS
        <5>4. \A k \in 1 .. 4 : IndexAt(v, k) = IndexAt(w, k)
          BY <5>2, <5>3 DEF i
        <5> QED BY <5>4, IndicesDiffer
      <4> QED BY <1>20, <4>1, IndexFacts
    <3> QED BY <1>18, <1>19, <1>21, <3>1, LeavesFade
  <2> QED BY <2>1 DEF Faded
<1>25. Faded(b.mem, m2, Pages \ {v})
  BY <1>8, <1>12, <1>15, <1>24 DEF Faded
<1> QED BY <1>17, <1>22, <1>23, <1>25 DEF r

-----------------------------------------------------------------------------
(* translate_address follows the walk, as long as the frames it meets      *)
(* exist.                                                                  *)
AsSet(t) == IF t = NoTable THEN {} ELSE {t}
Follows(T, t) == T = AsSet(t) \/ T = {Wild}

LEMMA FollowOne ==
  ASSUME NEW m \in [Cells -> Nat], NEW t, t = NoTable \/ t \in 0 .. MaxTables,
         NEW T, Follows(T, t), NEW v \in Pages, NEW l \in 1 .. 4
  PROVE  Follows(Follow(m, T, v, l), Down(m, t, v, l))
<1> DEFINE i == IndexAt(v, l)
           F == Follow(m, T, v, l)
<1>1. i \in Indices
  BY IndexFacts
<1>2. F = (T \cap {Wild}) \cup {FrameIn(m, u, i) : u \in {x \in T \ {Wild} : IsPresent(m, x, i)}}
  BY DEF Follow
<1>3. Down(m, t, v, l) = IF t = NoTable THEN NoTable ELSE Entry(m, t, i)
  BY DEF Down
<1> HIDE DEF i, F
<1>4. CASE T = {Wild}
  BY <1>2, <1>4 DEF Follows, F
<1>5. CASE T = AsSet(t) /\ t = NoTable
  BY <1>2, <1>3, <1>5 DEF Follows, AsSet, F
<1>6. CASE T = AsSet(t) /\ t # NoTable
  <2>1. t \in 0 .. MaxTables /\ t # Wild /\ T = {t}
    BY <1>6, Constants DEF AsSet, Wild
  <2>2. F = {FrameIn(m, u, i) : u \in {x \in {t} : IsPresent(m, x, i)}}
    BY <1>2, <2>1
  <2>3. CASE ~IsPresent(m, t, i)
    BY <1>3, <1>6, <2>2, <2>3 DEF Follows, AsSet, Entry, NoTable, Unmapped, F
  <2>4. CASE IsPresent(m, t, i)
    <3>1. F = {FrameIn(m, t, i)} /\ Down(m, t, v, l) = m[Cell(t, i, 1)]
      BY <1>3, <1>6, <2>2, <2>4 DEF Entry
    <3>2. m[Cell(t, i, 1)] # NoTable
      BY <1>1, <2>1, CellsThere DEF NoTable
    <3> QED BY <3>1, <3>2 DEF Follows, AsSet, FrameIn, F
  <2> QED BY <2>3, <2>4
<1> QED BY <1>4, <1>5, <1>6 DEF Follows

LEMMA TranslationIsWalk ==
  ASSUME NEW m, NEW n, NEW lv, NEW rep, Forest(m, n, lv, rep), NEW v \in Pages
  PROVE  /\ Follows(LastTables(m, v), WalkTo(m, v, 1))
         /\ Translation(m, v) \in {WalkTo(m, v, 0), Wild}
<1>1. /\ m \in [Cells -> Nat] /\ 4 \in 1 .. 4 /\ 3 \in 1 .. 4 /\ 2 \in 1 .. 4 /\ 1 \in 1 .. 4
      /\ 4 - 1 = 3 /\ 3 - 1 = 2 /\ 2 - 1 = 1 /\ 1 - 1 = 0
  BY DEF Forest
<1>2. ASSUME NEW l \in 1 .. 4, NEW T, Follows(T, WalkTo(m, v, l))
      PROVE  Follows(Follow(m, T, v, l), WalkTo(m, v, l - 1))
  <2>1. WalkTo(m, v, l) = NoTable \/ WalkTo(m, v, l) \in 0 .. MaxTables
    <3>1. WalkTo(m, v, l) = NoTable \/ WalkTo(m, v, l) \in 0 .. n - 1
      BY WalkOwned DEF Owned
    <3>2. n \in 1 .. MaxTables
      BY DEF Forest
    <3> QED BY <3>1, <3>2, TablesInMemory
  <2> QED BY <1>1, <1>2, <2>1, FollowOne, WalkStep
<1>3. Follows({pml4}, WalkTo(m, v, 4))
  BY DEF Follows, AsSet, WalkTo, pml4, NoTable
<1> DEFINE T3 == Follow(m, {pml4}, v, 4)
           T2 == Follow(m, T3, v, 3)
           T1 == Follow(m, T2, v, 2)
           T0 == Follow(m, T1, v, 1)
<1>4. Follows(T3, WalkTo(m, v, 3))
  BY <1>1, <1>2, <1>3
<1> HIDE DEF T3
<1>5. Follows(T2, WalkTo(m, v, 2))
  BY <1>1, <1>2, <1>4
<1> HIDE DEF T2
<1>6. Follows(T1, WalkTo(m, v, 1))
  BY <1>1, <1>2, <1>5
<1> HIDE DEF T1
<1>7. Follows(T0, WalkTo(m, v, 0))
  BY <1>1, <1>2, <1>6
<1> HIDE DEF T0
<1>8. LastTables(m, v) = T1
  BY DEF LastTables, T1, T2, T3
<1>9. Translation(m, v) = IF T0 = {} THEN Unmapped ELSE CHOOSE f \in T0 : TRUE
  BY <1>8 DEF Translation, T0
<1> QED BY <1>6, <1>7, <1>8, <1>9 DEF Follows, AsSet, NoTable, Unmapped

-----------------------------------------------------------------------------
(* paging_init: the pages mapped so far are where they belong, if they are *)
(* found.                                                                  *)
LEMMA EmptyTables ==
  LET m == Cleared(Cleared(Before, pml4), 1)
  IN  /\ \E lv, rep : Forest(m, 2, lv, rep)
      /\ \A w \in Pages : WalkTo(m, w, 0) = Unmapped
<1> DEFINE m1 == Cleared(Before, pml4)
           m == Cleared(m1, 1)
           lv == [t \in 0 .. 1 |-> IF t = 0 THEN 4 ELSE 0]
           rep == [t \in 0 .. 1 |-> 0]
<1>1. /\ 2 - 1 = 1 /\ 2 \in 1 .. MaxTables /\ Before \in [Cells -> Nat] /\ 0 \in Pages
      /\ 0 \in 0 .. MaxTables /\ 1 \in 0 .. MaxTables
  <2>1. 0 \in 0 .. IdentityPages - 1
    BY Constants
  <2>2. 0 \in Pages
    BY <2>1, PagingAssumption
  <2>3. Before \in [Cells -> Nat]
    BY Constants, PagingAssumption
  <2>4. MaxTables \in Nat /\ 2 <= MaxTables
    BY Constants
  <2> QED BY <2>2, <2>3, <2>4
<1>2. m1 \in [Cells -> Nat] /\ m \in [Cells -> Nat]
  <2>1. m1 \in [Cells -> Nat]
    BY <1>1, ClearedType, {0, 1} \subseteq Nat
  <2> HIDE DEF m1
  <2> QED BY <2>1, ClearedType, {0, 1} \subseteq Nat
<1>3. \A i \in Indices : Entry(m1, 0, i) = Unmapped
  BY <1>1, EntryCleared DEF pml4
<1> HIDE DEF m1
<1>4. \A i \in Indices : Fades(m1, m, 0, i)
  BY <1>1, <1>2, EntryCleared
<1> HIDE DEF m
<1>5. \A i \in Indices : Entry(m, 0, i) = Unmapped
  BY <1>3, <1>4 DEF Fades
<1>6. /\ lv \in [0 .. 1 -> 0 .. 4] /\ lv[pml4] = 4 /\ lv[1] = 0 /\ rep \in [0 .. 1 -> Pages]
  BY <1>1 DEF pml4
<1> HIDE DEF lv, rep
<1>7. Forest(m, 2, lv, rep)
  <2>1. ASSUME NEW t \in 0 .. 1, NEW i \in Indices, NEW x \in Nat, lv[t] \in 2 .. 4, Entry(m, t, i) = x
        PROVE  FALSE
    <3>1. t = 0
      BY <1>6, <2>1
    <3> QED BY <1>5, <2>1, <3>1 DEF Unmapped
  <2> QED BY <1>1, <1>2, <1>6, <2>1 DEF Forest
<1>8. ASSUME NEW w \in Pages PROVE WalkTo(m, w, 0) = Unmapped
  <2>1. Walk3(m, w) = Unmapped
    BY <1>5, IndexFacts DEF Walk3, Down, pml4, NoTable
  <2>2. Walk2(m, w) = NoTable
    BY <2>1 DEF Walk2, Down, NoTable, Unmapped
  <2>3. Walk1(m, w) = NoTable
    BY <2>2 DEF Walk1, Down
  <2> QED BY <2>3 DEF Leaf, Down, WalkTo, NoTable, Unmapped
<1> QED BY <1>7, <1>8 DEF m, m1

LEMMA BootWalks ==
  /\ \E lv, rep : Forest(Boot[IdentityPages].mem, Boot[IdentityPages].next, lv, rep)
  /\ \A w \in Pages : WalkTo(Boot[IdentityPages].mem, w, 0)
                        \in {IF w < IdentityPages THEN w ELSE Unmapped, Unmapped}
<1> DEFINE N == IdentityPages
           Good(n) == /\ \E lv, rep : Forest(Boot[n].mem, Boot[n].next, lv, rep)
                      /\ \A w \in Pages : WalkTo(Boot[n].mem, w, 0)
                                            \in {IF w < n THEN w ELSE Unmapped, Unmapped}
           P == {n \in Nat : n \in 0 .. N => Good(n)}
<1>1. N \in Nat /\ Pages \subseteq Nat /\ 0 .. N - 1 \subseteq Pages
  BY Constants, PagingAssumption
<1>2. 0 \in P
  <2>1. Boot[0].mem = Cleared(Cleared(Before, pml4), 1) /\ Boot[0].next = 2
    BY BootUnfolds DEF BootStart
  <2> QED BY <1>1, <2>1, EmptyTables
<1>3. ASSUME NEW n \in Nat, n \in P PROVE n + 1 \in P
  <2> SUFFICES ASSUME n + 1 \in 0 .. N PROVE Good(n + 1)
    OBVIOUS
  <2>1. n \in 0 .. N /\ n + 1 \in 1 .. N /\ (n + 1) - 1 = n /\ n \in Pages /\ n + 1 \in 0 .. N
    BY <1>1
  <2>2. Good(n)
    BY <1>3, <2>1
  <2> DEFINE b == Boot[n]
             r == Mapped(b, n, n)
  <2>3. Boot[n + 1] = r
    BY <2>1, BootUnfolds
  <2>4. r.table # Wild /\ b.next + 3 <= MaxTables
    BY <2>1, <2>3, BootAssumption
  <2>5. /\ \E lv, rep : Forest(b.mem, b.next, lv, rep)
        /\ \A w \in Pages : WalkTo(b.mem, w, 0) \in {IF w < n THEN w ELSE Unmapped, Unmapped}
    BY <2>2
  <2> HIDE DEF b
  <2>6. PICK lv, rep : Forest(b.mem, b.next, lv, rep)
    BY <2>5
  <2>7. /\ \E lv2, rep2 : Forest(r.mem, r.next, lv2, rep2)
        /\ WalkTo(r.mem, n, 0) \in {n, NoTable}
        /\ Faded(b.mem, r.mem, Pages \ {n})
    BY <2>1, <2>4, <2>6, MappedMaps
  <2> HIDE DEF r
  <2>8. ASSUME NEW w \in Pages
        PROVE  WalkTo(r.mem, w, 0) \in {IF w < n + 1 THEN w ELSE Unmapped, Unmapped}
    <3>1. CASE w = n
      <4>1. w < n + 1
        BY <3>1
      <4> QED BY <2>7, <3>1, <4>1 DEF NoTable, Unmapped
    <3>2. CASE w # n
      <4>1. w < n + 1 <=> w < n
        BY <1>1, <3>2
      <4>2. WalkTo(r.mem, w, 0) \in {WalkTo(b.mem, w, 0), NoTable}
        BY <2>7, <3>2 DEF Faded
      <4> QED BY <2>5, <4>1, <4>2 DEF NoTable, Unmapped
    <3> QED BY <3>1, <3>2
  <2> QED BY <2>3, <2>7, <2>8
<1>4. N \in P
  <2> HIDE DEF P
  <2> QED BY <1>1, <1>2, <1>3, SetInduction
<1>5. Good(N)
  BY <1>1, <1>4
<1> QED BY <1>5

-----------------------------------------------------------------------------
(* The walk for a page ends where it was mapped last, or nowhere.          *)
MapInv ==
    /\ \E lv, rep : Forest(mem, next_physical_addr, lv, rep)
    /\ \A w \in Pages : WalkTo(mem, w, 0) \in {mapped[w], Unmapped}

LEMMA MapInvInit == PagingInit => MapInv
<1> SUFFICES ASSUME PagingInit PROVE MapInv
  OBVIOUS
<1>1. /\ mem = Boot[IdentityPages].mem /\ next_physical_addr = Boot[IdentityPages].next
      /\ \A w \in Pages : mapped[w] = IF w < IdentityPages THEN w ELSE Unmapped
  BY DEF PagingInit
<1> QED BY <1>1, BootWalks DEF MapInv

LEMMA MapPageMaps ==
  ASSUME PagingType, MapInv, NEW v \in Pages, NEW f \in Frames, MapPage(v, f)
  PROVE  MapInv'
<1> DEFINE b == [mem |-> mem, next |-> next_physical_addr]
           r == Mapped(b, v, f)
<1>1. b.mem = mem /\ b.next = next_physical_addr
  OBVIOUS
<1>2. /\ b.next + 3 <= MaxTables /\ r.table # Wild
      /\ mem' = r.mem /\ next_physical_addr' = r.next /\ mapped' = [mapped EXCEPT ![v] = f]
  BY DEF MapPage
<1> HIDE DEF b
<1>3. PICK lv, rep : Forest(b.mem, b.next, lv, rep)
  BY <1>1 DEF MapInv
<1>4. f \in Nat
  BY Constants
<1>5. /\ \E lv2, rep2 : Forest(r.mem, r.next, lv2, rep2)
      /\ WalkTo(r.mem, v, 0) \in {f, NoTable}
      /\ Faded(b.mem, r.mem, Pages \ {v})
  BY <1>2, <1>3, <1>4, MappedMaps
<1> HIDE DEF r
<1>6. ASSUME NEW w \in Pages PROVE WalkTo(mem', w, 0) \in {mapped'[w], Unmapped}
  <2>1. mapped'[w] = IF w = v THEN f ELSE mapped[w]
    BY <1>2 DEF PagingType
  <2>2. w # v => WalkTo(r.mem, w, 0) \in {WalkTo(b.mem, w, 0), NoTable}
    BY <1>5 DEF Faded
  <2>3. WalkTo(b.mem, w, 0) \in {mapped[w], Unmapped}
    BY <1>1 DEF MapInv
  <2> QED BY <1>2, <1>5, <2>1, <2>2, <2>3 DEF NoTable, Unmapped
<1> QED BY <1>2, <1>5, <1>6 DEF MapInv

LEMMA UnmapPageUnmaps ==
  ASSUME PagingType, MapInv, NEW v \in Pages, UnmapPage(v)
  PROVE  MapInv'
<1> DEFINE T == LastTables(mem, v)
           i == IndexAt(v, 1)
           t == WalkTo(mem, v, 1)
           gone(c) == \E u \in T : c = PresentCell(u, i)
<1>1. /\ Wild \notin T /\ next_physical_addr' = next_physical_addr
      /\ mapped' = [mapped EXCEPT ![v] = Unmapped]
      /\ mem' = [c \in Cells |-> IF gone(c) THEN 0 ELSE mem[c]]
  BY DEF UnmapPage
<1>2. PICK lv, rep : Forest(mem, next_physical_addr, lv, rep)
  BY DEF MapInv
<1>3. T = AsSet(t)
  BY <1>1, <1>2, TranslationIsWalk DEF Follows
<1>4. /\ mem \in [Cells -> Nat] /\ i \in Indices
      /\ \A u \in 0 .. next_physical_addr - 1 : u \in 0 .. MaxTables
      /\ t = NoTable \/ t \in 0 .. next_physical_addr - 1
      /\ WalkTo(mem, v, 0) = Down(mem, t, v, 1)
  <2>1. mem \in [Cells -> Nat] /\ next_physical_addr \in 1 .. MaxTables
    BY <1>2 DEF Forest
  <2>2. t = NoTable \/ t \in 0 .. next_physical_addr - 1
    BY <1>2, WalkOwned DEF Owned
  <2> HIDE DEF T, gone
  <2>3. WalkTo(mem, v, 0) = Down(mem, t, v, 1)
    BY WalkStep, 1 - 1 = 0
  <2> QED BY <2>1, <2>2, <2>3, TablesInMemory, IndexFacts
<1> DEFINE m2 == IF t = NoTable THEN mem ELSE Erased(mem, t, i)
<1>5. mem' = m2
  <2> HIDE DEF T, t, i
  <2>1. CASE t = NoTable
    <3>1. \A c : ~gone(c)
      BY <1>3, <2>1 DEF AsSet
    <3> QED BY <1>1, <1>4, <2>1, <3>1
  <2>2. CASE t # NoTable
    <3>1. \A c : gone(c) <=> c = PresentCell(t, i)
      BY <1>3, <2>2 DEF AsSet
    <3> HIDE DEF gone
    <3> QED BY <1>1, <2>2, <3>1 DEF Erased
  <2> QED BY <2>1, <2>2
<1> HIDE DEF T, gone, t
<1>6. /\ m2 \in [Cells -> Nat]
      /\ \A u \in 0 .. next_physical_addr - 1, j \in Indices : Fades(mem, m2, u, j)
      /\ t # NoTable => Entry(m2, t, i) = Unmapped
  <2>1. CASE t = NoTable
    BY <1>4, <2>1 DEF Fades
  <2>2. CASE t # NoTable
    <3>1. Erased(mem, t, i) \in [Cells -> Nat]
      BY <1>4 DEF Erased
    <3>2. /\ Entry(Erased(mem, t, i), t, i) = Unmapped
          /\ \A u \in 0 .. MaxTables, j \in Indices : Fades(mem, Erased(mem, t, i), u, j)
      BY <1>4, <2>2, EntryErased
    <3> QED BY <1>4, <2>2, <3>1, <3>2
  <2> QED BY <2>1, <2>2
<1> HIDE DEF m2
<1>7. Forest(m2, next_physical_addr, lv, rep) /\ Faded(mem, m2, Pages)
  BY <1>2, <1>6, AllFades
<1>8. WalkTo(m2, v, 0) = Unmapped
  <2>1. UpperFade(mem, m2, next_physical_addr, lv)
    BY <1>6 DEF UpperFade
  <2>2. WalkTo(m2, v, 1) \in {WalkTo(mem, v, 1), NoTable}
    BY <1>2, <1>6, <2>1, ForestFades
  <2>3. WalkTo(m2, v, 0) = Down(m2, WalkTo(m2, v, 1), v, 1)
    BY WalkStep, 1 - 1 = 0
  <2> QED BY <1>6, <2>2, <2>3 DEF Down, NoTable, Unmapped, t
<1>9. ASSUME NEW w \in Pages PROVE WalkTo(m2, w, 0) \in {mapped'[w], Unmapped}
  <2>1. mapped'[w] = IF w = v THEN Unmapped ELSE mapped[w]
    BY <1>1 DEF PagingType
  <2>2. WalkTo(mem, w, 0) \in {mapped[w], Unmapped}
    BY DEF MapInv
  <2> QED BY <1>7, <1>8, <2>1, <2>2 DEF Faded, NoTable, Unmapped
<1> QED BY <1>1, <1>5, <1>7, <1>9 DEF MapInv

LEMMA CreateSpaceKeepsMap ==
  ASSUME PagingType, MapInv, NEW p, NEW refused, CreateSpace(p, refused), PagingType'
  PROVE  MapInv'
<1> DEFINE n == next_physical_addr
           m2 == WithUpperHalf(mem, n)
<1>1. mem' = m2 /\ next_physical_addr' = n + 1 /\ mapped' = mapped /\ n < MaxTables
  BY DEF CreateSpace
<1>2. PICK lv, rep : Forest(mem, n, lv, rep)
  BY DEF MapInv
<1>3. /\ n \in 1 .. MaxTables /\ n \in Nat /\ n \in 0 .. MaxTables /\ n + 1 \in 1 .. MaxTables
      /\ n \in 0 .. n /\ (n + 1) - 1 = n
      /\ \A u \in 0 .. n - 1 : u \in 0 .. MaxTables /\ u < n /\ u \in 0 .. n /\ u # n
      /\ \A u \in 0 .. n : u # n => u \in 0 .. n - 1
      /\ mem \in [Cells -> Nat]
  <2>1. n \in 1 .. MaxTables /\ mem \in [Cells -> Nat]
    BY <1>2 DEF Forest
  <2> HIDE DEF n
  <2> QED BY <1>1, <2>1, Constants
<1>4. m2 \in [Cells -> Nat]
  <2>1. mem' \in [Cells -> Nat]
    BY Constants DEF PagingType
  <2> QED BY <1>1, <2>1
<1>5. \A u \in 0 .. n - 1, j \in Indices : Fades(mem, m2, u, j)
  BY <1>3, EntryCopied
<1> HIDE DEF m2, n
<1>6. Forest(m2, n, lv, rep) /\ Faded(mem, m2, Pages)
  BY <1>2, <1>4, <1>5, AllFades DEF n
<1> DEFINE lv2 == [u \in 0 .. n |-> IF u = n THEN 0 ELSE lv[u]]
           rep2 == [u \in 0 .. n |-> IF u = n THEN rep[pml4] ELSE rep[u]]
<1>7. /\ lv2 \in [0 .. n -> 0 .. 4] /\ lv2[n] = 0 /\ rep2 \in [0 .. n -> Pages]
      /\ pml4 \in 0 .. n - 1
      /\ \A u \in 0 .. n - 1 : lv2[u] = lv[u] /\ rep2[u] = rep[u]
  <2>1. pml4 \in 0 .. n - 1
    BY <1>3, TablesInMemory
  <2> QED BY <1>3, <1>6, <2>1 DEF Forest
<1> HIDE DEF lv2, rep2
<1>8. Forest(m2, n + 1, lv2, rep2)
  <2>1. ASSUME NEW u \in 0 .. n, NEW j \in Indices, NEW x \in Nat,
               lv2[u] \in 2 .. 4, Entry(m2, u, j) = x
        PROVE  /\ x \in 0 .. n /\ lv2[x] = lv2[u] - 1
               /\ IndexAt(rep2[x], lv2[u]) = j
               /\ Agree(rep2[x], rep2[u], lv2[u])
    <3>1. u # n
      BY <1>7, <2>1
    <3>2. u \in 0 .. n - 1 /\ lv2[u] = lv[u] /\ rep2[u] = rep[u]
      BY <1>3, <1>7, <3>1
    <3>3. /\ x \in 0 .. n - 1 /\ lv[x] = lv[u] - 1
          /\ IndexAt(rep[x], lv[u]) = j
          /\ Agree(rep[x], rep[u], lv[u])
      BY <1>6, <2>1, <3>2 DEF Forest
    <3> QED BY <1>3, <1>7, <3>2, <3>3
  <2> DEFINE N == n + 1
  <2>2. N \in 1 .. MaxTables /\ N - 1 = n
    BY <1>3
  <2>3. lv2[pml4] = 4
    BY <1>2, <1>7 DEF Forest
  <2> HIDE DEF N
  <2>4. lv2 \in [0 .. N - 1 -> 0 .. 4] /\ rep2 \in [0 .. N - 1 -> Pages]
    BY <1>7, <2>2
  <2>5. ASSUME NEW u \in 0 .. N - 1, NEW j \in Indices, NEW x \in Nat,
               lv2[u] \in 2 .. 4, Entry(m2, u, j) = x
        PROVE  /\ x \in 0 .. N - 1 /\ lv2[x] = lv2[u] - 1
               /\ IndexAt(rep2[x], lv2[u]) = j
               /\ Agree(rep2[x], rep2[u], lv2[u])
    BY <2>1, <2>2, <2>5
  <2>6. Forest(m2, N, lv2, rep2)
    BY <1>4, <2>2, <2>3, <2>4, <2>5 DEF Forest
  <2> QED BY <2>6 DEF N
<1>9. ASSUME NEW w \in Pages PROVE WalkTo(m2, w, 0) \in {mapped'[w], Unmapped}
  <2>1. WalkTo(mem, w, 0) \in {mapped[w], Unmapped}
    BY DEF MapInv
  <2> QED BY <1>1, <1>6, <2>1 DEF Faded, NoTable, Unmapped
<1>10. \E lv3, rep3 : Forest(mem', next_physical_addr', lv3, rep3)
  BY <1>1, <1>8
<1> QED BY <1>1, <1>9, <1>10 DEF MapInv, m2

LEMMA MapStepKeeps ==
  ASSUME IInv, IInv', MapInv, [Next]_vars
  PROVE  MapInv'
<1>0. PagingType /\ PagingType'
  BY DEF IInv
<1>1. ASSUME UNCHANGED paging PROVE MapInv'
  BY <1>1 DEF paging, MapInv
<1>2. CASE OtherPages
  <2>1. PICK v \in KernelMaps : UnmapPage(v) \/ \E f \in KernelFrames : MapPage(v, f)
    BY <1>2 DEF OtherPages, KernelStep
  <2>2. v \in Pages /\ KernelFrames \subseteq Frames
    BY PagingAssumption
  <2> QED BY <1>0, <2>1, <2>2, MapPageMaps, UnmapPageUnmaps
<1>3. ASSUME NEW p \in Callers, NEW refused \in BOOLEAN, TaskCreate(p, refused) PROVE MapInv'
  BY <1>0, <1>3, CreateSpaceKeepsMap DEF TaskCreate
<1>4. CASE LoadPage
  <2>1. PICK b \in Blocks : MapPage(Head(load.todo).page, PageOf(b))
    BY <1>4 DEF LoadPage
  <2>2. load.todo \in StepSeq /\ load.todo # << >> /\ Head(load.todo).op = "map"
    BY <1>4 DEF LoadPage, Maps, IInv, LoadType, Loads
  <2>3. Head(load.todo).page \in Pages /\ PageOf(b) \in Frames
    BY <2>2, TodoFacts, LoaderAssumption
  <2> QED BY <1>0, <2>1, <2>3, MapPageMaps
<1>5. CASE OtherFiles \/ ReadFile \/ TaskRefused \/ Validate \/ PageRefused \/ WriteSegment \/ Finish
  BY <1>1, <1>5 DEF OtherFiles, ReadFile, TaskRefused, Validate, PageRefused, WriteSegment, Finish
<1>6. ASSUME NEW e \in EntryIds, Start(e) PROVE MapInv'
  BY <1>1, <1>6 DEF Start
<1>7. ASSUME NEW refused \in BOOLEAN, AllocBuffer(refused) PROVE MapInv'
  BY <1>1, <1>7 DEF AllocBuffer
<1>8. CASE UNCHANGED vars
  BY <1>1, <1>8 DEF vars
<1> QED BY <1>2, <1>3, <1>4, <1>5, <1>6, <1>7, <1>8 DEF Next, LoadStep

(* Whatever is mapped and unmapped, by whom, and however many address      *)
(* spaces are made meanwhile: translate_address finds a page where         *)
(* map_page put it last, or not at all, although tables clear and          *)
(* overwrite each other's ends (paging.c:27-162, nusantara.h:249-263).     *)
THEOREM NeverFoundElsewhere == Spec => []NeverElsewhere
<1>1. Init => MapInv
  BY MapInvInit DEF Init
<1>2. IInv /\ IInv' /\ MapInv /\ [Next]_vars => MapInv'
  BY MapStepKeeps
<1>3. ASSUME MapInv PROVE NeverElsewhere
  <2>1. PICK lv, rep : Forest(mem, next_physical_addr, lv, rep)
    BY <1>3 DEF MapInv
  <2>2. ASSUME NEW v \in Pages PROVE Translation(mem, v) \in {mapped[v], Unmapped, Wild}
    <3>1. Translation(mem, v) \in {WalkTo(mem, v, 0), Wild}
      BY <2>1, TranslationIsWalk
    <3> QED BY <1>3, <3>1 DEF MapInv
  <2> QED BY <2>2 DEF NeverElsewhere
<1>4. MapInv => NeverElsewhere
  BY <1>3
<1> QED BY <1>1, <1>2, <1>4, LoaderInductive, PTL DEF Spec
=============================================================================
