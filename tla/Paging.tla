------------------------------- MODULE Paging --------------------------------
(***************************************************************************)
(* The page tables of kernel/paging.c, in physical memory.  A table begins *)
(* at the page-aligned address that get_next_frame gave and has Fanout     *)
(* entries.  Memory is counted in cells of two bytes.                      *)
(*                                                                         *)
(* The fields of page_entry_t are 76 bits, packed into 10 bytes: 512 of    *)
(* them take 5120 bytes, and a frame has 4096 (nusantara.h:249-263).  Each *)
(* table thus ends within the next frame, where another table may lie.     *)
(* An entry is five cells: the flags, with the lowest bits of the frame;   *)
(* the next 16 bits of the frame, which are taken for all that matter; two *)
(* cells of higher bits, 0 for any frame there is; and reserved bits, which*)
(* map_page does not write.  The end of a table lies two cells off the     *)
(* beginning of the next one's entries, so that an entry and its neighbour *)
(* in the other table hold each other's cells in different fields.         *)
(***************************************************************************)
EXTENDS Integers

CONSTANTS
    Fanout,         \* 512
    PageCells,      \* PAGE_SIZE, in cells: 2048
    Pages,          \* a bound: the virtual pages that are looked at
    MaxTables,      \* a bound: frames that become tables
    Memory,         \* frames in all
    Before,         \* what memory holds before paging_init
    IdentityPages,  \* how many pages paging_init maps: 512 MB of them
    Callers,        \* the processes that get an address space
    KernelMaps,     \* pages that others than the ELF loader map and unmap
    KernelFrames    \* and the frames they map them to

EntryCells == 5     \* sizeof(page_entry_t), in cells
Frames == 0 .. Memory - 1
Indices == 0 .. Fanout - 1
Cells == 0 .. MaxTables * PageCells + Fanout * EntryCells    \* those of tables
NoTable == -1
Unmapped == -1
Wild == -2          \* a frame that does not exist
pml4 == 0     \* the first table of paging_init; the second, kernel_pdpt, is never used

ASSUME PagingAssumption ==
    /\ Fanout \in Nat \ {0} /\ Fanout % 2 = 0
    /\ PageCells \in Nat /\ PageCells % EntryCells = 3
    /\ PageCells < Fanout * EntryCells /\ Fanout * EntryCells <= 2 * PageCells
    /\ MaxTables \in Nat /\ Memory \in Nat /\ 2 <= MaxTables /\ MaxTables <= Memory
    /\ Before \in [Cells -> Frames]
    /\ Pages \subseteq 0 .. Fanout * Fanout * Fanout * Fanout - 1
    /\ IdentityPages \in Nat \ {0} /\ 0 .. IdentityPages - 1 \subseteq Pages \cap Frames
    /\ KernelMaps \subseteq Pages /\ KernelFrames \subseteq Frames

VARIABLES
    mem,                 \* cell -> what it holds
    next_physical_addr,  \* in frames
    page_table,          \* process -> its top table
    mapped               \* history: page -> the frame map_page was last given for it

paging == <<mem, next_physical_addr, page_table, mapped>>

-----------------------------------------------------------------------------
Cell(t, i, c) == t * PageCells + i * EntryCells + c
PresentCell(t, i) == Cell(t, i, 0)

(* What map_page and alloc_page_table write of an entry.                   *)
Written(t, I) == {Cell(t, i, c) : i \in I, c \in 0 .. 3}

IsPresent(m, t, i) == m[PresentCell(t, i)] # 0

(* The frame in an entry, whose high bits another table may have written.  *)
FrameIn(m, t, i) ==
    IF m[Cell(t, i, 2)] = 0 /\ m[Cell(t, i, 3)] = 0 THEN m[Cell(t, i, 1)] ELSE Wild

WithEntry(m, t, i, f) ==
    [m EXCEPT ![Cell(t, i, 0)] = 1, ![Cell(t, i, 1)] = f, ![Cell(t, i, 2)] = 0, ![Cell(t, i, 3)] = 0]

(* The index into the tables of a level, the fourth being the top: an      *)
(* entry stands for so many pages of the level's span.                     *)
Span == <<1, Fanout, Fanout * Fanout, Fanout * Fanout * Fanout>>
IndexAt(v, level) == (v \div Span[level]) % Fanout

(* alloc_page_table: every entry of the next frame is cleared.             *)
Cleared(m, t) ==
    LET entries == Written(t, Indices)
    IN  [c \in Cells |-> IF c \in entries THEN 0 ELSE m[c]]

(* map_page, from the table s.table of a level to that of the level below, *)
(* which is made when there is none.                                       *)
Descended(s, v, level) ==
    LET i == IndexAt(v, level)
    IN  IF s.table = Wild THEN s
        ELSE IF IsPresent(s.mem, s.table, i)
        THEN [s EXCEPT !.table = FrameIn(s.mem, s.table, i)]
        ELSE [mem |-> WithEntry(Cleared(s.mem, s.next), s.table, i, s.next),
              next |-> s.next + 1, table |-> s.next]

(* map_page, on the memory b.mem, with b.next as the next frame.  What it  *)
(* does to a table in no frame is undefined: it gets no further here.      *)
Mapped(b, v, f) ==
    LET top == [mem |-> b.mem, next |-> b.next, table |-> pml4]
        pdpt == Descended(top, v, 4)
        pd == Descended(pdpt, v, 3)
        pt == Descended(pd, v, 2)
    IN  IF pt.table = Wild THEN pt
        ELSE [pt EXCEPT !.mem = WithEntry(pt.mem, pt.table, IndexAt(v, 1), f)]

(* What the entries for a page hold in the tables T of a level: nothing    *)
(* when they are not present.  A walk goes through one table at a time.    *)
Follow(m, T, v, level) ==
    (T \cap {Wild}) \cup
    {FrameIn(m, t, IndexAt(v, level)) : t \in {u \in T \ {Wild} : IsPresent(m, u, IndexAt(v, level))}}

LastTables(m, v) == Follow(m, Follow(m, Follow(m, {pml4}, v, 4), v, 3), v, 2)

(* translate_address                                                       *)
Translation(m, v) ==
    LET frames == Follow(m, LastTables(m, v), v, 1)
    IN  IF frames = {} THEN Unmapped ELSE CHOOSE f \in frames : TRUE

-----------------------------------------------------------------------------
(* paging_init: its own pages, and then those of the kernel one by one.    *)
Boot[n \in 0 .. IdentityPages] ==
    IF n = 0 THEN [mem |-> Cleared(Cleared(Before, pml4), 1), next |-> 2, table |-> pml4]
    ELSE Mapped(Boot[n - 1], n - 1, n - 1)

(* The tables of the kernel's pages do not get in each other's way so much *)
(* that map_page loses itself, and there is room for three more.           *)
ASSUME BootAssumption ==
    \A n \in 0 .. IdentityPages : Boot[n].table # Wild /\ Boot[n].next + 3 <= MaxTables

PagingInit ==
    /\ mem = Boot[IdentityPages].mem
    /\ next_physical_addr = Boot[IdentityPages].next
    /\ page_table = [p \in Callers |-> NoTable]
    /\ mapped = [v \in Pages |-> IF v < IdentityPages THEN v ELSE Unmapped]

(* Mutant: an entry that is present already keeps its frame.               *)
MapPageOnce(v, f) ==
    LET s == Mapped([mem |-> mem, next |-> next_physical_addr], v, f)
    IN  /\ next_physical_addr + 3 <= MaxTables /\ s.table # Wild
        /\ IF Translation(mem, v) = Unmapped
           THEN mem' = s.mem /\ next_physical_addr' = s.next
           ELSE UNCHANGED <<mem, next_physical_addr>>
        /\ mapped' = [mapped EXCEPT ![v] = f]

(* map_page: always in the kernel's own tables.  It takes three frames at  *)
(* most, and is not called when there are fewer.                           *)
MapPage(v, f) ==
    LET s == Mapped([mem |-> mem, next |-> next_physical_addr], v, f)
    IN  /\ next_physical_addr + 3 <= MaxTables /\ s.table # Wild
        /\ mem' = s.mem
        /\ next_physical_addr' = s.next
        /\ mapped' = [mapped EXCEPT ![v] = f]

(* unmap_page: tables stay when they become empty, and nothing is done     *)
(* when the last one is not reached.                                       *)
UnmapPage(v) ==
    LET T == LastTables(mem, v)
    IN  /\ Wild \notin T
        /\ mem' = [c \in Cells |->
                     IF \E t \in T : c = PresentCell(t, IndexAt(v, 1)) THEN 0 ELSE mem[c]]
        /\ mapped' = [mapped EXCEPT ![v] = Unmapped]
        /\ UNCHANGED next_physical_addr

(* create_process_address_space: a table with the upper half of the        *)
(* kernel's, as it is now, all five cells of each entry.                   *)
WithUpperHalf(m, t) ==
    LET upper == {Cell(t, i, c) : i \in Fanout \div 2 .. Fanout - 1, c \in 0 .. 4}
        lower == Written(t, 0 .. Fanout \div 2 - 1)
    IN  [c \in Cells |-> IF c \in upper THEN m[c - t * PageCells]
                         ELSE IF c \in lower THEN 0 ELSE m[c]]

(* The table is taken before the structure that is to point to it; when    *)
(* kmalloc refuses that, the table is lost and the process gets none.      *)
CreateSpace(p, refused) ==
    /\ next_physical_addr < MaxTables
    /\ mem' = WithUpperHalf(mem, next_physical_addr)
    /\ next_physical_addr' = next_physical_addr + 1
    /\ page_table' =
         IF refused THEN page_table ELSE [page_table EXCEPT ![p] = next_physical_addr]
    /\ UNCHANGED mapped

(* Others map and unmap pages of the kernel.                               *)
KernelStep ==
    /\ \E v \in KernelMaps :
         \/ UnmapPage(v)
         \/ \E f \in KernelFrames : MapPage(v, f)
    /\ UNCHANGED page_table

-----------------------------------------------------------------------------
(* Although tables lie over each other's ends, a page is never found       *)
(* elsewhere than where it was mapped last.  It may be lost, or lead       *)
(* nowhere, because writing an entry of one table clears the entry beside  *)
(* it in the next or the one before (paging.c:27-162).                     *)
NeverElsewhere == \A v \in Pages : Translation(mem, v) \in {mapped[v], Unmapped, Wild}
=============================================================================
