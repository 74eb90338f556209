------------------------------ MODULE MCLoader -------------------------------
(***************************************************************************)
(* Loader with tables of eight entries in frames of 33 cells: of the 40    *)
(* cells of a table seven lie in the next frame, the last two of entry 6   *)
(* and all of entry 7, offset as those of the entries from 409 on are in   *)
(* the code.  paging_init maps sixteen pages, which takes six tables.      *)
(* There are two processes, two descriptors, and four blocks for pages,    *)
(* with their headers at a different offset in each frame.  File 0 is a    *)
(* program whose two segments share page 12, file 1 is not a program.  The *)
(* kernel has a page in the upper half, whose page directory entry lies    *)
(* upon the entry that leads to it: mapped for the first time, it is lost. *)
(***************************************************************************)
EXTENDS Loader, TLC

MCBefore == [c \in Cells |-> 1]
MCSize == [e \in 0 .. 1 |-> IF e = 0 THEN 2 ELSE 1]
MCSegments ==
    [e \in 0 .. 1 |->
       IF e = 0 THEN <<[vaddr |-> 12 * 33 + 3, filesz |-> 20, memsz |-> 30],
                       [vaddr |-> 12 * 33 + 31, filesz |-> 8, memsz |-> 8]>>
       ELSE << >>]
MCPages == (0 .. 16) \cup {2046, 2496}
MCBlocks == {16 * 33 + 1 + k * 34 : k \in 0 .. 3}
Symmetry == Permutations(Callers)
=============================================================================
