------------------------------- MODULE MCHeap -------------------------------
(***************************************************************************)
(* Heap on a heap of 25 words (200 bytes): up to five blocks at a time, so *)
(* that runs of three free blocks, blocks handed out whole and refused     *)
(* requests all happen.                                                    *)
(***************************************************************************)
EXTENDS Heap

MCSizes == {0, 1, 2, 4, 7, 12, 40}
=============================================================================
