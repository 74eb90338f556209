--------------------------- MODULE MCSharedMemory ---------------------------
(***************************************************************************)
(* SharedMemory with two or three names, all of them short enough to be    *)
(* stored whole.                                                           *)
(***************************************************************************)
EXTENDS SharedMemory

TwoNames == {"x", "y"}
TwoKept == [n \in TwoNames |-> n]

ThreeNames == {"x", "y", "z"}
ThreeKept == [n \in ThreeNames |-> n]
=============================================================================
