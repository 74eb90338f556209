------------------------------ MODULE IpcTable ------------------------------
(***************************************************************************)
(* What the tables of kernel/ipc.c have in common.  A slot is taken by the *)
(* first search that finds its id 0, and never given back; the calls are   *)
(* made by the process that get_current_process() returns.                 *)
(***************************************************************************)
EXTENDS Integers, Sequences

CONSTANT
    Procs

VARIABLE
    reply     \* process -> what its last call returned

Return(p, r) == reply' = [reply EXCEPT ![p] = r]

Used(table, i) == table[i].id # 0

(* Mutant: the search does not stop at the first unused slot.              *)
IsUnused(table, i) == ~Used(table, i)

IsFirstUnused(table, i) == ~Used(table, i) /\ \A j \in 1 .. i - 1 : Used(table, j)
=============================================================================
