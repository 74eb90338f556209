---------------------------- MODULE BoundedQueue ----------------------------
(***************************************************************************)
(* What drivers/keyboard.c promises of the characters typed: they are      *)
(* delivered one by one in the order of typing, none twice, and one is     *)
(* dropped only when Capacity others wait.  A character that is typed      *)
(* flips typed, whether it is dropped or not, so that a step that drops    *)
(* one is no stuttering step.                                              *)
(***************************************************************************)
EXTENDS Naturals, Sequences

CONSTANTS
    Chars,
    Capacity

VARIABLES
    queue,   \* the characters that wait
    got,     \* the character delivered last
    typed    \* flips with each character typed

vars == <<queue, got, typed>>

Init ==
    /\ queue = << >>
    /\ got \notin Chars
    /\ typed \in BOOLEAN

(* A character waits behind the others, or, when these are as many as      *)
(* Capacity, is lost.                                                      *)
Put(c) ==
    /\ queue' = IF Len(queue) < Capacity THEN Append(queue, c) ELSE queue
    /\ typed' = ~typed
    /\ UNCHANGED got

Get ==
    /\ queue # << >>
    /\ got' = Head(queue)
    /\ queue' = Tail(queue)
    /\ UNCHANGED typed

Next == (\E c \in Chars : Put(c)) \/ Get

Spec == Init /\ [][Next]_vars
=============================================================================
