------------------------------- MODULE Alloc -------------------------------
(***************************************************************************)
(* What kernel code may expect of kmalloc and kfree, without saying how    *)
(* the heap is organised.  An allocation owns an extent: a header of       *)
(* HeaderSize words in front of its payload, and the payload.  A request   *)
(* is granted an extent no live allocation overlaps, at least as long as   *)
(* what was asked for and not much longer; it is refused only when no gap  *)
(* between the live extents is long enough.  Sizes are those the allocator *)
(* works with, after rounding up.                                          *)
(***************************************************************************)
EXTENDS Integers

CONSTANTS
    Base,        \* first word of the heap
    Limit,       \* first word after the heap
    HeaderSize,  \* words an allocation needs besides its payload
    Slack,       \* how much longer than the request a payload may be
    NULL,        \* the reply to a refused request
    Sizes        \* the sizes clients ask for

VARIABLES
    live,     \* payload address -> payload size, of every live allocation
    pending,  \* the size being asked for, 0 when no request is pending
    reply     \* what the last request returned

vars == <<live, pending, reply>>

(* The extent of a payload of s words at p, against a live allocation q.   *)
Clear(p, s, q) == \/ p + s <= q - HeaderSize
                  \/ q + live[q] <= p - HeaderSize

(* A payload of s words at p lies in the heap and overlaps nothing live.   *)
Room(p, s) ==
    /\ Base <= p - HeaderSize
    /\ p + s <= Limit
    /\ \A q \in DOMAIN live : Clear(p, s, q)

Init ==
    /\ live = [p \in {} |-> 0]
    /\ pending = 0
    /\ reply = NULL

(* An empty request is refused at once.                                    *)
Request(n) ==
    /\ pending = 0
    /\ pending' = n
    /\ reply' = IF n = 0 THEN NULL ELSE reply
    /\ UNCHANGED live

Grant ==
    /\ pending > 0
    /\ \E p \in Base .. Limit, s \in pending .. pending + Slack :
          /\ Room(p, s)
          /\ live' = [q \in DOMAIN live \cup {p} |-> IF q = p THEN s ELSE live[q]]
          /\ reply' = p
    /\ pending' = 0

Refuse ==
    /\ pending > 0
    /\ \A p \in Base .. Limit : ~Room(p, pending)
    /\ reply' = NULL
    /\ pending' = 0
    /\ UNCHANGED live

Release(p) ==
    /\ pending = 0
    /\ live' = [q \in DOMAIN live \ {p} |-> live[q]]
    /\ UNCHANGED <<pending, reply>>

Next ==
    \/ \E n \in Sizes : Request(n)
    \/ Grant
    \/ Refuse
    \/ \E p \in DOMAIN live : Release(p)

Spec == Init /\ [][Next]_vars
=============================================================================
