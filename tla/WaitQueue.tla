----------------------------- MODULE WaitQueue -----------------------------
(***************************************************************************)
(* The wait queues of kernel/ipc.c (wait_queue_t).  A call that finds no   *)
(* mutex or unit adds its process to a queue, if that has room, and then   *)
(* yields before it returns.                                               *)
(***************************************************************************)
EXTENDS IpcTable

CONSTANT
    MaxWaiters   \* the 32 entries of a wait_queue

ASSUME WaitQueueAssumption == MaxWaiters \in Nat

VARIABLE
    waiting      \* process -> the slot whose call is in yield(), or None

None == 0
=============================================================================
