---------------------------- MODULE MCSemaphore ----------------------------
(***************************************************************************)
(* Semaphore with two semaphores, values up to 2 and queues of two, and    *)
(* initial values below, at and above what posting can reach.              *)
(***************************************************************************)
EXTENDS Semaphore

MCInitialValues == {-1, 0, 1, 3}
=============================================================================
