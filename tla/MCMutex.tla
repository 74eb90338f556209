------------------------------ MODULE MCMutex ------------------------------
(***************************************************************************)
(* Mutex with two mutexes, a wait queue of two entries, so that a process  *)
(* is queued twice and finds the queue full, and a list of one held mutex, *)
(* so that a process owns more than its list takes.                        *)
(***************************************************************************)
EXTENDS Mutex
=============================================================================
