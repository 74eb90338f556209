------------------------------ MODULE MCSched ------------------------------
(***************************************************************************)
(* Sched with a table of three slots, so that task_create and fork find it *)
(* full, and pids up to 4, so that failed creations leave gaps.            *)
(***************************************************************************)
EXTENDS Sched
=============================================================================
