----------------------------- MODULE Semaphore -----------------------------
(***************************************************************************)
(* The counting semaphores of kernel/ipc.c.  As in Mutex, the body of a    *)
(* call runs under ipc_lock and is one step, and sys_sem_wait on a         *)
(* semaphore without units yields before it returns.                       *)
(***************************************************************************)
EXTENDS WaitQueue

CONSTANTS
    MAX_SEM,        \* slots of sem_table
    SEM_VALUE_MAX,
    InitialValues   \* the values semaphores are created with

ASSUME SemaphoreAssumption ==
    /\ MAX_SEM \in Nat
    /\ SEM_VALUE_MAX \in Nat
    /\ InitialValues \subseteq Int

VARIABLES
    sem,          \* sem_table: slot -> [id, value, queue]
    next_sem_id

SemVars == <<sem, next_sem_id, waiting, reply>>

SemSlots == 1 .. MAX_SEM   \* slot i is sem_table[i - 1], which id i selects

-----------------------------------------------------------------------------
(* ipc_init                                                                *)
SemInit ==
    /\ sem = [i \in SemSlots |-> [id |-> 0, value |-> 0, queue |-> << >>]]
    /\ next_sem_id = 1
    /\ waiting = [p \in Procs |-> None]
    /\ reply = [p \in Procs |-> 0]

(* Any s32 is taken as initial value.                                      *)
SemCreate(p, v) ==
    /\ waiting[p] = None
    /\ \/ \E i \in SemSlots :
            /\ IsFirstUnused(sem, i)
            /\ sem' = [sem EXCEPT ![i] =
                         [id |-> next_sem_id, value |-> v, queue |-> << >>]]
            /\ next_sem_id' = next_sem_id + 1
            /\ Return(p, next_sem_id)
       \/ /\ \A i \in SemSlots : Used(sem, i)
          /\ Return(p, -1)
          /\ UNCHANGED <<sem, next_sem_id>>
    /\ UNCHANGED waiting

(* sem_id is out of range or names no semaphore: sys_sem_wait and          *)
(* sys_sem_post fail alike.                                                *)
SemInvalid(p, id) ==
    /\ waiting[p] = None
    /\ \A i \in SemSlots : i = id => ~Used(sem, i)
    /\ Return(p, -1)
    /\ UNCHANGED <<sem, next_sem_id, waiting>>

WaitTake(p, i) ==
    /\ waiting[p] = None
    /\ Used(sem, i)
    /\ sem[i].value > 0
    /\ sem' = [sem EXCEPT ![i].value = @ - 1]
    /\ Return(p, 0)
    /\ UNCHANGED <<next_sem_id, waiting>>

(* No unit: the caller is queued if there is room, and yields.             *)
WaitBlock(p, i) ==
    /\ waiting[p] = None
    /\ Used(sem, i)
    /\ sem[i].value <= 0
    /\ sem' = IF Len(sem[i].queue) < MaxWaiters
              THEN [sem EXCEPT ![i].queue = Append(@, p)]
              ELSE sem
    /\ waiting' = [waiting EXCEPT ![p] = i]
    /\ UNCHANGED <<next_sem_id, reply>>

(* yield() returns, and sys_sem_wait with it.                              *)
WaitReturn(p) ==
    /\ waiting[p] # None
    /\ waiting' = [waiting EXCEPT ![p] = None]
    /\ Return(p, 0)
    /\ UNCHANGED <<sem, next_sem_id>>

(* Mutant: a unit is both handed to the queue and added to the value.      *)
PostTwice(p, i) ==
    /\ waiting[p] = None
    /\ Used(sem, i)
    /\ sem' = [sem EXCEPT ![i].queue = IF @ = << >> THEN @ ELSE Tail(@),
                          ![i].value = IF @ < SEM_VALUE_MAX THEN @ + 1 ELSE @]
    /\ Return(p, 0)
    /\ UNCHANGED <<next_sem_id, waiting>>

(* The unit goes to the queue's head, who is taken off; with nobody queued *)
(* it is added to the value, up to SEM_VALUE_MAX.                          *)
Post(p, i) ==
    /\ waiting[p] = None
    /\ Used(sem, i)
    /\ sem' = IF sem[i].queue # << >>
              THEN [sem EXCEPT ![i].queue = Tail(@)]
              ELSE IF sem[i].value < SEM_VALUE_MAX
              THEN [sem EXCEPT ![i].value = @ + 1]
              ELSE sem
    /\ Return(p, 0)
    /\ UNCHANGED <<next_sem_id, waiting>>

-----------------------------------------------------------------------------
SemIds == 0 .. MAX_SEM + 1    \* sem_id arguments, out of range ones included

SemNext ==
    \E p \in Procs :
        \/ \E v \in InitialValues : SemCreate(p, v)
        \/ \E id \in SemIds : SemInvalid(p, id)
        \/ \E i \in SemSlots : WaitTake(p, i) \/ WaitBlock(p, i) \/ Post(p, i)
        \/ WaitReturn(p)

SemSpec == SemInit /\ [][SemNext]_SemVars

-----------------------------------------------------------------------------
Semaphores == [id : Nat, value : Int, queue : Seq(Procs)]

SemTypeOK ==
    /\ sem \in [SemSlots -> Semaphores]
    /\ next_sem_id \in 1 .. MAX_SEM + 1
    /\ waiting \in [Procs -> SemSlots \cup {None}]
    /\ reply \in [Procs -> Int]

(* sys_sem_wait and sys_sem_post index the table with id - 1, and find the *)
(* semaphore that was created under the id.                                *)
IdSelectsItsSemaphore ==
    \A i \in SemSlots : sem[i].id = IF i < next_sem_id THEN i ELSE 0

(* Nobody is queued for a semaphore that has a unit to give, however waits *)
(* and posts interleave, also when the queue has been full.                *)
QueuedOnlyWhenEmpty ==
    \A i \in SemSlots : sem[i].queue # << >> => sem[i].value <= 0
=============================================================================
