------------------------------- MODULE Mutex -------------------------------
(***************************************************************************)
(* The mutexes of kernel/ipc.c.  Each call's body runs under ipc_lock and  *)
(* is one step; sys_mutex_lock on a locked mutex releases ipc_lock and     *)
(* then yields, so its return is a step of its own, and other processes    *)
(* run in between.  The caller p is what get_current_process() returns.    *)
(* schedule() makes a process READY again whatever it was marked           *)
(* (task.c:125), so a blocked caller may return at any time.               *)
(***************************************************************************)
EXTENDS WaitQueue, Lists

CONSTANTS
    NoOwner,     \* the owner -1
    MAX_MUTEX,   \* slots of mutex_table
    MaxHeld      \* the 16 entries of a process's held_mutexes

ASSUME MutexAssumption ==
    /\ NoOwner \notin Procs
    /\ MAX_MUTEX \in Nat
    /\ MaxHeld \in Nat

VARIABLES
    mutex,          \* mutex_table: slot -> [id, locked, owner, queue]
    next_mutex_id,
    held            \* process -> held_mutexes, as a list of slots

MutexVars == <<mutex, next_mutex_id, held, waiting, reply>>

MutexSlots == 1 .. MAX_MUTEX   \* slot i is mutex_table[i - 1], which id i selects

-----------------------------------------------------------------------------
(* ipc_init                                                                *)
MutexInit ==
    /\ mutex = [i \in MutexSlots |->
                  [id |-> 0, locked |-> FALSE, owner |-> NoOwner, queue |-> << >>]]
    /\ next_mutex_id = 1
    /\ held = [p \in Procs |-> << >>]
    /\ waiting = [p \in Procs |-> None]
    /\ reply = [p \in Procs |-> 0]

MutexCreate(p) ==
    /\ waiting[p] = None
    /\ \/ \E i \in MutexSlots :
            /\ IsFirstUnused(mutex, i)
            /\ mutex' = [mutex EXCEPT ![i] =
                           [id |-> next_mutex_id, locked |-> FALSE,
                            owner |-> NoOwner, queue |-> << >>]]
            /\ next_mutex_id' = next_mutex_id + 1
            /\ Return(p, next_mutex_id)
       \/ /\ \A i \in MutexSlots : Used(mutex, i)
          /\ Return(p, -1)
          /\ UNCHANGED <<mutex, next_mutex_id>>
    /\ UNCHANGED <<held, waiting>>

(* The mutex that a call's mutex_id selects; there may be none.            *)
Selects(id, i) == i \in MutexSlots /\ i = id /\ Used(mutex, i)

(* mutex_id is out of range or names no mutex.                             *)
LockInvalid(p, id) ==
    /\ waiting[p] = None
    /\ \A i \in MutexSlots : ~Selects(id, i)
    /\ Return(p, -1)
    /\ UNCHANGED <<mutex, next_mutex_id, held, waiting>>

(* The mutex is free: it is taken, and tracked while held_mutexes has room.*)
LockTake(p, i) ==
    /\ waiting[p] = None
    /\ Used(mutex, i)
    /\ ~mutex[i].locked
    /\ mutex' = [mutex EXCEPT ![i].locked = TRUE, ![i].owner = p]
    /\ held' = IF Len(held[p]) < MaxHeld
               THEN [held EXCEPT ![p] = Append(@, i)]
               ELSE held
    /\ Return(p, 0)
    /\ UNCHANGED <<next_mutex_id, waiting>>

(* The mutex is locked: the caller is queued if there is room, and yields. *)
LockBlock(p, i) ==
    /\ waiting[p] = None
    /\ Used(mutex, i)
    /\ mutex[i].locked
    /\ mutex' = IF Len(mutex[i].queue) < MaxWaiters
                THEN [mutex EXCEPT ![i].queue = Append(@, p)]
                ELSE mutex
    /\ waiting' = [waiting EXCEPT ![p] = i]
    /\ UNCHANGED <<next_mutex_id, held, reply>>

(* yield() returns, and sys_mutex_lock with it.                            *)
LockReturn(p) ==
    /\ waiting[p] # None
    /\ waiting' = [waiting EXCEPT ![p] = None]
    /\ Return(p, 0)
    /\ UNCHANGED <<mutex, next_mutex_id, held>>

(* Mutant: anyone may unlock.                                              *)
UnlockByAnyone(p, i) ==
    /\ waiting[p] = None
    /\ Used(mutex, i)
    /\ mutex' = [mutex EXCEPT ![i].locked = FALSE, ![i].owner = NoOwner,
                              ![i].queue = IF @ = << >> THEN @ ELSE Tail(@)]
    /\ held' = [held EXCEPT ![p] = Removed(i, @)]
    /\ Return(p, 0)
    /\ UNCHANGED <<next_mutex_id, waiting>>

Unlock(p, i) ==
    /\ waiting[p] = None
    /\ Used(mutex, i)
    /\ mutex[i].owner = p
    /\ mutex' = [mutex EXCEPT
                   ![i].locked = FALSE,
                   ![i].owner = NoOwner,
                   ![i].queue = IF @ = << >> THEN @ ELSE Tail(@)]
    /\ held' = [held EXCEPT ![p] = Removed(i, @)]
    /\ Return(p, 0)
    /\ UNCHANGED <<next_mutex_id, waiting>>

(* mutex_id names no mutex, or one the caller does not own.                *)
UnlockInvalid(p, id) ==
    /\ waiting[p] = None
    /\ \A i \in MutexSlots : Selects(id, i) => mutex[i].owner # p
    /\ Return(p, -1)
    /\ UNCHANGED <<mutex, next_mutex_id, held, waiting>>

-----------------------------------------------------------------------------
MutexIds == 0 .. MAX_MUTEX + 1    \* mutex_id arguments, out of range ones included

MutexNext ==
    \E p \in Procs :
        \/ MutexCreate(p)
        \/ \E id \in MutexIds : LockInvalid(p, id) \/ UnlockInvalid(p, id)
        \/ \E i \in MutexSlots : LockTake(p, i) \/ LockBlock(p, i) \/ Unlock(p, i)
        \/ LockReturn(p)

MutexSpec == MutexInit /\ [][MutexNext]_MutexVars

-----------------------------------------------------------------------------
Mutexes == [id : Nat, locked : BOOLEAN, owner : Procs \cup {NoOwner}, queue : Seq(Procs)]

MutexTypeOK ==
    /\ mutex \in [MutexSlots -> Mutexes]
    /\ next_mutex_id \in 1 .. MAX_MUTEX + 1
    /\ held \in [Procs -> Seq(MutexSlots)]
    /\ waiting \in [Procs -> MutexSlots \cup {None}]
    /\ reply \in [Procs -> Int]

(* sys_mutex_lock and sys_mutex_unlock index the table with id - 1, though *)
(* sys_mutex_create takes ids from a counter and slots from a search: the  *)
(* two agree, so an id selects the mutex that was created under it.        *)
IdSelectsItsMutex ==
    \A i \in MutexSlots : mutex[i].id = IF i < next_mutex_id THEN i ELSE 0

(* locked, owner and the owner's held_mutexes tell the same story: a mutex *)
(* is locked exactly while it has an owner, and a process's list names     *)
(* mutexes it owns, each once.                                             *)
Ownership ==
    /\ \A i \in MutexSlots : /\ mutex[i].locked <=> mutex[i].owner # NoOwner
                             /\ mutex[i].locked => Used(mutex, i)
    /\ \A p \in Procs :
          /\ \A i \in MutexSlots : Occurs(i, held[p]) => mutex[i].owner = p
          /\ NoRepeats(held[p])

(* A mutex changes hands only through NoOwner, and only by calls of the    *)
(* process that takes it or gives it up.                                   *)
OwnerChanges ==
    [][\A i \in MutexSlots : mutex'[i].owner # mutex[i].owner =>
          \E p \in Procs :
             /\ {mutex[i].owner, mutex'[i].owner} = {p, NoOwner}
             /\ waiting[p] = None]_MutexVars

-----------------------------------------------------------------------------
(* What the code's comments say, and the runs refute.                      *)

(* "Akan return setelah mendapat lock" (ipc.c:116), will return after      *)
(* getting the lock: a caller that had to wait owns the mutex when its     *)
(* call returns 0.                                                         *)
LockReturnsOwner ==
    [][\A p \in Procs :
          waiting[p] # None /\ waiting'[p] = None =>
              mutex[waiting[p]].owner = p]_MutexVars

=============================================================================
