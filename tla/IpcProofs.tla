------------------------------ MODULE IpcProofs ------------------------------
(***************************************************************************)
(* Proofs about Mutex, Semaphore and SharedMemory for any processes, any   *)
(* number of mutexes, semaphores and regions, any length of the wait       *)
(* queues and of the lists, any initial values and any SEM_VALUE_MAX.      *)
(***************************************************************************)
EXTENDS Mutex, Semaphore, SharedMemory, Lemmas

(* In a table where an id is the position of its slot, the first unused    *)
(* slot is the one whose number the next id is.                            *)
LEMMA FirstUnusedIsNext ==
  ASSUME NEW N \in Nat, NEW next \in 1 .. N + 1, NEW table,
         \A j \in 1 .. N : table[j].id = IF j < next THEN j ELSE 0,
         NEW i \in 1 .. N, IsFirstUnused(table, i)
  PROVE  i = next
<1>1. ~(i < next)
  BY DEF IsFirstUnused, Used
<1>2. ~(next < i)
  <2> SUFFICES ASSUME next < i PROVE FALSE
    OBVIOUS
  <2>1. next \in 1 .. i - 1 /\ next \in 1 .. N
    OBVIOUS
  <2>2. table[next].id = 0
    BY <2>1
  <2> QED BY <2>1, <2>2 DEF IsFirstUnused, Used
<1> QED BY <1>1, <1>2

-----------------------------------------------------------------------------
(* The mutexes.                                                            *)

(* Ownership is inductive because an id selects the mutex created under it *)
(* and a list names only mutexes of its process, each once: removing the   *)
(* first entry equal to the mutex then removes the mutex from the list.    *)
MutexIInv == MutexTypeOK /\ IdSelectsItsMutex /\ Ownership

(* After ipc_init.                                                         *)
LEMMA MutexInitIInv == MutexInit => MutexIInv
<1> SUFFICES ASSUME MutexInit PROVE MutexIInv
  OBVIOUS
<1>1. MutexTypeOK
  BY MutexAssumption DEF MutexInit, MutexTypeOK, Mutexes, MutexSlots, None
<1>2. IdSelectsItsMutex
  BY DEF MutexInit, IdSelectsItsMutex, MutexSlots
<1>3. Ownership
  BY DEF MutexInit, Ownership, Occurs, NoRepeats
<1> QED BY <1>1, <1>2, <1>3 DEF MutexIInv

(* What a mutex record is made of.                                         *)
LEMMA MutexTypes ==
  ASSUME MutexTypeOK, NEW i \in MutexSlots
  PROVE  /\ mutex[i] \in Mutexes
         /\ mutex[i].id \in Nat /\ mutex[i].locked \in BOOLEAN
         /\ mutex[i].owner \in Procs \cup {NoOwner} /\ mutex[i].queue \in Seq(Procs)
<1>1. mutex[i] \in Mutexes
  BY DEF MutexTypeOK
<1> QED BY <1>1 DEF Mutexes

(* The first unused slot is the one whose number the next id is.           *)
LEMMA MutexFirstUnused ==
  ASSUME MutexIInv, NEW i \in MutexSlots, IsFirstUnused(mutex, i)
  PROVE  i = next_mutex_id
<1>1. MAX_MUTEX \in Nat /\ next_mutex_id \in 1 .. MAX_MUTEX + 1
  BY MutexAssumption DEF MutexIInv, MutexTypeOK
<1>2. \A j \in 1 .. MAX_MUTEX : mutex[j].id = IF j < next_mutex_id THEN j ELSE 0
  BY DEF MutexIInv, IdSelectsItsMutex, MutexSlots
<1> QED BY <1>1, <1>2, FirstUnusedIsNext DEF MutexSlots

(* A mutex without an owner is not locked, nor is one that is not used.    *)
LEMMA FreeMutex ==
  ASSUME MutexIInv, NEW i \in MutexSlots
  PROVE  /\ ~mutex[i].locked <=> mutex[i].owner = NoOwner
         /\ ~Used(mutex, i) => ~mutex[i].locked
<1>1. /\ mutex[i].locked <=> mutex[i].owner # NoOwner
      /\ mutex[i].locked => Used(mutex, i)
  BY DEF MutexIInv, Ownership
<1>2. mutex[i].locked \in BOOLEAN
  BY MutexTypes DEF MutexIInv
<1> QED BY <1>1, <1>2, Zenon

(* The calls that change nothing but their reply.                          *)
LEMMA MutexReplyIInv ==
  ASSUME MutexIInv, NEW p \in Procs, NEW r \in Int, Return(p, r),
         UNCHANGED <<mutex, next_mutex_id, held>>,
         waiting' \in [Procs -> MutexSlots \cup {None}]
  PROVE  MutexIInv'
<1>1. reply' \in [Procs -> Int]
  BY DEF MutexIInv, MutexTypeOK, Return
<1> QED BY <1>1 DEF MutexIInv, MutexTypeOK, MutexSlots, Mutexes, IdSelectsItsMutex, Ownership, Used

(* A created mutex is free, and in nobody's list.                           *)
LEMMA MutexCreateIInv == ASSUME MutexIInv, NEW p \in Procs, MutexCreate(p) PROVE MutexIInv'
<1>1. UNCHANGED <<held, waiting>>
  BY DEF MutexCreate
<1>2. CASE /\ \A i \in MutexSlots : Used(mutex, i)
           /\ Return(p, -1)
           /\ UNCHANGED <<mutex, next_mutex_id>>
  <2>1. waiting' \in [Procs -> MutexSlots \cup {None}]
    BY <1>1 DEF MutexIInv, MutexTypeOK
  <2> QED BY <1>1, <1>2, <2>1, MutexReplyIInv
<1>3. ASSUME NEW i \in MutexSlots, IsFirstUnused(mutex, i),
             mutex' = [mutex EXCEPT ![i] = [id |-> next_mutex_id, locked |-> FALSE,
                                            owner |-> NoOwner, queue |-> << >>]],
             next_mutex_id' = next_mutex_id + 1,
             Return(p, next_mutex_id)
      PROVE  MutexIInv'
  <2>1. i = next_mutex_id
    BY <1>3, MutexFirstUnused
  <2>2. /\ i \in Nat /\ i <= MAX_MUTEX /\ next_mutex_id' \in 1 .. MAX_MUTEX + 1
        /\ i # 0
    BY <1>3, <2>1, MutexAssumption DEF MutexSlots, MutexIInv, MutexTypeOK
  <2>3. /\ mutex'[i] = [id |-> i, locked |-> FALSE, owner |-> NoOwner, queue |-> << >>]
        /\ \A j \in MutexSlots : j # i => mutex'[j] = mutex[j]
    BY <1>3, <2>1 DEF MutexIInv, MutexTypeOK
  <2>4. mutex'[i] \in Mutexes
    <3>1. << >> \in Seq(Procs)
      OBVIOUS
    <3> QED BY <2>2, <2>3, <3>1 DEF Mutexes
  <2>5. mutex' \in [MutexSlots -> Mutexes]
    BY <1>3, <2>1, <2>3, <2>4 DEF MutexIInv, MutexTypeOK
  <2>6. reply' \in [Procs -> Int]
    BY <1>3, <2>1, <2>2 DEF MutexIInv, MutexTypeOK, Return
  <2>7. MutexTypeOK'
    BY <1>1, <2>2, <2>5, <2>6 DEF MutexIInv, MutexTypeOK, MutexSlots, Mutexes
  <2>8. IdSelectsItsMutex'
    <3> SUFFICES ASSUME NEW j \in MutexSlots
                 PROVE  mutex'[j].id = IF j < next_mutex_id' THEN j ELSE 0
      BY DEF IdSelectsItsMutex, MutexSlots
    <3>1. mutex[j].id = IF j < i THEN j ELSE 0
      BY <2>1 DEF MutexIInv, IdSelectsItsMutex
    <3> QED BY <1>3, <2>1, <2>2, <2>3, <3>1 DEF MutexSlots
  <2>9. Ownership'
    <3>1. mutex[i].owner = NoOwner
      BY <1>3, FreeMutex DEF IsFirstUnused
    <3>2. \A q \in Procs : ~Occurs(i, held[q])
      BY <3>1, MutexAssumption DEF MutexIInv, Ownership
    <3>3. \A j \in MutexSlots : j # i => Used(mutex, j)' = Used(mutex, j)
      BY <2>3 DEF Used
    <3> QED BY <1>1, <2>3, <3>2, <3>3 DEF MutexIInv, Ownership, MutexSlots
  <2> QED BY <2>7, <2>8, <2>9 DEF MutexIInv
<1> QED BY <1>2, <1>3 DEF MutexCreate

(* Taking a free mutex: it is in nobody's list, so it is added once.       *)
LEMMA LockTakeIInv ==
  ASSUME MutexIInv, NEW p \in Procs, NEW i \in MutexSlots, LockTake(p, i)
  PROVE  MutexIInv'
<1>1. /\ ~mutex[i].locked /\ mutex[i].owner = NoOwner /\ Used(mutex, i)
      /\ UNCHANGED <<next_mutex_id, waiting>>
  BY FreeMutex DEF LockTake
<1>2. /\ mutex'[i] = [mutex[i] EXCEPT !.locked = TRUE, !.owner = p]
      /\ \A j \in MutexSlots : j # i => mutex'[j] = mutex[j]
      /\ mutex' \in [MutexSlots -> Mutexes]
  BY MutexTypes DEF LockTake, MutexIInv, MutexTypeOK, Mutexes
<1>3. /\ mutex'[i].id = mutex[i].id /\ mutex'[i].locked /\ mutex'[i].owner = p
  BY <1>2, MutexTypes DEF MutexIInv, Mutexes
<1>4. \A q \in Procs : ~Occurs(i, held[q])
  BY <1>1, MutexAssumption DEF MutexIInv, Ownership
<1>5. /\ held' \in [Procs -> Seq(MutexSlots)]
      /\ \A q \in Procs \ {p} : held'[q] = held[q]
      /\ NoRepeats(held'[p])
      /\ \A j \in MutexSlots : Occurs(j, held'[p]) => Occurs(j, held[p]) \/ j = i
  <2>1. held[p] \in Seq(MutexSlots) /\ NoRepeats(held[p])
    BY DEF MutexIInv, MutexTypeOK, Ownership
  <2>2. /\ Append(held[p], i) \in Seq(MutexSlots) /\ NoRepeats(Append(held[p], i))
        /\ \A j : Occurs(j, Append(held[p], i)) => Occurs(j, held[p]) \/ j = i
    BY <1>4, <2>1, AppendFacts
  <2>3. CASE held' = [held EXCEPT ![p] = Append(held[p], i)]
    BY <2>2, <2>3 DEF MutexIInv, MutexTypeOK
  <2>4. CASE held' = held
    BY <2>1, <2>4 DEF MutexIInv, MutexTypeOK
  <2> QED BY <2>3, <2>4 DEF LockTake
<1>6. MutexTypeOK'
  <2>1. reply' \in [Procs -> Int]
    BY DEF LockTake, Return, MutexIInv, MutexTypeOK
  <2> QED BY <1>1, <1>2, <1>5, <2>1 DEF MutexIInv, MutexTypeOK, MutexSlots, Mutexes
<1>7. IdSelectsItsMutex'
  BY <1>1, <1>2, <1>3 DEF MutexIInv, IdSelectsItsMutex, MutexSlots
<1>8. Ownership'
  <2>1. \A j \in MutexSlots : /\ mutex'[j].locked <=> mutex'[j].owner # NoOwner
                              /\ mutex'[j].locked => mutex'[j].id # 0
    BY <1>1, <1>2, <1>3, MutexAssumption DEF MutexIInv, Ownership, Used
  <2>2. \A q \in Procs, j \in MutexSlots : Occurs(j, held'[q]) => mutex'[j].owner = q
    <3> SUFFICES ASSUME NEW q \in Procs, NEW j \in MutexSlots, Occurs(j, held'[q])
                 PROVE  mutex'[j].owner = q
      OBVIOUS
    <3>1. CASE q # p
      <4>1. Occurs(j, held[q]) /\ j # i
        BY <1>4, <1>5, <3>1
      <4> QED BY <1>2, <4>1 DEF MutexIInv, Ownership
    <3>2. CASE q = p /\ j # i
      BY <1>2, <1>5, <3>2 DEF MutexIInv, Ownership
    <3>3. CASE q = p /\ j = i
      BY <1>3, <3>3
    <3> QED BY <3>1, <3>2, <3>3
  <2>3. \A q \in Procs : NoRepeats(held'[q])
    BY <1>5 DEF MutexIInv, Ownership
  <2> QED BY <2>1, <2>2, <2>3 DEF Ownership, Used, MutexSlots
<1> QED BY <1>6, <1>7, <1>8 DEF MutexIInv

(* Queueing changes one wait queue and nothing else of the table.          *)
LEMMA LockBlockIInv ==
  ASSUME MutexIInv, NEW p \in Procs, NEW i \in MutexSlots, LockBlock(p, i)
  PROVE  MutexIInv'
<1>1. /\ waiting' \in [Procs -> MutexSlots \cup {None}]
      /\ UNCHANGED <<next_mutex_id, held, reply>>
  BY DEF LockBlock, MutexIInv, MutexTypeOK
<1>2. /\ mutex' \in [MutexSlots -> Mutexes]
      /\ \A j \in MutexSlots : /\ mutex'[j].id = mutex[j].id
                               /\ mutex'[j].locked = mutex[j].locked
                               /\ mutex'[j].owner = mutex[j].owner
  <2>1. Append(mutex[i].queue, p) \in Seq(Procs)
    BY MutexTypes DEF MutexIInv
  <2>2. CASE mutex' = [mutex EXCEPT ![i].queue = Append(mutex[i].queue, p)]
    BY <2>1, <2>2, MutexTypes DEF MutexIInv, MutexTypeOK, Mutexes
  <2>3. CASE mutex' = mutex
    BY <2>3 DEF MutexIInv, MutexTypeOK
  <2> QED BY <2>2, <2>3 DEF LockBlock
<1> QED BY <1>1, <1>2 DEF MutexIInv, MutexTypeOK, MutexSlots, Mutexes, IdSelectsItsMutex, Ownership, Used

(* Unlocking: the owner's list loses the mutex, whose only entry it was.   *)
LEMMA UnlockIInv ==
  ASSUME MutexIInv, NEW p \in Procs, NEW i \in MutexSlots, Unlock(p, i)
  PROVE  MutexIInv'
<1>1. mutex[i].owner = p /\ Used(mutex, i) /\ UNCHANGED <<next_mutex_id, waiting>>
  BY DEF Unlock
<1>2. /\ mutex' \in [MutexSlots -> Mutexes]
      /\ \A j \in MutexSlots : j # i => mutex'[j] = mutex[j]
      /\ mutex'[i].id = mutex[i].id /\ ~mutex'[i].locked /\ mutex'[i].owner = NoOwner
  <2> DEFINE q == IF mutex[i].queue = << >> THEN mutex[i].queue ELSE Tail(mutex[i].queue)
  <2>1. q \in Seq(Procs)
    BY MutexTypes DEF MutexIInv
  <2>2. /\ mutex' = [mutex EXCEPT ![i] = [mutex[i] EXCEPT !.locked = FALSE,
                                                          !.owner = NoOwner, !.queue = q]]
    <3> HIDE DEF q
    <3>1. mutex' = [mutex EXCEPT ![i].locked = FALSE, ![i].owner = NoOwner, ![i].queue = q]
      BY MutexTypes DEF Unlock, q, MutexIInv, MutexTypeOK, Mutexes
    <3> QED BY <3>1 DEF MutexIInv, MutexTypeOK, Mutexes
  <2> HIDE DEF q
  <2> QED BY <2>1, <2>2, MutexTypes DEF MutexIInv, MutexTypeOK, Mutexes
<1>3. /\ held' \in [Procs -> Seq(MutexSlots)]
      /\ \A q \in Procs \ {p} : held'[q] = held[q]
      /\ NoRepeats(held'[p])
      /\ \A j \in MutexSlots : Occurs(j, held'[p]) => Occurs(j, held[p]) /\ j # i
  <2>1. held[p] \in Seq(MutexSlots) /\ NoRepeats(held[p])
    BY DEF MutexIInv, MutexTypeOK, Ownership
  <2>2. /\ Removed(i, held[p]) \in Seq(MutexSlots) /\ NoRepeats(Removed(i, held[p]))
        /\ \A j : Occurs(j, Removed(i, held[p])) => Occurs(j, held[p]) /\ j # i
    BY <2>1, RemovedFacts
  <2> QED BY <2>2 DEF Unlock, MutexIInv, MutexTypeOK
<1>4. MutexTypeOK'
  <2>1. reply' \in [Procs -> Int]
    BY DEF Unlock, Return, MutexIInv, MutexTypeOK
  <2> QED BY <1>1, <1>2, <1>3, <2>1 DEF MutexIInv, MutexTypeOK, MutexSlots, Mutexes
<1>5. IdSelectsItsMutex'
  BY <1>1, <1>2 DEF MutexIInv, IdSelectsItsMutex, MutexSlots
<1>6. Ownership'
  <2>1. \A j \in MutexSlots : /\ mutex'[j].locked <=> mutex'[j].owner # NoOwner
                              /\ mutex'[j].locked => mutex'[j].id # 0
    BY <1>2 DEF MutexIInv, Ownership, Used
  <2>2. \A q \in Procs, j \in MutexSlots : Occurs(j, held'[q]) => mutex'[j].owner = q
    BY <1>1, <1>2, <1>3 DEF MutexIInv, Ownership
  <2>3. \A q \in Procs : NoRepeats(held'[q])
    BY <1>3 DEF MutexIInv, Ownership
  <2> QED BY <2>1, <2>2, <2>3 DEF Ownership, Used, MutexSlots
<1> QED BY <1>4, <1>5, <1>6 DEF MutexIInv

(* No call breaks the invariant.                                           *)
LEMMA MutexNextIInv == MutexIInv /\ [MutexNext]_MutexVars => MutexIInv'
<1> SUFFICES ASSUME MutexIInv, [MutexNext]_MutexVars PROVE MutexIInv'
  OBVIOUS
<1>0. waiting \in [Procs -> MutexSlots \cup {None}]
  BY DEF MutexIInv, MutexTypeOK
<1>1. ASSUME NEW p \in Procs, MutexCreate(p) PROVE MutexIInv'
  BY <1>1, MutexCreateIInv
<1>2. ASSUME NEW p \in Procs, NEW id \in MutexIds, LockInvalid(p, id) \/ UnlockInvalid(p, id)
      PROVE  MutexIInv'
  BY <1>0, <1>2, MutexReplyIInv DEF LockInvalid, UnlockInvalid
<1>3. ASSUME NEW p \in Procs, NEW i \in MutexSlots,
             LockTake(p, i) \/ LockBlock(p, i) \/ Unlock(p, i)
      PROVE  MutexIInv'
  BY <1>3, LockTakeIInv, LockBlockIInv, UnlockIInv
<1>4. ASSUME NEW p \in Procs, LockReturn(p) PROVE MutexIInv'
  <2>1. waiting' \in [Procs -> MutexSlots \cup {None}]
    BY <1>0, <1>4 DEF LockReturn
  <2> QED BY <1>4, <2>1, MutexReplyIInv DEF LockReturn
<1>5. CASE UNCHANGED MutexVars
  BY <1>5 DEF MutexVars, MutexIInv, MutexTypeOK, MutexSlots, Mutexes, IdSelectsItsMutex, Ownership, Used
<1> QED BY <1>1, <1>2, <1>3, <1>4, <1>5 DEF MutexNext

(* MutexIInv holds in every reachable state.                                    *)
THEOREM MutexInductive == MutexSpec => []MutexIInv
  BY MutexInitIInv, MutexNextIInv, PTL DEF MutexSpec

(* Every variable keeps its type.                                          *)
THEOREM MutexTypeCorrect == MutexSpec => []MutexTypeOK
<1>1. MutexIInv => MutexTypeOK
  BY DEF MutexIInv
<1> QED BY <1>1, MutexInductive, PTL

(* sys_mutex_lock and sys_mutex_unlock always work on the mutex that was   *)
(* created under the id they are given.                                    *)
THEOREM IdAlwaysSelectsItsMutex == MutexSpec => []IdSelectsItsMutex
<1>1. MutexIInv => IdSelectsItsMutex
  BY DEF MutexIInv
<1> QED BY <1>1, MutexInductive, PTL

(* locked, owner and held_mutexes always agree.                            *)
THEOREM OwnershipAlways == MutexSpec => []Ownership
<1>1. MutexIInv => Ownership
  BY DEF MutexIInv
<1> QED BY <1>1, MutexInductive, PTL

(* Ownership passes only from a process to nobody and from nobody to a     *)
(* process: no call takes a mutex away from its owner.                     *)
THEOREM OwnerChangesAlways == MutexSpec => OwnerChanges
<1> DEFINE Change == \A i \in MutexSlots : mutex'[i].owner # mutex[i].owner =>
                        \E p \in Procs :
                           /\ {mutex[i].owner, mutex'[i].owner} = {p, NoOwner}
                           /\ waiting[p] = None
<1>1. MutexIInv /\ [MutexNext]_MutexVars => [Change]_MutexVars
  <2> SUFFICES ASSUME MutexIInv, MutexNext PROVE Change
    BY DEF MutexVars
  <2>1. ASSUME NEW p \in Procs, MutexCreate(p) PROVE Change
    <3>1. \A i \in MutexSlots : ~Used(mutex, i) => mutex[i].owner = NoOwner
      BY FreeMutex
    <3>2. CASE mutex' = mutex
      BY <3>2
    <3>3. ASSUME NEW i \in MutexSlots, IsFirstUnused(mutex, i),
                 mutex' = [mutex EXCEPT ![i] = [id |-> next_mutex_id, locked |-> FALSE,
                                                owner |-> NoOwner, queue |-> << >>]]
          PROVE  Change
      <4>1. mutex'[i].owner = NoOwner /\ \A j \in MutexSlots : j # i => mutex'[j] = mutex[j]
        BY <3>3 DEF MutexIInv, MutexTypeOK
      <4>2. mutex[i].owner = NoOwner
        BY <3>1, <3>3 DEF IsFirstUnused
      <4> QED BY <4>1, <4>2
    <3> QED BY <2>1, <3>2, <3>3 DEF MutexCreate
  <2>2. ASSUME NEW p \in Procs, NEW i \in MutexSlots, LockTake(p, i) PROVE Change
    <3>1. mutex[i].owner = NoOwner /\ waiting[p] = None
      BY <2>2, FreeMutex DEF LockTake
    <3>2. mutex'[i].owner = p /\ \A j \in MutexSlots : j # i => mutex'[j] = mutex[j]
      BY <2>2, MutexTypes DEF LockTake, MutexIInv, MutexTypeOK, Mutexes
    <3> QED BY <3>1, <3>2
  <2>3. ASSUME NEW p \in Procs, NEW i \in MutexSlots, Unlock(p, i) PROVE Change
    <3>1. mutex[i].owner = p /\ waiting[p] = None
      BY <2>3 DEF Unlock
    <3>2. mutex'[i].owner = NoOwner /\ \A j \in MutexSlots : j # i => mutex'[j] = mutex[j]
      BY <2>3, MutexTypes DEF Unlock, MutexIInv, MutexTypeOK, Mutexes
    <3> QED BY <3>1, <3>2
  <2>4. ASSUME NEW p \in Procs, NEW i \in MutexSlots, LockBlock(p, i) PROVE Change
    BY <2>4, MutexTypes DEF LockBlock, MutexIInv, MutexTypeOK, Mutexes
  <2>5. ASSUME mutex' = mutex PROVE Change
    BY <2>5
  <2> QED BY <2>1, <2>2, <2>3, <2>4, <2>5 DEF MutexNext, LockInvalid, UnlockInvalid, LockReturn
<1> QED BY <1>1, MutexInductive, PTL DEF MutexSpec, OwnerChanges

-----------------------------------------------------------------------------
(* The semaphores.                                                         *)

(* Nobody is queued for a semaphore that has a unit: inductive on its own  *)
(* once the slots' types are known.                                        *)
SemIInv == SemTypeOK /\ IdSelectsItsSemaphore /\ QueuedOnlyWhenEmpty

(* What a semaphore record is made of.                                     *)
LEMMA SemTypes ==
  ASSUME SemTypeOK, NEW i \in SemSlots
  PROVE  /\ sem[i] \in Semaphores
         /\ sem[i].id \in Nat /\ sem[i].value \in Int /\ sem[i].queue \in Seq(Procs)
<1>1. sem[i] \in Semaphores
  BY DEF SemTypeOK
<1> QED BY <1>1 DEF Semaphores

(* After ipc_init.                                                         *)
LEMMA SemInitIInv == SemInit => SemIInv
<1> SUFFICES ASSUME SemInit PROVE SemIInv
  OBVIOUS
<1>1. SemTypeOK
  BY SemaphoreAssumption DEF SemInit, SemTypeOK, Semaphores, SemSlots, None
<1>2. IdSelectsItsSemaphore /\ QueuedOnlyWhenEmpty
  BY DEF SemInit, IdSelectsItsSemaphore, QueuedOnlyWhenEmpty, SemSlots
<1> QED BY <1>1, <1>2 DEF SemIInv

(* The first unused slot is the one whose number the next id is.           *)
LEMMA SemFirstUnused ==
  ASSUME SemIInv, NEW i \in SemSlots, IsFirstUnused(sem, i)
  PROVE  i = next_sem_id
<1>1. MAX_SEM \in Nat /\ next_sem_id \in 1 .. MAX_SEM + 1
  BY SemaphoreAssumption DEF SemIInv, SemTypeOK
<1>2. \A j \in 1 .. MAX_SEM : sem[j].id = IF j < next_sem_id THEN j ELSE 0
  BY DEF SemIInv, IdSelectsItsSemaphore, SemSlots
<1> QED BY <1>1, <1>2, FirstUnusedIsNext DEF SemSlots

(* The calls that leave the table alone.                                   *)
LEMMA SemReplyIInv ==
  ASSUME SemIInv, NEW p \in Procs, NEW r \in Int, Return(p, r),
         UNCHANGED <<sem, next_sem_id>>,
         waiting' \in [Procs -> SemSlots \cup {None}]
  PROVE  SemIInv'
<1>1. reply' \in [Procs -> Int]
  BY DEF SemIInv, SemTypeOK, Return
<1> QED BY <1>1 DEF SemIInv, SemTypeOK, SemSlots, Semaphores, IdSelectsItsSemaphore, QueuedOnlyWhenEmpty

(* A created semaphore has nobody queued.                                  *)
LEMMA SemCreateIInv ==
  ASSUME SemIInv, NEW p \in Procs, NEW v \in InitialValues, SemCreate(p, v)
  PROVE  SemIInv'
<1>0. UNCHANGED waiting /\ waiting' \in [Procs -> SemSlots \cup {None}]
  BY DEF SemCreate, SemIInv, SemTypeOK
<1>1. CASE Return(p, -1) /\ UNCHANGED <<sem, next_sem_id>>
  BY <1>0, <1>1, SemReplyIInv
<1>2. ASSUME NEW i \in SemSlots, IsFirstUnused(sem, i),
             sem' = [sem EXCEPT ![i] = [id |-> next_sem_id, value |-> v, queue |-> << >>]],
             next_sem_id' = next_sem_id + 1,
             Return(p, next_sem_id)
      PROVE  SemIInv'
  <2>1. i = next_sem_id
    BY <1>2, SemFirstUnused
  <2>2. /\ i \in Nat /\ i <= MAX_SEM /\ next_sem_id' \in 1 .. MAX_SEM + 1 /\ i # 0
    BY <1>2, <2>1, SemaphoreAssumption DEF SemSlots, SemIInv, SemTypeOK
  <2>3. /\ sem'[i] = [id |-> i, value |-> v, queue |-> << >>]
        /\ \A j \in SemSlots : j # i => sem'[j] = sem[j]
    BY <1>2, <2>1 DEF SemIInv, SemTypeOK
  <2>4. sem'[i] \in Semaphores
    <3>1. << >> \in Seq(Procs)
      OBVIOUS
    <3> QED BY <2>2, <2>3, <3>1, SemaphoreAssumption DEF Semaphores
  <2>5. sem' \in [SemSlots -> Semaphores]
    BY <1>2, <2>1, <2>3, <2>4 DEF SemIInv, SemTypeOK
  <2>6. reply' \in [Procs -> Int]
    BY <1>2, <2>1, <2>2 DEF SemIInv, SemTypeOK, Return
  <2>7. SemTypeOK'
    BY <1>0, <2>2, <2>5, <2>6 DEF SemIInv, SemTypeOK, SemSlots, Semaphores
  <2>8. IdSelectsItsSemaphore'
    <3> SUFFICES ASSUME NEW j \in SemSlots
                 PROVE  sem'[j].id = IF j < next_sem_id' THEN j ELSE 0
      BY DEF IdSelectsItsSemaphore, SemSlots
    <3>1. sem[j].id = IF j < i THEN j ELSE 0
      BY <2>1 DEF SemIInv, IdSelectsItsSemaphore
    <3> QED BY <1>2, <2>1, <2>2, <2>3, <3>1 DEF SemSlots
  <2>9. QueuedOnlyWhenEmpty'
    BY <2>3 DEF SemIInv, QueuedOnlyWhenEmpty, SemSlots
  <2> QED BY <2>7, <2>8, <2>9 DEF SemIInv
<1> QED BY <1>1, <1>2 DEF SemCreate

(* A call that changes the value and the queue of one semaphore keeps the  *)
(* invariant if nobody is left queued on a positive value.                 *)
LEMMA SemUpdateIInv ==
  ASSUME SemIInv, NEW i \in SemSlots, NEW v \in Int, NEW q \in Seq(Procs),
         q # << >> => v <= 0,
         sem' = [sem EXCEPT ![i] = [sem[i] EXCEPT !.value = v, !.queue = q]],
         next_sem_id' = next_sem_id,
         waiting' \in [Procs -> SemSlots \cup {None}],
         reply' \in [Procs -> Int]
  PROVE  SemIInv'
<1>1. /\ \A j \in SemSlots : j # i => sem'[j] = sem[j]
      /\ sem'[i].id = sem[i].id /\ sem'[i].value = v /\ sem'[i].queue = q
      /\ sem' \in [SemSlots -> Semaphores]
  BY SemTypes DEF SemIInv, SemTypeOK, Semaphores
<1>2. SemTypeOK'
  BY <1>1 DEF SemIInv, SemTypeOK, SemSlots, Semaphores
<1>3. IdSelectsItsSemaphore'
  BY <1>1 DEF SemIInv, IdSelectsItsSemaphore, SemSlots
<1>4. QueuedOnlyWhenEmpty'
  BY <1>1 DEF SemIInv, QueuedOnlyWhenEmpty, SemSlots
<1> QED BY <1>2, <1>3, <1>4 DEF SemIInv

(* A record with one field replaced, as a record with two.                 *)
LEMMA SemOneField ==
  ASSUME SemTypeOK, NEW i \in SemSlots, NEW v \in Int, NEW q \in Seq(Procs)
  PROVE  /\ [sem EXCEPT ![i].value = v]
              = [sem EXCEPT ![i] = [sem[i] EXCEPT !.value = v, !.queue = sem[i].queue]]
         /\ [sem EXCEPT ![i].queue = q]
              = [sem EXCEPT ![i] = [sem[i] EXCEPT !.value = sem[i].value, !.queue = q]]
         /\ sem = [sem EXCEPT ![i] = [sem[i] EXCEPT !.value = sem[i].value,
                                                    !.queue = sem[i].queue]]
  BY SemTypes DEF SemTypeOK, Semaphores

(* A unit is taken only where there is one: then nobody is queued.         *)
LEMMA WaitTakeIInv ==
  ASSUME SemIInv, NEW p \in Procs, NEW i \in SemSlots, WaitTake(p, i)
  PROVE  SemIInv'
<1>1. sem[i].queue = << >> /\ sem[i].value - 1 \in Int /\ sem[i].queue \in Seq(Procs)
  BY SemTypes DEF WaitTake, SemIInv, QueuedOnlyWhenEmpty
<1>2. sem' = [sem EXCEPT ![i] = [sem[i] EXCEPT !.value = sem[i].value - 1,
                                               !.queue = sem[i].queue]]
  BY <1>1, SemOneField DEF WaitTake, SemIInv
<1>3. reply' \in [Procs -> Int] /\ waiting' \in [Procs -> SemSlots \cup {None}]
      /\ next_sem_id' = next_sem_id
  BY DEF WaitTake, Return, SemIInv, SemTypeOK
<1> QED BY <1>1, <1>2, <1>3, SemUpdateIInv

(* A caller is queued only on a value that is not positive.                *)
LEMMA WaitBlockIInv ==
  ASSUME SemIInv, NEW p \in Procs, NEW i \in SemSlots, WaitBlock(p, i)
  PROVE  SemIInv'
<1>1. sem[i].value \in Int /\ sem[i].queue \in Seq(Procs) /\ sem[i].value <= 0
      /\ Append(sem[i].queue, p) \in Seq(Procs)
  BY SemTypes DEF SemIInv, WaitBlock
<1>2. reply' \in [Procs -> Int] /\ waiting' \in [Procs -> SemSlots \cup {None}]
      /\ next_sem_id' = next_sem_id
  BY DEF WaitBlock, SemIInv, SemTypeOK
<1>3. CASE sem' = [sem EXCEPT ![i].queue = Append(sem[i].queue, p)]
  <2>1. sem' = [sem EXCEPT ![i] = [sem[i] EXCEPT !.value = sem[i].value,
                                                 !.queue = Append(sem[i].queue, p)]]
    BY <1>1, <1>3, SemOneField DEF SemIInv
  <2> QED BY <1>1, <1>2, <2>1, SemUpdateIInv
<1>4. CASE sem' = sem
  BY <1>1, <1>2, <1>4, SemOneField, SemUpdateIInv DEF SemIInv
<1> QED BY <1>3, <1>4 DEF WaitBlock

(* A unit is added only when the queue is empty.                           *)
LEMMA PostIInv ==
  ASSUME SemIInv, NEW p \in Procs, NEW i \in SemSlots, Post(p, i)
  PROVE  SemIInv'
<1>1. sem[i].value \in Int /\ sem[i].queue \in Seq(Procs)
      /\ (sem[i].queue # << >> => sem[i].value <= 0)
  BY SemTypes DEF SemIInv, QueuedOnlyWhenEmpty
<1>2. reply' \in [Procs -> Int] /\ waiting' \in [Procs -> SemSlots \cup {None}]
      /\ next_sem_id' = next_sem_id
  BY DEF Post, Return, SemIInv, SemTypeOK
<1>3. CASE sem[i].queue # << >> /\ sem' = [sem EXCEPT ![i].queue = Tail(sem[i].queue)]
  <2>1. Tail(sem[i].queue) \in Seq(Procs)
    BY <1>1, <1>3
  <2>2. sem' = [sem EXCEPT ![i] = [sem[i] EXCEPT !.value = sem[i].value,
                                                 !.queue = Tail(sem[i].queue)]]
    BY <1>1, <1>3, <2>1, SemOneField DEF SemIInv
  <2> QED BY <1>1, <1>2, <1>3, <2>1, <2>2, SemUpdateIInv
<1>4. CASE sem[i].queue = << >> /\ sem' = [sem EXCEPT ![i].value = sem[i].value + 1]
  <2>1. sem[i].value + 1 \in Int
    BY <1>1
  <2>2. sem' = [sem EXCEPT ![i] = [sem[i] EXCEPT !.value = sem[i].value + 1,
                                                 !.queue = sem[i].queue]]
    BY <1>1, <1>4, <2>1, SemOneField DEF SemIInv
  <2> QED BY <1>1, <1>2, <1>4, <2>1, <2>2, SemUpdateIInv
<1>5. CASE sem' = sem
  BY <1>1, <1>2, <1>5, SemOneField, SemUpdateIInv DEF SemIInv
<1> QED BY <1>3, <1>4, <1>5 DEF Post

(* No call breaks the invariant.                                           *)
LEMMA SemNextIInv == SemIInv /\ [SemNext]_SemVars => SemIInv'
<1> SUFFICES ASSUME SemIInv, [SemNext]_SemVars PROVE SemIInv'
  OBVIOUS
<1>0. waiting \in [Procs -> SemSlots \cup {None}]
  BY DEF SemIInv, SemTypeOK
<1>1. ASSUME NEW p \in Procs, NEW v \in InitialValues, SemCreate(p, v) PROVE SemIInv'
  BY <1>1, SemCreateIInv
<1>2. ASSUME NEW p \in Procs, NEW id \in SemIds, SemInvalid(p, id) PROVE SemIInv'
  BY <1>0, <1>2, SemReplyIInv DEF SemInvalid
<1>3. ASSUME NEW p \in Procs, NEW i \in SemSlots,
             WaitTake(p, i) \/ WaitBlock(p, i) \/ Post(p, i)
      PROVE  SemIInv'
  BY <1>3, WaitTakeIInv, WaitBlockIInv, PostIInv
<1>4. ASSUME NEW p \in Procs, WaitReturn(p) PROVE SemIInv'
  <2>1. waiting' \in [Procs -> SemSlots \cup {None}]
    BY <1>0, <1>4 DEF WaitReturn
  <2> QED BY <1>4, <2>1, SemReplyIInv DEF WaitReturn
<1>5. CASE UNCHANGED SemVars
  BY <1>5 DEF SemVars, SemIInv, SemTypeOK, SemSlots, Semaphores, IdSelectsItsSemaphore, QueuedOnlyWhenEmpty
<1> QED BY <1>1, <1>2, <1>3, <1>4, <1>5 DEF SemNext

(* SemIInv holds in every reachable state.                                    *)
THEOREM SemInductive == SemSpec => []SemIInv
  BY SemInitIInv, SemNextIInv, PTL DEF SemSpec

(* Every variable keeps its type.                                          *)
THEOREM SemTypeCorrect == SemSpec => []SemTypeOK
<1>1. SemIInv => SemTypeOK
  BY DEF SemIInv
<1> QED BY <1>1, SemInductive, PTL

(* sys_sem_wait and sys_sem_post always work on the semaphore that was     *)
(* created under the id they are given.                                    *)
THEOREM IdAlwaysSelectsItsSemaphore == SemSpec => []IdSelectsItsSemaphore
<1>1. SemIInv => IdSelectsItsSemaphore
  BY DEF SemIInv
<1> QED BY <1>1, SemInductive, PTL

(* A semaphore that has a unit to give never has a process queued.         *)
THEOREM QueuedOnlyWhenEmptyAlways == SemSpec => []QueuedOnlyWhenEmpty
<1>1. SemIInv => QueuedOnlyWhenEmpty
  BY DEF SemIInv
<1> QED BY <1>1, SemInductive, PTL

-----------------------------------------------------------------------------
(* The shared memory regions.                                              *)

ShmIInv == ShmTypeOK /\ IdSelectsItsRegion /\ AttachedOnce

(* What a region record is made of.                                        *)
LEMMA ShmTypes ==
  ASSUME ShmTypeOK, NEW i \in ShmSlots
  PROVE  /\ shm[i] \in Regions
         /\ shm[i].id \in Nat /\ shm[i].name \in Names \cup {NoName}
         /\ shm[i].attached \in Seq(Procs)
<1>1. shm[i] \in Regions
  BY DEF ShmTypeOK
<1> QED BY <1>1 DEF Regions

(* After ipc_init.                                                         *)
LEMMA ShmInitIInv == ShmInit => ShmIInv
<1> SUFFICES ASSUME ShmInit PROVE ShmIInv
  OBVIOUS
<1>1. ShmTypeOK
  BY SharedMemoryAssumption DEF ShmInit, ShmTypeOK, Regions, ShmSlots
<1>2. IdSelectsItsRegion /\ AttachedOnce
  BY DEF ShmInit, IdSelectsItsRegion, AttachedOnce, NoRepeats, ShmSlots
<1> QED BY <1>1, <1>2 DEF ShmIInv

(* The first unused slot is the one whose number the next id is.           *)
LEMMA ShmFirstUnused ==
  ASSUME ShmIInv, NEW i \in ShmSlots, IsFirstUnused(shm, i)
  PROVE  i = next_shm_id
<1>1. MAX_SHM \in Nat /\ next_shm_id \in 1 .. MAX_SHM + 1
  BY SharedMemoryAssumption DEF ShmIInv, ShmTypeOK
<1>2. \A j \in 1 .. MAX_SHM : shm[j].id = IF j < next_shm_id THEN j ELSE 0
  BY DEF ShmIInv, IdSelectsItsRegion, ShmSlots
<1> QED BY <1>1, <1>2, FirstUnusedIsNext DEF ShmSlots

(* A created region gets the id of its slot and no process.                *)
LEMMA ShmCreateIInv ==
  ASSUME ShmIInv, NEW p \in Procs, NEW n \in Names, ShmCreate(p, n)
  PROVE  ShmIInv'
<1>1. PICK i \in ShmSlots :
        /\ IsFirstUnused(shm, i)
        /\ shm' = [shm EXCEPT ![i] = [id |-> next_shm_id, name |-> Stored[n],
                                      attached |-> << >>]]
  BY DEF ShmCreate
<1>2. next_shm_id' = next_shm_id + 1 /\ Return(p, next_shm_id) /\ UNCHANGED shm_regions
  BY DEF ShmCreate
<1>3. i = next_shm_id
  BY <1>1, ShmFirstUnused
<1>4. i \in Nat /\ i <= MAX_SHM /\ next_shm_id' \in 1 .. MAX_SHM + 1 /\ i # 0
  BY <1>2, <1>3, SharedMemoryAssumption DEF ShmSlots, ShmIInv, ShmTypeOK
<1>5. /\ shm'[i] = [id |-> i, name |-> Stored[n], attached |-> << >>]
      /\ \A j \in ShmSlots : j # i => shm'[j] = shm[j]
  BY <1>1, <1>3 DEF ShmIInv, ShmTypeOK
<1>6. shm'[i] \in Regions
  <2>1. << >> \in Seq(Procs)
    OBVIOUS
  <2>2. Stored[n] \in Names
    BY SharedMemoryAssumption
  <2> QED BY <1>4, <1>5, <2>1, <2>2 DEF Regions
<1>7. shm' \in [ShmSlots -> Regions]
  BY <1>1, <1>3, <1>5, <1>6 DEF ShmIInv, ShmTypeOK
<1>8. reply' \in [Procs -> Int]
  BY <1>2, <1>3, <1>4 DEF ShmIInv, ShmTypeOK, Return
<1>9. ShmTypeOK'
  BY <1>2, <1>4, <1>7, <1>8 DEF ShmIInv, ShmTypeOK, ShmSlots, Regions
<1>10. IdSelectsItsRegion'
  <2> SUFFICES ASSUME NEW j \in ShmSlots
               PROVE  shm'[j].id = IF j < next_shm_id' THEN j ELSE 0
    BY DEF IdSelectsItsRegion, ShmSlots
  <2>1. shm[j].id = IF j < i THEN j ELSE 0
    BY <1>3 DEF ShmIInv, IdSelectsItsRegion
  <2> QED BY <1>2, <1>3, <1>4, <1>5, <2>1 DEF ShmSlots
<1>11. AttachedOnce'
  BY <1>5 DEF ShmIInv, AttachedOnce, NoRepeats, ShmSlots
<1> QED BY <1>9, <1>10, <1>11 DEF ShmIInv

(* The calls that only answer.                                             *)
LEMMA ShmReplyIInv ==
  ASSUME ShmIInv, NEW p \in Procs, NEW r \in Int, Return(p, r),
         UNCHANGED <<shm, next_shm_id, shm_regions>>
  PROVE  ShmIInv'
<1>1. reply' \in [Procs -> Int]
  BY DEF ShmIInv, ShmTypeOK, Return
<1> QED BY <1>1 DEF ShmIInv, ShmTypeOK, ShmSlots, Regions, IdSelectsItsRegion, AttachedOnce

(* A call that replaces one region's list by one without repetitions.      *)
LEMMA ShmUpdateIInv ==
  ASSUME ShmIInv, NEW i \in ShmSlots, NEW list \in Seq(Procs), NoRepeats(list),
         shm' = [shm EXCEPT ![i].attached = list],
         next_shm_id' = next_shm_id,
         shm_regions' \in [Procs -> Seq(ShmSlots)],
         reply' \in [Procs -> Int]
  PROVE  ShmIInv'
<1>1. /\ \A j \in ShmSlots : j # i => shm'[j] = shm[j]
      /\ shm'[i].id = shm[i].id /\ shm'[i].attached = list
      /\ shm' \in [ShmSlots -> Regions]
  BY ShmTypes DEF ShmIInv, ShmTypeOK, Regions
<1>2. ShmTypeOK'
  BY <1>1 DEF ShmIInv, ShmTypeOK, ShmSlots, Regions
<1>3. IdSelectsItsRegion'
  BY <1>1 DEF ShmIInv, IdSelectsItsRegion, ShmSlots
<1>4. AttachedOnce'
  BY <1>1 DEF ShmIInv, AttachedOnce, ShmSlots
<1> QED BY <1>2, <1>3, <1>4 DEF ShmIInv

(* A process that is not in a region's list is added at most once.         *)
LEMMA ShmAttachIInv ==
  ASSUME ShmIInv, NEW p \in Procs, NEW i \in ShmSlots, Attach(p, i)
  PROVE  ShmIInv'
<1>1. shm[i].attached \in Seq(Procs) /\ NoRepeats(shm[i].attached)
  BY ShmTypes DEF ShmIInv, AttachedOnce
<1>2. Append(shm[i].attached, p) \in Seq(Procs) /\ NoRepeats(Append(shm[i].attached, p))
  BY <1>1, AppendFacts DEF Attach
<1>3. shm_regions' \in [Procs -> Seq(ShmSlots)]
  <2>1. Append(shm_regions[p], i) \in Seq(ShmSlots)
    BY DEF ShmIInv, ShmTypeOK
  <2> QED BY <2>1 DEF Attach, ShmIInv, ShmTypeOK
<1>4. reply' \in [Procs -> Int] /\ next_shm_id' = next_shm_id
  <2>1. Address(i) \in Int
    BY SharedMemoryAssumption DEF Address, ShmSlots
  <2>2. next_shm_id' = next_shm_id /\ reply' = [reply EXCEPT ![p] = Address(i)]
    BY DEF Attach, Return
  <2> QED BY <2>1, <2>2 DEF ShmIInv, ShmTypeOK
<1>5. CASE shm' = [shm EXCEPT ![i].attached = Append(shm[i].attached, p)]
  BY <1>2, <1>3, <1>4, <1>5, ShmUpdateIInv
<1>6. CASE shm' = shm
  BY <1>3, <1>4, <1>6 DEF ShmIInv, ShmTypeOK, ShmSlots, Regions, IdSelectsItsRegion, AttachedOnce
<1> QED BY <1>5, <1>6 DEF Attach

(* Removing a process leaves the others, each once.                        *)
LEMMA ShmDetachIInv ==
  ASSUME ShmIInv, NEW p \in Procs, NEW i \in ShmSlots, Detach(p, i)
  PROVE  ShmIInv'
<1>1. shm[i].attached \in Seq(Procs) /\ NoRepeats(shm[i].attached)
  BY ShmTypes DEF ShmIInv, AttachedOnce
<1>2. Removed(p, shm[i].attached) \in Seq(Procs) /\ NoRepeats(Removed(p, shm[i].attached))
  BY <1>1, RemovedFacts
<1>3. shm_regions' \in [Procs -> Seq(ShmSlots)]
  <2>1. shm_regions[p] \in Seq(ShmSlots)
    BY DEF ShmIInv, ShmTypeOK
  <2>2. Removed(i, shm_regions[p]) \in Seq(ShmSlots)
    BY <2>1, RemovedType
  <2> QED BY <2>2 DEF Detach, ShmIInv, ShmTypeOK
<1>4. reply' \in [Procs -> Int] /\ next_shm_id' = next_shm_id
  BY DEF Detach, Return, ShmIInv, ShmTypeOK
<1>5. shm' = [shm EXCEPT ![i].attached = Removed(p, shm[i].attached)]
  BY DEF Detach
<1> QED BY <1>2, <1>3, <1>4, <1>5, ShmUpdateIInv

(* No call breaks the invariant.                                           *)
LEMMA ShmNextIInv == ShmIInv /\ [ShmNext]_ShmVars => ShmIInv'
<1> SUFFICES ASSUME ShmIInv, [ShmNext]_ShmVars PROVE ShmIInv'
  OBVIOUS
<1>1. ASSUME NEW p \in Procs, NEW n \in Names, ShmCreate(p, n) PROVE ShmIInv'
  BY <1>1, ShmCreateIInv
<1>2. ASSUME NEW p \in Procs, NEW n \in Names, NEW r \in {-1, -2}, ShmCreateFails(p, n, r)
      PROVE  ShmIInv'
  BY <1>2, ShmReplyIInv DEF ShmCreateFails
<1>3. ASSUME NEW p \in Procs, NEW id \in ShmIds, ShmInvalid(p, id) PROVE ShmIInv'
  BY <1>3, ShmReplyIInv DEF ShmInvalid
<1>4. ASSUME NEW p \in Procs, NEW i \in ShmSlots, AttachAgain(p, i) PROVE ShmIInv'
  BY <1>4, ShmReplyIInv DEF AttachAgain
<1>5. ASSUME NEW p \in Procs, NEW i \in ShmSlots, Attach(p, i) \/ Detach(p, i) PROVE ShmIInv'
  BY <1>5, ShmAttachIInv, ShmDetachIInv
<1>6. CASE UNCHANGED ShmVars
  BY <1>6 DEF ShmVars, ShmIInv, ShmTypeOK, ShmSlots, Regions, IdSelectsItsRegion, AttachedOnce
<1> QED BY <1>1, <1>2, <1>3, <1>4, <1>5, <1>6 DEF ShmNext

(* ShmIInv holds in every reachable state.                                    *)
THEOREM ShmInductive == ShmSpec => []ShmIInv
  BY ShmInitIInv, ShmNextIInv, PTL DEF ShmSpec

(* Every variable keeps its type.                                          *)
THEOREM ShmTypeCorrect == ShmSpec => []ShmTypeOK
<1>1. ShmIInv => ShmTypeOK
  BY DEF ShmIInv
<1> QED BY <1>1, ShmInductive, PTL

(* sys_shm_attach and sys_shm_detach always work on the region that was    *)
(* created under the id they are given.                                    *)
THEOREM IdAlwaysSelectsItsRegion == ShmSpec => []IdSelectsItsRegion
<1>1. ShmIInv => IdSelectsItsRegion
  BY DEF ShmIInv
<1> QED BY <1>1, ShmInductive, PTL

(* No process is ever twice in a region's list, whatever the limits.       *)
THEOREM AttachedAlwaysOnce == ShmSpec => []AttachedOnce
<1>1. ShmIInv => AttachedOnce
  BY DEF ShmIInv
<1> QED BY <1>1, ShmInductive, PTL

(* Names that are stored whole are never given to two regions.             *)
THEOREM ShortNamesDiffer ==
  ASSUME \A n \in Names : Stored[n] = n
  PROVE  ShmSpec => []NamesDiffer
<1>1. ShmInit => NamesDiffer
  BY DEF ShmInit, NamesDiffer, Used
<1>2. ShmIInv /\ NamesDiffer /\ [ShmNext]_ShmVars => NamesDiffer'
  <2> SUFFICES ASSUME ShmIInv, NamesDiffer, [ShmNext]_ShmVars PROVE NamesDiffer'
    OBVIOUS
  <2>1. ASSUME NEW p \in Procs, NEW n \in Names, ShmCreate(p, n) PROVE NamesDiffer'
    <3>1. PICK i \in ShmSlots :
            /\ ~Exists(n)
            /\ shm' = [shm EXCEPT ![i] = [id |-> next_shm_id, name |-> n, attached |-> << >>]]
      BY <2>1 DEF ShmCreate
    <3>2. shm'[i].name = n /\ \A j \in ShmSlots : j # i => shm'[j] = shm[j]
      BY <3>1 DEF ShmIInv, ShmTypeOK
    <3> QED BY <3>1, <3>2 DEF NamesDiffer, Exists, Used, ShmSlots
  <2>2. ASSUME \A i \in ShmSlots : shm'[i].id = shm[i].id /\ shm'[i].name = shm[i].name
        PROVE  NamesDiffer'
    BY <2>2 DEF NamesDiffer, Used, ShmSlots
  <2>3. ASSUME NEW p \in Procs, NEW i \in ShmSlots, Attach(p, i) \/ Detach(p, i)
        PROVE  NamesDiffer'
    <3>1. \/ shm' = shm
          \/ shm' = [shm EXCEPT ![i].attached = Append(shm[i].attached, p)]
          \/ shm' = [shm EXCEPT ![i].attached = Removed(p, shm[i].attached)]
      BY <2>3 DEF Attach, Detach
    <3>2. ASSUME NEW list, shm' = [shm EXCEPT ![i].attached = list] PROVE NamesDiffer'
      <4>1. /\ \A j \in ShmSlots : j # i => shm'[j] = shm[j]
            /\ shm'[i].id = shm[i].id /\ shm'[i].name = shm[i].name
        BY <3>2, ShmTypes DEF ShmIInv, ShmTypeOK, Regions
      <4> QED BY <2>2, <4>1
    <3> QED BY <2>2, <3>1, <3>2
  <2>4. CASE UNCHANGED shm
    BY <2>2, <2>4
  <2> QED BY <2>1, <2>3, <2>4 DEF ShmNext, ShmCreateFails, ShmInvalid, AttachAgain, ShmVars
<1> QED BY <1>1, <1>2, ShmInductive, PTL DEF ShmSpec

(* The two lists agree together with the facts that neither has an entry   *)
(* twice, so that the removal of one entry removes the last, and that a    *)
(* slot not yet used lists nobody.                                         *)
UnusedIsEmpty == \A i \in ShmSlots : ~Used(shm, i) => shm[i].attached = << >>
ListsInv ==
    /\ ListsAgree
    /\ \A p \in Procs : NoRepeats(shm_regions[p])
    /\ UnusedIsEmpty

(* An attach that both lists have room for.                                *)
Recorded(p, i) ==
    Attach(p, i) => /\ Len(shm[i].attached) < MaxAttached
                    /\ Len(shm_regions[p]) < MaxRegions

AllRecorded == \A p \in Procs, i \in ShmSlots : Recorded(p, i)

(* The one call and region whose lists change, all others staying.         *)
LEMMA OneChange ==
  ASSUME ShmIInv, ListsInv, NEW p \in Procs, NEW i \in ShmSlots,
         NEW a \in Seq(Procs), NEW r \in Seq(ShmSlots),
         Used(shm, i),
         shm' = [shm EXCEPT ![i].attached = a],
         shm_regions' = [shm_regions EXCEPT ![p] = r],
         NoRepeats(r),
         \A q \in Procs \ {p} : Occurs(q, a) <=> Occurs(q, shm[i].attached),
         \A j \in ShmSlots \ {i} : Occurs(j, r) <=> Occurs(j, shm_regions[p]),
         Occurs(p, a) <=> Occurs(i, r)
  PROVE  ListsInv'
<1>1. /\ shm'[i].attached = a /\ shm'[i].id = shm[i].id
      /\ \A j \in ShmSlots \ {i} : shm'[j] = shm[j]
  BY ShmTypes DEF ShmIInv, ShmTypeOK, Regions
<1>2. shm_regions'[p] = r /\ \A q \in Procs \ {p} : shm_regions'[q] = shm_regions[q]
  BY DEF ShmIInv, ShmTypeOK
<1>3. ASSUME NEW j \in ShmSlots, NEW q \in Procs
      PROVE  Occurs(q, shm'[j].attached) <=> Occurs(j, shm_regions'[q])
  <2>0. Occurs(q, shm[j].attached) <=> Occurs(j, shm_regions[q])
    BY DEF ListsInv, ListsAgree
  <2>1. CASE j = i /\ q = p
    BY <1>1, <1>2, <2>1
  <2>2. CASE j = i /\ q # p
    BY <1>1, <1>2, <2>0, <2>2
  <2>3. CASE j # i /\ q = p
    BY <1>1, <1>2, <2>0, <2>3
  <2>4. CASE j # i /\ q # p
    BY <1>1, <1>2, <2>0, <2>4
  <2> QED BY <2>1, <2>2, <2>3, <2>4
<1>4. \A q \in Procs : NoRepeats(shm_regions'[q])
  BY <1>2 DEF ListsInv
<1>5. UnusedIsEmpty'
  BY <1>1 DEF ListsInv, UnusedIsEmpty, Used, ShmSlots
<1> QED BY <1>3, <1>4, <1>5 DEF ListsInv, ListsAgree, ShmSlots

(* After ipc_init both kinds of list are empty.                            *)
LEMMA InitLists == ShmInit => ListsInv
  BY DEF ShmInit, ListsInv, ListsAgree, UnusedIsEmpty, NoRepeats, Occurs

(* No call whose attach is recorded makes the lists disagree.              *)
LEMMA NextLists == ShmIInv /\ ListsInv /\ AllRecorded /\ [ShmNext]_ShmVars => ListsInv'
<1> SUFFICES ASSUME ShmIInv, ListsInv, AllRecorded, [ShmNext]_ShmVars PROVE ListsInv'
  OBVIOUS
<1>1. ASSUME NEW p \in Procs, NEW i \in ShmSlots, Attach(p, i) PROVE ListsInv'
  <2> DEFINE a == Append(shm[i].attached, p)
             r == Append(shm_regions[p], i)
  <2>1. /\ shm[i].attached \in Seq(Procs) /\ NoRepeats(shm[i].attached)
        /\ shm_regions[p] \in Seq(ShmSlots) /\ NoRepeats(shm_regions[p])
    BY ShmTypes DEF ShmIInv, AttachedOnce, ShmTypeOK, ListsInv
  <2>2. ~Occurs(p, shm[i].attached) /\ ~Occurs(i, shm_regions[p])
    BY <1>1 DEF Attach, ListsInv, ListsAgree
  <2>3. /\ a \in Seq(Procs)
        /\ \A y : Occurs(y, a) <=> Occurs(y, shm[i].attached) \/ y = p
    BY <2>1, <2>2, AppendFacts
  <2>4. /\ r \in Seq(ShmSlots) /\ NoRepeats(r)
        /\ \A y : Occurs(y, r) <=> Occurs(y, shm_regions[p]) \/ y = i
    BY <2>1, <2>2, AppendFacts
  <2>5. shm' = [shm EXCEPT ![i].attached = a] /\ shm_regions' = [shm_regions EXCEPT ![p] = r]
    BY <1>1 DEF Attach, AllRecorded, Recorded
  <2>7. Used(shm, i)
    BY <1>1 DEF Attach
  <2> HIDE DEF a, r
  <2>6. /\ \A q \in Procs \ {p} : Occurs(q, a) <=> Occurs(q, shm[i].attached)
        /\ \A j \in ShmSlots \ {i} : Occurs(j, r) <=> Occurs(j, shm_regions[p])
        /\ Occurs(p, a) <=> Occurs(i, r)
    BY <2>3, <2>4
  <2> QED BY <2>3, <2>4, <2>5, <2>6, <2>7, OneChange
<1>2. ASSUME NEW p \in Procs, NEW i \in ShmSlots, Detach(p, i) PROVE ListsInv'
  <2> DEFINE a == Removed(p, shm[i].attached)
             r == Removed(i, shm_regions[p])
  <2>1. /\ shm[i].attached \in Seq(Procs) /\ NoRepeats(shm[i].attached)
        /\ shm_regions[p] \in Seq(ShmSlots) /\ NoRepeats(shm_regions[p])
    BY ShmTypes DEF ShmIInv, AttachedOnce, ShmTypeOK, ListsInv
  <2>2. /\ a \in Seq(Procs)
        /\ \A y : Occurs(y, a) <=> Occurs(y, shm[i].attached) /\ y # p
    BY <2>1, RemovedFacts
  <2>3. /\ r \in Seq(ShmSlots) /\ NoRepeats(r)
        /\ \A y : Occurs(y, r) <=> Occurs(y, shm_regions[p]) /\ y # i
    BY <2>1, RemovedFacts
  <2>4. shm' = [shm EXCEPT ![i].attached = a] /\ shm_regions' = [shm_regions EXCEPT ![p] = r]
    BY <1>2 DEF Detach
  <2>6. Used(shm, i)
    BY <1>2 DEF Detach
  <2> HIDE DEF a, r
  <2>5. /\ \A q \in Procs \ {p} : Occurs(q, a) <=> Occurs(q, shm[i].attached)
        /\ \A j \in ShmSlots \ {i} : Occurs(j, r) <=> Occurs(j, shm_regions[p])
        /\ Occurs(p, a) <=> Occurs(i, r)
    BY <2>2, <2>3
  <2> QED BY <2>2, <2>3, <2>4, <2>5, <2>6, OneChange
<1>3. ASSUME NEW p \in Procs, NEW n \in Names, ShmCreate(p, n) PROVE ListsInv'
  <2>1. PICK i \in ShmSlots :
          /\ IsFirstUnused(shm, i)
          /\ shm' = [shm EXCEPT ![i] = [id |-> next_shm_id, name |-> Stored[n],
                                        attached |-> << >>]]
    BY <1>3 DEF ShmCreate
  <2>2. UNCHANGED shm_regions
    BY <1>3 DEF ShmCreate
  <2>3. shm'[i].attached = << >> /\ \A j \in ShmSlots \ {i} : shm'[j] = shm[j]
    BY <2>1 DEF ShmIInv, ShmTypeOK
  <2>5. shm[i].attached = << >>
    BY <2>1 DEF ListsInv, UnusedIsEmpty, IsFirstUnused
  <2>6. \A j \in ShmSlots : shm'[j].attached = shm[j].attached
    BY <2>3, <2>5
  <2>7. UnusedIsEmpty'
    BY <2>3 DEF ListsInv, UnusedIsEmpty, Used, ShmSlots
  <2> QED BY <2>2, <2>6, <2>7 DEF ListsInv, ListsAgree, ShmSlots
<1>4. CASE UNCHANGED <<shm, shm_regions>>
  BY <1>4 DEF ListsInv, ListsAgree, UnusedIsEmpty, Used, ShmSlots
<1> QED BY <1>1, <1>2, <1>3, <1>4 DEF ShmNext, ShmCreateFails, ShmInvalid, AttachAgain, ShmVars

(* As long as every attach is recorded on both sides, a region lists a     *)
(* process exactly while the process lists the region, however attaches    *)
(* and detaches interleave.                                                *)
THEOREM ListsAgreeWhileRecorded == ShmSpec /\ [][AllRecorded]_ShmVars => []ListsAgree
<1>1. ShmIInv /\ ListsInv /\ [ShmNext]_ShmVars /\ [AllRecorded]_ShmVars => ListsInv'
  <2> SUFFICES ASSUME ShmIInv, ListsInv, [ShmNext]_ShmVars, [AllRecorded]_ShmVars
               PROVE  ListsInv'
    OBVIOUS
  <2>1. CASE AllRecorded
    BY <2>1, NextLists
  <2>2. CASE UNCHANGED ShmVars
    BY <2>2 DEF ListsInv, ListsAgree, UnusedIsEmpty, Used, ShmSlots, ShmVars
  <2> QED BY <2>1, <2>2
<1>2. ListsInv => ListsAgree
  BY DEF ListsInv
<1> QED BY <1>1, <1>2, InitLists, ShmInductive, PTL DEF ShmSpec
=============================================================================
