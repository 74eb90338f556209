---------------------------- MODULE SchedProofs ----------------------------
(***************************************************************************)
(* Proofs about Sched for a process table of any size, any number of       *)
(* processes, any preemption period, with and without the timer.           *)
(***************************************************************************)
EXTENDS Sched, FiniteSetTheorems, WellFoundedInduction, TLAPS

(* What the scheduler's strange behaviour rests on: current_process is the *)
(* idle PCB, so no other PCB ever has a context saved into it.             *)
Pinned ==
    /\ current = Idle
    /\ \A p \in DOMAIN pcb \ {Idle} : pcb[p].ctx = Fresh(p)

IInv == TypeOK /\ TableConsistent /\ MarksAreBrief /\ FamilyTree /\ Pinned

(* Every PCB but the idle one is READY or RUNNING.                         *)
LEMMA OthersUnmarked ==
  ASSUME IInv, NEW p \in DOMAIN pcb \ {Idle}
  PROVE  pcb[p].state \in {"READY", "RUNNING"}
<1>1. pcb[p].state \in States
  BY DEF IInv, TypeOK, PcbType
<1>2. p # current
  BY DEF IInv, Pinned
<1> QED BY <1>1, <1>2 DEF IInv, MarksAreBrief, States

(* A list over a set is a list over any larger set.                        *)
LEMMA SeqGrows ==
  ASSUME NEW S, NEW T, S \subseteq T, NEW q \in Seq(S)
  PROVE  q \in Seq(T)
<1>1. Len(q) \in Nat /\ q \in [1 .. Len(q) -> S]
  OBVIOUS
<1>2. q \in [1 .. Len(q) -> T]
  BY <1>1
<1> QED BY <1>1, <1>2

(* The idle PCB and the pids in use.                                       *)
LEMMA Known ==
  ASSUME IInv
  PROVE  /\ Idle \in DOMAIN pcb
         /\ current = Idle
         /\ DOMAIN pcb \subseteq Pids
         /\ \A p \in DOMAIN pcb : p \in Nat /\ p > 0 /\ p < next_pid
         /\ next_pid \in Nat
         /\ next_pid \notin DOMAIN pcb
         /\ DOMAIN pc = DOMAIN pcb
         /\ cpu \in DOMAIN pcb
         /\ NULL \notin DOMAIN pcb
<1>1. /\ Idle \in DOMAIN pcb /\ current = Idle /\ DOMAIN pcb \subseteq Pids
      /\ next_pid \in Nat /\ DOMAIN pc = DOMAIN pcb /\ cpu \in DOMAIN pcb
  BY DEF IInv, TypeOK, Pinned
<1>2. \A p \in DOMAIN pcb : p \in Nat /\ p > 0
  BY <1>1, SchedAssumption DEF Pids
<1>3. \A p \in DOMAIN pcb : p < next_pid
  BY DEF IInv, TableConsistent
<1> QED BY <1>1, <1>2, <1>3 DEF NULL

(* What a PCB is made of.                                                  *)
LEMMA PcbTypes ==
  ASSUME IInv, NEW p \in DOMAIN pcb
  PROVE  /\ pcb[p] \in PcbType
         /\ pcb[p] = [state |-> pcb[p].state, ppid |-> pcb[p].ppid,
                      children |-> pcb[p].children, sleep |-> pcb[p].sleep,
                      ctx |-> pcb[p].ctx]
         /\ pcb[p].state \in States
         /\ pcb[p].ppid \in DOMAIN pcb \cup {0}
         /\ pcb[p].children \in Seq(DOMAIN pcb \cup {NULL})
         /\ pcb[p].sleep \in Nat
         /\ pcb[p].ctx \in Context
<1>1. pcb[p] \in PcbType
  BY DEF IInv, TypeOK
<1> QED BY <1>1 DEF PcbType

(* After task_init.                                                        *)
LEMMA InitIInv == Init => IInv
<1> SUFFICES ASSUME Init PROVE IInv
  OBVIOUS
<1>1. /\ DOMAIN pcb = {Idle}
      /\ pcb[Idle].state = "RUNNING" /\ pcb[Idle].ppid = 0
      /\ pcb[Idle].children = << >> /\ pcb[Idle].sleep = 0
      /\ pcb[Idle].ctx = Fresh(Idle)
      /\ pcb[Idle] = [state |-> "RUNNING", ppid |-> 0, children |-> << >>,
                      sleep |-> 0, ctx |-> Fresh(Idle)]
  BY DEF Init, NewPcb
<1>2. pcb \in [DOMAIN pcb -> PcbType]
  <2>1. Fresh(Idle) \in Context
    BY <1>1 DEF Fresh, Context
  <2>2. << >> \in Seq(DOMAIN pcb \cup {NULL})
    OBVIOUS
  <2>3. pcb[Idle] \in PcbType
    BY <1>1, <2>1, <2>2 DEF PcbType, States
  <2> QED BY <1>1, <2>3 DEF Init
<1>3. TypeOK
  <2>1. processes \in [Slots -> DOMAIN pcb \cup {NULL}]
    BY <1>1 DEF Init
  <2>2. pc \in [DOMAIN pcb -> Calls]
    BY <1>1 DEF Init, Calls
  <2>3. DOMAIN pcb \subseteq Pids
    BY <1>1, SchedAssumption DEF Pids, Idle
  <2>4. 0 \in 0 .. PreemptTicks - 1
    BY SchedAssumption
  <2> QED BY <1>1, <1>2, <2>1, <2>2, <2>3, <2>4 DEF TypeOK, Init
<1>4. TableConsistent
  <2>0. /\ 1 \in Slots /\ processes[1] = Idle
        /\ \A s \in Slots : s # 1 => processes[s] = NULL
    BY SchedAssumption DEF Init, Slots
  <2>1. {s \in Slots : processes[s] # NULL} = {1}
    BY <2>0 DEF NULL, Idle
  <2>2. Cardinality({1}) = 1
    BY FS_Singleton
  <2>3. \A r, s \in Slots : processes[r] = processes[s] => r = s \/ processes[s] = NULL
    BY <2>0 DEF NULL, Idle
  <2>4. \A p \in DOMAIN pcb : p < next_pid
    BY <1>1 DEF Init, Idle
  <2> QED BY <1>1, <2>0, <2>1, <2>2, <2>3, <2>4 DEF Init, TableConsistent
<1>5. MarksAreBrief
  BY <1>1 DEF MarksAreBrief
<1>6. FamilyTree
  BY <1>1, SchedAssumption DEF FamilyTree
<1>7. Pinned
  BY <1>1 DEF Init, Pinned
<1> QED BY <1>3, <1>4, <1>5, <1>6, <1>7 DEF IInv

-----------------------------------------------------------------------------
(* Creation                                                                *)

(* While the count is below MAX_PROCESSES the table has a NULL slot, and   *)
(* one of them comes first.                                                *)
LEMMA FirstFreeSlot ==
  ASSUME TypeOK, TableConsistent, process_count < MAX_PROCESSES
  PROVE  \E s \in Slots : IsFirstFree(s)
<1> DEFINE Used == {s \in Slots : processes[s] # NULL}
           Free == {s \in Slots : processes[s] = NULL}
<1>1. IsFiniteSet(Slots) /\ Cardinality(Slots) = MAX_PROCESSES
  BY FS_Interval, SchedAssumption DEF Slots
<1>2. Used # Slots
  BY <1>1, SchedAssumption DEF TableConsistent
<1>3. Free # {} /\ Free \subseteq Nat
  BY <1>2 DEF Slots
<1>4. PICK s \in Free : \A r \in Free : ~(<<r, s>> \in OpToRel(<, Nat))
  BY <1>3, NatLessThanWellFounded, WFMin
<1>5. \A r \in Free : ~(r < s)
  BY <1>3, <1>4 DEF OpToRel
<1>6. \A r \in 1 .. s - 1 : r \in Slots /\ r < s
  BY SchedAssumption DEF Slots
<1> QED BY <1>5, <1>6 DEF IsFirstFree

(* A created process gets a slot of its own and is counted once.           *)
LEMMA CreatedTable ==
  ASSUME IInv, CanCreate, NEW T, DOMAIN T = DOMAIN pcb \cup {next_pid},
         Created(next_pid, T)
  PROVE  /\ TableConsistent'
         /\ processes' \in [Slots -> DOMAIN pcb' \cup {NULL}]
<1> DEFINE Used == {s \in Slots : processes[s] # NULL}
<1>0. TypeOK /\ TableConsistent /\ process_count < MAX_PROCESSES
  BY DEF IInv, CanCreate
<1>1. PICK s \in Slots : IsFirstFree(s)
  BY <1>0, FirstFreeSlot
<1>2. \A r \in Slots : IsFirstFree(r) => r = s
  BY <1>1, SchedAssumption DEF IsFirstFree, Slots
<1>3. processes' = [r \in Slots |-> IF r = s THEN next_pid ELSE processes[r]]
  BY <1>1, <1>2 DEF Created
<1>4. /\ DOMAIN pcb' = DOMAIN pcb \cup {next_pid} /\ next_pid' = next_pid + 1
      /\ process_count' = process_count + 1
  BY DEF Created
<1>5. /\ next_pid \in Nat /\ next_pid # NULL /\ next_pid \notin DOMAIN pcb
      /\ \A p \in DOMAIN pcb : p \in Nat /\ p < next_pid
  BY Known, SchedAssumption DEF NULL
<1>6. {r \in Slots : processes'[r] # NULL} = Used \cup {s}
  BY <1>3, <1>5
<1>7. s \notin Used
  BY <1>1 DEF IsFirstFree
<1>8. IsFiniteSet(Used)
  <2>1. IsFiniteSet(Slots)
    BY FS_Interval, SchedAssumption DEF Slots
  <2> QED BY <2>1, FS_Subset
<1>9. process_count' = Cardinality({r \in Slots : processes'[r] # NULL})
  BY <1>0, <1>4, <1>6, <1>7, <1>8, FS_AddElement DEF TableConsistent
<1>10. \A p \in DOMAIN pcb' : p < next_pid'
  BY <1>4, <1>5
<1>11. processes \in [Slots -> DOMAIN pcb \cup {NULL}] /\ processes[s] = NULL
  BY <1>0, <1>1 DEF TypeOK, IsFirstFree
<1>12. \A p \in DOMAIN pcb' : \E r \in Slots : processes'[r] = p
  <2> SUFFICES ASSUME NEW p \in DOMAIN pcb' PROVE \E r \in Slots : processes'[r] = p
    OBVIOUS
  <2>1. CASE p = next_pid
    BY <2>1, <1>3
  <2>2. CASE p \in DOMAIN pcb
    <3>1. PICK r \in Slots : processes[r] = p
      BY <2>2, <1>0 DEF TableConsistent
    <3>2. r # s
      BY <3>1, <2>2, <1>11, Known
    <3> QED BY <3>1, <3>2, <1>3
  <2> QED BY <1>4, <2>1, <2>2
<1>13. \A r, t \in Slots : processes'[r] = processes'[t] => r = t \/ processes'[t] = NULL
  BY <1>0, <1>3, <1>5, <1>11 DEF TableConsistent
<1>14. processes' \in [Slots -> DOMAIN pcb' \cup {NULL}]
  BY <1>3, <1>4, <1>11
<1> QED BY <1>9, <1>10, <1>12, <1>13, <1>14 DEF TableConsistent, Slots

(* PcbType over a given set of pids, so that it can be compared between    *)
(* states.                                                                 *)
PcbOver(D) ==
    [state : States, ppid : D \cup {0}, children : Seq(D \cup {NULL}), sleep : Nat,
     ctx : [thread : D, next : D \cup {NULL}, inTick : BOOLEAN]]

(* PcbType, with the set of pids made a parameter.                         *)
LEMMA PcbTypeIsOver == PcbType = PcbOver(DOMAIN pcb) /\ PcbType' = PcbOver(DOMAIN pcb')
  BY DEF PcbType, PcbOver, Context

(* A PCB stays well typed when there are more pids.                        *)
LEMMA PcbGrows ==
  ASSUME NEW D, NEW E, D \subseteq E, NEW r \in PcbOver(D)
  PROVE  r \in PcbOver(E)
<1>1. r.children \in Seq(E \cup {NULL})
  <2>1. r.children \in Seq(D \cup {NULL})
    BY DEF PcbOver
  <2> QED BY <2>1, SeqGrows
<1> QED BY <1>1 DEF PcbOver

(* The table task_create leaves: the old PCBs and a new one, well typed.   *)
LEMMA WithPcbFacts ==
  ASSUME IInv, NEW parent \in DOMAIN pcb \cup {0}
  PROVE  LET T == WithPcb(next_pid, parent)
             D == DOMAIN pcb \cup {next_pid}
         IN  /\ T \in [D -> PcbOver(D)]
             /\ T[next_pid] = NewPcb(next_pid, parent)
             /\ \A p \in DOMAIN pcb : T[p] = pcb[p]
<1> DEFINE T == WithPcb(next_pid, parent)
           D == DOMAIN pcb \cup {next_pid}
<1>1. next_pid \notin DOMAIN pcb
  BY Known
<1>2. DOMAIN T = D /\ T[next_pid] = NewPcb(next_pid, parent)
  BY DEF WithPcb
<1>3. \A p \in DOMAIN pcb : T[p] = pcb[p]
  BY <1>1 DEF WithPcb
<1>4. NewPcb(next_pid, parent) \in PcbOver(D)
  <2>1. << >> \in Seq(D \cup {NULL})
    OBVIOUS
  <2> QED BY <2>1 DEF NewPcb, PcbOver, Fresh, States
<1>5. \A p \in DOMAIN pcb : pcb[p] \in PcbOver(D)
  BY PcbTypes, PcbTypeIsOver, PcbGrows
<1>6. \A p \in D : T[p] \in PcbOver(D)
  BY <1>2, <1>3, <1>4, <1>5
<1>7. T = [p \in D |-> T[p]]
  BY DEF WithPcb
<1>8. T \in [D -> PcbOver(D)]
  <2> HIDE DEF T, D
  <2> QED BY <1>6, <1>7
<1> QED BY <1>2, <1>3, <1>8

(* Creating a process keeps the invariant, whatever else the table says,   *)
(* when no other PCB's state or context is touched.                        *)
LEMMA CreatedIInv ==
  ASSUME IInv, CanCreate, NEW T, Created(next_pid, T),
         UNCHANGED <<current, cpu, tick_count, interrupts, inService>>,
         T \in [DOMAIN pcb \cup {next_pid} -> PcbOver(DOMAIN pcb \cup {next_pid})],
         \A p \in DOMAIN pcb : T[p].state = pcb[p].state /\ T[p].ctx = pcb[p].ctx,
         T[next_pid].state = "READY", T[next_pid].ctx = Fresh(next_pid),
         FamilyTree'
  PROVE  IInv'
<1>0. /\ pcb' = T /\ DOMAIN pcb' = DOMAIN pcb \cup {next_pid} /\ next_pid' = next_pid + 1
      /\ process_count' = process_count + 1
      /\ pc' = [q \in DOMAIN pcb \cup {next_pid} |-> IF q = next_pid THEN "run" ELSE pc[q]]
  BY DEF Created
<1>1. /\ Idle \in DOMAIN pcb /\ cpu \in DOMAIN pcb /\ current = Idle
      /\ next_pid \in Nat /\ next_pid \notin DOMAIN pcb /\ next_pid > 0
      /\ DOMAIN pcb \subseteq Pids
  BY Known
<1>2. TableConsistent' /\ processes' \in [Slots -> DOMAIN pcb' \cup {NULL}]
  BY <1>0, CreatedTable
<1>3. pc' \in [DOMAIN pcb' -> Calls]
  BY <1>0 DEF IInv, TypeOK, Calls
<1>4. next_pid \in Pids
  BY <1>1, SchedAssumption DEF CanCreate, Pids
<1>5. pcb' \in [DOMAIN pcb' -> PcbType']
  BY <1>0, PcbTypeIsOver
<1>6. TypeOK'
  BY <1>0, <1>1, <1>2, <1>3, <1>4, <1>5 DEF IInv, TypeOK, Slots, Pids
<1>7. MarksAreBrief'
  BY <1>0, <1>1 DEF IInv, MarksAreBrief
<1>8. Pinned'
  BY <1>0, <1>1 DEF IInv, Pinned
<1> QED BY <1>2, <1>6, <1>7, <1>8 DEF IInv

(* A process is created: it takes the first free slot and a new pid.       *)
LEMMA TaskCreateIInv == IInv /\ TaskCreate => IInv'
<1> SUFFICES ASSUME IInv, TaskCreate PROVE IInv'
  OBVIOUS
<1> DEFINE T == WithPcb(next_pid, 0)
<1>1. /\ T \in [DOMAIN pcb \cup {next_pid} -> PcbOver(DOMAIN pcb \cup {next_pid})]
      /\ T[next_pid] = NewPcb(next_pid, 0)
      /\ \A p \in DOMAIN pcb : T[p] = pcb[p]
  BY WithPcbFacts
<1>2. /\ CanCreate /\ Created(next_pid, T)
      /\ UNCHANGED <<current, cpu, tick_count, interrupts, inService>>
      /\ pcb' = T /\ DOMAIN pcb' = DOMAIN pcb \cup {next_pid}
  BY <1>1 DEF TaskCreate, Created
<1>3. FamilyTree'
  <2>1. \A p \in DOMAIN pcb : pcb'[p] = pcb[p] /\ pcb[p].children \in Seq(DOMAIN pcb \cup {NULL})
    BY <1>1, <1>2, PcbTypes
  <2>2. pcb'[next_pid].children = << >>
    BY <1>1, <1>2 DEF NewPcb
  <2>3. \A p \in DOMAIN pcb : \A i \in DOMAIN pcb[p].children :
           /\ pcb[p].children[i] \in DOMAIN pcb
           /\ pcb[p].children[i] > p /\ pcb[pcb[p].children[i]].ppid = p
    BY <2>1, Known DEF IInv, FamilyTree, NULL
  <2> QED BY <1>2, <2>1, <2>2, <2>3, SchedAssumption DEF IInv, FamilyTree
<1>4. T[next_pid].state = "READY" /\ T[next_pid].ctx = Fresh(next_pid)
  BY <1>1 DEF NewPcb
<1> HIDE DEF T
<1> QED BY <1>1, <1>2, <1>3, <1>4, CreatedIInv

(* Creation fails half way: only the pid is used up.                       *)
LEMMA TaskCreateNoStackIInv == IInv /\ TaskCreateNoStack => IInv'
<1> SUFFICES ASSUME IInv, TaskCreateNoStack PROVE IInv'
  OBVIOUS
<1>1. UNCHANGED <<pcb, processes, process_count, current, cpu, pc, tick_count,
                  interrupts, inService>> /\ next_pid' = next_pid + 1
  BY DEF TaskCreateNoStack
<1>2. TypeOK'
  BY <1>1 DEF IInv, TypeOK, PcbType, Context, Pids, Slots, States
<1>3. TableConsistent'
  BY <1>1, Known DEF IInv, TableConsistent, Slots
<1>4. MarksAreBrief' /\ FamilyTree' /\ Pinned'
  BY <1>1 DEF IInv, MarksAreBrief, FamilyTree, Pinned
<1> QED BY <1>2, <1>3, <1>4 DEF IInv

(* A listed child goes to the end of its parent's list, which had room.    *)
LEMMA ForkIInv ==
  ASSUME IInv, NEW listed \in BOOLEAN, Fork(listed)
  PROVE  IInv'
<1> DEFINE W == WithPcb(next_pid, Idle)
           D == DOMAIN pcb \cup {next_pid}
           kids == pcb[Idle].children
           T == IF listed THEN [W EXCEPT ![Idle].children = Append(@, next_pid)] ELSE W
<1>0. /\ Idle \in DOMAIN pcb /\ current = Idle /\ next_pid \notin DOMAIN pcb
      /\ next_pid \in Nat /\ NULL \notin DOMAIN pcb
      /\ \A p \in DOMAIN pcb : p \in Nat /\ p < next_pid
  BY Known
<1>1. /\ W \in [D -> PcbOver(D)]
      /\ W[next_pid] = NewPcb(next_pid, Idle)
      /\ \A p \in DOMAIN pcb : W[p] = pcb[p]
  BY <1>0, WithPcbFacts
<1>2. CanCreate /\ Created(next_pid, T)
      /\ UNCHANGED <<current, cpu, tick_count, interrupts, inService>>
  BY <1>0 DEF Fork
<1>3. pcb' = T
  BY <1>2 DEF Created
<1>4. kids \in Seq(DOMAIN pcb \cup {NULL}) /\ pcb[Idle] \in PcbOver(D)
  BY <1>0, <1>1, PcbTypes
<1>5. /\ T \in [D -> PcbOver(D)]
      /\ \A p \in D \ {Idle} : T[p] = W[p]
      /\ T[Idle].state = pcb[Idle].state /\ T[Idle].ctx = pcb[Idle].ctx
      /\ T[Idle].ppid = pcb[Idle].ppid
      /\ T[Idle].children = IF listed THEN Append(kids, next_pid) ELSE kids
  <2>1. CASE ~listed
    BY <2>1, <1>0, <1>1
  <2>2. CASE listed
    <3>1. T = [p \in D |-> IF p = Idle
                           THEN [pcb[Idle] EXCEPT !.children = Append(kids, next_pid)]
                           ELSE W[p]]
      BY <2>2, <1>0, <1>1
    <3>2. Append(kids, next_pid) \in Seq(D \cup {NULL})
      BY <1>4, SeqGrows
    <3>3. [pcb[Idle] EXCEPT !.children = Append(kids, next_pid)] \in PcbOver(D)
      BY <1>4, <3>2 DEF PcbOver
    <3> HIDE DEF T, W
    <3> QED BY <2>2, <1>0, <1>1, <1>4, <3>1, <3>3 DEF PcbOver
  <2> QED BY <2>1, <2>2
<1> HIDE DEF T, W
<1>6. \A p \in DOMAIN pcb : T[p].state = pcb[p].state /\ T[p].ctx = pcb[p].ctx
                            /\ T[p].ppid = pcb[p].ppid
  BY <1>1, <1>5
<1>7. /\ T[next_pid].state = "READY" /\ T[next_pid].ctx = Fresh(next_pid)
      /\ T[next_pid].ppid = Idle /\ T[next_pid].children = << >>
  BY <1>0, <1>1, <1>5 DEF NewPcb
<1>8. FamilyTree'
  <2>1. \A p \in DOMAIN pcb :
           /\ pcb[p].children \in Seq(DOMAIN pcb \cup {NULL})
           /\ Len(pcb[p].children) <= MaxChildren
           /\ \A i, j \in DOMAIN pcb[p].children :
                 pcb[p].children[i] = pcb[p].children[j] => i = j
           /\ \A i \in DOMAIN pcb[p].children :
                 /\ pcb[p].children[i] \in DOMAIN pcb
                 /\ pcb[p].children[i] > p /\ pcb[pcb[p].children[i]].ppid = p
    BY <1>0, PcbTypes DEF IInv, FamilyTree, NULL
  <2>2. listed => Len(kids) < MaxChildren
    BY <1>0 DEF Fork
  <2>3. \A p \in D \ {Idle, next_pid} : T[p] = pcb[p]
    BY <1>1, <1>5
  <2> SUFFICES ASSUME NEW p \in D
               PROVE  /\ Len(T[p].children) <= MaxChildren
                      /\ \A i, j \in DOMAIN T[p].children :
                            T[p].children[i] = T[p].children[j] => i = j
                      /\ \A i \in DOMAIN T[p].children :
                            T[p].children[i] > p /\ T[T[p].children[i]].ppid = p
    BY <1>3, <1>5 DEF FamilyTree
  <2>4. CASE p = next_pid
    BY <2>4, <1>7, SchedAssumption
  <2>5. CASE p \in DOMAIN pcb /\ p # Idle
    <3>1. T[p].children = pcb[p].children
      BY <2>3, <2>5, <1>0
    <3>2. \A i \in DOMAIN pcb[p].children : T[pcb[p].children[i]].ppid = p
      BY <2>1, <2>5, <1>6
    <3> QED BY <2>1, <2>5, <3>1, <3>2
  <2>6. CASE p = Idle /\ ~listed
    BY <2>6, <2>1, <1>0, <1>5, <1>6
  <2>7. CASE p = Idle /\ listed
    <3> DEFINE all == T[Idle].children
    <3>0. /\ DOMAIN kids = 1 .. Len(kids) /\ Len(kids) \in Nat
          /\ all = Append(kids, next_pid)
      BY <2>7, <1>4, <1>5
    <3>1. PICK last \in Nat : /\ last \notin DOMAIN kids /\ last = Len(all)
                              /\ DOMAIN all = DOMAIN kids \cup {last}
                              /\ all[last] = next_pid
                              /\ \A i \in DOMAIN kids : all[i] = kids[i]
                              /\ last = Len(kids) + 1
      <4> HIDE DEF all, kids
      <4>1. /\ DOMAIN Append(kids, next_pid) = 1 .. Len(kids) + 1
            /\ Len(Append(kids, next_pid)) = Len(kids) + 1
            /\ Append(kids, next_pid)[Len(kids) + 1] = next_pid
            /\ \A i \in 1 .. Len(kids) : Append(kids, next_pid)[i] = kids[i]
        BY <1>4
      <4> WITNESS Len(kids) + 1 \in Nat
      <4> QED BY <3>0, <4>1
    <3>2. \A i \in DOMAIN kids :
             /\ all[i] \in DOMAIN pcb /\ all[i] > Idle /\ T[all[i]].ppid = Idle
             /\ all[i] # next_pid
      <4>1. \A i \in DOMAIN kids : kids[i] \in DOMAIN pcb /\ kids[i] > Idle
                                   /\ pcb[kids[i]].ppid = Idle
        BY <2>1, <1>0
      <4> HIDE DEF all, kids
      <4> QED BY <4>1, <3>1, <1>0, <1>6
    <3>3. Len(all) <= MaxChildren
      <4> HIDE DEF all, kids
      <4> QED BY <3>0, <3>1, <2>2, <2>7, SchedAssumption
    <3>4. \A i, j \in DOMAIN all : all[i] = all[j] => i = j
      <4>1. \A i, j \in DOMAIN kids : kids[i] = kids[j] => i = j
        BY <2>1, <1>0
      <4> HIDE DEF all, kids
      <4> QED BY <4>1, <3>1, <3>2
    <3>5. next_pid > Idle
      BY <1>0
    <3>6. \A i \in DOMAIN all : all[i] > Idle /\ T[all[i]].ppid = Idle
      <4> HIDE DEF all, kids
      <4> QED BY <3>1, <3>2, <3>5, <1>7
    <3> QED BY <2>7, <3>3, <3>4, <3>6
  <2> QED BY <2>4, <2>5, <2>6, <2>7
<1> QED BY <1>2, <1>5, <1>6, <1>7, <1>8, CreatedIInv

-----------------------------------------------------------------------------
(* schedule()                                                              *)

(* What a table may look like when schedule() gets it: the PCBs as they    *)
(* are, or as timer_tick has counted them down.                            *)
Schedulable(table) ==
    /\ table \in [DOMAIN pcb -> PcbOver(DOMAIN pcb)]
    /\ \A p \in DOMAIN pcb : /\ table[p].ppid = pcb[p].ppid
                             /\ table[p].children = pcb[p].children
                             /\ table[p].ctx = pcb[p].ctx
    /\ \A p \in DOMAIN pcb \ {Idle} : table[p] = pcb[p]

(* The PCB table as it is may be scheduled from.                           *)
LEMMA PcbSchedulable == IInv => Schedulable(pcb)
  BY PcbTypeIsOver DEF IInv, TypeOK, Schedulable

(* Only the idle PCB can be asleep, so only it can be counted down.        *)
LEMMA CountedDownFacts ==
  ASSUME IInv
  PROVE  /\ Schedulable(CountedDown)
         /\ \A p \in DOMAIN pcb :
               CountedDown[p].state \in {pcb[p].state, "READY"}
<1>1. \A p \in DOMAIN pcb \ {Idle} : CountedDown[p] = pcb[p]
  BY OthersUnmarked DEF CountedDown
<1>2. \A p \in DOMAIN pcb :
         /\ CountedDown[p] \in PcbOver(DOMAIN pcb)
         /\ CountedDown[p].ppid = pcb[p].ppid
         /\ CountedDown[p].children = pcb[p].children
         /\ CountedDown[p].ctx = pcb[p].ctx
         /\ CountedDown[p].state \in {pcb[p].state, "READY"}
  <2> SUFFICES ASSUME NEW p \in DOMAIN pcb
               PROVE  /\ CountedDown[p] \in PcbOver(DOMAIN pcb)
                      /\ CountedDown[p].ppid = pcb[p].ppid
                      /\ CountedDown[p].children = pcb[p].children
                      /\ CountedDown[p].ctx = pcb[p].ctx
                      /\ CountedDown[p].state \in {pcb[p].state, "READY"}
    OBVIOUS
  <2>1. pcb[p] \in PcbOver(DOMAIN pcb)
    BY PcbTypes, PcbTypeIsOver
  <2>2. CASE pcb[p].state = "BLOCKED" /\ pcb[p].sleep > 0
    <3>1. CountedDown[p] = [pcb[p] EXCEPT !.sleep = @ - 1,
                              !.state = IF pcb[p].sleep = 1 THEN "READY" ELSE @]
      BY <2>2 DEF CountedDown
    <3>2. pcb[p].sleep - 1 \in Nat
      BY <2>1, <2>2 DEF PcbOver
    <3> QED BY <2>1, <3>1, <3>2 DEF PcbOver, States
  <2>3. CASE ~(pcb[p].state = "BLOCKED" /\ pcb[p].sleep > 0)
    BY <2>1, <2>3 DEF CountedDown
  <2> QED BY <2>2, <2>3
<1>3. CountedDown = [p \in DOMAIN pcb |-> CountedDown[p]]
  BY DEF CountedDown
<1>4. CountedDown \in [DOMAIN pcb -> PcbOver(DOMAIN pcb)]
  BY <1>2, <1>3
<1> QED BY <1>1, <1>2, <1>4 DEF Schedulable

(* Wherever the CPU goes, no mark is left, current_process stays the idle  *)
(* PCB, and a switch is to a process that was READY and had never run.     *)
LEMMA ScheduleFacts ==
  ASSUME IInv, NEW table, Schedulable(table), NEW inTick \in BOOLEAN,
         Schedule(table, inTick)
  PROVE  /\ pcb' \in [DOMAIN pcb -> PcbOver(DOMAIN pcb)]
         /\ \A p \in DOMAIN pcb : /\ pcb'[p].ppid = pcb[p].ppid
                                  /\ pcb'[p].children = pcb[p].children
                                  /\ pcb'[p].state \in {"READY", "RUNNING"}
         /\ \A p \in DOMAIN pcb \ {Idle} : /\ pcb'[p].ctx = pcb[p].ctx
                                           /\ pcb'[p].state \in {pcb[p].state, "RUNNING"}
         /\ current' = Idle
         /\ cpu' \in DOMAIN pcb
         /\ cpu' # cpu => pcb[cpu'].state = "READY" /\ pcb[cpu'].ctx = Fresh(cpu')
         /\ pc' \in [DOMAIN pcb -> Calls]
         /\ interrupts' \in BOOLEAN /\ inService' \in BOOLEAN
<1>0. /\ current = Idle /\ Idle \in DOMAIN pcb /\ cpu \in DOMAIN pcb /\ DOMAIN pc = DOMAIN pcb
      /\ NULL \notin DOMAIN pcb
  BY Known
<1> DEFINE frame(next) == [thread |-> cpu, next |-> next, inTick |-> inTick]
           to(next) == IF next = current THEN frame(next) ELSE table[next].ctx
<1>1. PICK next \in DOMAIN pcb :
        /\ IsNext(table, next)
        /\ pcb' = [p \in DOMAIN pcb |->
                     [table[p] EXCEPT
                        !.state = IF p = next THEN "RUNNING"
                                  ELSE IF p = current THEN "READY" ELSE @,
                        !.ctx = IF p = current /\ next # current
                                THEN frame(next) ELSE @]]
        /\ cpu' = to(next).thread
        /\ current' = IF to(next).next = NULL THEN current ELSE to(next).next
        /\ interrupts' = (to(next).next # NULL)
        /\ inService' = IF to(next).inTick THEN FALSE ELSE inTick \/ inService
        /\ pc' = [pc EXCEPT ![to(next).thread] =
                    IF to(next).inTick THEN Woken(@) ELSE AfterYield(to(next).thread, @)]
  BY DEF Schedule
<1>2. CASE next = Idle
  <2>1. to(next) = frame(Idle)
    BY <1>0, <1>2
  <2>2. cpu' = cpu /\ current' = Idle /\ interrupts' \in BOOLEAN /\ inService' \in BOOLEAN
    <3>1. /\ to(next).thread = cpu /\ to(next).next = Idle /\ to(next).inTick = inTick
      BY <2>1
    <3> HIDE DEF to
    <3>2. cpu' = cpu /\ current' = Idle /\ interrupts' \in BOOLEAN
      BY <1>0, <1>1, <3>1
    <3>3. inService \in BOOLEAN
      BY DEF IInv, TypeOK
    <3> QED BY <1>1, <3>1, <3>2, <3>3
  <2>3. pc' \in [DOMAIN pcb -> Calls]
    BY <1>0, <1>1, <2>1 DEF IInv, TypeOK, AfterYield, Woken, Calls
  <2>4. pcb' = [p \in DOMAIN pcb |->
                  IF p = Idle THEN [table[Idle] EXCEPT !.state = "RUNNING"] ELSE pcb[p]]
    BY <1>0, <1>1, <1>2, PcbTypes DEF Schedulable, PcbOver
  <2>5. \A p \in DOMAIN pcb \ {Idle} :
           pcb'[p] = pcb[p] /\ pcb[p] \in PcbOver(DOMAIN pcb)
           /\ pcb[p].state \in {"READY", "RUNNING"}
    BY <2>4, PcbTypes, PcbTypeIsOver, OthersUnmarked
  <2>6. /\ pcb'[Idle] \in PcbOver(DOMAIN pcb) /\ pcb'[Idle].state = "RUNNING"
        /\ pcb'[Idle].ppid = pcb[Idle].ppid /\ pcb'[Idle].children = pcb[Idle].children
    <3>1. pcb'[Idle] = [table[Idle] EXCEPT !.state = "RUNNING"]
      BY <1>0, <2>4
    <3>2. /\ table[Idle] \in PcbOver(DOMAIN pcb)
          /\ table[Idle].ppid = pcb[Idle].ppid /\ table[Idle].children = pcb[Idle].children
      BY <1>0 DEF Schedulable
    <3> QED BY <3>1, <3>2 DEF PcbOver, States
  <2>7. pcb' \in [DOMAIN pcb -> PcbOver(DOMAIN pcb)]
    BY <2>4, <2>5, <2>6
  <2> QED BY <1>0, <2>2, <2>3, <2>5, <2>6, <2>7
<1>3. CASE next # Idle
  <2>1. pcb[next].ctx = Fresh(next) /\ table[next] = pcb[next]
    BY <1>3 DEF Schedulable, IInv, Pinned
  <2>2. to(next) = Fresh(next)
    BY <1>0, <1>3, <2>1
  <2>3. /\ cpu' = next /\ current' = Idle /\ interrupts' \in BOOLEAN /\ inService' \in BOOLEAN
    <3>1. to(next).thread = next /\ to(next).next = NULL /\ to(next).inTick = FALSE
      BY <2>2 DEF Fresh
    <3>2. inService \in BOOLEAN
      BY DEF IInv, TypeOK
    <3> HIDE DEF to
    <3> QED BY <1>0, <1>1, <3>1, <3>2
  <2>4. table[next].state = "READY"
    BY <1>0, <1>1, <1>3 DEF IsNext, ReadySlot
  <2>5. pc' \in [DOMAIN pcb -> Calls]
    BY <1>0, <1>1, <2>2 DEF IInv, TypeOK, AfterYield, Woken, Calls, Fresh
  <2>6. /\ pcb' = [p \in DOMAIN pcb |-> pcb'[p]]
        /\ pcb'[Idle] = [table[Idle] EXCEPT !.state = "READY", !.ctx = frame(next)]
        /\ \A p \in DOMAIN pcb \ {Idle} :
              pcb'[p] = IF p = next THEN [pcb[next] EXCEPT !.state = "RUNNING"] ELSE pcb[p]
    <3>1. \A p \in DOMAIN pcb \ {Idle} :
             /\ table[p] = pcb[p]
             /\ [pcb[p] EXCEPT !.state = @, !.ctx = @] = pcb[p]
             /\ [pcb[p] EXCEPT !.state = "RUNNING", !.ctx = @] = [pcb[p] EXCEPT !.state = "RUNNING"]
      BY PcbTypes, PcbTypeIsOver DEF Schedulable, PcbOver
    <3>2. \A p \in DOMAIN pcb \ {Idle} :
             pcb'[p] = [table[p] EXCEPT !.state = IF p = next THEN "RUNNING" ELSE @, !.ctx = @]
      BY <1>0, <1>1
    <3>3. pcb'[Idle] = [table[Idle] EXCEPT !.state = "READY", !.ctx = frame(next)]
      <4> HIDE DEF frame
      <4> QED BY <1>0, <1>1, <1>3
    <3> QED BY <1>1, <3>1, <3>2, <3>3
  <2>7. \A p \in DOMAIN pcb \ {Idle} :
           /\ pcb'[p] = IF p = next THEN [pcb[next] EXCEPT !.state = "RUNNING"] ELSE pcb[p]
           /\ pcb[p] \in PcbOver(DOMAIN pcb)
           /\ pcb[p].state \in {"READY", "RUNNING"}
    BY <2>6, PcbTypes, PcbTypeIsOver, OthersUnmarked
  <2>8. \A p \in DOMAIN pcb \ {Idle} :
           /\ pcb'[p] \in PcbOver(DOMAIN pcb)
           /\ pcb'[p].state \in {pcb[p].state, "RUNNING"} /\ pcb'[p].ctx = pcb[p].ctx
           /\ pcb'[p].ppid = pcb[p].ppid /\ pcb'[p].children = pcb[p].children
    BY <2>7 DEF PcbOver, States
  <2>9. /\ pcb'[Idle] \in PcbOver(DOMAIN pcb) /\ pcb'[Idle].state = "READY"
        /\ pcb'[Idle].ppid = pcb[Idle].ppid /\ pcb'[Idle].children = pcb[Idle].children
    <3>1. frame(next) \in [thread : DOMAIN pcb, next : DOMAIN pcb \cup {NULL}, inTick : BOOLEAN]
      BY <1>0
    <3>2. pcb'[Idle] = [table[Idle] EXCEPT !.state = "READY", !.ctx = frame(next)]
      BY <1>0, <2>6
    <3>3. /\ table[Idle] \in PcbOver(DOMAIN pcb)
          /\ table[Idle].ppid = pcb[Idle].ppid /\ table[Idle].children = pcb[Idle].children
      BY <1>0 DEF Schedulable
    <3> HIDE DEF frame
    <3> QED BY <3>1, <3>2, <3>3 DEF PcbOver, States
  <2>10. pcb' \in [DOMAIN pcb -> PcbOver(DOMAIN pcb)]
    BY <2>6, <2>8, <2>9
  <2> QED BY <1>0, <2>1, <2>3, <2>4, <2>5, <2>7, <2>8, <2>9, <2>10
<1> QED BY <1>2, <1>3

(* schedule() keeps the invariant.                                         *)
LEMMA ScheduleIInv ==
  ASSUME IInv, NEW table, Schedulable(table), NEW inTick \in BOOLEAN,
         Schedule(table, inTick),
         UNCHANGED <<processes, process_count, next_pid>>,
         tick_count' \in 0 .. PreemptTicks - 1
  PROVE  IInv'
<1>1. /\ pcb' \in [DOMAIN pcb -> PcbOver(DOMAIN pcb)]
      /\ \A p \in DOMAIN pcb : /\ pcb'[p].ppid = pcb[p].ppid
                               /\ pcb'[p].children = pcb[p].children
                               /\ pcb'[p].state \in {"READY", "RUNNING"}
      /\ \A p \in DOMAIN pcb \ {Idle} : pcb'[p].ctx = pcb[p].ctx
      /\ current' = Idle /\ cpu' \in DOMAIN pcb
      /\ pc' \in [DOMAIN pcb -> Calls]
      /\ interrupts' \in BOOLEAN /\ inService' \in BOOLEAN
  BY ScheduleFacts
<1>2. DOMAIN pcb' = DOMAIN pcb
  BY <1>1
<1>3. TypeOK'
  BY <1>1, <1>2, PcbTypeIsOver, Known DEF IInv, TypeOK, Slots, Pids
<1>4. TableConsistent'
  BY <1>2 DEF IInv, TableConsistent, Slots
<1>5. MarksAreBrief'
  BY <1>1, <1>2 DEF MarksAreBrief
<1>6. FamilyTree'
  <2>1. \A p \in DOMAIN pcb : \A i \in DOMAIN pcb[p].children :
           pcb[p].children[i] \in DOMAIN pcb
    BY PcbTypes, Known DEF IInv, FamilyTree, NULL
  <2> QED BY <1>1, <1>2, <2>1 DEF IInv, FamilyTree
<1>7. Pinned'
  BY <1>1, <1>2 DEF IInv, Pinned
<1> QED BY <1>3, <1>4, <1>5, <1>6, <1>7 DEF IInv

(* yield() keeps the invariant.                                            *)
LEMMA YieldIInv == IInv /\ Yield => IInv'
<1> SUFFICES ASSUME IInv, Yield PROVE IInv'
  OBVIOUS
<1>1. tick_count' \in 0 .. PreemptTicks - 1
  BY DEF Yield, IInv, TypeOK
<1> QED BY <1>1, PcbSchedulable, ScheduleIInv DEF Yield

(* The timer interrupt keeps the invariant, with and without a switch.     *)
LEMMA TimerTickIInv == IInv /\ TimerTick => IInv'
<1> SUFFICES ASSUME IInv, TimerTick PROVE IInv'
  OBVIOUS
<1>1. CASE /\ tick_count + 1 < PreemptTicks
           /\ tick_count' = tick_count + 1
           /\ pcb' = CountedDown
           /\ pc' = [pc EXCEPT ![cpu] = Woken(@)]
           /\ UNCHANGED <<current, cpu, interrupts, inService>>
  <2>0. /\ pc' \in [DOMAIN pcb -> Calls]
        /\ pc[cpu] \in {"wait", "sleep", "exit"} => pc'[cpu] = pc[cpu]
    BY <1>1, Known DEF IInv, TypeOK, Woken, Calls
  <2>1. UNCHANGED <<processes, process_count, next_pid>>
    BY DEF TimerTick
  <2>2. /\ pcb' \in [DOMAIN pcb -> PcbOver(DOMAIN pcb)]
        /\ \A p \in DOMAIN pcb : /\ pcb'[p].ppid = pcb[p].ppid
                                 /\ pcb'[p].children = pcb[p].children
                                 /\ pcb'[p].ctx = pcb[p].ctx
                                 /\ pcb'[p].state \in {pcb[p].state, "READY"}
    BY <1>1, CountedDownFacts DEF Schedulable
  <2>3. DOMAIN pcb' = DOMAIN pcb
    BY <2>2
  <2>4. tick_count' \in 0 .. PreemptTicks - 1
    BY <1>1, SchedAssumption DEF IInv, TypeOK
  <2>5. TypeOK'
    BY <1>1, <2>0, <2>1, <2>2, <2>3, <2>4, PcbTypeIsOver DEF IInv, TypeOK, Slots, Pids
  <2>6. TableConsistent'
    BY <2>1, <2>3 DEF IInv, TableConsistent, Slots
  <2>7. MarksAreBrief'
    BY <1>1, <2>0, <2>2, <2>3 DEF IInv, MarksAreBrief
  <2>8. FamilyTree'
    <3>1. \A p \in DOMAIN pcb : \A i \in DOMAIN pcb[p].children :
             pcb[p].children[i] \in DOMAIN pcb
      BY PcbTypes, Known DEF IInv, FamilyTree, NULL
    <3> QED BY <2>2, <2>3, <3>1 DEF IInv, FamilyTree
  <2>9. Pinned'
    BY <1>1, <2>2, <2>3 DEF IInv, Pinned
  <2> QED BY <2>5, <2>6, <2>7, <2>8, <2>9 DEF IInv
<1>2. CASE /\ tick_count' = 0
           /\ Schedule(CountedDown, TRUE)
  <2>1. tick_count' \in 0 .. PreemptTicks - 1
    BY <1>2, SchedAssumption
  <2>2. UNCHANGED <<processes, process_count, next_pid>>
    BY DEF TimerTick
  <2> QED BY <1>2, <2>1, <2>2, CountedDownFacts, ScheduleIInv
<1> QED BY <1>1, <1>2 DEF TimerTick

(* An acknowledged interrupt only ends a hlt.                              *)
LEMMA KeyboardInterruptIInv == IInv /\ KeyboardInterrupt => IInv'
<1> SUFFICES ASSUME IInv, KeyboardInterrupt PROVE IInv'
  OBVIOUS
<1>1. /\ pc' = [pc EXCEPT ![cpu] = "run"] /\ pc[cpu] = "hlt"
      /\ UNCHANGED <<pcb, processes, process_count, next_pid, current, cpu,
                     tick_count, interrupts, inService>>
  BY DEF KeyboardInterrupt
<1>2. pc' \in [DOMAIN pcb -> Calls]
  BY <1>1, Known DEF IInv, TypeOK, Calls
<1>3. TypeOK'
  BY <1>1, <1>2, PcbTypeIsOver DEF IInv, TypeOK, Slots, Pids
<1>4. TableConsistent' /\ FamilyTree' /\ Pinned'
  BY <1>1 DEF IInv, TableConsistent, FamilyTree, Pinned, Slots
<1>5. MarksAreBrief'
  BY <1>1 DEF IInv, MarksAreBrief
<1> QED BY <1>3, <1>4, <1>5 DEF IInv

-----------------------------------------------------------------------------
(* The calls that mark current_process                                     *)

(* A mark is put on the idle PCB while the running thread is in the call.  *)
LEMMA MarkIInv ==
  ASSUME IInv, NEW state \in {"BLOCKED", "TERMINATED"}, NEW sleep \in Nat,
         NEW call \in {"wait", "sleep", "exit"}, Mark(state, sleep, call)
  PROVE  IInv'
<1>0. Idle \in DOMAIN pcb /\ current = Idle /\ cpu \in DOMAIN pcb /\ DOMAIN pc = DOMAIN pcb
  BY Known
<1>1. /\ pcb' = [pcb EXCEPT ![Idle] = [pcb[Idle] EXCEPT !.state = state, !.sleep = sleep]]
      /\ pc' = [pc EXCEPT ![cpu] = call]
      /\ UNCHANGED <<processes, process_count, next_pid, current, cpu,
                     tick_count, interrupts, inService>>
  <2>1. /\ pcb' = [pcb EXCEPT ![Idle].state = state, ![Idle].sleep = sleep]
        /\ pc' = [pc EXCEPT ![cpu] = call]
        /\ UNCHANGED <<processes, process_count, next_pid, current, cpu,
                       tick_count, interrupts, inService>>
    BY <1>0 DEF Mark
  <2>2. [pcb EXCEPT ![Idle].state = state, ![Idle].sleep = sleep]
          = [pcb EXCEPT ![Idle] = [pcb[Idle] EXCEPT !.state = state, !.sleep = sleep]]
    BY <1>0 DEF IInv, TypeOK, PcbType
  <2> QED BY <2>1, <2>2
<1>2. /\ DOMAIN pcb' = DOMAIN pcb
      /\ \A p \in DOMAIN pcb \ {Idle} : pcb'[p] = pcb[p]
      /\ pcb'[Idle] = [pcb[Idle] EXCEPT !.state = state, !.sleep = sleep]
  BY <1>0, <1>1
<1>3. /\ pcb'[Idle] \in PcbType
      /\ pcb'[Idle].ppid = pcb[Idle].ppid /\ pcb'[Idle].children = pcb[Idle].children
  BY <1>0, <1>2, PcbTypes DEF PcbType, States
<1>4. pcb' \in [DOMAIN pcb' -> PcbType']
  <2>1. \A p \in DOMAIN pcb : pcb'[p] \in PcbType
    BY <1>2, <1>3, PcbTypes
  <2>2. PcbType' = PcbType
    BY <1>2, PcbTypeIsOver
  <2> QED BY <1>1, <1>2, <2>1, <2>2 DEF IInv, TypeOK
<1>5. TypeOK'
  <2>1. pc' \in [DOMAIN pcb -> Calls]
    BY <1>0, <1>1 DEF IInv, TypeOK, Calls
  <2> QED BY <1>1, <1>2, <1>4, <2>1 DEF IInv, TypeOK, Slots, Pids
<1>6. TableConsistent'
  BY <1>1, <1>2 DEF IInv, TableConsistent, Slots
<1>7. MarksAreBrief'
  <2>1. pc'[cpu'] \in {"wait", "sleep", "exit"} /\ current' = Idle
    BY <1>0, <1>1
  <2>2. \A p \in DOMAIN pcb \ {Idle} : pcb[p].state \in {"READY", "RUNNING"}
    BY OthersUnmarked
  <2> QED BY <1>2, <2>1, <2>2 DEF MarksAreBrief
<1>8. FamilyTree'
  <2>1. \A p \in DOMAIN pcb : pcb'[p].children = pcb[p].children /\ pcb'[p].ppid = pcb[p].ppid
    BY <1>2, <1>3
  <2>2. \A p \in DOMAIN pcb : \A i \in DOMAIN pcb[p].children :
           pcb[p].children[i] \in DOMAIN pcb
    BY PcbTypes, Known DEF IInv, FamilyTree, NULL
  <2> QED BY <1>2, <2>1, <2>2 DEF IInv, FamilyTree
<1>9. Pinned'
  BY <1>1, <1>2 DEF IInv, Pinned
<1> QED BY <1>5, <1>6, <1>7, <1>8, <1>9 DEF IInv

(* sys_exit's mark.                                                        *)
LEMMA ExitIInv == IInv /\ Exit => IInv'
  BY MarkIInv, Known, PcbTypes DEF Exit

(* sys_sleep's mark.                                                       *)
LEMMA SleepIInv == ASSUME IInv, NEW ticks \in 0 .. MaxSleep, Sleep(ticks) PROVE IInv'
<1>1. ticks \in Nat
  BY SchedAssumption
<1> QED BY <1>1, MarkIInv DEF Sleep

(* No child is ever found terminated: a child is never the idle process.   *)
LEMMA NoZombies == ASSUME IInv, NEW q PROVE Zombies(q) = {}
<1>1. \A i \in Listed(q) : pcb[current].children[i] \in DOMAIN pcb \ {Idle}
  BY Known, PcbTypes DEF Listed, IInv, FamilyTree, NULL, Idle
<1> QED BY <1>1, OthersUnmarked DEF Zombies

(* sys_waitpid's mark: it never finds a terminated child to reap.          *)
LEMMA WaitpidIInv == ASSUME IInv, NEW q, Waitpid(q) PROVE IInv'
<1>1. Mark("BLOCKED", pcb[current].sleep, "wait")
  BY NoZombies DEF Waitpid
<1>2. pcb[current].sleep \in Nat
  BY Known, PcbTypes
<1> QED BY <1>1, <1>2, MarkIInv

-----------------------------------------------------------------------------
(* No step of the scheduler or of a process call breaks the invariant.     *)
LEMMA NextIInv == IInv /\ [Next]_vars => IInv'
<1> SUFFICES ASSUME IInv, [Next]_vars PROVE IInv'
  OBVIOUS
<1>1. CASE TaskCreate
  BY <1>1, TaskCreateIInv
<1>2. CASE TaskCreateNoStack
  BY <1>2, TaskCreateNoStackIInv
<1>3. CASE \E listed \in BOOLEAN : Fork(listed)
  BY <1>3, ForkIInv
<1>4. CASE Yield
  BY <1>4, YieldIInv
<1>5. CASE TimerTick
  BY <1>5, TimerTickIInv
<1>6. CASE Exit
  BY <1>6, ExitIInv
<1>7. CASE \E ticks \in 0 .. MaxSleep : Sleep(ticks)
  BY <1>7, SleepIInv
<1>8. CASE \E q \in Pids \cup {Any} : Waitpid(q)
  BY <1>8, WaitpidIInv
<1>9. CASE KeyboardInterrupt
  BY <1>9, KeyboardInterruptIInv
<1>10. CASE UNCHANGED vars
  <2>1. UNCHANGED <<pcb, processes, process_count, next_pid, current, cpu, pc,
                    tick_count, interrupts, inService>>
    BY <1>10 DEF vars
  <2>2. TypeOK'
    BY <2>1, PcbTypeIsOver DEF IInv, TypeOK, Slots, Pids
  <2> QED BY <2>1, <2>2 DEF IInv, TableConsistent, Slots, MarksAreBrief, FamilyTree, Pinned
<1> QED BY <1>1, <1>2, <1>3, <1>4, <1>5, <1>6, <1>7, <1>8, <1>9, <1>10 DEF Next

(* IInv holds in every reachable state.                                    *)
THEOREM Inductive == Spec => []IInv
  BY InitIInv, NextIInv, PTL DEF Spec

(* Every variable keeps its type, the children lists and saved contexts    *)
(* of task.c's PCBs included.                                              *)
THEOREM TypeCorrect == Spec => []TypeOK
<1>1. IInv => TypeOK
  BY DEF IInv
<1> QED BY <1>1, Inductive, PTL

(* process_count, the table and next_pid agree after any sequence of       *)
(* task_create and sys_fork, failed ones included.                         *)
THEOREM TableAlwaysConsistent == Spec => []TableConsistent
<1>1. IInv => TableConsistent
  BY DEF IInv
<1> QED BY <1>1, Inductive, PTL

(* The marks sys_exit, sys_waitpid and sys_sleep leave never outlive the   *)
(* call's own yield.                                                       *)
THEOREM MarksAlwaysBrief == Spec => []MarksAreBrief
<1>1. IInv => MarksAreBrief
  BY DEF IInv
<1> QED BY <1>1, Inductive, PTL

(* sys_fork's children lists always describe the family.                   *)
THEOREM FamilyTreeAlways == Spec => []FamilyTree
<1>1. IInv => FamilyTree
  BY DEF IInv
<1> QED BY <1>1, Inductive, PTL

(* What an action may do to current_process, cpu and the state of a        *)
(* dispatched process, for the three action properties below.              *)
LEMMA StepFacts ==
  ASSUME IInv, [Next]_vars
  PROVE  /\ current' = current
         /\ cpu' # cpu => pcb[cpu'].state = "READY" /\ pcb[cpu'].ctx = Fresh(cpu')
         /\ \A p \in DOMAIN pcb \ {Idle} :
               pcb[p].state = "RUNNING" => pcb'[p].state = "RUNNING"
<1>0. current = Idle /\ next_pid \notin DOMAIN pcb
  BY Known
<1>1. CASE TaskCreate
  BY <1>0, <1>1 DEF TaskCreate, Created, WithPcb
<1>2. CASE TaskCreateNoStack
  BY <1>2 DEF TaskCreateNoStack
<1>3. CASE \E listed \in BOOLEAN : Fork(listed)
  <2>1. \A p \in DOMAIN pcb \ {Idle} : pcb'[p] = pcb[p]
    BY <1>0, <1>3 DEF Fork, Created, WithPcb
  <2> QED BY <1>3, <2>1 DEF Fork
<1>4. CASE Yield
  BY <1>0, <1>4, PcbSchedulable, ScheduleFacts DEF Yield
<1>5. CASE TimerTick
  <2>1. CASE pcb' = CountedDown /\ UNCHANGED <<current, cpu>>
    BY <2>1, CountedDownFacts DEF Schedulable
  <2>2. CASE Schedule(CountedDown, TRUE)
    BY <1>0, <2>2, CountedDownFacts, ScheduleFacts
  <2> QED BY <1>5, <2>1, <2>2 DEF TimerTick
<1>6. CASE \E state, sleep, call : Mark(state, sleep, call)
  BY <1>0, <1>6 DEF Mark
<1>7. CASE \E q \in Pids \cup {Any} : Waitpid(q)
  BY <1>6, <1>7, NoZombies DEF Waitpid
<1>8. CASE KeyboardInterrupt
  BY <1>8 DEF KeyboardInterrupt
<1>9. CASE UNCHANGED vars
  BY <1>9 DEF vars
<1> QED BY <1>1, <1>2, <1>3, <1>4, <1>5, <1>6, <1>7, <1>8, <1>9 DEF Next, Exit, Sleep

(* current_process names the idle process for ever.                        *)
THEOREM CurrentNeverMovesAlways == Spec => CurrentNeverMoves
<1>1. IInv /\ [Next]_vars => [current' = current]_vars
  BY StepFacts
<1> QED BY <1>1, Inductive, PTL DEF Spec, CurrentNeverMoves

(* A thread gets the CPU by a switch at most once: the first time.         *)
THEOREM SwitchesAreFirstAlways == Spec => SwitchesAreFirst
<1>1. IInv /\ [Next]_vars =>
        [cpu' # cpu => pcb[cpu'].state = "READY" /\ pcb[cpu'].ctx = Fresh(cpu')]_vars
  BY StepFacts
<1> QED BY <1>1, Inductive, PTL DEF Spec, SwitchesAreFirst

(* No process but the idle one ever leaves RUNNING.                        *)
THEOREM RunningForeverAlways == Spec => RunningForever
<1>1. IInv /\ [Next]_vars =>
        [\A p \in DOMAIN pcb \ {Idle} :
            pcb[p].state = "RUNNING" => pcb'[p].state = "RUNNING"]_vars
  BY StepFacts
<1> QED BY <1>1, Inductive, PTL DEF Spec, RunningForever
=============================================================================
