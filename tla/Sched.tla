------------------------------- MODULE Sched -------------------------------
(***************************************************************************)
(* Processes and the scheduler: kernel/task.c and the process calls of     *)
(* kernel/syscall.c, on one CPU.                                           *)
(*                                                                         *)
(* A PCB and a thread of execution are different things here.  A PCB is    *)
(* what task_create allocates, named by its pid.  A thread is what runs on *)
(* a kernel stack, named by the PCB whose stack it is; cpu is the one      *)
(* running now.  current_process is a global the code believes to be the   *)
(* running thread's PCB.  schedule() assigns it only after context_switch  *)
(* returns (task.c:167), that is when the thread that was switched out     *)
(* runs again, and from that thread's own local variable next.             *)
(*                                                                         *)
(* context_switch is taken at its word (task.c:161): it leaves the running *)
(* thread's registers in the PCB it is given first and continues with what *)
(* the second PCB holds.  Registers are a saved context [thread, next,     *)
(* inTick]: whose stack, the local next of its schedule() frame (0 if it   *)
(* has never run and has no such frame), and whether that frame was called *)
(* from timer_tick.                                                        *)
(***************************************************************************)
EXTENDS Integers, FiniteSets, Sequences

CONSTANTS
    MAX_PROCESSES,  \* slots of the process table
    MaxChildren,    \* the 64 entries of a children array
    PreemptTicks,   \* timer_tick yields every so many ticks
    TimerOn,        \* whether IRQ 0 is delivered at all
    MaxPid,         \* bound: processes are created up to this pid
    MaxSleep        \* bound: longest sleep in ticks

ASSUME SchedAssumption ==
    /\ MAX_PROCESSES \in Nat \ {0}
    /\ MaxChildren \in Nat
    /\ PreemptTicks \in Nat \ {0}
    /\ TimerOn \in BOOLEAN
    /\ MaxPid \in Nat \ {0}
    /\ MaxSleep \in Nat

VARIABLES
    pcb,            \* pid -> [state, ppid, children, sleep, ctx], of every PCB
    processes,      \* the table: slot -> pid, 0 for NULL
    process_count,
    next_pid,
    current,        \* current_process, as a pid
    cpu,            \* the thread that is running
    pc,             \* thread -> the call it is in
    tick_count,     \* timer_tick's static counter
    interrupts,     \* the CPU's interrupt flag
    inService       \* the PIC has IRQ 0 in service: no end-of-interrupt yet

vars == <<pcb, processes, process_count, next_pid, current, cpu, pc,
          tick_count, interrupts, inService>>

Idle == 1
NULL == 0
Any == -1       \* sys_waitpid's pid for "any child"
Slots == 1 .. MAX_PROCESSES
Pids == 1 .. MaxPid

(* Mutant: a new stack is laid out as if it had called schedule().         *)
FreshWithFrame(p) == [thread |-> p, next |-> p, inTick |-> FALSE]

Fresh(p) == [thread |-> p, next |-> NULL, inTick |-> FALSE]

NewPcb(p, parent) ==
    [state |-> "READY", ppid |-> parent, children |-> << >>, sleep |-> 0,
     ctx |-> Fresh(p)]

-----------------------------------------------------------------------------
(* task_init: the idle PCB is created and stands for the boot thread.      *)
Init ==
    /\ pcb = [p \in {Idle} |-> [NewPcb(Idle, 0) EXCEPT !.state = "RUNNING"]]
    /\ processes = [s \in Slots |-> IF s = 1 THEN Idle ELSE NULL]
    /\ process_count = 1
    /\ next_pid = 2
    /\ current = Idle
    /\ cpu = Idle
    /\ pc = [p \in {Idle} |-> "run"]
    /\ tick_count = 0
    /\ interrupts = TRUE
    /\ inService = FALSE

(* The first NULL slot takes the new PCB.                                  *)
IsFirstFree(s) == processes[s] = NULL /\ \A r \in 1 .. s - 1 : processes[r] # NULL

(* What task_create leaves behind when it succeeds, given the PCB table    *)
(* with the new process in it.                                             *)
Created(p, table) ==
    /\ pcb' = table
    /\ pc' = [q \in DOMAIN pcb \cup {p} |-> IF q = p THEN "run" ELSE pc[q]]
    /\ processes' = [s \in Slots |-> IF IsFirstFree(s) THEN p ELSE processes[s]]
    /\ process_count' = process_count + 1
    /\ next_pid' = p + 1

WithPcb(p, parent) ==
    [q \in DOMAIN pcb \cup {p} |-> IF q = p THEN NewPcb(p, parent) ELSE pcb[q]]

CanCreate ==
    /\ pc[cpu] = "run"
    /\ process_count < MAX_PROCESSES
    /\ next_pid <= MaxPid

TaskCreate ==
    /\ CanCreate
    /\ Created(next_pid, WithPcb(next_pid, 0))
    /\ UNCHANGED <<current, cpu, tick_count, interrupts, inService>>

(* Mutant: process_count is not taken back when there is no stack.         *)
TaskCreateNoStackCounted ==
    /\ CanCreate
    /\ next_pid' = next_pid + 1
    /\ process_count' = process_count + 1
    /\ UNCHANGED <<pcb, processes, current, cpu, pc, tick_count, interrupts, inService>>

(* The kernel stack cannot be allocated: the PCB is freed, its pid is not  *)
(* given back.  A refused PCB changes nothing.                             *)
TaskCreateNoStack ==
    /\ CanCreate
    /\ next_pid' = next_pid + 1
    /\ UNCHANGED <<pcb, processes, process_count, current, cpu, pc,
                   tick_count, interrupts, inService>>

(* Mutant: the children array is taken to have one entry more.             *)
ForkOneMore(listed) ==
    /\ CanCreate
    /\ listed
    /\ Len(pcb[current].children) <= MaxChildren
    /\ Created(next_pid, [WithPcb(next_pid, current) EXCEPT
                            ![current].children = Append(@, next_pid)])
    /\ UNCHANGED <<current, cpu, tick_count, interrupts, inService>>

(* sys_fork records the child in the parent's list while the list has room *)
(* and, the first time, if the array can be allocated (listed).  The       *)
(* registers it copies (syscall.c:167-174) are those the parent's PCB has  *)
(* saved, not the calling thread's, and rsp is not among them: they are    *)
(* left out, and the child starts on its new stack without a frame.        *)
Fork(listed) ==
    /\ CanCreate
    /\ ~listed => pcb[current].children = << >> \/ Len(pcb[current].children) >= MaxChildren
    /\ listed => Len(pcb[current].children) < MaxChildren
    /\ LET table == WithPcb(next_pid, current)
       IN  Created(next_pid,
                   IF listed
                   THEN [table EXCEPT ![current].children = Append(@, next_pid)]
                   ELSE table)
    /\ UNCHANGED <<current, cpu, tick_count, interrupts, inService>>

-----------------------------------------------------------------------------
(* schedule()                                                              *)

(* The slot schedule() looks at in its d-th iteration.                     *)
SlotAfter(s, d) == ((s - 1 + d) % MAX_PROCESSES) + 1

(* The current process has just been made READY, whatever it was.          *)
ReadySlot(table, s) ==
    /\ processes[s] # NULL
    /\ processes[s] = current \/ table[processes[s]].state = "READY"

(* Mutant: the search starts at the first slot, not after the current one. *)
IsNextFromStart(table, next) ==
    \E s \in Slots : /\ processes[s] = next
                      /\ ReadySlot(table, s)
                      /\ \A r \in 1 .. s - 1 : ~ReadySlot(table, r)

(* Round robin: next is the first READY process after the current one; the *)
(* last one looked at is the current one itself, so there always is one.   *)
IsNext(table, next) ==
    \E s \in Slots, d \in Slots :
        /\ processes[s] = current
        /\ processes[SlotAfter(s, d)] = next
        /\ ReadySlot(table, SlotAfter(s, d))
        /\ \A e \in 1 .. d - 1 : ~ReadySlot(table, SlotAfter(s, e))

(* Thread t is back from yield(): kernel_main's loop halts until the next  *)
(* interrupt, sys_exit goes on to its halt loop, the calls that blocked    *)
(* return to their caller.                                                 *)
AfterYield(t, call) ==
    IF call = "exit" THEN "halted"
    ELSE IF t = Idle /\ call = "run" THEN "hlt"
    ELSE "run"

(* What a thread does when the interrupt it was interrupted by returns.    *)
Woken(call) == IF call = "hlt" THEN "run" ELSE call

(* schedule() and what follows it on the stack that runs next: yield's     *)
(* enable_interrupts, and send_eoi when the frame below is timer_tick's.   *)
(* A thread that has never run has no frame below it: it starts with       *)
(* interrupts off and nobody assigns current_process.  The new CR3 that    *)
(* switch_address_space loads before the switch (task.c:159) is left out.  *)
Schedule(table, inTick) ==
    \E next \in DOMAIN pcb :
      /\ IsNext(table, next)
      /\ LET frame == [thread |-> cpu, next |-> next, inTick |-> inTick]
             to == IF next = current THEN frame ELSE table[next].ctx
         IN  /\ pcb' = [p \in DOMAIN pcb |->
                          [table[p] EXCEPT
                             !.state = IF p = next THEN "RUNNING"
                                       ELSE IF p = current THEN "READY" ELSE @,
                             !.ctx = IF p = current /\ next # current
                                     THEN frame ELSE @]]
             /\ cpu' = to.thread
             /\ current' = IF to.next = NULL THEN current ELSE to.next
             /\ interrupts' = (to.next # NULL)
             /\ inService' = IF to.inTick THEN FALSE ELSE inTick \/ inService
             /\ pc' = [pc EXCEPT ![to.thread] =
                         IF to.inTick THEN Woken(@) ELSE AfterYield(to.thread, @)]

(* yield(), called by kernel_main's loop or sys_yield, or by a call that   *)
(* has just marked current_process BLOCKED or TERMINATED.                  *)
Yield ==
    /\ pc[cpu] \notin {"hlt", "halted"}
    /\ Schedule(pcb, FALSE)
    /\ UNCHANGED <<processes, process_count, next_pid, tick_count>>

(* Mutant: a blocked process that is not asleep is counted down too.       *)
CountedDownBelowZero ==
    [p \in DOMAIN pcb |->
       IF pcb[p].state = "BLOCKED" THEN [pcb[p] EXCEPT !.sleep = @ - 1] ELSE pcb[p]]

(* timer_tick: sleeping processes are counted down, and every PreemptTicks *)
(* ticks the running thread yields from inside the interrupt.              *)
CountedDown ==
    [p \in DOMAIN pcb |->
       IF pcb[p].state = "BLOCKED" /\ pcb[p].sleep > 0
       THEN [pcb[p] EXCEPT !.sleep = @ - 1,
                           !.state = IF pcb[p].sleep = 1 THEN "READY" ELSE @]
       ELSE pcb[p]]

TimerTick ==
    /\ TimerOn
    /\ interrupts
    /\ ~inService
    /\ UNCHANGED <<processes, process_count, next_pid>>
    /\ \/ /\ tick_count + 1 < PreemptTicks
          /\ tick_count' = tick_count + 1
          /\ pcb' = CountedDown
          /\ pc' = [pc EXCEPT ![cpu] = Woken(@)]
          /\ UNCHANGED <<current, cpu, interrupts, inService>>
       \/ /\ tick_count + 1 >= PreemptTicks
          /\ tick_count' = 0
          /\ Schedule(CountedDown, TRUE)

(* The keyboard's interrupt, the one keyboard_init unmasks, is only        *)
(* acknowledged; it does end a hlt.                                        *)
KeyboardInterrupt ==
    /\ interrupts
    /\ ~inService
    /\ pc[cpu] = "hlt"
    /\ pc' = [pc EXCEPT ![cpu] = "run"]
    /\ UNCHANGED <<pcb, processes, process_count, next_pid, current, cpu,
                   tick_count, interrupts, inService>>

-----------------------------------------------------------------------------
(* Mutant: a call forgets to yield after its mark.                         *)
MarkWithoutYield(state, sleep, call) ==
    /\ pc[cpu] = "run"
    /\ pcb' = [pcb EXCEPT ![current].state = state, ![current].sleep = sleep]
    /\ UNCHANGED <<processes, process_count, next_pid, current, cpu, pc,
                   tick_count, interrupts, inService>>

(* The calls that give the CPU up mark current_process first and yield     *)
(* afterwards, with interrupts on in between.                              *)
Mark(state, sleep, call) ==
    /\ pc[cpu] = "run"
    /\ pcb' = [pcb EXCEPT ![current].state = state, ![current].sleep = sleep]
    /\ pc' = [pc EXCEPT ![cpu] = call]
    /\ UNCHANGED <<processes, process_count, next_pid, current, cpu,
                   tick_count, interrupts, inService>>

Exit == Mark("TERMINATED", pcb[current].sleep, "exit")

Sleep(ticks) == Mark("BLOCKED", ticks, "sleep")

(* sys_waitpid: a terminated child is taken off the list; a live one, or   *)
(* no terminated one when any will do, blocks the caller; a pid that is    *)
(* not in the list is an error.  The PCB of a reaped child would be freed  *)
(* but stay in the table: no behaviour gets there (MarksAreBrief).         *)
Listed(q) == {i \in DOMAIN pcb[current].children :
                /\ pcb[current].children[i] # NULL
                /\ q \in {Any, pcb[current].children[i]}}

Zombies(q) == {i \in Listed(q) : pcb[pcb[current].children[i]].state = "TERMINATED"}

Waitpid(q) ==
    /\ pc[cpu] = "run"
    /\ q = Any \/ Listed(q) # {}
    /\ IF Zombies(q) = {}
       THEN Mark("BLOCKED", pcb[current].sleep, "wait")
       ELSE /\ \E i \in Zombies(q) :
                 /\ \A j \in Zombies(q) : i <= j
                 /\ pcb' = [pcb EXCEPT ![current].children[i] = NULL]
            /\ UNCHANGED <<processes, process_count, next_pid, current, cpu, pc,
                           tick_count, interrupts, inService>>

-----------------------------------------------------------------------------
Next ==
    \/ TaskCreate
    \/ TaskCreateNoStack
    \/ \E listed \in BOOLEAN : Fork(listed)
    \/ Yield
    \/ TimerTick
    \/ KeyboardInterrupt
    \/ Exit
    \/ \E ticks \in 0 .. MaxSleep : Sleep(ticks)
    \/ \E q \in Pids \cup {Any} : Waitpid(q)

Spec == Init /\ [][Next]_vars

(* Threads keep yielding, as kernel_main's loop does (main.c:165), and the *)
(* timer's interrupts wake that loop from its hlt (main.c:168).            *)
Cooperative == Spec /\ WF_vars(Yield) /\ WF_vars(TimerTick)

-----------------------------------------------------------------------------
States == {"RUNNING", "READY", "BLOCKED", "TERMINATED"}
Calls == {"run", "hlt", "wait", "sleep", "exit", "halted"}
Context == [thread : DOMAIN pcb, next : DOMAIN pcb \cup {NULL}, inTick : BOOLEAN]
PcbType == [state : States, ppid : DOMAIN pcb \cup {0}, children : Seq(DOMAIN pcb \cup {NULL}),
            sleep : Nat, ctx : Context]

TypeOK ==
    /\ DOMAIN pcb \subseteq Pids
    /\ pcb \in [DOMAIN pcb -> PcbType]
    /\ pc \in [DOMAIN pcb -> Calls]
    /\ processes \in [Slots -> DOMAIN pcb \cup {NULL}]
    /\ process_count \in Nat
    /\ next_pid \in Nat
    /\ current \in DOMAIN pcb
    /\ cpu \in DOMAIN pcb
    /\ tick_count \in 0 .. PreemptTicks - 1
    /\ interrupts \in BOOLEAN
    /\ inService \in BOOLEAN

(* The process table, process_count and next_pid agree, also when          *)
(* task_create fails half way: every PCB has one slot, the count is the    *)
(* number of used slots, and no pid is handed out twice.                   *)
TableConsistent ==
    /\ process_count = Cardinality({s \in Slots : processes[s] # NULL})
    /\ \A p \in DOMAIN pcb : p < next_pid /\ \E s \in Slots : processes[s] = p
    /\ \A r, s \in Slots : processes[r] = processes[s] => r = s \/ processes[s] = NULL

(* current_process is never assigned once task_init has set it: every      *)
(* system call of every thread reads and changes the idle process's PCB.   *)
CurrentNeverMoves == [][current' = current]_vars

(* A context switch only ever goes to a process that has not run before:   *)
(* no thread that was switched out gets the CPU back, because its context  *)
(* lies in the idle PCB, which is never the next one.                      *)
SwitchesAreFirst ==
    [][cpu' # cpu => pcb[cpu'].state = "READY" /\ pcb[cpu'].ctx = Fresh(cpu')]_vars

(* BLOCKED and TERMINATED last only from the mark a call leaves on         *)
(* current_process to the call's own yield: schedule() overwrites both.    *)
(* So sys_waitpid finds no terminated child, and nothing stays asleep.     *)
MarksAreBrief ==
    \A p \in DOMAIN pcb :
        pcb[p].state \in {"BLOCKED", "TERMINATED"} =>
            p = current /\ pc[cpu] \in {"wait", "sleep", "exit"}

(* A process that has been dispatched stays RUNNING for good: whoever the  *)
(* CPU goes to next, only the idle PCB is made READY in exchange.          *)
RunningForever ==
    [][\A p \in DOMAIN pcb \ {Idle} :
          pcb[p].state = "RUNNING" => pcb'[p].state = "RUNNING"]_vars

(* The children a process has are those it forked: each is in the list     *)
(* once, and is a later process than its parent.                           *)
FamilyTree ==
    \A p \in DOMAIN pcb :
        LET kids == pcb[p].children
        IN  /\ Len(kids) <= MaxChildren
            /\ \A i, j \in DOMAIN kids : kids[i] = kids[j] => i = j
            /\ \A i \in DOMAIN kids : kids[i] > p /\ pcb[kids[i]].ppid = p

StateOf(p) == IF p \in DOMAIN pcb THEN pcb[p].state ELSE "NONE"

(* While threads yield, every READY process gets the CPU, unless a thread  *)
(* first ends up in the halt loop of sys_exit.                             *)
ReadyIsDispatched ==
    \A p \in Pids :
        StateOf(p) = "READY" ~> StateOf(p) = "RUNNING" \/ pc[cpu] = "halted"

-----------------------------------------------------------------------------
(* What the code and its documents say, and the runs refute.               *)

(* "Round-robin scheduler" (README.md:70): while threads yield, a process  *)
(* that has run gets another turn.                                         *)
RoundRobin ==
    \A p \in Pids :
        StateOf(p) = "RUNNING" /\ cpu # p /\ pc[p] = "run"
            ~> cpu = p \/ pc[cpu] = "halted"

=============================================================================
