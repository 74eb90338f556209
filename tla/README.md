# A verification of NusantaraOS64

NusantaraOS64 is a small 64-bit kernel in C: a heap, page tables, processes
with a scheduler, inter-process communication, a keyboard and a console, a
virtual file system, and a user library with a shell.  This directory holds
TLA+ models of it, the TLC runs that check them on small instances, and proofs
that the most important properties hold for every size of table, heap or queue.
Source paths are relative to `NusantaraOS64/`; a `file.c:n` is a line there.

1. [The system](#1-the-system)
2. [Modules and the code they model](#2-modules-and-the-code-they-model)
3. [Runs](#3-runs)
4. [Fairness](#4-fairness)
5. [Proofs](#5-proofs)
6. [Where the code and its documents disagree](#6-where-the-code-and-its-documents-disagree)
7. [What is not modelled](#7-what-is-not-modelled)
8. [Plan](#8-plan)

## 1. The system

`kernel_main` (kernel/main.c:16) initialises everything in a fixed order
(console, heap, paging, interrupts, tasks, framebuffer, keyboard, VFS, block
device), enables interrupts, creates three processes that have no entry point,
and then loops for ever: read a key if there is one, obey it, `yield()`, halt
until the next interrupt.

| Component | State | Operations | Talks to |
|---|---|---|---|
| Heap, `kernel/memory.c` | the list of blocks in `heap[]` | `memory_init`, `kmalloc`, `kfree` | called by tasks, fork, waitpid, ELF, paging |
| Processes and scheduler, `kernel/task.c`, `kernel/syscall.c` | PCBs, `processes[]`, `process_count`, `next_pid`, `current_process`, the tick counter | `task_create`, `schedule`, `yield`, `timer_tick`, `sys_fork`, `sys_waitpid`, `sys_exit`, `sys_sleep` | the heap for PCBs and stacks; the interrupt handler calls it; ipc yields through it |
| Interrupts, `kernel/interrupt.c`, `boot/kernel_entry.S` | IDT, the PIC's masks and in-service bits | `interrupt_init`, `interrupt_handler`, `send_eoi` | `timer_tick` |
| IPC, `kernel/ipc.c` | `mutex_table`, `sem_table`, `shm_table`, three id counters, `ipc_lock`; in each PCB `held_mutexes`, `shm_regions`, `msg_queue` | create/lock/unlock, create/wait/post, create/attach/detach, send/receive | `current_process`, `yield` |
| Paging, `kernel/paging.c` | page tables, the next free frame | map, unmap, translate, new and other address space | called by the ELF loader, `task_create`, `schedule` |
| ELF loader, `kernel/elf.c` | the frames and mappings a load leaves | validate, load, run | heap, paging |
| Keyboard, `drivers/keyboard.c` | modifiers, a ring of 256 characters | interrupt handler, getchar, trygetchar, readline | console |
| Console, `kernel/console.c` | the cursor, the screen | putchar, print, clear | everyone |
| VFS, `fs/vfs.c` | 256 descriptors, `next_fd`, mount points, readdir's index | open, read, write, close, stat, readdir, mount, unmount | initramfs, keyboard, console |
| Block device, `fs/block.c` | device table, `ahci_base` | init, read, write | none: `ahci_base` is never set |
| Libraries, `lib/` | the bump pointer of `nusa_malloc` | strings, formatting, allocation, pixels | system calls |
| User programs, `user/` | the shell's arguments | parser, built-in commands | the library |

### What is hard

* **Who is running.**  `current_process` is assigned after `context_switch`
  returns (task.c:167), on the stack of the thread that was switched *out*, with
  that thread's local variable.  A thread that has never run has no such frame.
* **An interrupt in the middle.**  A call marks the current process BLOCKED or
  TERMINATED and yields afterwards, with interrupts on in between; `timer_tick`
  may itself yield, before the end of interrupt is sent.
* **Blocking under a lock.**  The IPC calls hold `ipc_lock`, a spin lock,
  release it and then yield; nobody wakes a waiter (ipc.c:171, 258).
* **Parallel bookkeeping.**  A mutex's owner and its owner's `held_mutexes`, a
  region's processes and a process's regions, the process table and its count:
  each pair has limits of its own, where one side is recorded and the other is
  not.
* **A list rewritten while it is walked.**  `kfree` merges blocks under its own
  cursor.
* **An interrupt under a reader.**  The keyboard's handler fills the ring that a
  reader empties, and a reader tests the ring and halts afterwards, with
  interrupts on in between.
* **Tables in memory.**  A page table is an array in a frame; its 512 entries of
  10 bytes do not fit, and what is written past its end is the next table's.
* **A block as a frame.**  The loader maps pages to blocks of `kmalloc`, which
  begin in the middle of a frame, behind their headers.
* **Half a load, half a mount.**  `elf_load` and `vfs_mount` fail after they
  have changed something; open files keep pointers into the mount table.
* **An error that looks like a descriptor.**  vfs.c returns the negation of
  negative error codes (fs/vfs.c:73-107), so callers that test for less than 0
  never see one.
* **Limits**: of the process table, wait queues, held lists, semaphore values,
  descriptors, the keyboard ring, the heap.

For each component, the properties that make it correct:

* heap: blocks tile the heap, no free neighbours between calls, no overlap of
  what is handed out, refusal only when there is no room, both loops end;
* processes: table, count and pids agree through every failure; each READY
  process runs and, having run, runs again; a mark lasts as long as what it
  means; fork's lists are trees;
* IPC: an id names one object for good; owner, flag and list agree; nobody
  waits for what is there; a call that returns has what it returned for;
* keyboard and console: what is typed is read in order or dropped whole, the
  cursor is on the screen at every write;
* VFS: a descriptor is one file from open to close, a failed operation leaves
  nothing behind, a listing returns each entry once;
* paging and ELF: a page is where it was mapped last, a program has its stack and
  leaves the kernel's memory alone, a failed load leaves nothing;
* libraries: the functions compute what their standard namesakes compute.

`PROJECT.json` lists the hazards one by one, with the line where each bites and
the properties that watch it.

## 2. Modules and the code they model

| Module | Models |
|---|---|
| `Alloc` | what callers may expect of `kmalloc` and `kfree`: abstract, no list |
| `Heap` | kernel/memory.c:9-101; implements `Alloc` |
| `Sched` | kernel/task.c:29-220, the process calls of kernel/syscall.c:151-309, `sys_sleep`, the yield and halt of kernel_main's loop (kernel/main.c:164-168), the timer and keyboard cases of kernel/interrupt.c:132-142 |
| `Mutex`, `Semaphore`, `SharedMemory` | kernel/ipc.c:66-177, 183-265, 341-465, with `ipc_init` |
| `IpcTable`, `WaitQueue` | what the three have in common: slots with an id, taken by the first search that finds one; queues of callers that yield |
| `Lists` | the counted arrays of ipc.c: search, and removal of the first match |
| `Descriptors` | what fs/vfs.c promises of a descriptor: abstract, no mounts and no limits |
| `Vfs` | fs/vfs.c:20-443 over its initramfs, the file calls of kernel/syscall.c; implements `Descriptors` |
| `BoundedQueue` | what drivers/keyboard.c promises of what is typed: abstract |
| `Keyboard` | drivers/keyboard.c:77-231: the interrupt handler and the ring |
| `Console` | kernel/console.c:15-98: where the cursor goes |
| `Terminal` | the readers: kernel/main.c:92-169, drivers/keyboard.c:206-267, the character loop of user/shell.c:286-329 and the console calls of kernel/syscall.c; extends `Keyboard` and `Console`, implements `BoundedQueue` |
| `Paging` | kernel/paging.c:10-195, tables in memory |
| `Loader` | kernel/elf.c:76-279; extends `Paging`, uses `Descriptors` |
| `Shell` | user/shell.c: editing, parsing, executing; uses `Descriptors` |
| `HeapProofs`, `SchedProofs`, `VfsProofs`, `TerminalProofs`, `LoaderProofs`, `ShellProofs` | the proofs, each about its module, `LoaderProofs` about `Paging` as well |
| `IpcProofs` | the proofs about `Mutex`, `Semaphore` and `SharedMemory` |
| `Lemmas` | lists without repetitions, counting, induction, functions defined by recursion, the digits of a number |
| `MCHeap`, `MCSched`, `MCMutex`, `MCSemaphore`, `MCSharedMemory`, `MCVfs`, `MCTerminal`, `MCLoader`, `MCShell` | the instances TLC checks |

The components meet in three ways.  Keyboard and console share no variable with
anybody but their readers, so `Terminal` is their composition: three kinds of
reader, anybody else who writes, and the interrupt.  `Loader` composes the
loader with the page tables it fills.  Where a component calls the VFS it is
composed with the abstract `Descriptors`, and `Vfs` is proved to implement that:
what `Loader` and `Shell` are checked against is what the VFS promises.

### Heap

`blk` is the list: a function from the address of a header to its size, next
pointer and free flag.  Addresses count words of 8 bytes from `HeapBase`; header
size, alignment and split threshold are constants.  A call begins with
`KmallocCall` or `KfreeCall`, and each iteration of a loop is a step
(`KmallocSkip`, `KfreeMerge`, `KfreeAdvance`), so that properties can speak of a
walk half done.  `Live` is the set of pointers handed out and not freed, all a
caller passes to `kfree`: callers in task.c, syscall.c and elf.c free only what
they got, once.  Calls do not overlap.  The code takes no lock here, and
relies on IRQ 0 staying masked (interrupt.c:91); were the timer on, a tick that
switched threads inside `kmalloc` would leave a half-written split behind.

Sizes are natural numbers: that `(size + 15) & ~15` wraps within 15 of 2^64 is
outside the model, and no caller comes near.

`Alloc` says what an allocator promises: a granted extent, header included, lies
in the heap, overlaps no live one, and is not much longer than asked for; a
request is refused only when no gap between live extents would hold it.  `Heap`
implements it with the map `live` (payload address to size) and the pending
request as refinement mapping; walking and merging are stutters.

### Sched

A PCB and a thread are different things: a thread runs on a stack, and is named
by the PCB whose stack that is (`cpu`), while `current` is the PCB the code
believes to be running.  A saved context is a value `[thread, next, inTick]`:
whose stack, the local variable `next` of its `schedule()` frame (0 when there
is none, in a context that has never run), and whether a `timer_tick` frame lies
below, so that switching back would send the end of interrupt.  `Schedule`
models `schedule()`: the READY mark, the search from the slot after the current
one, the save into `current_process`'s PCB, the switch, and what the
thread that continues does at once: assign `current_process`, enable
interrupts, send the end of interrupt, go on from its yield.  `pc` holds the
call a thread is in, between its mark and its yield, in the idle loop's halt, or
in `sys_exit`'s last loop.

Two things are left out, on which no property depends: the new CR3 that
`switch_address_space` loads before the switch (task.c:159), and the registers
that `sys_fork` copies from the parent's PCB (syscall.c:167-174), which are those
saved there at some earlier switch.  rsp is not among them: the child starts on a
stack of its own, without a frame, and `Fork` gives it a context like any new
process's.

`context_switch` is taken at its word (task.c:161).  The assembly of
boot/kernel_entry.S:245-268, given the address of a PCB's `rbx`, saves RSP and a
return address where the PCB has `rflags` and `cr3`, and interrupt_handler takes
the interrupt number from a field where the entry code has pushed a general
register; modelling that would say only that nothing runs.  `Sched` shows what
remains wrong when they do what task.c asks of them.

The same goes for IRQ 0: interrupt_init masks it (interrupt.c:91) and nothing
unmasks it, so in the code as it stands the timer never ticks.  The constant
`TimerOn` says whether it is delivered.  The theorems hold for both values; the
runs set it to TRUE, which has every behaviour of FALSE and the ones the
documents describe.

Blocking calls of the IPC modules do to the PCB what `Mark("BLOCKED", ...)`
does here, as `sys_waitpid` does.

### Mutex, Semaphore, SharedMemory

The body of a call runs under `ipc_lock` and is one step; a lock or wait that
blocks is two, with a yield in between, recorded in `waiting`.  `Procs` are the
values `get_current_process()` may return to different callers.  `Sched` proves
that at present it always returns the idle process, so today's system has one
value here, and no process is ever another's rival; the modules are stated for
any set, because they are about the tables and not about that fault.  A process
makes one call at a time.  Threads that share the idle PCB, as all of today's
do, can both be in a call under its name, the one waiting in its yield while the
other calls; that is outside these modules.
A blocked caller may return at any time, because
`schedule()` makes it READY again whatever was marked, and because no unlock or
post wakes it.  The calls are reached by their numbers (syscall.c:86-135), and
kernel_main's key `i` makes some of them directly (main.c:125-149).

`held`, `attached` and `shm_regions` are sequences; the shifting loops are
`Removed` of `Lists`, the first match taken out.  In `SharedMemory` a name is a
model value and `Stored` says what the 31 characters kept of it are.

### Descriptors, Vfs

Each call of the VFS is one step: none blocks, and none is made from an
interrupt.  `open_files` keeps for each number whether it is open, its entry,
its position and the slot of its mount point, where the code has a pointer.
`mount_points` keeps a slot's path, type and operations.  The operations stay
when a slot is unmounted, and when a mount of an unsupported type takes the slot
and fails (vfs.c:405-421); that is why a file stays readable however mounts
change, which is `OpenFilesServed`.  `vfs_find_mount`'s search and its tie
break are `FindMount`, `initramfs_find_path`'s `FindPath`.

`vfs_readdir` keeps its place in a static variable.  A listing is `StartListing`
and then calls of `Readdir` with its own `dirent_t`, until `ReaddirEnds`; two
callers list at once in the run.  Each call advances the static index past
the entry it returns and once more, so a listing skips the entry behind each
one it returns.

A call that fails and changes nothing is left out; the exceptions, a failed
mount and a readdir that finds no more, change state and are steps.

`Descriptors` is the table a caller may rely on: a number is unused, then open on
one file, then closed for good.

### Keyboard, Console, Terminal

The interrupt handler is one step (interrupts are off while it runs) and may
come between any two steps of a reader.  A reader's loop is cut where the code
is: `TestFails` leads to `hlt`, `Halt` to `halted`, and only an interrupt leads
back to the test, so the key that arrives between test and halt is in the model.
Against this stands `BoundedQueue`: a character that is typed is appended unless
`Capacity` others wait, and lost only then.  `typed` flips with each character, so
that a character which is dropped early is not taken for a step of nobody's.
Each of the ring's indices is written by one side.  A cell that has been read
holds `NoChar`, so that reading it again would be noticed.

Three readers: kernel_main's loop, which polls and takes one key per
interrupt; `keyboard_readline`; the shell, which reads through `sys_read`.
`pos`, `origin` and `straight` follow the line that is being edited, and
`cursor` the console's.  `Put` is `console_putchar` as a function of the cursor;
the cells' contents are left out.

`interrupt_handler` has its call of `keyboard_handler` commented out
(interrupt.c:140), and IRQ 1 is unmasked: as the code stands every key is
acknowledged and lost.  `Keyboard` is the driver as it works once that line is
in, which is what every reader supposes.

### Paging, Loader

`mem` is physical memory in cells of two bytes.  A table begins at the page-aligned
address its frame has, and its entries take more than the frame: the fields of
`page_entry_t` are 76 bits, packed into 10 bytes (nusantara.h:249-263), so 512
take 5120 bytes, and what lies past 4096 is the next frame's, where the next table
is made.  `PagingAssumption` says just this: a frame is shorter than a table, two
frames are not, and a frame's end is three cells into an entry, as 4096 bytes are
in the code (409 entries and 6 bytes).  An entry is five cells: flags, three
with the frame's number, of which the model keeps what matters in the first and
lets the two others be 0 for any frame there is, and reserved bits that
`map_page` does not write.  An overlapping write thus does what it does in the
code: writing an entry clears the present bit of the entry that lies on its last
cells, or raises the high bits of that one's frame, which then leads to no frame
(`Wild`); clearing a table clears the end of the one before.

`Mapped` is `map_page`: three times `Descended`, which makes the table below when
there is none (`alloc_page_table` is `Cleared`), and the entry itself.  It always
walks the kernel's tables, also when `elf_load` maps a user page (elf.c:164).
`Translation` is `translate_address`; `Follow` says what the entries for a page
hold in a set of tables, which is empty once an entry on the way is not present.
`Boot` maps the pages of paging_init one by one.  `mapped` is a history variable:
the frame that the last call of `map_page` for a page was given.

`map_page` is guarded twice: three frames must be left for tables (the code does
not test; it would make tables of whatever lies there), and a walk that gets to
`Wild` goes no further, because what it then writes to is undefined.
`BootAssumption` is that neither happens in `paging_init`.  With the code's numbers it
holds: `pml4`, the unused `kernel_pdpt`, one table of the third and one of the
second level take frames 0 to 3, and the 256 last-level tables frames 4 to 259; above
the last level, index 0 and in the second level 0 to 255 are used, below the 409
that fit, so making tables never harms an entry that leads to a table.  The last
102 entries of each last-level table but one are lost when the next table is made, which is
`IdentityMapped`'s violation.  TLC evaluates the assumption for the run's numbers.

The processor reads entries of 8 bytes where the code has 10.  The model is about
the tables as paging.c itself reads them, in `map_page`, `unmap_page` and
`translate_address`, and copying a segment goes through `Translation`; what the
MMU would make of entries at other offsets is not modelled, nor is the TLB:
`map_page` does not flush it, so that a page mapped again may be used at its
earlier frame for a while.

A load is a sequence of steps, one per allocation or check that may fail: open,
buffer, read and close, task, validation, each page, and the writing of each
segment after its last page was mapped (`ProgramSteps`).  Each failure is a step
with its own clean-up.  Between loads, other programs use descriptors and others
map and unmap pages of the kernel.  In the code map_page's only callers are
`paging_init` and `elf_load`, and nobody calls `unmap_page`; `KernelMaps` and
`KernelFrames` stand for later callers, and may be empty.

A block of `kmalloc` is an address, with its header before it.  It is not aligned:
`map_page` drops the offset (paging.c:116), so the page begins where the block's
frame does, before the block, and `WriteSegment` may overwrite headers.  From
then on `intact` is FALSE, and `kmalloc` may give any block, also one that is in use.
(It might also not return; that is a stop.)  A segment is written at its own
addresses; a page that is not mapped there faults for ever, because the handler
prints and returns to the same instruction (interrupt.c:128), so such a load stops.

### Shell

A line is read key by key, parsed in place, and executed.  `cmd_buffer` keeps what
was erased behind `pos`, as in the code, and `Parsed` overwrites blanks in it
and stores positions, as `shell_parse_command` stores pointers.  Against this
stand `Edited`, `WordStarts` and `WordAt`, which say on sequences what editing
and splitting into words mean.  `OpenAnswers` has the positive error codes: 2 for a name that
does not exist, 3 for a full table, which `cat` and `ls` take for a descriptor
and close.

## 3. Runs

| Run | Checks | Bounds | Distinct states |
|---|---|---|---|
| `Heap` | `TypeOK`, `Tiling`, `Linked`, `Coalesced`, `FirstFit`, `CallReturns`, `ImplementsAlloc` | heap of 25 words, header 3, alignment 2, split threshold 2, requests of 0, 1, 2, 4, 7, 12, 40 words | 35,839 |
| `Sched` | `TypeOK`, `TableConsistent`, `MarksAreBrief`, `FamilyTree`, `CurrentNeverMoves`, `SwitchesAreFirst`, `RunningForever`, `ReadyIsDispatched` | 3 slots, pids up to 4, 1 child per list, a yield every 2 ticks, sleeps up to 2 ticks | 62,176 |
| `Mutex` | `IdSelectsItsMutex`, `Ownership`, `OwnerChanges` | 2 processes, 2 mutexes, queues of 2, held lists of 1 | 24,196 |
| `Semaphore` | `IdSelectsItsSemaphore`, `QueuedOnlyWhenEmpty` | 2 processes, 2 semaphores, queues of 2, limit 2, initial values -1, 0, 1, 3 | 17,096 |
| `SharedMemory` | `AttachedOnce`, `ListsAgree`, `NamesDiffer` | 2 processes, 3 regions, 3 names, neither list at its limit | 82,273 |
| `Vfs` | `TypeOK`, `OpenFilesServed`, `ListingAdvances`, `ImplementsDescriptors` | 2 listings, 2 numbers for files, 2 mount slots, 5 entries, 5 paths, 2 types | 331,540 |
| `Terminal` | `TypeOK`, `CursorOnScreen`, `LineOnScreen`, `ImplementsQueue`, `TypedIsRead` | ring of 3 cells, screen of 3 by 2, tab stop 2, lines of 3, five keys, 1 modifier down | 283,212 |
| `Loader` | `TypeOK`, `NeverElsewhere`, `NothingKept` | 4 levels of 8 entries in frames of 33 cells, 19 pages of 4096, 15 table frames of 20, 4 blocks, 2 processes, 2 descriptors, 2 files | 84,525 |
| `Shell` | `TypeOK`, `ArgumentsAreTyped`, `FilesGivenBack` | lines of 6 keys, buffer of 6, 3 arguments, 2 descriptors | 598,018 |
| `SchedRoundRobin`, `MutexReturn`, `PagingIdentity` | one property each, refuted: see section 6 | as above | |

The type invariants of `Mutex`, `Semaphore` and `SharedMemory`, the table of
region ids, and the heap's `WalkedOver` are proved (section 5) and have no run.

Why the bounds are enough:

* The heap of 25 words holds five blocks: three free neighbours in a row (the
  case in which a cursor that moves on after a merge goes wrong), blocks handed
  out whole because the rest is too small, refusals in a fragmented heap, and a
  request larger than the heap all occur.
* Three slots let the idle process, one that runs and one that waits exist
  together, and leave creation at a full table reachable; pid 4 needs an
  earlier creation to have failed.  A children list of one entry makes the
  second fork overflow it.  A yield every second tick distinguishes ticks that
  switch from those that do not.
* Two mutexes are the fewest for a search to pass over a used slot; a held list
  of one makes a process own a mutex its list has no room for, and a queue of
  two is filled by one process that waits twice.
* Initial values of -1 and 3 are below and above what waiting and posting reach.
* `SharedMemory` checks `ListsAgree` where neither limit is reached, as it
  states; section 5 proves it there for every size.
* Two numbers for files are opened, closed, and then used up.  Two mount slots
  let a mount come and go beside the root's, and the root's be unmounted and
  its slot be taken by a mount that fails.  Five entries give the root four
  children (the root entry is its own), enough for a listing to skip entries and
  end, and a directory below with one child.  Two listings are enough to disturb
  each other's index.
* A ring of three cells holds two characters, so that full, empty and wrapped
  are three different things.  On a screen of 3 by 2 a line wraps, scrolls, and
  reaches a last column that is not a tab stop.  A line of at most 3 reaches its
  limit before it wraps.  `MaxDown` of 1 bounds modifiers held at once; that
  both shifts are read is a disjunction without state.
* A table of eight entries of five cells ends seven cells into the next frame of 33:
  entry 6 reaches across and entry 7 lies beyond, as entries 409 and 410 to 511 do
  in the code.  The sixteen pages that `paging_init` maps fill two tables of the
  last level, page 16 needs a third, the stack at page 2046 tables of its own
  below the top, and the kernel's page 2496 lies in the upper half, which an
  address space copies; its page directory's entry lies upon the entry that leads
  to the page directory, so that the page is lost when it is first mapped.  The
  program's two segments share page 12, so it is mapped twice in one load, and
  programs are loaded over pages that a failed load left mapped.  The four blocks
  begin at four different offsets in their frames, and the first segment reaches a
  header.  Fifteen frames are the six of `paging_init` and enough for all tables
  these pages need beside an address space or two; with fewer than three left,
  `map_page` is no longer called.
* Six keys let two words, a blank before, between and behind, an erasure and
  a third word that is cut off occur in one line; the buffer of six is filled.

`SYMMETRY` is used for `Listers` and for the loader's `Callers`, in runs with
safety properties only.

`CHECK_DEADLOCK FALSE` is set three times.  In `Sched`, after `sys_exit` a thread that
gets no interrupt halts for good, and with all threads there, the system has
stopped.  In `Shell`, `reboot` and `shutdown` halt, and a line of `MaxKeys` keys
without Enter ends the run; the code has no such end.  In `Loader`, a segment
whose page is not mapped faults for ever.

`MaxPid`, `MaxSleep`, `MaxTables`, `Pages`, `MaxDown` and `MaxKeys` bound
creation, sleep, page tables, addresses, modifiers and keys; the other constants
are the code's own limits made small.

## 4. Fairness

* `Heap!FairSpec`: a call that has begun keeps running.  Nothing interrupts it
  while IRQ 0 is masked.
* `Sched!Cooperative`: weak fairness of `Yield` and of `TimerTick`.  That a
  thread yields is what kernel_main's loop does (main.c:165); of other threads it
  is a hypothesis, the one cooperative scheduling makes.  The loop's halt after
  its yield is ended by an interrupt, so the timer must be delivered, which again
  supposes IRQ 0 unmasked.  Without these no liveness property would hold of any
  scheduler; `ReadyIsDispatched` and `RoundRobin` are judged under the most
  favourable terms.
* `Terminal!FairSpec`: somebody begins to read when nobody does, a reader that can
  go on does, and an interrupt comes now and then.  The first two are
  kernel_main's loop and the shell's; nothing preempts them while IRQ 0 is
  masked.  The third is an assumption about whoever types: `TypedIsRead` says that
  a character is read *as long as keys go on being pressed or released*, and the
  mutant `InterruptUnseen` shows that without the next interrupt it need not
  be.  Weak fairness is enough: an interrupt is possible in every state.

The safety properties assume no fairness.

## 5. Proofs

All theorems are about every value of the constants that the modules' named
assumptions allow (tables of any size, heaps of any size and granularity, any
queue limits), and are proved from the specification; a theorem that needs more
states it as a hypothesis, which is named below.

**Heap.**  `HeapProofs!IInv` is `TypeOK /\ Tiling /\ Linked /\ Coalesced /\
WalkedOver`.  Tiling is not inductive by itself: splitting and merging add sizes
along list pointers, and keep the tiling only because each pointer leads to the
word after the block (`Linked`).  `Coalesced` holds between calls; during
`kfree` it is replaced by what the walk has settled behind the cursor
(`WalkedOver`), and the walk's end, cursor NULL, turns one into the other.
`FirstFit` follows from `WalkedOver` at the moment a block is taken.
`Refinement` maps each step to a step of `Alloc` or a stutter.  Its one hard
lemma, `FailMeansNoRoom`, shows that a failed search means no gap: since free
blocks are coalesced, a gap long enough would lie in one free block, which the
cursor has passed.

**Sched.**  `SchedProofs!IInv` adds to the checked invariants `Pinned`: the
current process is the idle one, and the contexts of all others are those they
were created with.  Switching away saves into the idle PCB only, so a context
that is switched *to* is always a fresh one, whose stack holds no `schedule()`
frame to assign `current_process`.  `CurrentNeverMoves`, `SwitchesAreFirst` and
`RunningForever` follow.  `MarksAreBrief` needs that only the idle PCB is ever
marked; `sys_waitpid` therefore finds no terminated child, which is also why the
step that reaps one is proved unreachable (`NoZombies`).  `TableConsistent`
counts used slots with the finite-set theorems.

**Mutex, Semaphore, SharedMemory** (`IpcProofs`).  `Ownership` is inductive with
`IdSelectsItsMutex` because a held list names only mutexes of its process, each
once, so that unlocking's removal of the first match removes the mutex from the
list (`Lemmas`).  `QueuedOnlyWhenEmpty` is inductive as it stands, over typed
slots, and so is `AttachedOnce`.  `ShortNamesDiffer` assumes `Stored[n] = n` for
every name, and fails without it.  A region's processes and a process's regions
agree as long as whoever attaches is recorded on both sides:
`ListsAgreeWhileRecorded` has that as its hypothesis, on the behaviour.

**Vfs.**  `VfsProofs!IInv` is `TypeOK /\ OpenFilesServed /\ ListingAdvances`, and
is inductive as it stands: mounting and unmounting keep a slot's operations
(`ServedStays`), an open takes a slot that has some (`FindMountFinds`, which
shows that the longest-prefix search with its tie break has an answer whenever
a mount covers the path), and numbers from `next_fd` on are closed.
`Refinement` maps a number to its stage, entry and position; `MappedStep` says
that a step which touches one number changes the mapped table there only.

**Terminal.**  `TerminalProofs!Parts` says the invariants part by part, with
`Idle`: a line that nobody edits is empty.  `LineOnScreen` needs it when a call
begins, and needs the cursor to be on the screen when a character is
rubbed out (`RubOutMoves`).  The ring is written with remainders, which the
provers handle badly; `Remainders` rewrites the index arithmetic by cases once, and
`RingAppends` and `RingTakes` say of any ring what the handler and a
reader do to the queue it holds.  `Refinement` follows: the handler's step is
`Put`, also when it drops the character, or a key without one and no step; a
reader's is `Get` or none.
The assumptions are that keys of different kinds differ and that space and
backspace are not each other's or a newline's character.

**Shell.**  `ShellProofs!IInv` is `TypeOK /\ LineInv /\ FilesInv`.  `LineInv`
keeps the end of the line within the buffer and ended by a zero, and says of the
parser what is true in the middle of a round.  `FilesInv` says that a file which
no other program opened is the one the command in hand opened, and that it is
closed when the command is over: closing a number, even one that `sys_open`
never gave, can only take from what is open.  `ArgumentsAlwaysTyped` needs
`WordsInv`: while a line is read, the buffer shows `Edited` of what was typed;
afterwards there are a line and a state of the parser in which each argument
found so far is a word of the line, in order, and either the words are all found
or the limit is reached.  `Parsed` is a function defined by recursion on its
rounds.  `RecursionExists` shows that such a function exists and satisfies its
equation, and `SetInduction` proves what each round preserves (the set of rounds
after which it holds contains 0 and with n also n + 1), so no induction theorem
with an operator parameter is used.  The assumptions are that the space is
printable, that the tab is a control character, and that no printable character
is one that the reader treats otherwise.

**Loader.**  `LoaderProofs!IInv` is conjoined of `PagingType`, `LoadType`,
`FilesInv`, `ProcInv`, `BufferInv` and `BlocksInv`.  `LoaderTypeCorrect` shows
that what tables hold stays a frame number although tables are written over
each other's ends: `MappedFacts` says that `map_page` writes only 0, 1, the frame
it is given, and numbers of frames it took.  `NothingEverKept` follows each way
out of `elf_create_process` to `FilesInv`: between `vfs_open` and `vfs_close`, at
most `fd` is open beyond what was open before, and afterwards nothing is.

**Paging** (also in `LoaderProofs`).  `NeverFoundElsewhere` is `NeverElsewhere` for
every fan-out, memory and set of pages with tables as the code's: too large
for a frame, by no more than a frame, and offset by three cells.  That a page
can be lost is `IdentityMapped`'s violation; the theorem says that this is the
worst, whatever is mapped, unmapped, created and loaded.

- `Overlap` says where the cells of two tables coincide: the first three
  cells of an entry lie on the last three of an entry of the next table, and its
  last two on the first two of the entry behind.  So what writing an entry, clearing a table,
  erasing or copying does to another table's entry is to make it absent, or to
  raise the high bits of its frame (`EntryWritten`, `EntryCleared`, `EntryErased`,
  `EntryCopied`): it *fades* (`Fades`), and never becomes another frame that exists.
- `Forest` is the invariant: each table that was taken has a level and a page it
  was made for, and an entry above the last level leads, if anywhere, to a table
  of the level below whose page has that index and the same ones above.
  Since entries only fade, a step keeps it (`ForestFades`, `TableMade`), and a walk
  ends at the frame where it ended before or nowhere (`AllFades`).
- The four indices of a page determine it (`IndicesDiffer`, by `DigitsEqual`), so
  two pages never use one entry of the last level, and `map_page` moves the page it
  is called for (`MappedMaps`).
- `translate_address` is shown to follow the walk (`TranslationIsWalk`), and
  `paging_init`, a recursive function, to map each page to itself or lose it, by
  induction on the pages it has mapped (`BootWalks`).

`BootAssumption` is assumed as the module states it; section 2 says why the code's
numbers satisfy it.

**Only model-checked**: `CallReturns`, `ReadyIsDispatched` and `TypedIsRead`,
liveness under fairness, which is beyond the prover.  Every invariant and action
property of a passing run is a theorem.

## 6. Where the code and its documents disagree

Refuted by a run each:

* `RoundRobin` (README.md:70, "Round-robin scheduler"): a process that has run
  does not get a second turn.  In the counterexample the
  boot thread yields to a new process; that one yields, the search finds the
  idle PCB READY, takes it for the running process because `current_process`
  still names it, and switches to nobody.  Any later process that is switched
  out is lost as well: its registers go over the idle PCB's, and its own PCB
  stays RUNNING, which the search passes over.
* `LockReturnsOwner` (ipc.c:116, "Akan return setelah mendapat lock"):
  `sys_mutex_lock` returns 0 to a waiter that has not got the mutex.
* `IdentityMapped` (paging.c:52, "Set up identity mapping for kernel (first
  512 MB)"): the fields of `page_entry_t` are 76 bits, packed into 10 bytes
  (nusantara.h:249-263), so 512 of them take 5120 bytes of a frame of 4096.  Each
  table made during `paging_init` is cleared and filled over the end of the table
  before it, and pages that were mapped no longer are.

Visible in the same models, without a run of their own:

* *Processes.*  A new process starts with interrupts off, because
  `enable_interrupts` in `yield` (task.c:177) is reached only by a thread that
  has a frame to come back to, and nobody loads the flags of task.c:87: no tick
  preempts it, against README.md:63 ("Timer interrupt untuk preemptive
  scheduling").  If `timer_tick` switched to it, the end of interrupt is missing
  too (interrupt.c:134-135).  `get_current_process` ("Get current running
  process", task.c:181) always answers the idle process; `sys_exit` may come
  back from its yield (syscall.c:305, "Should not reach here"); a sleep lasts
  until the next yield and not its time.
* *IPC.*  `sys_sem_wait` returns 0 without a unit; a lock beyond 16 is not tracked
  (ipc.c:123); attaching a region again answers address 0 and not the address of
  the first attach (ipc.c:402); with `attached_procs` full, a region is recorded
  twice in the process and removed once (ipc.c:407, 450); two names that share
  their first 31 characters can both be created (ipc.c:350).
* *Files.*  `sys_open` and its callers test for less than 0 and vfs.c answers 2,
  3 or 5 (syscall.c:375).  The root mount covers `/` and what begins with `//`
  only, because `vfs_find_mount` wants a slash after the mount's path
  (vfs.c:218): `/README`, which vfs_test opens (vfs.c:476-508), is not found.
  Numbers are used up by 253 opens in all.  A listing skips the entry behind each
  one it returns (vfs.c:371-380).  A failed mount keeps its slot.
* *Keyboard.*  The call of `keyboard_handler` is commented out (interrupt.c:140).
  No key yields 3 or 127, which the shell looks for.  A reader that waits
  does not yield, whatever syscall.c:361 says.  kernel_main takes one key per
  interrupt, so that with a full ring it never catches up.
* *Loading.*  User pages are mapped in the kernel's tables and not the process's
  (elf.c:164).  A failed `elf_load` leaves a READY process that points nowhere,
  and its pages mapped.  Segments that share a page lose what the first put
  there.  "Alokasi frame fisik menggunakan kmalloc" (elf.c:156) takes a block for a
  frame: what is written to the page overwrites the block's header and what lies
  before it, which in `Loader` is `intact` becoming FALSE.  Most tables made after a
  page was mapped may lose it.  The stack pointer is not in the "Tengah halaman"
  (elf.c:207) of the page mapped for it: USER_STACK_TOP is the last byte of a page
  (elf.c:38), so `user_stack` is the last byte of page 0x7FFFFFFFE, which is
  mapped, and rsp, 0x7FFFFFFFF7FF, lies on the page behind.
* *Shell.*  `cat` prints nothing, since `sys_read` refuses every descriptor but 0;
  the shell's waitpid always fails.

## 7. What is not modelled

* IPC messages: `sys_msg_send` reports success and delivers nothing
  (ipc.c:293), so there is no queue to speak of; what `sys_msg_recv` does to a
  PCB, `Sched` has.
* `ipc_lock` together with the scheduler: the IPC modules take a critical
  section as one step, so a tick that switches away inside one is not in them.
* The processor's side of paging: CR0 and CR3, so that `switch_address_space`,
  which `schedule` calls (task.c:159), has no effect in `Sched`; the TLB and
  `flush_tlb`, which has no caller; flags of an entry other than present.
* What screen cells hold, colours, and `console_printf`'s formatting.
* String functions and the user library: loops and one counter, without state
  that anybody shares; better served by tests at their own widths.
* Block device: `ahci_base` is never set and every command fails first.
* UEFI boot, framebuffer, 2D graphics, the Python stub, `init.c`, `hello.c`:
  firmware calls, pixels and text, or programs that cannot start because
  `sys_exec` loads nothing.
* The dispatch table of system calls, the set-up of IDT and PIC, and the entry
  code: tables and registers without a protocol.
* Names of PCBs; `sys_exec` copies a name and does no more.
  `set_current_process` and `unblock_process` have no caller.
* Sizes within 15 of 2^64 in `kmalloc`, and addresses outside the 48 bits that
  page tables translate.

## 8. Plan

What would come next, in this order:

1. `Kernel`: `Sched` with the IPC calls cut at `ipc_lock`, to show what a tick
   inside a critical section does to later callers, and on which condition it
   does no harm.
2. `nusa_malloc` and `nusa_calloc` at the width of `size_t`.
