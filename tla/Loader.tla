------------------------------- MODULE Loader --------------------------------
(***************************************************************************)
(* kernel/elf.c: a process from a file.  elf_create_process opens the      *)
(* file, reads it into a buffer, creates a task, and elf_load maps and     *)
(* fills the pages of its segments and of a stack.  Each allocation may    *)
(* fail, and each failure has its own way out.  The loader runs in the     *)
(* kernel's address space and nothing interrupts it; between loads,        *)
(* others open, read and close files and map pages of the kernel.          *)
(*                                                                         *)
(* Descriptors are those of the module Descriptors, which Vfs implements.  *)
(* A block of kmalloc is an address in cells, with its header before it.   *)
(* It is not aligned: map_page drops the offset, and the page of a program *)
(* begins where the block's frame does, at the header or before it.        *)
(***************************************************************************)
EXTENDS Paging, Sequences, FiniteSets

CONSTANTS
    FileFds,
    EntryIds,        \* the files
    Size,            \* file -> its size
    Valid,           \* the files that elf_validate accepts
    Segments,        \* file -> the PT_LOAD segments, each [vaddr, filesz, memsz] in cells
    USER_STACK_TOP,  \* in cells
    Blocks,          \* the addresses that kmalloc(PAGE_SIZE) gives
    HeaderCells      \* sizeof(memory_block_t), in cells

VARIABLES
    file,      \* the descriptors
    load,      \* the call: [stage, fd, entry, proc, todo, before]
    buffer,    \* whether the buffer is allocated
    used,      \* the blocks that were handed out for pages
    intact,    \* no header of the heap has been written over
    state      \* process -> "none", "READY" when created, "loaded" when elf_load succeeded

vars == <<paging, file, load, buffer, used, intact, state>>

PageOf(a) == a \div PageCells
user_stack == USER_STACK_TOP - PageCells

(* The pages of a segment that elf_load maps, and the cells it writes:     *)
(* the file's part is copied, and the rest cleared.                        *)
SegmentPages(s) == PageOf(s.vaddr) .. PageOf(s.vaddr + s.memsz + PageCells - 1) - 1
SegmentCells(s) == s.vaddr .. s.vaddr + (IF s.filesz > s.memsz THEN s.filesz ELSE s.memsz) - 1

ASSUME LoaderAssumption ==
    /\ Blocks \subseteq Nat /\ {PageOf(b) : b \in Blocks} \subseteq Frames
    /\ HeaderCells \in Nat
    /\ FileFds \subseteq Nat \ {0, 1, 2}
    /\ 3 \in FileFds
    /\ Valid \subseteq EntryIds
    /\ Size \in [EntryIds -> Nat]
    /\ Segments \in [EntryIds -> Seq([vaddr : Nat, filesz : Nat, memsz : Nat])]
    /\ \A e \in EntryIds : \A n \in DOMAIN Segments[e] : SegmentPages(Segments[e][n]) \subseteq Pages
    /\ USER_STACK_TOP \in Nat /\ PageOf(user_stack) \in Pages

Table == INSTANCE Descriptors

NoFile == -1
NoProc == "none"
Idle == [stage |-> "idle", fd |-> NoFile, entry |-> NoFile, proc |-> NoProc,
         todo |-> << >>, before |-> {}]
OpenFds == {fd \in FileFds : file[fd].stage = "open"}

Init ==
    /\ PagingInit
    /\ Table!Init
    /\ load = Idle
    /\ buffer = FALSE
    /\ used = {}
    /\ intact = TRUE
    /\ state = [p \in Callers |-> "none"]

(* What others do between loads.                                           *)
OtherFiles == load.stage = "idle" /\ Table!Next /\ UNCHANGED <<paging, load, buffer, used, intact, state>>
OtherPages == load.stage = "idle" /\ KernelStep /\ UNCHANGED <<file, load, buffer, used, intact, state>>

-----------------------------------------------------------------------------
(* The call returns NULL, or the process.                                  *)
Returns == load' = Idle

(* elf_create_process begins: vfs_stat and vfs_open succeed.  When the     *)
(* table is used up, vfs_open answers 3, which passes for a descriptor.    *)
Opened(fd, e) == [stage |-> "opened", fd |-> fd, entry |-> e, proc |-> NoProc,
                  todo |-> << >>, before |-> OpenFds]

Start(e) ==
    /\ load.stage = "idle"
    /\ \/ \E fd \in FileFds : Table!Open(fd, e) /\ load' = Opened(fd, e)
       \/ /\ \A fd \in FileFds : file[fd].stage # "unused"
          /\ load' = Opened(3, e)
          /\ UNCHANGED file
    /\ UNCHANGED <<paging, buffer, used, intact, state>>

(* vfs_close; its answer is not looked at.                                 *)
CloseFile == IF file[load.fd].stage = "open" THEN Table!Close(load.fd) ELSE UNCHANGED file

(* Mutant: the file stays open when there is no buffer.                    *)
AllocBufferLeaks(refused) ==
    /\ load.stage = "opened"
    /\ IF refused THEN Returns /\ UNCHANGED buffer
                  ELSE load' = [load EXCEPT !.stage = "buffered"] /\ buffer' = TRUE
    /\ UNCHANGED <<paging, used, intact, state, file>>

AllocBuffer(refused) ==
    /\ load.stage = "opened"
    /\ IF refused THEN Returns /\ CloseFile /\ UNCHANGED buffer
                  ELSE load' = [load EXCEPT !.stage = "buffered"] /\ buffer' = TRUE /\ UNCHANGED file
    /\ UNCHANGED <<paging, used, intact, state>>

(* vfs_read of the whole size and vfs_close.  A descriptor that is not     *)
(* open yields -ERR_INVALID, which is 1.                                   *)
BytesRead ==
    LET f == file[load.fd]
        left == Size[f.entry] - f.pos
    IN  IF f.stage # "open" THEN 1
        ELSE IF left < Size[load.entry] THEN left ELSE Size[load.entry]

(* What the buffer holds: a file from its beginning, or nothing of use.    *)
FileRead ==
    IF file[load.fd].stage = "open" /\ file[load.fd].pos = 0 THEN file[load.fd].entry ELSE NoFile

ReadFile ==
    /\ load.stage = "buffered"
    /\ CloseFile
    /\ IF BytesRead = Size[load.entry]
       THEN load' = [load EXCEPT !.stage = "read", !.entry = FileRead] /\ UNCHANGED buffer
       ELSE Returns /\ buffer' = FALSE
    /\ UNCHANGED <<paging, used, intact, state>>

(* task_create fails: there is no room for a process.                      *)
TaskRefused ==
    /\ load.stage = "read"
    /\ Returns /\ buffer' = FALSE
    /\ UNCHANGED <<paging, file, used, intact, state>>

(* What elf_load does: the pages of a segment are mapped one after the     *)
(* other, and then it is written; the stack's page is mapped last.         *)
MapStep(v) == [op |-> "map", page |-> v]
WriteStep(s) == [op |-> "write", segment |-> s]
StepsOf(s) ==
    LET first == PageOf(s.vaddr)
    IN  [i \in 1 .. Cardinality(SegmentPages(s)) |-> MapStep(first + i - 1)] \o <<WriteStep(s)>>
ProgramSteps(e) ==
    LET upTo[n \in 0 .. Len(Segments[e])] ==
          IF n = 0 THEN << >> ELSE upTo[n - 1] \o StepsOf(Segments[e][n])
    IN  upTo[Len(Segments[e])] \o <<MapStep(PageOf(user_stack))>>

(* task_create                                                             *)
TaskCreate(p, refused) ==
    /\ load.stage = "read"
    /\ state[p] = "none"
    /\ CreateSpace(p, refused)
    /\ state' = [state EXCEPT ![p] = "READY"]
    /\ load' = [load EXCEPT !.stage = "created", !.proc = p]
    /\ UNCHANGED <<file, buffer, used, intact>>

(* elf_validate; a failure leaves the process as it was created.           *)
Validate ==
    /\ load.stage = "created"
    /\ IF load.entry \in Valid
       THEN load' = [load EXCEPT !.stage = "loading", !.todo = ProgramSteps(load.entry)] /\ UNCHANGED buffer
       ELSE Returns /\ buffer' = FALSE
    /\ UNCHANGED <<paging, file, used, intact, state>>

Maps == load.stage = "loading" /\ load.todo # << >> /\ Head(load.todo).op = "map"

(* Mutant: the buffer is kept when a page cannot be had.                   *)
PageRefusedLeaks ==
    /\ Maps
    /\ Returns
    /\ UNCHANGED <<paging, file, buffer, used, intact, state>>

(* kmalloc refuses a page: what was mapped stays mapped, the process       *)
(* READY.                                                                  *)
PageRefused ==
    /\ Maps
    /\ Returns /\ buffer' = FALSE
    /\ UNCHANGED <<paging, file, used, intact, state>>

(* The block that kmalloc gives for a page: the first that is free, and    *)
(* any once it goes by headers that were written over.                     *)
Gives(b) == intact => b \notin used /\ \A c \in Blocks \ used : b <= c

(* A page of a segment, or the stack, is mapped to the frame that the      *)
(* block begins in, whoever had the page before.                           *)
LoadPage ==
    /\ Maps
    /\ \E b \in Blocks :
         /\ Gives(b)
         /\ used' = used \cup {b}
         /\ MapPage(Head(load.todo).page, PageOf(b))
    /\ load' = [load EXCEPT !.todo = Tail(@)]
    /\ UNCHANGED <<page_table, file, buffer, intact, state>>

(* Where a cell of a program lies, by the tables that map_page has filled. *)
FrameOf(v) == Translation(mem, v)
Physical(a) == FrameOf(PageOf(a)) * PageCells + (a % PageCells)
Headers == UNION {b - HeaderCells .. b - 1 : b \in Blocks}

(* The segment is written at its own addresses.  A page that is not mapped *)
(* faults for ever, since the handler prints and comes back; what becomes  *)
(* of one that leads nowhere is undefined.  Neither goes on here.          *)
WriteSegment ==
    /\ load.stage = "loading" /\ load.todo # << >> /\ Head(load.todo).op = "write"
    /\ LET cells == SegmentCells(Head(load.todo).segment)
       IN  /\ \A v \in {PageOf(a) : a \in cells} : FrameOf(v) \in Frames
           /\ intact' = (intact /\ \A a \in cells : Physical(a) \notin Headers)
    /\ load' = [load EXCEPT !.todo = Tail(@)]
    /\ UNCHANGED <<paging, file, buffer, used, state>>

(* elf_load and elf_create_process succeed.                                *)
Finish ==
    /\ load.stage = "loading" /\ load.todo = << >>
    /\ state' = [state EXCEPT ![load.proc] = "loaded"]
    /\ Returns /\ buffer' = FALSE
    /\ UNCHANGED <<paging, file, used, intact>>

LoadStep ==
    \/ \E e \in EntryIds : Start(e)
    \/ \E refused \in BOOLEAN : AllocBuffer(refused)
    \/ ReadFile
    \/ TaskRefused
    \/ \E p \in Callers, refused \in BOOLEAN : TaskCreate(p, refused)
    \/ Validate
    \/ PageRefused
    \/ LoadPage
    \/ WriteSegment
    \/ Finish

Next == OtherFiles \/ OtherPages \/ LoadStep

Spec == Init /\ [][Next]_vars

-----------------------------------------------------------------------------
(* Every variable has its type, tables lie below next_physical_addr, and a *)
(* process is under construction in the middle of a load only.             *)
TypeOK ==
    /\ mem \in [Cells -> Frames]
    /\ mapped \in [Pages -> Frames \cup {Unmapped}]
    /\ next_physical_addr \in 2 .. MaxTables
    /\ page_table \in [Callers -> {NoTable} \cup (2 .. next_physical_addr - 1)]
    /\ load.stage \in {"idle", "opened", "buffered", "read", "created", "loading"}
    /\ buffer \in BOOLEAN
    /\ buffer <=> load.stage \in {"buffered", "read", "created", "loading"}
    /\ used \subseteq Blocks
    /\ intact \in BOOLEAN
    /\ state \in [Callers -> {"none", "READY", "loaded"}]
    /\ load.stage \in {"created", "loading"} => state[load.proc] = "READY"

(* Whichever allocation or check fails, the call returns without its       *)
(* buffer, and leaves no file open that was not open before                *)
(* (elf.c:219-279).                                                        *)
NothingKept ==
    [][load.stage # "idle" /\ load'.stage = "idle"
         => ~buffer' /\ OpenFds' \subseteq load.before]_vars

(* "Set up identity mapping for kernel (first 512 MB)" (paging.c:52): a    *)
(* page of these that nobody maps again is mapped to its own frame.  But   *)
(* making a table clears and then overwrites the end of the table before.  *)
UserPages ==
    {PageOf(user_stack)} \cup
    UNION {UNION {SegmentPages(Segments[e][n]) : n \in DOMAIN Segments[e]} : e \in EntryIds}

IdentityMapped ==
    \A v \in 0 .. IdentityPages - 1 :
       v \notin KernelMaps \cup UserPages => FrameOf(v) = v
=============================================================================
