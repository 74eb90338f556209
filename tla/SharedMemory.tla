---------------------------- MODULE SharedMemory ----------------------------
(***************************************************************************)
(* The shared memory regions of kernel/ipc.c.  Every call runs under       *)
(* ipc_lock from beginning to end.  A region's list of attached processes  *)
(* and a process's list of regions are kept separately, each with its own  *)
(* limit beyond which an attach is silently not recorded.                  *)
(***************************************************************************)
EXTENDS IpcTable, Lists

CONSTANTS
    MAX_SHM,        \* slots of shm_table
    MaxAttached,    \* the 16 entries of attached_procs
    MaxRegions,     \* MAX_SHM_REGIONS, the entries of a process's shm_regions
    Names,          \* the names regions are created with
    Stored          \* name -> what ipc_strncpy keeps of it, 31 characters

ASSUME SharedMemoryAssumption ==
    /\ MAX_SHM \in Nat
    /\ MaxAttached \in Nat
    /\ MaxRegions \in Nat
    /\ Stored \in [Names -> Names]
    /\ \A n \in Names : Stored[Stored[n]] = Stored[n]

VARIABLES
    shm,            \* shm_table: slot -> [id, name, attached], name once used
    next_shm_id,
    shm_regions     \* process -> list of slots

ShmVars == <<shm, next_shm_id, shm_regions, reply>>

ShmSlots == 1 .. MAX_SHM   \* slot i is shm_table[i - 1], which id i selects
NoName == "-"

(* 0x100000000 + id * 0x1000000, counted in units of 0x1000000.            *)
Address(i) == 256 + i

-----------------------------------------------------------------------------
(* ipc_init                                                                *)
ShmInit ==
    /\ shm = [i \in ShmSlots |-> [id |-> 0, name |-> NoName, attached |-> << >>]]
    /\ next_shm_id = 1
    /\ shm_regions = [p \in Procs |-> << >>]
    /\ reply = [p \in Procs |-> 0]

(* Mutant: only the region created last is compared with.                  *)
ExistsLast(n) == \E i \in ShmSlots : Used(shm, i) /\ i = next_shm_id - 1 /\ shm[i].name = n

(* strcmp compares the whole name given with the names kept.               *)
Exists(n) == \E i \in ShmSlots : Used(shm, i) /\ shm[i].name = n

ShmCreate(p, n) ==
    /\ \E i \in ShmSlots :
         /\ ~Exists(n)
         /\ IsFirstUnused(shm, i)
         /\ shm' = [shm EXCEPT ![i] =
                      [id |-> next_shm_id, name |-> Stored[n], attached |-> << >>]]
    /\ next_shm_id' = next_shm_id + 1
    /\ Return(p, next_shm_id)
    /\ UNCHANGED shm_regions

(* -2 when the name exists, -1 when no slot is left; also -1 for a null    *)
(* name or a size of 0, whatever the table holds.                          *)
ShmCreateFails(p, n, r) ==
    /\ r = -2 => Exists(n)
    /\ Return(p, r)
    /\ UNCHANGED <<shm, next_shm_id, shm_regions>>

(* shm_id is out of range or names no region: attach and detach fail.      *)
ShmInvalid(p, id) ==
    /\ \A i \in ShmSlots : i = id => ~Used(shm, i)
    /\ Return(p, -1)
    /\ UNCHANGED <<shm, next_shm_id, shm_regions>>

(* Mutant: a process that is attached already is attached once more.       *)
AttachUnchecked(p, i) ==
    /\ Used(shm, i)
    /\ shm' = IF Len(shm[i].attached) < MaxAttached
              THEN [shm EXCEPT ![i].attached = Append(@, p)]
              ELSE shm
    /\ shm_regions' = IF Len(shm_regions[p]) < MaxRegions
                      THEN [shm_regions EXCEPT ![p] = Append(@, i)]
                      ELSE shm_regions
    /\ Return(p, Address(i))
    /\ UNCHANGED next_shm_id

Attach(p, i) ==
    /\ Used(shm, i)
    /\ ~Occurs(p, shm[i].attached)
    /\ shm' = IF Len(shm[i].attached) < MaxAttached
              THEN [shm EXCEPT ![i].attached = Append(@, p)]
              ELSE shm
    /\ shm_regions' = IF Len(shm_regions[p]) < MaxRegions
                      THEN [shm_regions EXCEPT ![p] = Append(@, i)]
                      ELSE shm_regions
    /\ Return(p, Address(i))
    /\ UNCHANGED next_shm_id

(* virt_addr, which sys_shm_create sets to 0 and nothing sets again.       *)
AttachAgain(p, i) ==
    /\ Used(shm, i)
    /\ Occurs(p, shm[i].attached)
    /\ Return(p, 0)
    /\ UNCHANGED <<shm, next_shm_id, shm_regions>>

(* Mutant: the process's own list is left as it is.                        *)
DetachOneSide(p, i) ==
    /\ Used(shm, i)
    /\ shm' = [shm EXCEPT ![i].attached = Removed(p, @)]
    /\ Return(p, 0)
    /\ UNCHANGED <<next_shm_id, shm_regions>>

(* Detaching a region that is not attached succeeds too.                   *)
Detach(p, i) ==
    /\ Used(shm, i)
    /\ shm' = [shm EXCEPT ![i].attached = Removed(p, @)]
    /\ shm_regions' = [shm_regions EXCEPT ![p] = Removed(i, @)]
    /\ Return(p, 0)
    /\ UNCHANGED next_shm_id

-----------------------------------------------------------------------------
ShmIds == 0 .. MAX_SHM + 1    \* shm_id arguments, out of range ones included

ShmNext ==
    \E p \in Procs :
        \/ \E n \in Names : ShmCreate(p, n) \/ \E r \in {-1, -2} : ShmCreateFails(p, n, r)
        \/ \E id \in ShmIds : ShmInvalid(p, id)
        \/ \E i \in ShmSlots : Attach(p, i) \/ AttachAgain(p, i) \/ Detach(p, i)

ShmSpec == ShmInit /\ [][ShmNext]_ShmVars

-----------------------------------------------------------------------------
Regions == [id : Nat, name : Names \cup {NoName}, attached : Seq(Procs)]

ShmTypeOK ==
    /\ shm \in [ShmSlots -> Regions]
    /\ next_shm_id \in 1 .. MAX_SHM + 1
    /\ shm_regions \in [Procs -> Seq(ShmSlots)]
    /\ reply \in [Procs -> Int]

(* sys_shm_attach and sys_shm_detach index the table with id - 1, and find *)
(* the region that was created under the id.                               *)
IdSelectsItsRegion ==
    \A i \in ShmSlots : shm[i].id = IF i < next_shm_id THEN i ELSE 0

(* A process is in a region's list at most once, also when attaches have   *)
(* gone unrecorded: detach, which removes one entry, removes the last one. *)
AttachedOnce == \A i \in ShmSlots : NoRepeats(shm[i].attached)

(* The two lists agree: a region lists a process exactly while the process *)
(* lists the region.  It holds while neither limit is reached.             *)
ListsAgree ==
    \A i \in ShmSlots, p \in Procs :
        Occurs(p, shm[i].attached) <=> Occurs(i, shm_regions[p])

(* No two regions have the same name.  It holds while no name is longer    *)
(* than what is stored of it.                                              *)
NamesDiffer ==
    \A i, j \in ShmSlots : Used(shm, i) /\ Used(shm, j) /\ shm[i].name = shm[j].name => i = j
=============================================================================
