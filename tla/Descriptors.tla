----------------------------- MODULE Descriptors -----------------------------
(***************************************************************************)
(* What fs/vfs.c promises of file descriptors, whatever is mounted or      *)
(* unmounted meanwhile: a number is given out once, names one file from    *)
(* its open to its close, is read forward within that file, and once       *)
(* closed is never a file again.                                           *)
(***************************************************************************)
EXTENDS Integers

CONSTANTS
    FileFds,   \* the numbers that can name a file
    EntryIds,  \* the files
    Size       \* file -> its size

VARIABLE
    file       \* number -> [stage, entry, pos]

vars == <<file>>

NoEntry == -1

At(stage, e, p) == [stage |-> stage, entry |-> e, pos |-> p]

Init == file = [fd \in FileFds |-> At("unused", NoEntry, 0)]

Open(fd, e) ==
    /\ file[fd].stage = "unused"
    /\ file' = [file EXCEPT ![fd] = At("open", e, 0)]

Read(fd) ==
    /\ file[fd].stage = "open"
    /\ \E p \in file[fd].pos .. Size[file[fd].entry] :
         file' = [file EXCEPT ![fd].pos = p]

Close(fd) ==
    /\ file[fd].stage = "open"
    /\ file' = [file EXCEPT ![fd] = At("closed", NoEntry, 0)]

Next ==
    \E fd \in FileFds :
       \/ \E e \in EntryIds : Open(fd, e)
       \/ Read(fd)
       \/ Close(fd)

Spec == Init /\ [][Next]_vars
=============================================================================
