--------------------------------- MODULE Vfs ---------------------------------
(***************************************************************************)
(* The virtual file system of fs/vfs.c over its initramfs, with the calls  *)
(* of kernel/syscall.c that lead to it.  No call blocks, so each is one    *)
(* step.  A path is a sequence of characters; Slash is the one the code    *)
(* looks for.                                                              *)
(*                                                                         *)
(* The error codes of nusantara.h are negative and vfs.c returns their     *)
(* negation, so a failure is a positive number, such as a descriptor is.   *)
(***************************************************************************)
EXTENDS Integers, Sequences, SequencesExt

CONSTANTS
    Listers,           \* the callers of vfs_readdir, each with its dirent_t
    Slash,             \* the character '/'
    MAX_OPEN_FILES,
    MAX_MOUNT_POINTS,
    ENTRY_COUNT,       \* INITRAMFS_ENTRY_COUNT
    Entries,           \* initramfs_entries: index -> [name, type, size, parent]
    Paths,             \* the paths callers give to vfs_open
    MountPaths,        \* the paths callers give to mount and unmount
    Directories,       \* the paths callers list
    FsTypes,           \* the types callers mount
    ReadSizes          \* the sizes callers give to read

EntryIds == 0 .. ENTRY_COUNT - 1
Slots == 0 .. MAX_MOUNT_POINTS - 1
Fds == 0 .. MAX_OPEN_FILES - 1
FileFds == 3 .. MAX_OPEN_FILES - 1
NoMount == -1
NoEntry == -1

ASSUME VfsAssumption ==
    /\ MAX_OPEN_FILES \in Nat /\ MAX_OPEN_FILES >= 3
    /\ MAX_MOUNT_POINTS \in Nat \ {0}
    /\ ENTRY_COUNT \in Nat \ {0}
    /\ \A e \in EntryIds :
         /\ Entries[e].type \in {"FILE_TYPE_FILE", "FILE_TYPE_DIR"}
         /\ Entries[e].size \in Nat
         /\ Entries[e].parent \in EntryIds
    /\ ReadSizes \subseteq Nat
    /\ "FS_INITRAMFS" \in FsTypes
    /\ \A path \in Paths \cup MountPaths : Len(path) \in Nat

ERR_OK == 0
ERR_NOTFOUND == -2
ERR_NOMEM == -3
ERR_NOTSUPP == -5

VARIABLES
    open_files,     \* fd -> [is_open, entry, pos, mount]
    next_fd,
    mount_points,   \* slot -> [mounted, path, fs_type, ops]
    readdir_index,  \* the static variable of vfs_readdir
    dirp,           \* caller -> [path, offset]: the dirent_t of its listing
    lister          \* the caller of the last vfs_readdir

files == <<open_files, next_fd>>
listing == <<readdir_index, dirp, lister>>
vars == <<files, mount_points, listing>>

Closed == [is_open |-> FALSE, entry |-> NoEntry, pos |-> 0, mount |-> NoMount]
Standard == [Closed EXCEPT !.is_open = TRUE]
Unmounted == [mounted |-> FALSE, path |-> << >>, fs_type |-> "FS_NONE", ops |-> "NULL"]
InitramfsAt(path) ==
    [mounted |-> TRUE, path |-> path, fs_type |-> "FS_INITRAMFS", ops |-> "initramfs_ops"]
NoListing == [path |-> << >>, offset |-> 0]

(* The static variables, and vfs_init.                                     *)
Init ==
    /\ open_files = [fd \in Fds |-> IF fd < 3 THEN Standard ELSE Closed]
    /\ next_fd = 3
    /\ mount_points = [i \in Slots |-> IF i = 0 THEN InitramfsAt(<<Slash>>) ELSE Unmounted]
    /\ readdir_index = 0
    /\ dirp = [c \in Listers |-> NoListing]
    /\ lister \in Listers

-----------------------------------------------------------------------------
(* initramfs_find_path: the first entry of that name.                      *)
FindPath(path) ==
    IF \E e \in EntryIds : Entries[e].name = path
    THEN CHOOSE e \in EntryIds :
           /\ Entries[e].name = path
           /\ \A f \in 0 .. e - 1 : Entries[f].name # path
    ELSE NoEntry

(* vfs_find_mount: the mount path must be followed by the end of the path  *)
(* or by a slash, which "/" never is in a path such as "/README".          *)
Covers(i, path) ==
    LET prefix == mount_points[i].path
    IN  /\ mount_points[i].mounted
        /\ prefix # << >>
        /\ IsPrefix(prefix, path)
        /\ Len(path) = Len(prefix) \/ path[Len(prefix) + 1] = Slash

FindMount(path) ==
    LET length(i) == Len(mount_points[i].path)
        covering == {i \in Slots : Covers(i, path)}
    IN  IF covering = {} THEN NoMount
        ELSE CHOOSE i \in covering :
               \A j \in covering :
                  length(i) > length(j) \/ (length(i) = length(j) /\ i <= j)

(* The path handed to the file system of mount point i.                    *)
RelPath(path, i) ==
    LET rest == SubSeq(path, Len(mount_points[i].path) + 1, Len(path))
        bare == IF rest # << >> /\ Head(rest) = Slash THEN Tail(rest) ELSE rest
    IN  IF bare = << >> THEN <<Slash>> ELSE bare

(* What vfs_open and vfs_stat do alike: the entry of a path, and the error *)
(* when there is none.                                                     *)
EntryOf(path) == FindPath(RelPath(path, FindMount(path)))

LookupError(path) ==
    IF FindMount(path) = NoMount THEN -ERR_NOTFOUND
    ELSE IF mount_points[FindMount(path)].ops = "NULL" THEN -ERR_NOTSUPP
    ELSE IF EntryOf(path) = NoEntry THEN -ERR_NOTFOUND
    ELSE ERR_OK

-----------------------------------------------------------------------------
(* Mutant: the table is thought to have one descriptor more.               *)
OpenErrorLate(path) ==
    IF LookupError(path) # ERR_OK THEN LookupError(path)
    ELSE IF next_fd > MAX_OPEN_FILES THEN -ERR_NOMEM
    ELSE ERR_OK

(* What vfs_open answers instead of a descriptor.                          *)
OpenError(path) ==
    IF LookupError(path) # ERR_OK THEN LookupError(path)
    ELSE IF next_fd >= MAX_OPEN_FILES THEN -ERR_NOMEM
    ELSE ERR_OK

(* vfs_open, initramfs_open; a failure changes nothing.                    *)
Open(path) ==
    /\ OpenError(path) = ERR_OK
    /\ open_files' = [open_files EXCEPT ![next_fd] =
                        [is_open |-> TRUE, entry |-> EntryOf(path), pos |-> 0,
                         mount |-> FindMount(path)]]
    /\ next_fd' = next_fd + 1
    /\ UNCHANGED <<mount_points, listing>>

Served(fd) == open_files[fd].mount # NoMount /\ mount_points[open_files[fd].mount].ops # "NULL"

(* What vfs_read and initramfs_read check before they copy.  0 reads the   *)
(* keyboard, 1 and 2 nothing.                                              *)
Readable(fd) ==
    /\ fd \in FileFds
    /\ open_files[fd].is_open
    /\ Served(fd)
    /\ Entries[open_files[fd].entry].type = "FILE_TYPE_FILE"

Remaining(fd) == Entries[open_files[fd].entry].size - open_files[fd].pos

(* Mutant: the read is cut to the file's size and not to what remains.     *)
CountFromStart(fd, size) ==
    IF size < Entries[open_files[fd].entry].size THEN size ELSE Entries[open_files[fd].entry].size

ReadCount(fd, size) ==
    IF Remaining(fd) <= 0 THEN 0 ELSE IF size < Remaining(fd) THEN size ELSE Remaining(fd)

(* vfs_read, initramfs_read                                                *)
Read(fd, size) ==
    /\ Readable(fd)
    /\ open_files' = [open_files EXCEPT ![fd].pos = @ + ReadCount(fd, size)]
    /\ UNCHANGED <<next_fd, mount_points, listing>>

(* Mutant: vfs_close gives the last descriptor back.                       *)
CloseReuses(fd) ==
    /\ fd \in FileFds /\ open_files[fd].is_open
    /\ open_files' = [open_files EXCEPT ![fd] = Closed]
    /\ next_fd' = IF fd = next_fd - 1 THEN fd ELSE next_fd
    /\ UNCHANGED <<mount_points, listing>>

(* vfs_close, initramfs_close.  The standard descriptors stay open, and    *)
(* next_fd stays where it is.  What a closed file keeps is never read.     *)
Close(fd) ==
    /\ fd \in FileFds /\ open_files[fd].is_open
    /\ open_files' = [open_files EXCEPT ![fd] = Closed]
    /\ UNCHANGED <<next_fd, mount_points, listing>>

-----------------------------------------------------------------------------
(* A caller begins a listing: vfs_test sets offset to 0 (vfs.c:513).       *)
StartListing(c, path) ==
    /\ dirp[c] = NoListing
    /\ dirp' = [dirp EXCEPT ![c].path = path]
    /\ UNCHANGED <<files, mount_points, readdir_index, lister>>

(* Where vfs_readdir's search begins, and where it finds a child of d.     *)
SearchFrom(c) == IF dirp[c].offset = 0 THEN 0 ELSE readdir_index
ChildrenFrom(n, d) == {e \in EntryIds : e >= n /\ Entries[e].parent = d}
FirstOf(S) == CHOOSE e \in S : \A f \in S : e <= f

ReaddirError(path) ==
    IF FindMount(path) = NoMount THEN -ERR_NOTFOUND
    ELSE IF mount_points[FindMount(path)].fs_type # "FS_INITRAMFS" THEN -ERR_NOTSUPP
    ELSE IF FindPath(path) = NoEntry THEN -ERR_NOTFOUND
    ELSE ERR_OK

(* Mutant: the search is not moved past the entry it returned.             *)
ReaddirStays(c) ==
    LET path == dirp[c].path
        found == ChildrenFrom(SearchFrom(c), FindPath(path))
    IN  /\ path # << >> /\ ReaddirError(path) = ERR_OK /\ found # {}
        /\ dirp' = [dirp EXCEPT ![c].offset = FirstOf(found) + 1]
        /\ readdir_index' = FirstOf(found)
        /\ lister' = c
        /\ UNCHANGED <<files, mount_points>>

(* vfs_readdir finds an entry.  The index is incremented twice, once for   *)
(* the offset it returns and once more.                                    *)
Readdir(c) ==
    LET path == dirp[c].path
        found == ChildrenFrom(SearchFrom(c), FindPath(path))
    IN  /\ path # << >> /\ ReaddirError(path) = ERR_OK /\ found # {}
        /\ dirp' = [dirp EXCEPT ![c].offset = FirstOf(found) + 1]
        /\ readdir_index' = FirstOf(found) + 2
        /\ lister' = c
        /\ UNCHANGED <<files, mount_points>>

(* vfs_readdir finds no further entry, or no directory: the caller stops.  *)
ReaddirEnds(c) ==
    LET path == dirp[c].path
        search == ReaddirError(path) = ERR_OK
    IN  /\ path # << >>
        /\ search => ChildrenFrom(SearchFrom(c), FindPath(path)) = {}
        /\ readdir_index' =
             IF search THEN Max({SearchFrom(c), ENTRY_COUNT}) ELSE readdir_index
        /\ dirp' = [dirp EXCEPT ![c] = NoListing]
        /\ lister' = IF search THEN c ELSE lister
        /\ UNCHANGED <<files, mount_points>>

-----------------------------------------------------------------------------
IsFreeSlot(i) == ~mount_points[i].mounted /\ \A j \in 0 .. i - 1 : mount_points[j].mounted

(* Mutant: a refused mount clears the slot's ops.                          *)
MountClearsOps(path, fs_type) ==
    /\ \E i \in Slots :
         /\ IsFreeSlot(i)
         /\ mount_points' = [mount_points EXCEPT ![i] =
              [mounted |-> TRUE, path |-> path, fs_type |-> fs_type,
               ops |-> IF fs_type = "FS_INITRAMFS" THEN "initramfs_ops" ELSE "NULL"]]
    /\ UNCHANGED <<files, listing>>

(* vfs_mount fills the slot before it looks at the type: when the type is  *)
(* refused the slot stays taken, with the ops of whoever had it before.    *)
Mount(path, fs_type) ==
    /\ \E i \in Slots :
         /\ IsFreeSlot(i)
         /\ mount_points' = [mount_points EXCEPT ![i] =
              [mounted |-> TRUE, path |-> path, fs_type |-> fs_type,
               ops |-> IF fs_type = "FS_INITRAMFS" THEN "initramfs_ops" ELSE @.ops]]
    /\ UNCHANGED <<files, listing>>

MountedAt(i, path) == mount_points[i].mounted /\ mount_points[i].path = path

(* Mutant: unmounting clears the slot, ops included.                       *)
UnmountClears(path) ==
    /\ \E i \in Slots :
         /\ MountedAt(i, path)
         /\ mount_points' = [mount_points EXCEPT ![i] = Unmounted]
    /\ UNCHANGED <<files, listing>>

(* vfs_unmount: the first slot mounted there.  Files that are open on it   *)
(* keep their pointer to the slot, and the slot keeps its ops.             *)
Unmount(path) ==
    /\ \E i \in Slots :
         /\ MountedAt(i, path)
         /\ \A j \in 0 .. i - 1 : ~MountedAt(j, path)
         /\ mount_points' = [mount_points EXCEPT ![i] = [Unmounted EXCEPT !.ops = mount_points[i].ops]]
    /\ UNCHANGED <<files, listing>>

ListingStep(c) ==
    \/ \E path \in Directories : StartListing(c, path)
    \/ Readdir(c)
    \/ ReaddirEnds(c)

Next ==
    \/ \E c \in Listers : ListingStep(c)
    \/ \E path \in Paths : Open(path)
    \/ \E fd \in FileFds :
         \/ Close(fd)
         \/ \E size \in ReadSizes : Read(fd, size)
    \/ \E path \in MountPaths :
         \/ Unmount(path)
         \/ \E fs_type \in FsTypes : Mount(path, fs_type)

Spec == Init /\ [][Next]_vars

-----------------------------------------------------------------------------
(* Every variable has its type, and a descriptor from next_fd on has never *)
(* been used (vfs.c:18, 81-106).                                           *)
TypeOK ==
    /\ open_files \in [Fds -> [is_open : BOOLEAN, entry : EntryIds \cup {NoEntry},
                               pos : Nat, mount : Slots \cup {NoMount}]]
    /\ next_fd \in 3 .. MAX_OPEN_FILES
    /\ mount_points \in [Slots -> [mounted : BOOLEAN, path : MountPaths \cup {<< >>, <<Slash>>},
                                   fs_type : FsTypes \cup {"FS_NONE"},
                                   ops : {"NULL", "initramfs_ops"}]]
    /\ readdir_index \in 0 .. ENTRY_COUNT + 1
    /\ dirp \in [Listers -> [path : Directories \cup {<< >>}, offset : 0 .. ENTRY_COUNT]]
    /\ lister \in Listers
    /\ \A fd \in FileFds : fd >= next_fd => open_files[fd] = Closed

(* A file that is open can be read until it is closed, and its position is *)
(* in the file, although its mount point may have been unmounted, or taken *)
(* since then by a mount that succeeded or failed: vfs_unmount and         *)
(* vfs_mount never take the ops of a slot away (vfs.c:405-443).            *)
OpenFilesServed ==
    \A fd \in FileFds :
       open_files[fd].is_open =>
          /\ Served(fd)
          /\ open_files[fd].entry \in EntryIds
          /\ open_files[fd].pos <= Entries[open_files[fd].entry].size

(* A number names one file from its open to its close and none after it,   *)
(* and is read forward within its file (vfs.c:81-142, 309-328).            *)
Table == INSTANCE Descriptors WITH
    Size <- [e \in EntryIds |-> Entries[e].size],
    file <- [fd \in FileFds |->
               IF fd >= next_fd THEN [stage |-> "unused", entry |-> NoEntry, pos |-> 0]
               ELSE IF open_files[fd].is_open
               THEN [stage |-> "open", entry |-> open_files[fd].entry,
                     pos |-> open_files[fd].pos]
               ELSE [stage |-> "closed", entry |-> NoEntry, pos |-> 0]]

ImplementsDescriptors == Table!Spec

(* A listing that nobody else's listing came between searches on behind    *)
(* the entry it returned, so that no entry is returned twice and it ends.  *)
(* With another listing in between it may go back, because all share one   *)
(* index (vfs.c:365-384).                                                  *)
ListingAdvances ==
    dirp[lister].offset # 0 => readdir_index >= dirp[lister].offset
==============================================================================
