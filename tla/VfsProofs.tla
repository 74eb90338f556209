------------------------------ MODULE VfsProofs ------------------------------
(***************************************************************************)
(* Proofs about Vfs for any initramfs, any numbers of descriptors, mount   *)
(* points and listings, and any paths, types and sizes.                    *)
(***************************************************************************)
EXTENDS Vfs, WellFoundedInduction, TLAPS

(* The inductive invariant.                                                *)
IInv == TypeOK /\ OpenFilesServed /\ ListingAdvances

(* A set of natural numbers has a least member.                            *)
LEMMA LeastOf ==
  ASSUME NEW S \in SUBSET Nat, S # {}
  PROVE  \E m \in S : \A i \in S : m <= i
<1>1. PICK m \in S : \A i \in S : ~(<<i, m>> \in OpToRel(<, Nat))
  BY NatLessThanWellFounded, WFMin
<1>2. \A i \in S : ~(i < m)
  BY <1>1 DEF OpToRel
<1> QED BY <1>2

(* Entries and slots are natural numbers.                                  *)
LEMMA IndexTypes == /\ EntryIds \subseteq Nat /\ Slots \subseteq Nat /\ FileFds \subseteq Fds
                    /\ Fds \subseteq Nat /\ NoMount \notin Slots /\ NoEntry \notin EntryIds
  BY VfsAssumption DEF EntryIds, Slots, FileFds, Fds, NoMount, NoEntry

(* initramfs_find_path answers with an entry of that name, or with none.   *)
LEMMA FindPathFinds ==
  ASSUME NEW path, FindPath(path) # NoEntry
  PROVE  FindPath(path) \in EntryIds
<1> DEFINE named == {e \in EntryIds : Entries[e].name = path}
<1>1. \E e \in EntryIds : Entries[e].name = path
  BY DEF FindPath
<1>2. named # {} /\ named \in SUBSET Nat
  BY <1>1, IndexTypes
<1>3. PICK m \in named : \A i \in named : m <= i
  <2> HIDE DEF named
  <2> QED BY <1>2, LeastOf
<1>4. \A f \in 0 .. m - 1 : Entries[f].name # path
  <2> SUFFICES ASSUME NEW f \in 0 .. m - 1 PROVE Entries[f].name # path
    OBVIOUS
  <2>1. m \in Nat /\ m \in 0 .. ENTRY_COUNT - 1
    BY <1>2, <1>3 DEF EntryIds
  <2>2. f \in EntryIds /\ ~(m <= f)
    BY <2>1, VfsAssumption DEF EntryIds
  <2> QED BY <1>3, <2>2
<1>5. \E e \in EntryIds : Entries[e].name = path /\ \A f \in 0 .. e - 1 : Entries[f].name # path
  BY <1>3, <1>4
<1> QED BY <1>1, <1>5 DEF FindPath

(* vfs_find_mount answers with a mount point, or with none: among those    *)
(* that cover the path one is longest, and of the longest one is first.    *)
LEMMA FindMountFinds ==
  ASSUME \A i \in Slots : Len(mount_points[i].path) \in Nat,
         NEW path, Len(path) \in Nat, FindMount(path) # NoMount
  PROVE  FindMount(path) \in Slots
<1> DEFINE length(i) == Len(mount_points[i].path)
           covering == {i \in Slots : Covers(i, path)}
           margins == {Len(path) - length(i) : i \in covering}
<1>1. covering # {}
  BY DEF FindMount
<1>2. \A i \in covering : length(i) \in Nat /\ length(i) <= Len(path)
  BY DEF Covers, IsPrefix
<1>3. margins # {} /\ margins \in SUBSET Nat
  BY <1>1, <1>2
<1>4. PICK d \in margins : \A g \in margins : d <= g
  <2> HIDE DEF margins
  <2> QED BY <1>3, LeastOf
<1>5. PICK k \in covering : d = Len(path) - length(k)
  BY <1>4
<1>6. \A i \in covering : length(i) <= length(k)
  <2> SUFFICES ASSUME NEW i \in covering PROVE length(i) <= length(k)
    OBVIOUS
  <2>1. d <= Len(path) - length(i)
    BY <1>4
  <2> HIDE DEF length, covering, margins
  <2> QED BY <2>1, <1>2, <1>5
<1> DEFINE longest == {i \in covering : length(i) = length(k)}
<1>7. longest # {} /\ longest \in SUBSET Nat
  BY <1>5, IndexTypes
<1>8. PICK m \in longest : \A i \in longest : m <= i
  <2> HIDE DEF longest
  <2> QED BY <1>7, LeastOf
<1>9. \A j \in covering : length(m) > length(j) \/ (length(m) = length(j) /\ m <= j)
  <2> SUFFICES ASSUME NEW j \in covering, ~(length(m) > length(j))
               PROVE  length(m) = length(j) /\ m <= j
    OBVIOUS
  <2>1. length(m) = length(k) /\ length(j) \in Nat /\ length(k) \in Nat /\ length(j) <= length(k)
    BY <1>2, <1>5, <1>6, <1>8
  <2>2. length(j) = length(m)
    <3> HIDE DEF length
    <3> QED BY <2>1
  <2> QED BY <2>1, <2>2, <1>8
<1>10. m \in covering
  BY <1>8
<1> HIDE DEF length
<1>11. \E i \in covering : \A j \in covering :
          length(i) > length(j) \/ (length(i) = length(j) /\ i <= j)
  BY <1>9, <1>10
<1>12. FindMount(path) \in covering
  BY <1>1, <1>11 DEF FindMount, length
<1> QED BY <1>12

(* The paths of mount points have a length.                                *)
LEMMA MountPathLengths ==
  ASSUME TypeOK PROVE \A i \in Slots : Len(mount_points[i].path) \in Nat
<1>1. \A i \in Slots : mount_points[i].path \in MountPaths \cup {<< >>, <<Slash>>}
  BY DEF TypeOK
<1>2. Len(<< >>) \in Nat /\ Len(<<Slash>>) \in Nat
  OBVIOUS
<1> QED BY <1>1, <1>2, VfsAssumption

(* After vfs_init.                                                         *)
LEMMA InitIInv == Init => IInv
<1> SUFFICES ASSUME Init PROVE IInv
  OBVIOUS
<1>1. /\ Closed \in [is_open : BOOLEAN, entry : EntryIds \cup {NoEntry},
                     pos : Nat, mount : Slots \cup {NoMount}]
      /\ Standard \in [is_open : BOOLEAN, entry : EntryIds \cup {NoEntry},
                       pos : Nat, mount : Slots \cup {NoMount}]
  BY DEF Closed, Standard
<1>2. \A path : path \in MountPaths \cup {<< >>, <<Slash>>} =>
        InitramfsAt(path) \in [mounted : BOOLEAN, path : MountPaths \cup {<< >>, <<Slash>>},
                               fs_type : FsTypes \cup {"FS_NONE"}, ops : {"NULL", "initramfs_ops"}]
  BY VfsAssumption DEF InitramfsAt
<1>3. Unmounted \in [mounted : BOOLEAN, path : MountPaths \cup {<< >>, <<Slash>>},
                     fs_type : FsTypes \cup {"FS_NONE"}, ops : {"NULL", "initramfs_ops"}]
  BY DEF Unmounted
<1>4. TypeOK
  <2>1. open_files \in [Fds -> [is_open : BOOLEAN, entry : EntryIds \cup {NoEntry},
                                pos : Nat, mount : Slots \cup {NoMount}]]
    BY <1>1 DEF Init
  <2>2. mount_points \in [Slots -> [mounted : BOOLEAN, path : MountPaths \cup {<< >>, <<Slash>>},
                                    fs_type : FsTypes \cup {"FS_NONE"},
                                    ops : {"NULL", "initramfs_ops"}]]
    <3>1. InitramfsAt(<<Slash>>) \in
            [mounted : BOOLEAN, path : MountPaths \cup {<< >>, <<Slash>>},
             fs_type : FsTypes \cup {"FS_NONE"}, ops : {"NULL", "initramfs_ops"}]
      BY <1>2
    <3> QED BY <3>1, <1>3 DEF Init
  <2>3. dirp \in [Listers -> [path : Directories \cup {<< >>}, offset : 0 .. ENTRY_COUNT]]
    BY VfsAssumption DEF Init, NoListing
  <2>4. \A fd \in FileFds : open_files[fd] = Closed
    BY IndexTypes DEF Init, FileFds
  <2> QED BY <2>1, <2>2, <2>3, <2>4, VfsAssumption DEF Init, TypeOK
<1>5. OpenFilesServed
  BY IndexTypes DEF Init, OpenFilesServed, FileFds, Closed
<1>6. ListingAdvances
  BY DEF Init, ListingAdvances, NoListing
<1> QED BY <1>4, <1>5, <1>6 DEF IInv

FileType == [is_open : BOOLEAN, entry : EntryIds \cup {NoEntry},
             pos : Nat, mount : Slots \cup {NoMount}]
MountType == [mounted : BOOLEAN, path : MountPaths \cup {<< >>, <<Slash>>},
              fs_type : FsTypes \cup {"FS_NONE"}, ops : {"NULL", "initramfs_ops"}]
DirentType == [path : Directories \cup {<< >>}, offset : 0 .. ENTRY_COUNT]

(* vfs_open.                                                               *)
LEMMA OpenKeeps == ASSUME IInv, NEW path \in Paths, Open(path) PROVE IInv'
<1> DEFINE mount == FindMount(path)
           new == [is_open |-> TRUE, entry |-> EntryOf(path), pos |-> 0, mount |-> mount]
<1>1. LookupError(path) = ERR_OK /\ next_fd < MAX_OPEN_FILES /\ next_fd \in 3 .. MAX_OPEN_FILES
  BY VfsAssumption DEF Open, OpenError, ERR_OK, ERR_NOMEM, IInv, TypeOK
<1>2. mount # NoMount /\ mount_points[mount].ops # "NULL" /\ EntryOf(path) # NoEntry
  BY <1>1 DEF LookupError, ERR_OK, ERR_NOTFOUND, ERR_NOTSUPP
<1>3. mount \in Slots
  BY <1>2, MountPathLengths, FindMountFinds, VfsAssumption DEF IInv
<1>4. EntryOf(path) \in EntryIds
  BY <1>2, FindPathFinds DEF EntryOf
<1>5. next_fd \in FileFds /\ next_fd + 1 \in 3 .. MAX_OPEN_FILES
  BY <1>1, VfsAssumption DEF FileFds
<1> HIDE DEF mount
<1>6. new \in FileType
  BY <1>3, <1>4 DEF FileType
<1>7. open_files' = [open_files EXCEPT ![next_fd] = new] /\ next_fd' = next_fd + 1
      /\ UNCHANGED <<mount_points, listing>>
  BY DEF Open, mount
<1>8. open_files \in [Fds -> FileType]
  BY DEF IInv, TypeOK, FileType
<1> HIDE DEF new
<1>9. /\ open_files' \in [Fds -> FileType]
      /\ open_files'[next_fd] = new
      /\ \A fd \in Fds \ {next_fd} : open_files'[fd] = open_files[fd]
  BY <1>5, <1>6, <1>7, <1>8, IndexTypes
<1>10. TypeOK'
  <2>1. \A fd \in FileFds : fd >= next_fd' => open_files'[fd] = Closed
    BY <1>1, <1>7, <1>9, IndexTypes DEF IInv, TypeOK, FileFds
  <2> QED BY <1>5, <1>7, <1>9, <2>1 DEF IInv, TypeOK, listing, FileType
<1>11. OpenFilesServed'
  <2> SUFFICES ASSUME NEW fd \in FileFds, open_files'[fd].is_open
               PROVE  /\ Served(fd)'
                      /\ open_files'[fd].entry \in EntryIds
                      /\ open_files'[fd].pos <= Entries[open_files'[fd].entry].size
    BY DEF OpenFilesServed
  <2>1. CASE fd = next_fd
    <3>1. new.mount = mount /\ new.entry = EntryOf(path) /\ new.pos = 0
      BY DEF new
    <3>2. Entries[EntryOf(path)].size >= 0
      BY <1>4, VfsAssumption
    <3> QED BY <2>1, <3>1, <3>2, <1>2, <1>4, <1>7, <1>9, VfsAssumption DEF Served, mount
  <2>2. CASE fd # next_fd
    <3>1. open_files'[fd] = open_files[fd]
      BY <2>2, <1>9, IndexTypes
    <3> QED BY <3>1, <1>7 DEF IInv, OpenFilesServed, Served
  <2> QED BY <2>1, <2>2
<1>12. ListingAdvances'
  BY <1>7 DEF IInv, ListingAdvances, listing
<1> QED BY <1>10, <1>11, <1>12 DEF IInv

(* vfs_read of a file.  What remains of it is a natural number.            *)
LEMMA ReadAmount ==
  ASSUME IInv, NEW fd \in FileFds, Readable(fd), NEW size \in ReadSizes
  PROVE  /\ open_files[fd].entry \in EntryIds
         /\ open_files[fd].pos \in Nat
         /\ open_files[fd].pos + ReadCount(fd, size) \in
               open_files[fd].pos .. Entries[open_files[fd].entry].size
<1>1. open_files[fd].entry \in EntryIds /\ open_files[fd].pos <= Entries[open_files[fd].entry].size
  BY DEF IInv, OpenFilesServed, Readable
<1>2. open_files[fd].pos \in Nat
  BY IndexTypes DEF IInv, TypeOK
<1>3. Entries[open_files[fd].entry].size \in Nat /\ size \in Nat
  BY <1>1, VfsAssumption
<1> QED BY <1>1, <1>2, <1>3 DEF ReadCount, Remaining

(* A read keeps the invariant: it moves one position, within its file.     *)
LEMMA ReadKeeps ==
  ASSUME IInv, NEW fd \in FileFds, NEW size \in ReadSizes, Read(fd, size) PROVE IInv'
<1> DEFINE p == open_files[fd].pos + ReadCount(fd, size)
<1>1. /\ open_files[fd].entry \in EntryIds /\ open_files[fd].pos \in Nat
      /\ p \in open_files[fd].pos .. Entries[open_files[fd].entry].size
  BY ReadAmount DEF Read
<1>2. p \in Nat /\ p <= Entries[open_files[fd].entry].size
  BY <1>1, VfsAssumption
<1>3. open_files' = [open_files EXCEPT ![fd].pos = p] /\ UNCHANGED <<next_fd, mount_points, listing>>
  BY DEF Read
<1>4. open_files \in [Fds -> FileType]
  BY DEF IInv, TypeOK, FileType
<1>5. open_files[fd].is_open
  BY DEF Read, Readable
<1> HIDE DEF p
<1>6. /\ open_files' \in [Fds -> FileType]
      /\ open_files'[fd] = [open_files[fd] EXCEPT !.pos = p]
      /\ \A g \in Fds \ {fd} : open_files'[g] = open_files[g]
  BY <1>2, <1>3, <1>4, IndexTypes DEF FileType
<1>7. TypeOK'
  <2>1. fd < next_fd
    BY <1>5, IndexTypes DEF IInv, TypeOK, Closed
  <2>2. \A g \in FileFds : g >= next_fd' => open_files'[g] = Closed
    BY <1>3, <1>6, <2>1, IndexTypes DEF IInv, TypeOK
  <2> QED BY <1>3, <1>6, <2>2 DEF IInv, TypeOK, listing, FileType
<1>8. OpenFilesServed'
  <2> SUFFICES ASSUME NEW g \in FileFds, open_files'[g].is_open
               PROVE  /\ Served(g)'
                      /\ open_files'[g].entry \in EntryIds
                      /\ open_files'[g].pos <= Entries[open_files'[g].entry].size
    BY DEF OpenFilesServed
  <2>1. CASE g = fd
    <3>1. open_files[fd] \in FileType
      BY <1>4, IndexTypes
    <3>2. /\ open_files'[g].mount = open_files[fd].mount
          /\ open_files'[g].entry = open_files[fd].entry
          /\ open_files'[g].pos = p
      BY <2>1, <1>6, <3>1 DEF FileType
    <3> QED BY <2>1, <3>2, <1>1, <1>2, <1>3, <1>5 DEF IInv, OpenFilesServed, Served
  <2>2. CASE g # fd
    <3>1. open_files'[g] = open_files[g]
      BY <2>2, <1>6, IndexTypes
    <3> QED BY <3>1, <1>3 DEF IInv, OpenFilesServed, Served
  <2> QED BY <2>1, <2>2
<1>9. ListingAdvances'
  BY <1>3 DEF IInv, ListingAdvances, listing
<1> QED BY <1>7, <1>8, <1>9 DEF IInv

(* vfs_close of a file.                                                    *)
LEMMA CloseKeeps == ASSUME IInv, NEW fd \in FileFds, Close(fd) PROVE IInv'
<1>1. open_files' = [open_files EXCEPT ![fd] = Closed] /\ UNCHANGED <<next_fd, mount_points, listing>>
  BY DEF Close
<1>2. open_files \in [Fds -> FileType] /\ Closed \in FileType
  BY DEF IInv, TypeOK, FileType, Closed
<1>3. /\ open_files' \in [Fds -> FileType]
      /\ open_files'[fd] = Closed
      /\ \A g \in Fds \ {fd} : open_files'[g] = open_files[g]
  BY <1>1, <1>2, IndexTypes
<1>4. TypeOK'
  <2>1. \A g \in FileFds : g >= next_fd' => open_files'[g] = Closed
    BY <1>1, <1>3, IndexTypes DEF IInv, TypeOK
  <2> QED BY <1>1, <1>3, <2>1 DEF IInv, TypeOK, listing, FileType
<1>5. OpenFilesServed'
  <2> SUFFICES ASSUME NEW g \in FileFds, open_files'[g].is_open
               PROVE  /\ Served(g)'
                      /\ open_files'[g].entry \in EntryIds
                      /\ open_files'[g].pos <= Entries[open_files'[g].entry].size
    BY DEF OpenFilesServed
  <2>1. g # fd
    BY <1>3 DEF Closed
  <2>2. open_files'[g] = open_files[g]
    BY <2>1, <1>3, IndexTypes
  <2> QED BY <2>2, <1>1 DEF IInv, OpenFilesServed, Served
<1>6. ListingAdvances'
  BY <1>1 DEF IInv, ListingAdvances, listing
<1> QED BY <1>4, <1>5, <1>6 DEF IInv

(* What a step of a listing leaves alone.                                  *)
LEMMA FilesKept ==
  ASSUME IInv, UNCHANGED <<files, mount_points>> PROVE OpenFilesServed'
  BY DEF IInv, OpenFilesServed, Served, files

(* A listing begins.                                                       *)
LEMMA StartKeeps ==
  ASSUME IInv, NEW c \in Listers, NEW path \in Directories, StartListing(c, path) PROVE IInv'
<1>1. /\ dirp[c] = NoListing /\ dirp' = [dirp EXCEPT ![c].path = path]
      /\ UNCHANGED <<files, mount_points, readdir_index, lister>>
  BY DEF StartListing
<1>2. dirp \in [Listers -> DirentType]
  BY DEF IInv, TypeOK, DirentType
<1>3. dirp' \in [Listers -> DirentType] /\ \A b \in Listers : dirp'[b].offset = dirp[b].offset
  BY <1>1, <1>2 DEF DirentType
<1>4. TypeOK'
  BY <1>1, <1>3 DEF IInv, TypeOK, files, DirentType
<1>5. ListingAdvances'
  BY <1>1, <1>3 DEF IInv, ListingAdvances, TypeOK
<1> QED BY <1>1, <1>4, <1>5, FilesKept DEF IInv

(* The search finds the first of the directory's entries.                  *)
LEMMA FirstFound ==
  ASSUME NEW n, NEW d, ChildrenFrom(n, d) # {}
  PROVE  FirstOf(ChildrenFrom(n, d)) \in ChildrenFrom(n, d)
<1>1. ChildrenFrom(n, d) \in SUBSET Nat
  BY IndexTypes DEF ChildrenFrom
<1>2. \E e \in ChildrenFrom(n, d) : \A f \in ChildrenFrom(n, d) : e <= f
  BY <1>1, LeastOf
<1> QED BY <1>2 DEF FirstOf

(* vfs_readdir returns an entry.                                           *)
LEMMA ReaddirKeeps == ASSUME IInv, NEW c \in Listers, Readdir(c) PROVE IInv'
<1> DEFINE found == ChildrenFrom(SearchFrom(c), FindPath(dirp[c].path))
           e == FirstOf(found)
<1>1. /\ found # {} /\ dirp' = [dirp EXCEPT ![c].offset = e + 1] /\ readdir_index' = e + 2
      /\ lister' = c /\ UNCHANGED <<files, mount_points>>
  BY DEF Readdir
<1>2. e \in 0 .. ENTRY_COUNT - 1
  <2>1. e \in found
    BY <1>1, FirstFound
  <2> QED BY <2>1 DEF ChildrenFrom, EntryIds
<1> HIDE DEF e
<1>3. e + 1 \in 0 .. ENTRY_COUNT /\ e + 2 \in 0 .. ENTRY_COUNT + 1 /\ e + 2 >= e + 1
  BY <1>2, VfsAssumption
<1>4. dirp \in [Listers -> DirentType]
  BY DEF IInv, TypeOK, DirentType
<1>5. dirp' \in [Listers -> DirentType] /\ dirp'[c].offset = e + 1
  BY <1>1, <1>3, <1>4 DEF DirentType
<1>6. TypeOK'
  BY <1>1, <1>3, <1>5 DEF IInv, TypeOK, files, DirentType
<1>7. ListingAdvances'
  BY <1>1, <1>3, <1>5 DEF ListingAdvances
<1> QED BY <1>1, <1>6, <1>7, FilesKept DEF IInv

(* The greater of two numbers is one of them.                              *)
LEMMA MaxOfTwo ==
  ASSUME NEW a \in Int, NEW b \in Int PROVE Max({a, b}) \in {a, b}
<1>1. \E x \in {a, b} : \A y \in {a, b} : x >= y
  OBVIOUS
<1> QED BY <1>1 DEF Max

(* vfs_readdir returns no entry.                                           *)
LEMMA ReaddirEndsKeeps == ASSUME IInv, NEW c \in Listers, ReaddirEnds(c) PROVE IInv'
<1> DEFINE search == ReaddirError(dirp[c].path) = ERR_OK
           from == SearchFrom(c)
<1>1. /\ readdir_index' = IF search THEN Max({from, ENTRY_COUNT}) ELSE readdir_index
      /\ dirp' = [dirp EXCEPT ![c] = NoListing]
      /\ lister' = IF search THEN c ELSE lister
      /\ UNCHANGED <<files, mount_points>>
  BY DEF ReaddirEnds
<1>2. from \in 0 .. ENTRY_COUNT + 1
  BY VfsAssumption DEF SearchFrom, IInv, TypeOK
<1> HIDE DEF search, from
<1>3. readdir_index' \in 0 .. ENTRY_COUNT + 1
  <2>1. from \in Int /\ ENTRY_COUNT \in Int /\ ENTRY_COUNT \in 0 .. ENTRY_COUNT + 1
    BY <1>2, VfsAssumption
  <2>2. Max({from, ENTRY_COUNT}) \in 0 .. ENTRY_COUNT + 1
    BY <2>1, <1>2, MaxOfTwo
  <2> QED BY <1>1, <2>2 DEF IInv, TypeOK
<1>4. dirp \in [Listers -> DirentType] /\ NoListing \in DirentType
  BY VfsAssumption DEF IInv, TypeOK, DirentType, NoListing
<1>5. /\ dirp' \in [Listers -> DirentType] /\ dirp'[c] = NoListing
      /\ \A b \in Listers \ {c} : dirp'[b] = dirp[b]
  BY <1>1, <1>4
<1>6. TypeOK'
  BY <1>1, <1>3, <1>5 DEF IInv, TypeOK, files, DirentType
<1>7. ListingAdvances'
  <2>1. lister' = c => dirp'[lister'].offset = 0
    BY <1>5 DEF NoListing
  <2>2. lister' # c => ListingAdvances'
    BY <1>1, <1>5 DEF IInv, TypeOK, ListingAdvances
  <2> QED BY <2>1, <2>2 DEF ListingAdvances
<1> QED BY <1>1, <1>6, <1>7, FilesKept DEF IInv

(* When no slot loses its operations, the files that are open are served.  *)
LEMMA ServedStays ==
  ASSUME IInv, UNCHANGED <<files, listing>>,
         mount_points' \in [Slots -> MountType],
         \A i \in Slots : mount_points[i].ops # "NULL" => mount_points'[i].ops # "NULL"
  PROVE  IInv'
<1>1. TypeOK'
  BY DEF IInv, TypeOK, files, listing, MountType
<1>2. OpenFilesServed'
  <2> SUFFICES ASSUME NEW fd \in FileFds, open_files[fd].is_open PROVE Served(fd)'
    BY DEF IInv, OpenFilesServed, files
  <2>1. Served(fd) /\ open_files[fd].mount \in Slots
    BY IndexTypes DEF IInv, TypeOK, OpenFilesServed, Served
  <2> QED BY <2>1 DEF Served, files
<1>3. ListingAdvances'
  BY DEF IInv, ListingAdvances, listing
<1> QED BY <1>1, <1>2, <1>3 DEF IInv

(* vfs_mount, whether it knows the type or not.                            *)
LEMMA MountKeeps ==
  ASSUME IInv, NEW path \in MountPaths, NEW fs_type \in FsTypes, Mount(path, fs_type) PROVE IInv'
<1>1. PICK i \in Slots : mount_points' = [mount_points EXCEPT ![i] =
         [mounted |-> TRUE, path |-> path, fs_type |-> fs_type,
          ops |-> IF fs_type = "FS_INITRAMFS" THEN "initramfs_ops" ELSE @.ops]]
  BY DEF Mount
<1>2. mount_points \in [Slots -> MountType]
  BY DEF IInv, TypeOK, MountType
<1> DEFINE new == [mounted |-> TRUE, path |-> path, fs_type |-> fs_type,
                   ops |-> IF fs_type = "FS_INITRAMFS" THEN "initramfs_ops" ELSE mount_points[i].ops]
<1>3. new \in MountType /\ (mount_points[i].ops # "NULL" => new.ops # "NULL")
  BY <1>2 DEF MountType
<1>4. mount_points' = [mount_points EXCEPT ![i] = new]
  BY <1>1, <1>2
<1> HIDE DEF new
<1>5. /\ mount_points' \in [Slots -> MountType]
      /\ \A j \in Slots : mount_points[j].ops # "NULL" => mount_points'[j].ops # "NULL"
  BY <1>2, <1>3, <1>4
<1> QED BY <1>5, ServedStays DEF Mount

(* vfs_unmount.                                                            *)
LEMMA UnmountKeeps ==
  ASSUME IInv, NEW path \in MountPaths, Unmount(path) PROVE IInv'
<1>1. PICK i \in Slots :
         mount_points' = [mount_points EXCEPT ![i] = [Unmounted EXCEPT !.ops = mount_points[i].ops]]
  BY DEF Unmount
<1>2. mount_points \in [Slots -> MountType]
  BY DEF IInv, TypeOK, MountType
<1> DEFINE new == [Unmounted EXCEPT !.ops = mount_points[i].ops]
<1>3. new \in MountType /\ new.ops = mount_points[i].ops
  BY <1>2 DEF MountType, Unmounted
<1> HIDE DEF new
<1>4. /\ mount_points' \in [Slots -> MountType]
      /\ \A j \in Slots : mount_points[j].ops # "NULL" => mount_points'[j].ops # "NULL"
  BY <1>1, <1>2, <1>3 DEF new
<1> QED BY <1>4, ServedStays DEF Unmount

(* Every step keeps the invariant.                                         *)
LEMMA NextKeeps == IInv /\ [Next]_vars => IInv'
<1> SUFFICES ASSUME IInv, [Next]_vars PROVE IInv'
  OBVIOUS
<1>1. CASE UNCHANGED vars
  BY <1>1 DEF vars, files, listing, IInv, TypeOK, OpenFilesServed, Served, ListingAdvances
<1>2. ASSUME NEW c \in Listers, ListingStep(c) PROVE IInv'
  BY <1>2, StartKeeps, ReaddirKeeps, ReaddirEndsKeeps DEF ListingStep
<1>3. ASSUME NEW path \in Paths, Open(path) PROVE IInv'
  BY <1>3, OpenKeeps
<1>4. ASSUME NEW fd \in FileFds, Close(fd) \/ \E size \in ReadSizes : Read(fd, size) PROVE IInv'
  BY <1>4, CloseKeeps, ReadKeeps
<1>5. ASSUME NEW path \in MountPaths,
             Unmount(path) \/ \E fs_type \in FsTypes : Mount(path, fs_type)
      PROVE  IInv'
  BY <1>5, MountKeeps, UnmountKeeps
<1> QED BY <1>1, <1>2, <1>3, <1>4, <1>5 DEF Next

(* Typing, service of open files and the progress of listings together are *)
(* an inductive invariant of vfs.c.                                        *)
THEOREM Inductive == Spec => []IInv
  BY InitIInv, NextKeeps, PTL DEF Spec

(* Every variable has its type, and descriptors from next_fd on are unused *)
(* (vfs.c:18, 81-106).                                                     *)
THEOREM TypeCorrect == Spec => []TypeOK
  BY Inductive, PTL DEF IInv

(* However many mounts come and go, an open file can be read and its       *)
(* position is in the file (vfs.c:253-277, 391-443).                       *)
THEOREM OpenFilesAlwaysServed == Spec => []OpenFilesServed
  BY Inductive, PTL DEF IInv

(* The listing that searched last never goes back (vfs.c:365-384).         *)
THEOREM ListingAlwaysAdvances == Spec => []ListingAdvances
  BY Inductive, PTL DEF IInv

-----------------------------------------------------------------------------
(* A number as Descriptors sees it.                                        *)
FileOf(fd) ==
    IF fd >= next_fd THEN [stage |-> "unused", entry |-> NoEntry, pos |-> 0]
    ELSE IF open_files[fd].is_open
    THEN [stage |-> "open", entry |-> open_files[fd].entry, pos |-> open_files[fd].pos]
    ELSE [stage |-> "closed", entry |-> NoEntry, pos |-> 0]

(* The mapped table.                                                       *)
Mapped == [fd \in FileFds |-> FileOf(fd)]

(* The steps of Descriptors, said of the mapped table.                     *)
LEMMA MappedIs ==
  /\ Table!Init <=> Mapped = [fd \in FileFds |-> Table!At("unused", NoEntry, 0)]
  /\ \A fd, e : Table!Open(fd, e) <=>
        /\ Mapped[fd].stage = "unused"
        /\ Mapped' = [Mapped EXCEPT ![fd] = Table!At("open", e, 0)]
  /\ \A fd : Table!Close(fd) <=>
        /\ Mapped[fd].stage = "open"
        /\ Mapped' = [Mapped EXCEPT ![fd] = Table!At("closed", NoEntry, 0)]
  /\ \A fd : Table!Read(fd) <=>
        /\ Mapped[fd].stage = "open"
        /\ \E p \in Mapped[fd].pos .. [e \in EntryIds |-> Entries[e].size][Mapped[fd].entry] :
              Mapped' = [Mapped EXCEPT ![fd].pos = p]
  BY DEF Table!Init, Table!Open, Table!Close, Table!Read, Table!NoEntry, NoEntry, Mapped, FileOf

(* A step that touches one number changes the mapped table there only.     *)
LEMMA MappedStep ==
  ASSUME NEW fd \in FileFds, NEW new,
         FileOf(fd)' = new,
         \A g \in FileFds \ {fd} : FileOf(g)' = FileOf(g)
  PROVE  Mapped' = [Mapped EXCEPT ![fd] = new]
  BY DEF Mapped

(* vfs_open takes the next number, which was never used.                   *)
LEMMA OpenRefines ==
  ASSUME IInv, NEW path \in Paths, Open(path), NEW n \in FileFds, n = next_fd,
         NEW e \in EntryIds, e = EntryOf(path)
  PROVE  Table!Open(n, e)
<1>1. /\ next_fd' = n + 1 /\ n \in Nat
      /\ open_files' = [open_files EXCEPT ![n] =
            [is_open |-> TRUE, entry |-> e, pos |-> 0, mount |-> FindMount(path)]]
  BY IndexTypes DEF Open
<1>2. n \in Fds /\ DOMAIN open_files = Fds
  BY IndexTypes DEF IInv, TypeOK
<1>3. Mapped[n].stage = "unused"
  BY <1>1 DEF Mapped, FileOf
<1>4. open_files'[n] = [is_open |-> TRUE, entry |-> e, pos |-> 0, mount |-> FindMount(path)]
  BY <1>1, <1>2
<1>5. FileOf(n)' = Table!At("open", e, 0)
  BY <1>1, <1>4 DEF FileOf, Table!At
<1>6. \A g \in FileFds \ {n} : FileOf(g)' = FileOf(g)
  <2> SUFFICES ASSUME NEW g \in FileFds \ {n} PROVE FileOf(g)' = FileOf(g)
    OBVIOUS
  <2>1. open_files'[g] = open_files[g]
    BY <1>1, <1>2, IndexTypes
  <2>2. g >= next_fd' <=> g >= next_fd
    BY <1>1, IndexTypes
  <2> QED BY <2>1, <2>2 DEF FileOf
<1>7. Mapped' = [Mapped EXCEPT ![n] = Table!At("open", e, 0)]
  BY <1>5, <1>6, MappedStep
<1> QED BY <1>3, <1>7, MappedIs

(* An open has such a number and such an entry.                            *)
LEMMA OpenTakes ==
  ASSUME IInv, NEW path \in Paths, Open(path)
  PROVE  next_fd \in FileFds /\ EntryOf(path) \in EntryIds
<1>1. LookupError(path) = ERR_OK /\ next_fd < MAX_OPEN_FILES /\ next_fd \in 3 .. MAX_OPEN_FILES
  BY VfsAssumption DEF Open, OpenError, ERR_OK, ERR_NOMEM, IInv, TypeOK
<1> QED BY <1>1, FindPathFinds, VfsAssumption
        DEF FileFds, LookupError, EntryOf, ERR_OK, ERR_NOTFOUND, ERR_NOTSUPP

(* A number whose file is open is below next_fd.                           *)
LEMMA OpenIsUsed ==
  ASSUME IInv, NEW fd \in FileFds, open_files[fd].is_open
  PROVE  /\ ~(fd >= next_fd)
         /\ FileOf(fd) = [stage |-> "open", entry |-> open_files[fd].entry,
                          pos |-> open_files[fd].pos]
  BY DEF IInv, TypeOK, Closed, FileOf

(* vfs_read moves forward within the file.                                 *)
LEMMA ReadRefines ==
  ASSUME IInv, NEW fd \in FileFds, NEW size \in ReadSizes, Read(fd, size)
  PROVE  Table!Read(fd)
<1> DEFINE p == open_files[fd].pos + ReadCount(fd, size)
<1>1. /\ open_files[fd].entry \in EntryIds
      /\ p \in open_files[fd].pos .. Entries[open_files[fd].entry].size
  BY ReadAmount DEF Read
<1>2. open_files' = [open_files EXCEPT ![fd].pos = p] /\ next_fd' = next_fd
      /\ open_files[fd].is_open
  BY DEF Read, Readable
<1>3. open_files \in [Fds -> FileType] /\ fd \in Fds
  BY IndexTypes DEF IInv, TypeOK, FileType
<1> HIDE DEF p
<1>4. PICK q : q = p
  OBVIOUS
<1>5. /\ open_files'[fd].is_open /\ open_files'[fd].pos = q
      /\ open_files'[fd].entry = open_files[fd].entry
  BY <1>2, <1>3, <1>4 DEF FileType
<1>6. Mapped[fd] = [stage |-> "open", entry |-> open_files[fd].entry, pos |-> open_files[fd].pos]
  BY <1>2, OpenIsUsed DEF Mapped
<1>7. FileOf(fd)' = [Mapped[fd] EXCEPT !.pos = q]
  BY <1>2, <1>5, <1>6, OpenIsUsed DEF FileOf
<1>8. \A g \in FileFds \ {fd} : FileOf(g)' = FileOf(g)
  BY <1>2, <1>3, IndexTypes DEF FileOf
<1>9. Mapped' = [Mapped EXCEPT ![fd] = [Mapped[fd] EXCEPT !.pos = q]]
  BY <1>7, <1>8, MappedStep
<1>10. Mapped' = [Mapped EXCEPT ![fd].pos = q]
  BY <1>9
<1>11. q \in Mapped[fd].pos .. [e \in EntryIds |-> Entries[e].size][Mapped[fd].entry]
  BY <1>1, <1>4, <1>6
<1>12. Mapped[fd].stage = "open"
  BY <1>6
<1>13. \E r \in Mapped[fd].pos .. [e \in EntryIds |-> Entries[e].size][Mapped[fd].entry] :
          Mapped' = [Mapped EXCEPT ![fd].pos = r]
  BY <1>10, <1>11
<1> QED BY <1>12, <1>13, MappedIs

(* vfs_close gives the number up for good.                                 *)
LEMMA CloseRefines ==
  ASSUME IInv, NEW fd \in FileFds, Close(fd) PROVE Table!Close(fd)
<1>1. open_files' = [open_files EXCEPT ![fd] = Closed] /\ next_fd' = next_fd
      /\ open_files[fd].is_open
  BY DEF Close
<1>2. DOMAIN open_files = Fds /\ fd \in Fds
  BY IndexTypes DEF IInv, TypeOK
<1>3. Mapped[fd].stage = "open" /\ ~(fd >= next_fd)
  BY <1>1, OpenIsUsed DEF Mapped
<1>4. ~open_files'[fd].is_open
  BY <1>1, <1>2 DEF Closed
<1>5. FileOf(fd)' = Table!At("closed", NoEntry, 0)
  BY <1>1, <1>3, <1>4 DEF FileOf, Table!At
<1>6. \A g \in FileFds \ {fd} : FileOf(g)' = FileOf(g)
  BY <1>1, <1>2, IndexTypes DEF FileOf
<1>7. Mapped' = [Mapped EXCEPT ![fd] = Table!At("closed", NoEntry, 0)]
  BY <1>5, <1>6, MappedStep
<1> QED BY <1>3, <1>7, MappedIs

(* Every step is a step of Descriptors, or leaves the mapped table alone.  *)
LEMMA NextRefines == IInv /\ [Next]_vars => [Table!Next]_(Table!vars)
<1> SUFFICES ASSUME IInv, [Next]_vars PROVE Table!Next \/ UNCHANGED Mapped
  BY DEF Table!vars, Mapped, FileOf
<1>1. UNCHANGED files => UNCHANGED Mapped
  BY DEF files, Mapped, FileOf
<1>2. CASE UNCHANGED vars
  BY <1>1, <1>2 DEF vars
<1>3. ASSUME NEW c \in Listers, ListingStep(c) PROVE UNCHANGED Mapped
  BY <1>1, <1>3 DEF ListingStep, StartListing, Readdir, ReaddirEnds
<1>4. ASSUME NEW path \in Paths, Open(path) PROVE Table!Next
  <2>1. PICK n \in FileFds, e \in EntryIds : n = next_fd /\ e = EntryOf(path)
    BY <1>4, OpenTakes
  <2>2. Table!Open(n, e)
    BY <1>4, <2>1, OpenRefines
  <2> QED BY <2>2 DEF Table!Next
<1>5. ASSUME NEW fd \in FileFds, Close(fd) PROVE Table!Next
  BY <1>5, CloseRefines DEF Table!Next
<1>6. ASSUME NEW fd \in FileFds, NEW size \in ReadSizes, Read(fd, size) PROVE Table!Next
  BY <1>6, ReadRefines DEF Table!Next
<1>7. ASSUME NEW path \in MountPaths,
             Unmount(path) \/ \E fs_type \in FsTypes : Mount(path, fs_type)
      PROVE  UNCHANGED Mapped
  BY <1>1, <1>7 DEF Unmount, Mount
<1> QED BY <1>2, <1>3, <1>4, <1>5, <1>6, <1>7 DEF Next

(* A number names one file from its open to its close and none after it,   *)
(* whatever is mounted meanwhile (vfs.c:81-142, 309-328).                  *)
THEOREM Refinement == Spec => ImplementsDescriptors
<1>1. Init => Table!Init
  <2> SUFFICES ASSUME Init PROVE Mapped = [fd \in FileFds |-> Table!At("unused", NoEntry, 0)]
    BY MappedIs
  <2> QED BY DEF Init, Mapped, FileOf, FileFds, Table!At
<1> QED BY <1>1, NextRefines, Inductive, PTL DEF Spec, ImplementsDescriptors, Table!Spec
=============================================================================
