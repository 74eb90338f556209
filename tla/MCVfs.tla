-------------------------------- MODULE MCVfs --------------------------------
(***************************************************************************)
(* Vfs with two listings, two descriptors for files, two mount points, and  *)
(* five of the entries of the initramfs: "/", "/etc", "/bin/sh", which is  *)
(* empty, "/etc/passwd", in "/etc", and "/README", with sizes of 2.        *)
(* Names are one character long.                                           *)
(***************************************************************************)
EXTENDS Vfs

Dir(name) == [name |-> name, type |-> "FILE_TYPE_DIR", size |-> 0, parent |-> 0]
File(name, size, parent) ==
    [name |-> name, type |-> "FILE_TYPE_FILE", size |-> size, parent |-> parent]

MCEntries ==
    [e \in 0 .. 4 |->
       CASE e = 0 -> Dir(<<"/">>)
         [] e = 1 -> Dir(<<"/", "e">>)
         [] e = 2 -> File(<<"/", "b">>, 0, 0)
         [] e = 3 -> File(<<"/", "e", "/", "p">>, 2, 1)
         [] e = 4 -> File(<<"/", "R">>, 2, 0)]

MCPaths ==
    {<<"/">>, <<"/", "R">>, <<"/", "/", "/", "R">>,
     <<"/", "e">>, <<"/", "e", "/", "/", "R">>}
Symmetry == Permutations(Listers)

MCMountPaths == {<<"/">>, <<"/", "e">>}
=============================================================================
