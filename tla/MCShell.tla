------------------------------- MODULE MCShell -------------------------------
(***************************************************************************)
(* Shell with six keys for a line, a buffer of six characters and three    *)
(* arguments at most, and names of one or two letters for the commands.    *)
(***************************************************************************)
EXTENDS Shell

MCCat == {<<"c">>}
MCLs == {<<"l">>}
MCHalting == {<<"c", "c">>}
MCQuiet == {<<"l", "l">>}
MCPathOf == [w \in {<<"c">>, <<"/">>} |-> IF w = <<"c">> THEN 0 ELSE 1]
MCRoot == <<"/">>
MCSize == [e \in 0 .. 1 |-> 0]
=============================================================================
