----------------------------- MODULE MCTerminal -----------------------------
(***************************************************************************)
(* Terminal with a ring of three cells, a screen of 3 columns and 2 rows   *)
(* with tab stops every 2, lines of at most 2 characters, and five keys.   *)
(***************************************************************************)
EXTENDS Terminal

MCAscii == [k \in CharKeys |-> k]
MCShifted == [c \in CharKeys |-> IF c = "a" THEN "A" ELSE c]
=============================================================================
