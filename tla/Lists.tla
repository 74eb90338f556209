------------------------------- MODULE Lists -------------------------------
(***************************************************************************)
(* Arrays with a count, used as lists: held_mutexes, attached_procs,       *)
(* shm_regions.  The code removes an entry by searching for the first one  *)
(* equal to it and moving the later ones up.                               *)
(***************************************************************************)
EXTENDS Integers, Sequences, SequencesExt

Occurs(x, list) == \E k \in DOMAIN list : list[k] = x

FirstIndex(x, list) ==
    CHOOSE k \in DOMAIN list : list[k] = x /\ \A j \in 1 .. k - 1 : list[j] # x

Removed(x, list) ==
    IF Occurs(x, list) THEN RemoveAt(list, FirstIndex(x, list)) ELSE list

NoRepeats(list) == \A j, k \in DOMAIN list : list[j] = list[k] => j = k
=============================================================================
