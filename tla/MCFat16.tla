------------------------------ MODULE MCFat16 ------------------------------
(***************************************************************************)
(* A volume small enough to fill up: four clusters, two root entries and    *)
(* one entry to a directory cluster, so that directories grow, the root     *)
(* fills and the last cluster is taken.  The names are such as A.C and      *)
(* A.COM: the first also stands for the second.                             *)
(***************************************************************************)
EXTENDS Fat16

CONSTANTS AC, ACOM

MCNames == {AC, ACOM}
MCAccepts == [n \in MCNames |-> IF n = AC THEN {AC, ACOM} ELSE {n}]
MCClusters == 2 .. 5
=============================================================================
