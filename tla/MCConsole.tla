------------------------------ MODULE MCConsole ------------------------------
(***************************************************************************)
(* A console of two by two cells, a pixel beside it and one that is not on *)
(* the screen.                                                             *)
(***************************************************************************)
EXTENDS Console

CONSTANTS shell, worker, off

beside == <<2, 0>>

MCScreen == ((0 .. 1) \X (0 .. 1)) \cup {beside}

MCBox(P) ==
  {p \in MCScreen :
     /\ (\E q \in P : q[1] <= p[1]) /\ (\E q \in P : q[1] >= p[1])
     /\ (\E q \in P : q[2] <= p[2]) /\ (\E q \in P : q[2] >= p[2])}

(* What other tasks draw: over the edge of the screen, and outside.        *)
MCRegions == {{beside, off}, {off}}
=============================================================================
