------------------------------ MODULE MCDesktop ------------------------------
(* A desktop of three columns on which windows overlap in part: the main      *)
(* window, two file manager windows or one and the viewer; two presses or     *)
(* keys after each of the three states a session begins in.                   *)
EXTENDS Desktop

(* What follows a repaint that missed something is not explored: until the    *)
(* whole is painted ScreenIsCurrent says nothing, and the rest of the state   *)
(* goes the way it goes when the same samples are painted otherwise.          *)
NothingMissed == ~missed
=============================================================================
