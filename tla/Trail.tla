-------------------------------- MODULE Trail --------------------------------
(***************************************************************************)
(* What the Back and Forward buttons of a file manager window promise: the *)
(* folders visited, of which the last Limit are remembered, a position     *)
(* among them that is where the window is, and a visit that forgets what   *)
(* lay ahead.                                                              *)
(***************************************************************************)
EXTENDS Naturals, Sequences

CONSTANTS Places, Limit

VARIABLES trail,  \* the places remembered; empty while there is no window
          at,     \* the position
          here    \* where the window is

Remembered(s) == IF Len(s) > Limit THEN SubSeq(s, Len(s) - Limit + 1, Len(s)) ELSE s

Init == trail = <<>> /\ at = 0 /\ here \in Places

Open == trail = <<>> /\ here' \in Places /\ trail' = <<here'>> /\ at' = 1

Visit ==
  /\ trail # <<>>
  /\ here' \in Places \ {here}
  /\ trail' = Remembered(Append(SubSeq(trail, 1, at), here'))
  /\ at' = Len(trail')

Go(n) == n \in DOMAIN trail /\ at' = n /\ here' = trail[n] /\ UNCHANGED trail

Back == Go(at - 1)

Forward == Go(at + 1)

Close == trail # <<>> /\ trail' = <<>> /\ at' = 0 /\ here' \in Places

Next == Open \/ Visit \/ Back \/ Forward \/ Close

Spec == Init /\ [][Next]_<<trail, at, here>>
=============================================================================
