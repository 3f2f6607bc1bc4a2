-------------------------------- MODULE Damage --------------------------------
(***************************************************************************)
(* What the damage list promises to the rest of the video driver: pixels   *)
(* that are drawn and noted accumulate, and one present shows all of them. *)
(* DirtyRects implements it; VideoFrame is built on it.                    *)
(***************************************************************************)
CONSTANT Screen     \* the pixels

VARIABLE damage     \* pixels noted since the last present

Init == damage = {}

Note == damage \subseteq damage' /\ damage' \subseteq Screen

Present == damage' = {}

Spec == Init /\ [][Note \/ Present]_damage
=============================================================================
