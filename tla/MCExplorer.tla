----------------------------- MODULE MCExplorer -----------------------------
(* Two windows, two drives; the desktop's folder has two files, such as A.C  *)
(* (f) and before it A.COM (g), and the other drive has one of these names   *)
(* in its root.  The list of a folder has two places, so it can be cut off.  *)
EXTENDS Explorer

CONSTANTS A, B, home, d, f, g

MCAccepts == [n \in Names |-> IF n = f THEN {f, g} ELSE {n}]

Empty == [c \in Clusters |-> EmptyDir]
MCDisks == {[x \in {A, B} |->
               IF x = A THEN [Empty EXCEPT ![Root][home] = FolderAt(1, 1), ![1][g] = FileOf(3, 1), ![1][f] = FileOf(1, 2)]
               ELSE [Empty EXCEPT ![Root][f] = FileOf(2, 1)]]}
=============================================================================
