---------------------------- MODULE MCDirtyRects ----------------------------
(***************************************************************************)
(* Instances of DirtyRects: every rectangle of a small screen, and some    *)
(* that hang over its edges or miss it.                                    *)
(***************************************************************************)
EXTENDS DirtyRects

MCRequests ==
  LET inside == {r \in [x : 0..Width - 1, y : 0..Height - 1,
                        w : 1..Width, h : 1..Height] : OnScreen(r)}
      over == [x : {-1, Width - 1}, y : {-1, 0, Height}, w : {0, 2}, h : {2}]
  IN inside \cup over
=============================================================================
