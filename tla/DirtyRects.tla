------------------------------ MODULE DirtyRects ------------------------------
(***************************************************************************)
(* The damage list of the video driver: video_note_dirty_locked clips a    *)
(* rectangle that was drawn in the back buffer, extends the bounding union *)
(* and records the rectangle in a bounded list that coalesces; video_      *)
(* present_pending copies the listed rectangles, or the union once the     *)
(* list has overflowed, to the frame buffer and clears the list.           *)
(*                                                                         *)
(* All of it runs under the video lock (VideoLock), so nothing interleaves *)
(* with it; the scan of the list is one step per entry because it restarts *)
(* after each merge.                                                       *)
(***************************************************************************)
EXTENDS Integers, Sequences

CONSTANTS Width,     \* fb_width
          Height,    \* fb_height
          Capacity,  \* VIDEO_DIRTY_RECT_CAPACITY
          Requests   \* the rectangles that callers note, before clipping

Rects == [x : Int, y : Int, w : Int, h : Int]

ASSUME SizeAssumption == Width \in Nat \ {0} /\ Height \in Nat \ {0}
ASSUME CapacityAssumption == Capacity \in Nat \ {0}
ASSUME RequestsAssumption == Requests \subseteq Rects

VARIABLES valid,     \* dirty_valid
          box,       \* dirty_x, dirty_y, dirty_w, dirty_h
          rects,     \* dirty_rects[0 .. dirty_rect_count - 1]
          overflow,  \* dirty_overflow
          pc,        \* "idle", or "scan" inside video_record_dirty_rect
          cur,       \* the rectangle that is being recorded
          i,         \* index of the entry it is compared with
          stale      \* pixels drawn and not yet copied to the frame buffer

vars == <<valid, box, rects, overflow, pc, cur, i, stale>>

Right(r) == r.x + r.w
Bottom(r) == r.y + r.h

Screen == (0..Width - 1) \X (0..Height - 1)

(* The pixel p lies in rectangle r.                                        *)
In(p, r) == /\ r.x <= p[1] /\ p[1] < Right(r)
            /\ r.y <= p[2] /\ p[2] < Bottom(r)

Pixels(r) == {p \in Screen : In(p, r)}

Lesser(a, b) == IF a < b THEN a ELSE b
Greater(a, b) == IF a > b THEN a ELSE b

FromEdges(x0, y0, x1, y1) == [x |-> x0, y |-> y0, w |-> x1 - x0, h |-> y1 - y0]

Hull(r, s) == FromEdges(Lesser(r.x, s.x), Lesser(r.y, s.y),
                        Greater(Right(r), Right(s)),
                        Greater(Bottom(r), Bottom(s)))

Contains(r, s) == /\ r.x <= s.x /\ Right(r) >= Right(s)
                  /\ r.y <= s.y /\ Bottom(r) >= Bottom(s)

SameRow(r, s) == /\ r.y = s.y /\ r.h = s.h
                 /\ r.x <= Right(s) /\ s.x <= Right(r)

SameColumn(r, s) == /\ r.x = s.x /\ r.w = s.w
                    /\ r.y <= Bottom(s) /\ s.y <= Bottom(r)

(* The entry r gives way to the hull of r and the new rectangle s.         *)
Merges(r, s) == Contains(s, r) \/ SameRow(r, s) \/ SameColumn(r, s)

(* The part of a rectangle that is on the screen.                          *)
Clip(r) == FromEdges(Greater(r.x, 0), Greater(r.y, 0),
                     Lesser(Right(r), Width), Lesser(Bottom(r), Height))

NoRect == FromEdges(0, 0, 0, 0)

(* dirty_rects with the entry at position k taken out.                     *)
Without(s, k) ==
  [j \in 1..Len(s) - 1 |-> IF j < k THEN s[j] ELSE s[j + 1]]

Init ==
  /\ valid = FALSE
  /\ box = NoRect
  /\ rects = << >>
  /\ overflow = FALSE
  /\ pc = "idle"
  /\ cur = NoRect
  /\ i = 1
  /\ stale = {}

(* Mutant of DirtyUnion: the union is the last rectangle.                  *)
DirtyUnionLast(c) == c

(* video_update_dirty_union.                                               *)
DirtyUnion(c) == IF valid THEN Hull(box, c) ELSE c

(* A caller draws the rectangle r and notes it (video_note_dirty_locked).  *)
NoteDirty(r) ==
  /\ pc = "idle"
  /\ r.w > 0 /\ r.h > 0
  /\ LET c == Clip(r) IN
       /\ c.w > 0 /\ c.h > 0
       /\ valid' = TRUE
       /\ box' = DirtyUnion(c)
       /\ stale' = stale \cup Pixels(c)
       /\ IF overflow
            THEN UNCHANGED <<pc, cur, i>>
            ELSE pc' = "scan" /\ cur' = c /\ i' = 1
  /\ UNCHANGED <<rects, overflow>>

ScanDone == pc' = "idle" /\ cur' = NoRect /\ i' = 1

(* video_record_dirty_rect, one entry of the list: it contains the new     *)
(* rectangle, it is merged with it and the scan restarts, or it is passed. *)
Covered ==
  /\ pc = "scan" /\ i <= Len(rects)
  /\ Contains(rects[i], cur)
  /\ ScanDone
  /\ UNCHANGED <<valid, box, rects, overflow, stale>>

(* Mutant of Merge: the scan goes on where it was instead of restarting.   *)
MergeGoesOn ==
  /\ pc = "scan" /\ i <= Len(rects)
  /\ ~Contains(rects[i], cur)
  /\ Merges(rects[i], cur)
  /\ cur' = Hull(rects[i], cur)
  /\ rects' = Without(rects, i)
  /\ UNCHANGED <<valid, box, overflow, pc, i, stale>>

Merge ==
  /\ pc = "scan" /\ i <= Len(rects)
  /\ ~Contains(rects[i], cur)
  /\ Merges(rects[i], cur)
  /\ cur' = Hull(rects[i], cur)
  /\ rects' = Without(rects, i)
  /\ i' = 1
  /\ UNCHANGED <<valid, box, overflow, pc, stale>>

Pass ==
  /\ pc = "scan" /\ i <= Len(rects)
  /\ ~Contains(rects[i], cur)
  /\ ~Merges(rects[i], cur)
  /\ i' = i + 1
  /\ UNCHANGED <<valid, box, rects, overflow, pc, cur, stale>>

(* The scan has passed every entry: append, or give the list up.           *)
Record ==
  /\ pc = "scan" /\ i > Len(rects)
  /\ \/ /\ Len(rects) < Capacity
        /\ rects' = Append(rects, cur)
        /\ overflow' = overflow
     \/ /\ Len(rects) >= Capacity
        /\ rects' = << >>
        /\ overflow' = TRUE
  /\ ScanDone
  /\ UNCHANGED <<valid, box, stale>>

(* What video_present_pending copies.                                      *)
InRegion(p) ==
  IF overflow \/ Len(rects) = 0
  THEN In(p, box)
  ELSE \E k \in 1..Len(rects) : In(p, rects[k])

(* video_present_pending, with video_clear_dirty_locked at its end.        *)
Present ==
  /\ pc = "idle"
  /\ valid
  /\ stale' = {p \in stale : ~InRegion(p)}
  /\ valid' = FALSE
  /\ box' = NoRect
  /\ rects' = << >>
  /\ overflow' = FALSE
  /\ UNCHANGED <<pc, cur, i>>

Next ==
  \/ \E r \in Requests : NoteDirty(r)
  \/ Covered \/ Merge \/ Pass \/ Record
  \/ Present

Spec == Init /\ [][Next]_vars

-----------------------------------------------------------------------------
OnScreen(r) == /\ r.w > 0 /\ r.x >= 0 /\ Right(r) <= Width
               /\ r.h > 0 /\ r.y >= 0 /\ Bottom(r) <= Height

(* Type invariant of the damage list and of the scan.                      *)
TypeOK ==
  /\ valid \in BOOLEAN /\ overflow \in BOOLEAN
  /\ box \in Rects /\ cur \in Rects
  /\ rects \in Seq(Rects)
  /\ Len(rects) <= Capacity
  /\ pc \in {"idle", "scan"}
  /\ i \in 1..Len(rects) + 1
  /\ stale \subseteq Screen

(* Whatever was drawn since the last present will be copied by the next:   *)
(* containment, merging and the overflow fallback of                       *)
(* video_record_dirty_rect lose no pixel, in any order of calls.           *)
Conservative ==
  \A p \in stale : InRegion(p) \/ (pc = "scan" /\ In(p, cur))

(* Until it overflows the list coalesces without growing: present copies   *)
(* no pixel that nobody drew.                                              *)
Exact ==
  pc = "idle" /\ valid /\ ~overflow =>
    \A p \in Screen : InRegion(p) => p \in stale

(* No entry of the list contains another or could be merged with it: the   *)
(* restart after a merge finds the merges that it makes possible.          *)
Reduced ==
  \A j, k \in 1..Len(rects) :
    j # k => ~Contains(rects[j], rects[k]) /\ ~Merges(rects[j], rects[k])

(* Every rectangle that present may copy lies on the screen, so            *)
(* video_copy_rect_to_front clips nothing and never writes outside the     *)
(* frame buffer; the union bounds the list it replaces.                    *)
Bounded ==
  /\ valid => OnScreen(box)
  /\ \A k \in 1..Len(rects) : OnScreen(rects[k]) /\ Contains(box, rects[k])
  /\ pc = "scan" => OnScreen(cur) /\ Contains(box, cur)

(* The list as present finds it: before an overflow it covers no pixel     *)
(* that was not drawn, the restarting scan has left no two entries that    *)
(* could be one, and every entry lies on the screen and in the union.      *)
ListIsSound == Exact /\ Reduced /\ Bounded

(* The list implements the damage set of module Damage, the pixels drawn   *)
(* and not yet copied being the set: every video_present_pending shows all *)
(* that was noted before it.                                               *)
D == INSTANCE Damage WITH damage <- stale

ImplementsDamage == D!Spec

=============================================================================
