------------------------------ MODULE VideoFrame ------------------------------
(***************************************************************************)
(* Drawing and presenting by several tasks: the protocol between the back  *)
(* buffer, the damage list, the deferred flag and the frame buffer.        *)
(*                                                                         *)
(* Each action is one critical section of the video lock; the timer may    *)
(* switch tasks between two sections of one operation.  Some operations    *)
(* draw and note the damage in one section (rectangle batches, text and    *)
(* surfaces), others in two (the console, clears).  video_maybe_           *)
(* present_pending reads the deferred flag in one section and presents in  *)
(* another.                                                                *)
(***************************************************************************)
EXTENDS FiniteSets

CONSTANTS Tasks,      \* the tasks that draw
          Owners,     \* the shell or the application that has the screen
          Screen,     \* the pixels
          Regions,    \* what one operation is asked to draw
          Box(_)      \* the pixels of the bounding rectangle of a set of pixels

ASSUME OwnersAssumption == Owners \subseteq Tasks
ASSUME BoxAssumption == \A P \in SUBSET Screen : P \subseteq Box(P)

VARIABLES stale,     \* pixels of the back buffer not yet copied to the front
          damage,    \* pixels noted since the last present
          deferred,  \* present_deferred
          hidden,    \* cells noted by an operation that leaves the present to
                     \* its caller, as video_cursor_suspend_graphics does
          pc,        \* per task, the next section of its operation
          owed       \* per task, pixels drawn and not yet noted

vars == <<stale, damage, deferred, hidden, pc, owed>>

Init ==
  /\ stale = {}
  /\ damage = {}
  /\ deferred = FALSE
  /\ hidden = {}
  /\ pc = [t \in Tasks |-> "idle"]
  /\ owed = [t \in Tasks |-> {}]

(* Every renderer clips to the frame buffer, as the damage list does.      *)
Clipped(R) == R \cap Screen

Goto(t, from, to) == pc[t] = from /\ pc' = [pc EXCEPT ![t] = to]

(* video_fill_rect_batch, video_draw_text_impl and video_blit_surface: one *)
(* section draws and notes.                                                *)
DrawNoted(t, R) ==
  /\ Goto(t, "idle", "maybe")
  /\ stale' = stale \cup Clipped(R)
  /\ damage' = damage \cup Clipped(R)
  /\ UNCHANGED <<deferred, hidden, owed>>

(* The console and video_clear_color draw in one section, or in several    *)
(* (redraw_text_buffer), and note in the next; cls presents whatever the   *)
(* deferred flag; a cell that is drawn on the way to something else, as by *)
(* video_cursor_suspend_graphics, is noted and not presented.              *)
DrawFirst(t, R, then) ==
  /\ pc[t] \in {"idle", then}
  /\ pc' = [pc EXCEPT ![t] = then]
  /\ stale' = stale \cup Clipped(R)
  /\ owed' = [owed EXCEPT ![t] = @ \cup Clipped(R)]
  /\ UNCHANGED <<damage, deferred, hidden>>

(* Mutant of NoteOwed: the pixels are noted before they are drawn, so a    *)
(* present in between forgets them.                                        *)
NoteOwedNothing(t, from, to) ==
  /\ Goto(t, from, to)
  /\ damage' = damage
  /\ owed' = [owed EXCEPT ![t] = {}]
  /\ UNCHANGED <<stale, deferred>>

NoteOwed(t, from, to) ==
  /\ Goto(t, from, to)
  /\ damage' = damage \cup owed[t]
  /\ owed' = [owed EXCEPT ![t] = {}]
  /\ UNCHANGED <<stale, deferred>>

DrawCell(t, R) == DrawFirst(t, R, "note")
Cls(t, R) == DrawFirst(t, R, "noteCls")
DrawQuietly(t, R) == DrawFirst(t, R, "noteQuiet")

NoteDirty(t) == NoteOwed(t, "note", "maybe") /\ UNCHANGED hidden
NoteCls(t) == NoteOwed(t, "noteCls", "present") /\ UNCHANGED hidden
NoteQuietly(t) ==
  /\ NoteOwed(t, "noteQuiet", "idle")
  /\ hidden' = hidden \cup owed[t]

(* An operation that ends with video_maybe_present_pending whatever it     *)
(* drew.                                                                   *)
AskMaybe(t) ==
  /\ t \in Owners
  /\ Goto(t, "idle", "maybe")
  /\ UNCHANGED <<stale, damage, deferred, hidden, owed>>

(* video_maybe_present_pending: the section that reads the flag.           *)
ReadDeferred(t) ==
  /\ Goto(t, "maybe", IF deferred THEN "idle" ELSE "flush")
  /\ UNCHANGED <<stale, damage, deferred, hidden, owed>>

(* video_present_pending copies what was noted, or its bounding rectangle  *)
(* once the list has overflowed (DirtyRects).                              *)
CopyToFront ==
  /\ \E copied \in {damage, Box(damage)} :
       stale' = IF damage = {} THEN stale ELSE stale \ copied
  /\ damage' = {}
  /\ hidden' = {}

PresentFrom(t, from) ==
  /\ Goto(t, from, "idle")
  /\ CopyToFront
  /\ UNCHANGED <<deferred, owed>>

FlushPending(t) == PresentFrom(t, "flush")
PresentPending(t) == PresentFrom(t, "present")

(* The present and input system calls, and the shell, present explicitly.  *)
AskPresent(t) ==
  /\ t \in Owners
  /\ Goto(t, "idle", "present")
  /\ UNCHANGED <<stale, damage, deferred, hidden, owed>>

(* Mutant of SetDeferred: turning the flag off does not present.           *)
SetDeferredOnly(t, on) ==
  /\ t \in Owners
  /\ Goto(t, "idle", "idle")
  /\ deferred' = on
  /\ UNCHANGED <<stale, damage, hidden, owed>>

(* video_set_deferred_present: presents what is pending when it turns the  *)
(* flag off.                                                               *)
SetDeferred(t, on) ==
  /\ t \in Owners
  /\ Goto(t, "idle", IF on THEN "idle" ELSE "present")
  /\ deferred' = on
  /\ UNCHANGED <<stale, damage, hidden, owed>>

Step(t) ==
  \/ \E R \in Regions : DrawNoted(t, R)
  \/ \E R \in Regions :
       t \in Owners /\ (DrawCell(t, R) \/ Cls(t, R) \/ DrawQuietly(t, R))
  \/ NoteDirty(t) \/ NoteCls(t) \/ NoteQuietly(t)
  \/ ReadDeferred(t) \/ FlushPending(t) \/ PresentPending(t)
  \/ AskPresent(t) \/ AskMaybe(t)
  \/ \E on \in BOOLEAN : SetDeferred(t, on)

Next == \E t \in Tasks : Step(t)

Spec == Init /\ [][Next]_vars

-----------------------------------------------------------------------------
(* Type invariant.                                                         *)
TypeOK ==
  /\ stale \subseteq Screen /\ damage \subseteq Screen
  /\ hidden \subseteq Screen
  /\ deferred \in BOOLEAN
  /\ pc \in [Tasks -> {"idle", "note", "noteCls", "noteQuiet", "maybe",
                       "flush", "present"}]
  /\ owed \in [Tasks -> SUBSET Screen]

(* A pixel that the screen does not show yet is in the damage list or      *)
(* about to be noted by the task that drew it: no interleaving of drawing  *)
(* and presenting tasks loses an update.                                   *)
NoLostDamage ==
  \A p \in stale : p \in damage \/ \E t \in Tasks : p \in owed[t]

(* When every operation is over and presents are not deferred, the screen  *)
(* shows the back buffer, but for a cursor cell that was suspended without *)
(* a present: the check of the flag and the present may be separated by    *)
(* any steps of other tasks.                                               *)
QuietScreenIsCurrent ==
  (\A t \in Tasks : pc[t] = "idle") /\ ~deferred => stale \subseteq hidden
=============================================================================
