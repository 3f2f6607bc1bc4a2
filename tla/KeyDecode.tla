----------------------------- MODULE KeyDecode -----------------------------
(***************************************************************************)
(* The scan code decoder of src/kernel/input/keyboard.c: one byte from the  *)
(* PS/2 controller changes the modifier flags and the pending prefixes and  *)
(* may produce a character.                                                 *)
(*                                                                          *)
(* A byte is abstracted to the key it belongs to: [code, up].  In scan set  *)
(* 1 a release is the make code with bit 7 set (up = TRUE); in scan set 2   *)
(* it is the byte F0 followed by the make code, and "up" is always FALSE.   *)
(* E0 announces an extended key in both sets.  The two tables of 32-172     *)
(* are represented by one key of each kind the decoder tells apart: a       *)
(* letter, a digit, Enter, an arrow and the modifiers.                      *)
(***************************************************************************)
EXTENDS Naturals, Sequences

(* The result of a byte that types nothing: the code's return value 0. *)
NoChar == "none"

(* KEY_ALT_EVENT, returned when an Alt key goes down. *)
AltEvent == "alt"

(* The decoder's globals, all clear (keyboard_init; keyboard_flush keeps caps). *)
Reset(caps) == [shift |-> FALSE, ctrl |-> FALSE, alt |-> FALSE, caps |-> caps,
                brk |-> FALSE, ext |-> FALSE]

(* scancode_set1_to_char / scancode_set2_to_char with apply_caps and the    *)
(* Alt encoding: Shift and Caps Lock cancel for letters, and a letter with  *)
(* Alt down has bit 7 set whatever its case.                                *)
PlainChar(k, code) ==
  CASE code = "a" -> IF k.alt THEN "alt-a" ELSE IF k.shift # k.caps THEN "A" ELSE "a"
    [] code = "1" -> IF k.shift THEN "!" ELSE "1"
    [] code = "enter" -> "newline"
    [] OTHER -> NoChar

(* Characters of extended keys; the keypad Enter is known to set 2 only. *)
ExtendedChar(set, code) ==
  CASE code = "up" -> "KEY_UP"
    [] code = "enter" /\ set = 2 -> "newline"
    [] OTHER -> NoChar

(* Does byte b release a key, given the prefixes seen so far? *)
IsRelease(set, k, b) == IF set = 2 THEN k.brk ELSE b.up

(* A byte that only announces the next one. *)
Announces(set, b) == b.code = "e0" \/ (set = 2 /\ b.code = "f0")

(* keyboard_process_scancode: the decoder after byte b. *)
DecodeState(set, k, b) ==
  LET rel == IsRelease(set, k, b)
  IN  IF b.code = "e0" THEN [k EXCEPT !.ext = TRUE]
      ELSE IF set = 2 /\ b.code = "f0" THEN [k EXCEPT !.brk = TRUE]
      ELSE [k EXCEPT !.ext = FALSE, !.brk = FALSE,
                     !.shift = IF b.code = "shift" /\ ~k.ext THEN ~rel ELSE @,
                     !.ctrl = IF b.code = "ctrl" THEN ~rel ELSE @,
                     !.alt = IF b.code = "alt" THEN ~rel ELSE @,
                     !.caps = IF b.code = "caps" /\ ~k.ext /\ ~rel THEN ~@ ELSE @]

(* keyboard_process_scancode: the character byte b types. *)
DecodeChar(set, k, b) ==
  IF Announces(set, b) \/ IsRelease(set, k, b) THEN NoChar
  ELSE IF b.code = "alt" THEN AltEvent
  ELSE IF k.ext THEN ExtendedChar(set, b.code)
  ELSE PlainChar(k, b.code)

(* One more byte: the decoder after it, and all that is typed by then. *)
Decoded(set, r, b) ==
  LET c == DecodeChar(set, r.kb, b)
  IN  [kb |-> DecodeState(set, r.kb, b), chars |-> IF c = NoChar THEN r.chars ELSE Append(r.chars, c)]

Run(set, k, bytes) ==
  LET run[i \in 0 .. Len(bytes)] ==
        IF i = 0 THEN [kb |-> k, chars |-> <<>>] ELSE Decoded(set, run[i - 1], bytes[i])
  IN  run[Len(bytes)]

(* The decoder after a whole sequence of bytes, and what they type. *)
RunState(set, k, bytes) == Run(set, k, bytes).kb

Typed(set, k, bytes) == Run(set, k, bytes).chars

(* What a keyboard sends when key [code, ext] goes down or up. *)
KeyBytes(set, key, release) ==
  LET prefix == IF key.ext THEN <<[code |-> "e0", up |-> FALSE]>> ELSE <<>>
      brk == IF set = 2 /\ release THEN <<[code |-> "f0", up |-> FALSE]>> ELSE <<>>
  IN  prefix \o brk \o <<[code |-> key.code, up |-> set = 1 /\ release]>>
=============================================================================
