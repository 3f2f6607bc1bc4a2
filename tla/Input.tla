------------------------------- MODULE Input -------------------------------
(***************************************************************************)
(* Keyboard and mouse input: the PS/2 controller, the two interrupt         *)
(* handlers and the foreground task that reads characters, waits for events *)
(* and copies the mouse state.  Source: src/kernel/input/keyboard.c,        *)
(* mouse.c, ps2_controller.h and the input calls of shell_apps.c.           *)
(*                                                                          *)
(* A byte reaches the program by two routes: IRQ1, whose handler decodes it *)
(* and pushes the character on the ring, or, once interrupts have been      *)
(* silent for two ticks, a poll of the controller from the reader's task.   *)
(* Interrupt handlers are atomic; the poll is interruptible at every step.  *)
(*                                                                          *)
(* Overtaking = FALSE states the timing of the hardware: an interrupt that  *)
(* is raised is taken before the task's next access to the controller, and  *)
(* the next byte (about 1 ms later) does not arrive inside one poll or one  *)
(* flush.  A task switched out inside one of them breaks that, which        *)
(* Overtaking = TRUE allows.  Bytes of a mouse packet do arrive inside the  *)
(* copy of the mouse state, which nothing relates to their timing.          *)
(***************************************************************************)
EXTENDS Naturals, FiniteSets, KeyDecode

CONSTANTS Keys,        \* physical keys: records [code, ext]
          RingSize,    \* sizeof(key_buffer), 128 in the code
          MaxEvents,   \* bound, for either kind of program: key presses and releases
          MaxPackets,  \* bound, for either kind of program: mouse packets by their header
          Present,     \* for either kind of program: what mouse_init may have found
          Overtaking,  \* see above
          None

ASSUME RingAssumption == RingSize \in Nat /\ RingSize > 1
(* Prefixes are no keys, and neither Shift key is an extended one. *)
ASSUME KeysAssumption ==
  /\ Keys \subseteq [code : STRING, ext : BOOLEAN]
  /\ \A k \in Keys : k.code \notin {"e0", "f0", "hdr", "ovf", "mov"} /\ (k.code = "shift" => ~k.ext)

(* The codes of the bytes that pass the controller: keys, prefixes, the mouse's, and none yet. *)
ByteCodes == {k.code : k \in Keys} \cup {"e0", "f0", "hdr", "ovf", "mov", "none"}
ASSUME NoneAssumption == None \notin [code : ByteCodes, up : BOOLEAN]

VARIABLES wire, auxWire,     \* bytes the devices still have to send
          out, latch,        \* the output buffer; the byte a handler took under a poll
          irq1, irq12,       \* interrupts raised and not yet taken
          set, kb,           \* scancode_set; the decoder's globals
          dup,               \* last_make_*: byte, ext and age in ticks, None when invalid
          irqSeen, sinceIrq, \* irq_seen, ticks since last_irq_tick (saturating)
          queue,             \* key_buffer from key_tail to key_head
          pc, op,            \* the reader: its step, and the call it is in
          rd,                \* its locals: byte, ext, rel, char, slot
          loop, flags,       \* "direct" or "events"; the flags of shell_apps_wait_event
          mouse, app,        \* g_mouse_state with g_packet_index; the reader's copy of it
          held, sent, moved, \* environment: keys held, events and packets so far
          ref, due, cut      \* history: reference decoder, characters owed, split code

device == <<wire, auxWire, held, sent, moved>>
controller == <<out, latch, irq1, irq12>>
decoder == <<set, kb>>
clock == <<irqSeen, sinceIrq>>
program == <<loop, flags>>
reader == <<pc, op, rd, program>>
pointer == <<mouse, app>>
history == <<ref, due, cut>>
vars == <<device, controller, decoder, dup, clock, queue, reader, pointer, history>>

PollIdleTicks == 2   \* KEYBOARD_POLL_FALLBACK_IDLE_TICKS
DuplicateTicks == 2  \* KEYBOARD_DUPLICATE_MAKE_TICKS

NoByte == [code |-> "none", up |-> FALSE]
NoLocals == [byte |-> NoByte, ext |-> FALSE, rel |-> FALSE, char |-> NoChar, slot |-> 0]

(* The first byte of a packet, which in one that overflowed has its bits 6 and 7 set, and the other two. *)
IsAux(b) == b.code \in {"hdr", "ovf", "mov"}

Init ==
  /\ wire = <<>> /\ auxWire = <<>> /\ out = None /\ latch = NoByte
  /\ irq1 = FALSE /\ irq12 = FALSE
  /\ set \in {1, 2} /\ kb = Reset(FALSE)
  /\ dup = None
  /\ irqSeen = FALSE /\ sinceIrq = PollIdleTicks
  /\ queue = <<>>
  /\ pc = "idle" /\ op = "none" /\ rd = NoLocals
  /\ loop \in {"direct", "events"} /\ flags = {}
  /\ mouse \in [present : Present[loop], index : {0}, over : {FALSE}, data : {0}, seq : {0}]
  /\ app = [data |-> 0, seq |-> 0, torn |-> FALSE]
  /\ held = {} /\ sent = 0 /\ moved = [hdr |-> 0, ovf |-> 0]
  /\ ref = Reset(FALSE) /\ due = <<>> /\ cut = FALSE

-----------------------------------------------------------------------------
(* The devices and the controller (external). *)

Unread == (IF out = None \/ IsAux(out) THEN <<>> ELSE <<out>>) \o wire

(* The duplicate filter is meant for echoes: a key is not pressed again while *)
(* an earlier byte of it is on its way or within the filter's window.         *)
Spaced(k) ==
  /\ \A i \in 1 .. Len(Unread) : Unread[i].code # k.code
  /\ rd.byte.code # k.code
  /\ dup # None => dup.byte.code # k.code

Send(bytes) ==
  /\ sent < MaxEvents[loop]
  /\ sent' = sent + 1
  /\ wire' = wire \o bytes
  /\ due' = due \o Typed(set, ref, bytes)
  /\ ref' = RunState(set, ref, bytes)
  /\ UNCHANGED <<auxWire, moved, cut, controller, decoder, dup, clock, queue, reader, pointer>>

Press(k) == k \notin held /\ Spaced(k) /\ held' = held \cup {k} /\ Send(KeyBytes(set, k, FALSE))

Release(k) == k \in held /\ held' = held \ {k} /\ Send(KeyBytes(set, k, TRUE))

(* Typematic repeat: a held key sends its make code again. *)
Repeat(k) == k \in held /\ Spaced(k) /\ UNCHANGED held /\ Send(KeyBytes(set, k, FALSE))

(* A packet: a header, with or without an overflow, and two bytes. *)
Move ==
  /\ \E header \in {"hdr", "ovf"} :
       /\ moved[header] < MaxPackets[loop][header]
       /\ moved' = [moved EXCEPT ![header] = @ + 1]
       /\ auxWire' = auxWire \o [i \in 1 .. 3 |-> [code |-> IF i = 1 THEN header ELSE "mov", up |-> FALSE]]
  /\ UNCHANGED <<wire, held, sent, controller, decoder, dup, clock, queue, reader, pointer, history>>

(* A byte reaches the empty output buffer and raises its interrupt.  IRQ1 may *)
(* be lost: that is what the polling fallback is for.                         *)
Load ==
  /\ out = None
  /\ Overtaking \/ pc \in {"idle", "pointer", "copy"}
  /\ \/ /\ wire # <<>>
        /\ out' = Head(wire) /\ wire' = Tail(wire) /\ UNCHANGED <<auxWire, irq12>>
        /\ irq1' \in {TRUE, irq1}
     \/ /\ auxWire # <<>>
        /\ out' = Head(auxWire) /\ auxWire' = Tail(auxWire) /\ UNCHANGED <<wire, irq1>>
        /\ irq12' = TRUE
  /\ UNCHANGED <<latch, held, sent, moved, decoder, dup, clock, queue, reader, pointer, history>>

(* Ticks are counted as far as the code looks: an expired filter entry is the *)
(* same as none.                                                              *)
Tick ==
  /\ sinceIrq < PollIdleTicks \/ dup # None
  /\ sinceIrq' = IF sinceIrq < PollIdleTicks THEN sinceIrq + 1 ELSE sinceIrq
  /\ dup' = IF dup = None \/ dup.age = DuplicateTicks THEN None ELSE [dup EXCEPT !.age = @ + 1]
  /\ UNCHANGED <<device, controller, decoder, irqSeen, queue, reader, pointer, history>>

-----------------------------------------------------------------------------
(* Pieces of keyboard.c. *)

RingFull == Len(queue) = RingSize - 1

(* A character the full ring refuses is owed no longer. *)
Forget == due' = SubSeq(due, 1, Len(queue)) \o SubSeq(due, Len(queue) + 2, Len(due))

(* push_char, run in one piece by the interrupt handler. *)
PushChar(c) ==
  IF RingFull THEN Forget /\ UNCHANGED queue
  ELSE queue' = Append(queue, c) /\ UNCHANGED due

(* Mutant of AllowPoll: polling stops for good with the first interrupt. *)
AllowPollBeforeIrq == ~irqSeen

(* keyboard_allow_poll_fallback; interrupt mode is on once interrupts_init ran. *)
AllowPoll == ~irqSeen \/ sinceIrq >= PollIdleTicks

(* keyboard_is_duplicate_make: the make code seen last, within the window. *)
SameMake(b, ext) == dup # None /\ dup.byte = b /\ dup.ext = ext

NoteMake(b, ext, rel) ==
  dup' = IF rel THEN IF SameMake(b, ext) THEN None ELSE dup
         ELSE IF SameMake(b, ext) THEN dup
         ELSE [byte |-> b, ext |-> ext, age |-> 0]

(* Prefix bytes are not tracked by the filter. *)
Track(b, ext, rel) ==
  IF Announces(set, b) THEN UNCHANGED dup ELSE NoteMake(b, ext, rel)

Passes(b, ext, rel, c) == c # NoChar /\ (Announces(set, b) \/ ~(SameMake(b, ext) /\ ~rel))

-----------------------------------------------------------------------------
(* The interrupt handlers.  IRQ1 has priority over IRQ12. *)

(* keyboard_handle_irq. *)
KeyboardIrq ==
  /\ irq1
  /\ irq1' = FALSE
  /\ IF out = None \/ IsAux(out)
       THEN UNCHANGED <<out, latch, kb, dup, clock, queue, due>>
       ELSE LET rel == IsRelease(set, kb, out)
                c == DecodeChar(set, kb, out)
            IN  /\ out' = None /\ latch' = IF pc = "data" THEN out ELSE latch
                /\ kb' = DecodeState(set, kb, out)
                /\ irqSeen' = TRUE /\ sinceIrq' = 0
                /\ Track(out, kb.ext, rel)
                /\ IF Passes(out, kb.ext, rel, c) THEN PushChar(c) ELSE UNCHANGED <<queue, due>>
  /\ UNCHANGED <<device, irq12, set, reader, pointer, ref, cut>>

(* mouse_apply_packet: nothing of a packet that overflowed is used. *)
ApplyPacket(m) == IF m.over THEN m ELSE [m EXCEPT !.data = @ + 1, !.seq = @ + 1]

(* Mutant of PacketStep: every byte of a packet is expected to have bit 3 set. *)
PacketStepStrict(b) ==
  IF ~mouse.present \/ b.code = "mov" THEN mouse
  ELSE IF mouse.index = 2 THEN ApplyPacket([mouse EXCEPT !.index = 0])
  ELSE [mouse EXCEPT !.index = @ + 1]

(* A packet starts with a byte that has bit 3 set; its third byte applies it. *)
PacketStep(b) ==
  IF ~mouse.present \/ (mouse.index = 0 /\ b.code = "mov") THEN mouse
  ELSE IF mouse.index = 0 THEN [mouse EXCEPT !.index = 1, !.over = (b.code = "ovf")]
  ELSE IF mouse.index = 1 THEN [mouse EXCEPT !.index = 2]
  ELSE ApplyPacket([mouse EXCEPT !.index = 0])

(* mouse_handle_irq: it takes whatever byte is there and drops a keyboard byte. *)
MouseIrq ==
  /\ irq12 /\ ~irq1
  /\ irq12' = FALSE
  /\ out' = None
  /\ latch' = IF pc = "data" /\ out # None THEN out ELSE latch
  /\ mouse' = IF out = None \/ ~IsAux(out) THEN mouse ELSE PacketStep(out)
  /\ app' = [app EXCEPT !.torn = @ \/ (pc = "copy" /\ mouse'.seq # mouse.seq)]
  /\ UNCHANGED <<device, irq1, decoder, dup, clock, queue, reader, history>>

-----------------------------------------------------------------------------
(* The foreground task.  The shell and most applications ask for characters   *)
(* again and again ("direct"); the desktop waits for events and then reads    *)
(* what they announce ("events").                                             *)

Goto(l) == pc' = l

(* The end of keyboard_poll_one_char.  For keyboard_try_get_char the result   *)
(* goes to the program, whose loop over the characters ends with the first 0; *)
(* keyboard_has_input is a part of shell_apps_wait_event, which goes on.      *)
PollReturns(found) ==
  /\ rd' = NoLocals /\ op' = "none" /\ UNCHANGED loop
  /\ \/ /\ op = "get"
        /\ Goto("idle") /\ flags' = IF found THEN flags ELSE {}
     \/ /\ op = "has"
        /\ Goto("pointer") /\ flags' = IF found THEN {"key"} ELSE {}

(* The characters a reader receives, in order. *)
Deliver == due' = IF due = <<>> THEN due ELSE Tail(due)

Taken == Overtaking \/ (~irq1 /\ ~irq12)

(* The program asks for a character: always, or when told of one (the pointer *)
(* is dealt with first).                                                      *)
Reading == pc = "idle" /\ (loop = "direct" \/ flags = {"key"})

(* keyboard_try_get_char with a character in the ring: pop_char. *)
Pop ==
  /\ Reading /\ queue # <<>>
  /\ Deliver
  /\ queue' = Tail(queue)
  /\ UNCHANGED <<device, controller, decoder, dup, clock, reader, pointer, ref, cut>>

(* Mutant of StartPoll: the controller is polled before the ring is emptied. *)
StartPollFirst ==
  /\ Reading /\ AllowPoll /\ Taken
  /\ Goto("status") /\ op' = "get"
  /\ UNCHANGED <<device, controller, decoder, dup, clock, queue, rd, program, pointer, history>>

(* keyboard_try_get_char on an empty ring. *)
StartPoll ==
  /\ Reading /\ queue = <<>> /\ AllowPoll /\ Taken
  /\ Goto("status") /\ op' = "get"
  /\ UNCHANGED <<device, controller, decoder, dup, clock, queue, rd, program, pointer, history>>

(* ... when the fallback is not allowed: it returns 0. *)
NoChars ==
  /\ Reading /\ queue = <<>> /\ ~AllowPoll
  /\ flags' = {}
  /\ UNCHANGED <<device, controller, decoder, dup, clock, queue, pc, op, rd, loop, pointer, history>>

PollStatus ==
  /\ pc = "status"
  /\ IF out # None /\ ~IsAux(out)
       THEN Goto("data") /\ UNCHANGED <<op, rd, program>>
       ELSE PollReturns(FALSE)
  /\ UNCHANGED <<device, controller, decoder, dup, clock, queue, pointer, history>>

(* The read of the data port: a byte taken meanwhile by the handler is read again. *)
PollData ==
  /\ pc = "data"
  /\ LET b == IF out = None THEN latch ELSE out
     IN  rd' = [rd EXCEPT !.byte = b, !.ext = kb.ext, !.rel = IsRelease(set, kb, b)]
  /\ out' = None /\ latch' = NoByte
  /\ Goto("decode")
  /\ UNCHANGED <<device, irq1, irq12, decoder, dup, clock, queue, op, program, pointer, history>>

PollDecode ==
  /\ pc = "decode"
  /\ kb' = DecodeState(set, kb, rd.byte)
  /\ rd' = [rd EXCEPT !.char = DecodeChar(set, kb, rd.byte)]
  /\ Goto("filter")
  /\ UNCHANGED <<device, controller, set, dup, clock, queue, op, program, pointer, history>>

PollFilter ==
  /\ pc = "filter"
  /\ Track(rd.byte, rd.ext, rd.rel)
  /\ IF ~Passes(rd.byte, rd.ext, rd.rel, rd.char) THEN PollReturns(FALSE) /\ UNCHANGED due
     ELSE IF op = "get" THEN Deliver /\ PollReturns(TRUE)
     ELSE Goto("push") /\ UNCHANGED <<op, rd, program, due>>
  /\ UNCHANGED <<device, controller, decoder, clock, queue, pointer, ref, cut>>

(* keyboard_has_input puts the polled character on the ring: push_char again, *)
(* this time interruptible between its test of the indices and its stores.    *)
(* The ring was empty when the poll began, so key_head is still key_tail for  *)
(* a push that nothing overtook.                                              *)
PushLoad ==
  /\ pc = "push"
  /\ IF RingFull THEN Forget /\ PollReturns(TRUE)
     ELSE rd' = [rd EXCEPT !.slot = Len(queue)] /\ Goto("store") /\ UNCHANGED <<op, program, due>>
  /\ UNCHANGED <<device, controller, decoder, dup, clock, queue, pointer, ref, cut>>

(* The character is stored at the key_head read first or at the present one,  *)
(* and key_head becomes the successor of the former.                          *)
PushStore ==
  /\ pc = "store"
  /\ LET kept == SubSeq(queue, 1, rd.slot)
     IN  queue' \in {Append(kept, rd.char), SubSeq(Append(queue, rd.char), 1, rd.slot + 1)}
  /\ PollReturns(TRUE)
  /\ UNCHANGED <<device, controller, decoder, dup, clock, pointer, history>>

(* keyboard_flush, when an application ends: ps2_drain_output reads until the buffer is empty, which it  *)
(* may be after one byte or, when the device refills it at once, after many.   *)
FlushDrain ==
  /\ pc = "idle" /\ Taken
  /\ \E n \in 0 .. Len(wire) :
       LET dropped == (IF out = None \/ IsAux(out) THEN <<>> ELSE <<out>>) \o SubSeq(wire, 1, n)
       IN  /\ n > 0 => out # None
           /\ wire' = SubSeq(wire, n + 1, Len(wire))
           /\ cut' = (cut \/ RunState(set, kb, dropped).brk)
  /\ out' = None
  /\ Goto("flush")
  /\ UNCHANGED <<auxWire, held, sent, moved, latch, irq1, irq12, decoder, dup, clock, queue, op, rd,
                 program, pointer, ref, due>>

(* Mutant of ResetKeys: the modifiers survive the flush. *)
ResetKeysKeepsModifiers ==
  /\ queue' = <<>>
  /\ kb' = [kb EXCEPT !.brk = FALSE, !.ext = FALSE]
  /\ dup' = None

(* ... and then it clears the ring, the modifiers, the prefixes and the filter. *)
ResetKeys ==
  /\ queue' = <<>>
  /\ kb' = Reset(kb.caps)
  /\ dup' = None

FlushReset ==
  /\ pc = "flush"
  /\ ResetKeys
  /\ due' = Typed(set, kb', Unread)
  /\ ref' = RunState(set, kb', Unread)
  /\ Goto("idle") /\ flags' = {}
  /\ UNCHANGED <<device, controller, set, clock, op, rd, loop, pointer, cut>>

-----------------------------------------------------------------------------
(* The event loop. *)

(* A turn of the loop of shell_apps_wait_event looks for a character with     *)
(* keyboard_has_input ...                                                     *)
WaitKey ==
  /\ pc = "idle" /\ loop = "events" /\ flags = {}
  /\ \/ /\ queue # <<>>
        /\ flags' = {"key"} /\ Goto("pointer") /\ UNCHANGED op
     \/ /\ queue = <<>> /\ AllowPoll /\ Taken
        /\ op' = "has" /\ Goto("status") /\ UNCHANGED flags
     \/ /\ queue = <<>> /\ ~AllowPoll
        /\ Goto("pointer") /\ UNCHANGED <<op, flags>>
  /\ UNCHANGED <<device, controller, decoder, dup, clock, queue, rd, loop, pointer, history>>

(* ... and at the pointer's sequence number.  With neither it returns after   *)
(* the time-out, and the program calls it again, or it halts until the next   *)
(* interrupt, a tick at the latest: the next step is a turn either way.       *)
WaitPointer ==
  /\ pc = "pointer"
  /\ flags' = flags \cup (IF mouse.present /\ mouse.seq # app.seq THEN {"mouse"} ELSE {})
  /\ Goto("idle")
  /\ UNCHANGED <<device, controller, decoder, dup, clock, queue, op, rd, loop, pointer, history>>

(* Told of the pointer, the program calls shell_apps_get_mouse_state, which    *)
(* copies the state field by field, the sequence number last.                  *)
CopyData ==
  /\ pc = "idle" /\ "mouse" \in flags
  /\ app' = [app EXCEPT !.data = mouse.data, !.torn = FALSE]
  /\ Goto("copy")
  /\ UNCHANGED <<device, controller, decoder, dup, clock, queue, op, rd, program, mouse, history>>

(* After a mere motion it waits again and leaves a character for later.        *)
CopySeq ==
  /\ pc = "copy"
  /\ app' = [app EXCEPT !.seq = mouse.seq]
  /\ flags' \in {flags \ {"mouse"}, {}}
  /\ Goto("idle")
  /\ UNCHANGED <<device, controller, decoder, dup, clock, queue, op, rd, loop, mouse, history>>

-----------------------------------------------------------------------------
Poll == PollStatus \/ PollData \/ PollDecode \/ PollFilter \/ PushLoad \/ PushStore

(* What the program does between two calls, and inside of one.                 *)
Calls == Pop \/ StartPoll \/ NoChars \/ WaitKey \/ CopyData
InCall == Poll \/ FlushReset \/ WaitPointer \/ CopySeq

Environment == Move \/ Load \/ Tick \/ \E k \in Keys : Press(k) \/ Release(k) \/ Repeat(k)

Next ==
  \/ Environment
  \/ KeyboardIrq \/ MouseIrq
  \/ Calls \/ FlushDrain \/ InCall

Spec == Init /\ [][Next]_vars

(* The controller and the timer run by themselves, interrupts are taken while  *)
(* the task has them enabled, a call the task is in goes on, and the program   *)
(* goes on with its loop, and reads the pointer it is told of, however often   *)
(* it is ended and started again.                                              *)
Fairness ==
  /\ SF_vars(Load) /\ WF_vars(Tick) /\ WF_vars(KeyboardIrq) /\ WF_vars(MouseIrq)
  /\ WF_vars(InCall) /\ SF_vars(Calls) /\ SF_vars(CopyData)

LiveSpec == Spec /\ Fairness

-----------------------------------------------------------------------------
TypeOK ==
  /\ set \in {1, 2} /\ Len(queue) < RingSize
  /\ pc \in {"idle", "status", "data", "decode", "filter", "push", "store", "flush",
             "pointer", "copy"}
  /\ op \in {"none", "get", "has"}
  /\ loop \in {"direct", "events"} /\ flags \subseteq {"key", "mouse"}

(* Characters that left the controller but not yet the poll. *)
InFlight ==
  IF pc \in {"filter", "push", "store"} /\ rd.char # NoChar THEN <<rd.char>>
  ELSE <<>>

Undecoded == IF pc = "decode" THEN <<rd.byte>> \o Unread ELSE Unread

(* Every key press types what the keyboard's own state says, once and in      *)
(* order: what is owed to readers is what the ring holds, then what the poll  *)
(* has in hand, then what the bytes not yet decoded will type, whichever of   *)
(* the interrupt and the fallback takes each byte, and however many IRQ1s are *)
(* lost (keyboard_handle_irq, keyboard_poll_one_char, keyboard_has_input).    *)
KeysInOrder == pc # "flush" => due = queue \o InFlight \o Typed(set, kb, Undecoded)

Quiet == wire = <<>> /\ (out = None \/ IsAux(out)) /\ pc \in {"idle", "pointer", "copy"}

ModifierHeld(code) == \E k \in held : k.code = code

ModifiersReleased ==
  Quiet => /\ kb.shift => ModifierHeld("shift")
           /\ kb.ctrl => ModifierHeld("ctrl")
           /\ kb.alt => ModifierHeld("alt")

(* Once its bytes are decoded no modifier stays on that nobody holds down,     *)
(* also when keyboard_flush has thrown away some of them, unless a flush fell  *)
(* between F0 and the code it releases.                                        *)
NoStuckModifiers == cut \/ ModifiersReleased

(* A character still owed is eventually delivered: with a bounded number of    *)
(* key events everything typed is read in the end, although IRQ1 may be lost   *)
(* for any byte (the fallback of keyboard_try_get_char), and although a        *)
(* program that waits for events reads only what shell_apps_wait_event tells   *)
(* it of and leaves a character unread when the pointer has moved as well.     *)
TypedIsRead == <>[](due = <<>> /\ wire = <<>> /\ (out = None \/ IsAux(out)))

(* A program that waits for events ends up with the latest pointer position    *)
(* and buttons: once the mouse is still, the copy it made is the state of the  *)
(* last packet that did not overflow, whatever came between the bytes of the   *)
(* packet, the wait, the halt and the copy (mouse_handle_irq,                  *)
(* shell_apps_wait_event).  The one exception is a packet applied while the    *)
(* copy was under way: the copy then has the new sequence number with the old  *)
(* position, and the program is not told again.  An overflowed packet is       *)
(* dropped with its buttons.                                                   *)
PointerCatchesUp ==
  loop = "events" /\ mouse.present =>
    <>[](app.seq = moved.hdr /\ (app.data = moved.hdr \/ app.torn))
=============================================================================
