--------------------------- MODULE ConsoleProofs ---------------------------
(***************************************************************************)
(* Proofs about drawing and presenting, for any number of tasks, any       *)
(* screen and any drawing requests; then about the text console on top of  *)
(* them, for every size of the grid.                                       *)
(***************************************************************************)
EXTENDS Console, TLAPS

-----------------------------------------------------------------------------
(* Drawing and presenting *)

(* A task between two operations owes no note.                             *)
IdleOwesNothing ==
  \A t \in Tasks : pc[t] \notin {"note", "noteCls", "noteQuiet"} => owed[t] = {}

(* Damage that nobody deferred and that is not a suspended cursor has a    *)
(* task on its way to present it.                                          *)
SomebodyPresents ==
  ~deferred /\ ~(damage \subseteq hidden)
    => \E t \in Tasks : pc[t] \in {"maybe", "flush", "present"}

FrameInv == TypeOK /\ NoLostDamage /\ IdleOwesNothing /\ SomebodyPresents

(* At the start nothing is drawn, owed or in progress. *)
LEMMA FrameInit == Init => FrameInv
BY Zenon DEF Init, FrameInv, TypeOK, NoLostDamage, IdleOwesNothing, SomebodyPresents

(* Only the acting task moves; it goes from one label to another.          *)
LEMMA GotoMoves ==
  ASSUME TypeOK, NEW t \in Tasks, NEW from, NEW to, Goto(t, from, to)
  PROVE  pc[t] = from /\ pc'[t] = to /\ \A u \in Tasks \ {t} : pc'[u] = pc[u]
BY Zenon DEF Goto, TypeOK

(* Operations that draw and note in one section.                           *)
LEMMA DrawNotedStep ==
  ASSUME FrameInv, NEW t \in Tasks, NEW R, DrawNoted(t, R)
  PROVE  FrameInv'
<1> USE DEF FrameInv
<1>1. /\ pc[t] = "idle" /\ pc'[t] = "maybe" 
      /\ \A u \in Tasks \ {t} : pc'[u] = pc[u]
  BY GotoMoves, Zenon DEF DrawNoted
<1>2. TypeOK'
  <2>1. deferred' \in BOOLEAN
    BY Zenon DEF DrawNoted, TypeOK
  <2> QED
    BY <2>1, Zenon DEF DrawNoted, Goto, TypeOK, Clipped
<1>3. NoLostDamage'
  BY Zenon DEF DrawNoted, NoLostDamage
<1>4. IdleOwesNothing' /\ SomebodyPresents'
  BY <1>1, Zenon DEF DrawNoted, IdleOwesNothing, SomebodyPresents
<1> QED
  BY <1>2, <1>3, <1>4, Zenon

(* Operations that draw first and note in a later section.                 *)
LEMMA DrawFirstStep ==
  ASSUME FrameInv, NEW t \in Tasks, NEW R,
         NEW then \in {"note", "noteCls", "noteQuiet"}, DrawFirst(t, R, then)
  PROVE  FrameInv'
<1> USE DEF FrameInv
<1>1. /\ pc[t] \in {"idle", then} /\ pc'[t] = then
      /\ \A u \in Tasks \ {t} : pc'[u] = pc[u]
  BY Zenon DEF DrawFirst, TypeOK
<1>2. /\ owed'[t] = owed[t] \cup Clipped(R) /\ Clipped(R) \subseteq Screen
      /\ owed[t] \subseteq Screen
      /\ \A u \in Tasks \ {t} : owed'[u] = owed[u]
  BY <1>1, Zenon DEF DrawFirst, TypeOK, IdleOwesNothing, Clipped
<1>3. TypeOK'
  <2>1. deferred' \in BOOLEAN
    BY Zenon DEF DrawFirst, TypeOK
  <2> QED
    BY <1>2, <2>1, Zenon DEF DrawFirst, Goto, TypeOK
<1>4. NoLostDamage'
  <2> SUFFICES ASSUME NEW p \in stale'
               PROVE  p \in damage' \/ \E u \in Tasks : p \in owed'[u]
    BY Zenon DEF NoLostDamage
  <2>1. CASE p \in Clipped(R)
    BY <1>2, <2>1, Zenon
  <2>2. CASE p \in stale
    BY <1>2, <2>2, Zenon DEF NoLostDamage, DrawFirst
  <2> QED
    BY <2>1, <2>2, Zenon DEF DrawFirst
<1>5. IdleOwesNothing' /\ SomebodyPresents'
  BY <1>1, <1>2, Zenon DEF DrawFirst, IdleOwesNothing, SomebodyPresents
<1> QED
  BY <1>3, <1>4, <1>5, Zenon

(* The section that notes what was drawn; what follows is a present, or    *)
(* the pixels are those of the suspended cursor.                           *)
LEMMA NoteOwedStep ==
  ASSUME FrameInv, NEW t \in Tasks, NoteDirty(t) \/ NoteCls(t) \/ NoteQuietly(t)
  PROVE  FrameInv'
<1> USE DEF FrameInv
<1>1. PICK from \in {"note", "noteCls", "noteQuiet"},
           to \in {"maybe", "present", "idle"} :
        /\ NoteOwed(t, from, to)
        /\ to = "idle" => hidden' = hidden \cup owed[t]
        /\ to # "idle" => hidden' = hidden
  BY Zenon DEF NoteDirty, NoteCls, NoteQuietly
<1>2. /\ pc[t] = from /\ pc'[t] = to
      /\ \A u \in Tasks \ {t} : pc'[u] = pc[u]
  BY <1>1, GotoMoves, Zenon DEF NoteOwed
<1>3. /\ owed'[t] = {} /\ damage' = damage \cup owed[t]
      /\ owed[t] \subseteq Screen
      /\ \A u \in Tasks \ {t} : owed'[u] = owed[u]
      /\ UNCHANGED <<stale, deferred>>
  BY <1>1, Zenon DEF NoteOwed, TypeOK
<1>4. TypeOK'
  <2>1. deferred' \in BOOLEAN
    BY <1>3, Zenon DEF TypeOK
  <2> QED
    BY <1>1, <1>3, <2>1, Zenon DEF NoteOwed, Goto, TypeOK
<1>5. NoLostDamage'
  <2> SUFFICES ASSUME NEW p \in stale
               PROVE  p \in damage' \/ \E u \in Tasks : p \in owed'[u]
    BY <1>3, Zenon DEF NoLostDamage
  <2> QED
    BY <1>3, Zenon DEF NoLostDamage
<1>6. IdleOwesNothing'
  BY <1>2, <1>3, Zenon DEF IdleOwesNothing
<1>7. SomebodyPresents'
  <2>1. CASE to = "idle"
    <3> SUFFICES ASSUME ~deferred, ~(damage \subseteq hidden)
                 PROVE  \E u \in Tasks : pc'[u] \in {"maybe", "flush", "present"}
      BY <1>1, <1>3, <2>1, Zenon DEF SomebodyPresents
    <3> QED
      BY <1>2, Zenon DEF SomebodyPresents
  <2>2. CASE to # "idle"
    BY <1>2, <2>2, Zenon DEF SomebodyPresents
  <2> QED
    BY <2>1, <2>2, Zenon
<1> QED
  BY <1>4, <1>5, <1>6, <1>7, Zenon

(* A present forgets only the damage it copied.                            *)
LEMMA PresentStep ==
  ASSUME FrameInv, NEW t \in Tasks, NEW from \in {"flush", "present"},
         PresentFrom(t, from)
  PROVE  FrameInv'
<1> USE DEF FrameInv
<1>1. /\ pc[t] = from /\ pc'[t] = "idle"
      /\ \A u \in Tasks \ {t} : pc'[u] = pc[u]
  BY GotoMoves, Zenon DEF PresentFrom
<1>2. /\ damage' = {} /\ hidden' = {} /\ UNCHANGED <<deferred, owed>>
  BY Zenon DEF PresentFrom, CopyToFront
<1>3. stale' \subseteq stale /\ stale' \cap damage = {}
  <2>1. PICK copied \in {damage, Box(damage)} :
          stale' = IF damage = {} THEN stale ELSE stale \ copied
    BY Zenon DEF PresentFrom, CopyToFront
  <2>2. damage \subseteq copied
    BY <2>1, BoxAssumption DEF TypeOK
  <2> QED
    BY <2>1, <2>2, Zenon
<1>4. TypeOK'
  <2>1. deferred' \in BOOLEAN
    BY <1>2, Zenon DEF TypeOK
  <2> QED
    BY <1>2, <1>3, <2>1, Zenon DEF PresentFrom, Goto, TypeOK
<1>5. NoLostDamage'
  BY <1>2, <1>3, Zenon DEF NoLostDamage
<1>6. IdleOwesNothing' /\ SomebodyPresents'
  BY <1>1, <1>2, Zenon DEF IdleOwesNothing, SomebodyPresents
<1> QED
  BY <1>4, <1>5, <1>6, Zenon

(* Steps that draw nothing and present nothing.                            *)
LEMMA ControlStep ==
  ASSUME FrameInv, NEW t \in Tasks,
         \/ ReadDeferred(t) \/ AskPresent(t) \/ AskMaybe(t)
         \/ \E on \in BOOLEAN : SetDeferred(t, on)
  PROVE  FrameInv'
<1> USE DEF FrameInv
<1>1. UNCHANGED <<stale, damage, hidden, owed>>
  BY Zenon DEF ReadDeferred, AskPresent, AskMaybe, SetDeferred
<1>2. PICK from \in {"idle", "maybe"}, to \in {"idle", "maybe", "flush", "present"} :
        /\ Goto(t, from, to)
        /\ to = "idle" => deferred'
  <2>1. CASE ReadDeferred(t)
    <3>1. CASE deferred
      BY <2>1, <3>1, Zenon DEF ReadDeferred
    <3>2. CASE ~deferred
      BY <2>1, <3>2, Zenon DEF ReadDeferred
    <3> QED
      BY <3>1, <3>2, Zenon
  <2>2. CASE AskPresent(t)
    BY <2>2, Zenon DEF AskPresent
  <2>4. CASE AskMaybe(t)
    BY <2>4, Zenon DEF AskMaybe
  <2>3. ASSUME NEW on \in BOOLEAN, SetDeferred(t, on)
        PROVE  \E from \in {"idle", "maybe"}, to \in {"idle", "maybe", "flush", "present"} :
                 Goto(t, from, to) /\ (to = "idle" => deferred')
    <3>1. CASE on
      BY <2>3, <3>1, Zenon DEF SetDeferred
    <3>2. CASE ~on
      BY <2>3, <3>2, Zenon DEF SetDeferred
    <3> QED
      BY <3>1, <3>2, Zenon
  <2> QED
    BY <2>1, <2>2, <2>3, <2>4, Zenon
<1>3. /\ pc[t] = from /\ pc'[t] = to
      /\ \A u \in Tasks \ {t} : pc'[u] = pc[u]
  BY <1>2, GotoMoves, Zenon
<1>4. TypeOK'
  <2>1. deferred' \in BOOLEAN
    BY Zenon DEF ReadDeferred, AskPresent, AskMaybe, SetDeferred, TypeOK
  <2> QED
    BY <1>1, <1>2, <2>1, Zenon DEF Goto, TypeOK
<1>5. NoLostDamage'
  BY <1>1, Zenon DEF NoLostDamage
<1>6. IdleOwesNothing'
  BY <1>1, <1>3, Zenon DEF IdleOwesNothing
<1>7. SomebodyPresents'
  BY <1>1, <1>2, <1>3, Zenon DEF SomebodyPresents
<1> QED
  BY <1>4, <1>5, <1>6, <1>7, Zenon

(* Every step of every task keeps the account of what is drawn and not yet presented. *)
LEMMA FrameStep == FrameInv /\ [Next]_vars => FrameInv'
<1> SUFFICES ASSUME FrameInv, [Next]_vars PROVE FrameInv'
  BY Zenon
<1>1. CASE UNCHANGED vars
  BY <1>1, Zenon DEF vars, FrameInv, TypeOK, NoLostDamage, IdleOwesNothing,
              SomebodyPresents
<1>2. CASE Next
  <2>1. PICK t \in Tasks : Step(t)
    BY <1>2, Zenon DEF Next
  <2>2. CASE \E R \in Regions : DrawNoted(t, R)
    BY <2>2, DrawNotedStep, Zenon
  <2>3. CASE \E R \in Regions :
               DrawCell(t, R) \/ Cls(t, R) \/ DrawQuietly(t, R)
    BY <2>3, DrawFirstStep, Zenon DEF DrawCell, Cls, DrawQuietly
  <2>4. CASE NoteDirty(t) \/ NoteCls(t) \/ NoteQuietly(t)
    BY <2>4, NoteOwedStep, Zenon
  <2>5. CASE FlushPending(t) \/ PresentPending(t)
    BY <2>5, PresentStep, Zenon DEF FlushPending, PresentPending
  <2>6. CASE \/ ReadDeferred(t) \/ AskPresent(t) \/ AskMaybe(t)
             \/ \E on \in BOOLEAN : SetDeferred(t, on)
    BY <2>6, ControlStep, Zenon
  <2> QED
    BY <2>1, <2>2, <2>3, <2>4, <2>5, <2>6, Zenon DEF Step
<1> QED
  BY <1>1, <1>2, Zenon

(* The inductive invariant of drawing and presenting.                      *)
THEOREM FrameInvariant == Spec => []FrameInv
BY FrameInit, FrameStep, PTL DEF Spec

(* video_present_pending never forgets a pixel that it did not copy,       *)
(* however many tasks draw and present.                                    *)
THEOREM FrameLosesNothing == Spec => []NoLostDamage
<1>1. FrameInv => NoLostDamage
  BY Zenon DEF FrameInv
<1> QED
  BY <1>1, FrameInvariant, PTL

(* Once nobody draws and presents are not deferred, the screen is current, *)
(* although video_maybe_present_pending reads the flag and presents in two *)
(* sections.                                                               *)
THEOREM FrameBecomesCurrent == Spec => []QuietScreenIsCurrent
<1>1. FrameInv => QuietScreenIsCurrent
  BY Zenon DEF FrameInv, NoLostDamage, IdleOwesNothing, SomebodyPresents,
         QuietScreenIsCurrent
<1> QED
  BY <1>1, FrameInvariant, PTL

-----------------------------------------------------------------------------
(* The text console: the invariant *)

Glyphs == Letters \cup {" "}

(* A drawing that is no underline has a glyph for every cell of its region.*)
Drawings ==
  {d \in [region : SUBSET Screen, glyphs : UNION {[D -> Glyphs] : D \in SUBSET Cells},
          under : BOOLEAN, then : {"note", "noteCls", "noteQuiet", "maybe"}, first : BOOLEAN] :
     d.under \/ d.region \cap Cells \subseteq DOMAIN d.glyphs}

Sheet == (0 .. Cols - 1) \X (0 .. MaxLines + Rows)

Paper == [x : 0 .. Cols - 1, y : 0 .. MaxLines, page : [Sheet -> Glyphs]]

ConTypeOK ==
  /\ text \in [Cells -> Glyphs]
  /\ cursor \in Cells
  /\ back \in [Cells -> [glyph : Glyphs, under : BOOLEAN]]
  /\ mark \in Cells \cup {None}
  /\ todo \in Seq(Drawings)
  /\ paper \in Paper

(* Nothing is printed below the line of the cursor, text_buffer holds the  *)
(* bottom of the page, and the cursor is at the place of the next          *)
(* character.                                                              *)
TextInv ==
  /\ \A i \in 0 .. Cols - 1, j \in 0 .. MaxLines + Rows : j > paper.y => paper.page[<<i, j>>] = " "
  /\ text = Bottom
  /\ cursor = <<paper.x, paper.y - Top>>

(* Drawing i puts a glyph into cell c.                                     *)
Puts(i, c) == i \in DOMAIN todo /\ c \in todo[i].region /\ ~todo[i].under

(* A drawing that puts a wrong glyph into a cell is followed by one that   *)
(* puts the right one; a cell that nothing will be put into has the right  *)
(* one; and an underline away from the cursor is about to be drawn over.   *)
DrawInv ==
  \A c \in Cells :
    /\ \A i \in DOMAIN todo : Puts(i, c) /\ todo[i].glyphs[c] # text[c] =>
         \E j \in DOMAIN todo : j > i /\ Puts(j, c) /\ todo[j].glyphs[c] = text[c]
    /\ (\A i \in DOMAIN todo : ~Puts(i, c)) => back[c].glyph = text[c]
    /\ back[c].under => c = mark \/ \E i \in DOMAIN todo : Puts(i, c)
    /\ \A i \in DOMAIN todo : c \in todo[i].region /\ todo[i].under => c = mark

ConInv == ConTypeOK /\ TextInv /\ DrawInv

-----------------------------------------------------------------------------
(* Counting through the cells *)

(* Quotient and remainder by the number of columns are what they should be.*)
LEMMA DivModUnique ==
  ASSUME NEW n \in Nat, NEW C \in Nat \ {0}, NEW x \in 0 .. C - 1, NEW y \in Nat, n = y * C + x
  PROVE  n % C = x /\ n \div C = y
<1> DEFINE q == n \div C
           r == n % C
<1>1. q \in Int /\ r \in 0 .. C - 1 /\ n = C * q + r
  OBVIOUS
<1> HIDE DEF q, r
<1>2. C * (q - y) = x - r
  BY <1>1
<1> DEFINE k == q - y
<1>3. k \in Int /\ C * k = x - r
  BY <1>1, <1>2
<1> HIDE DEF k
<1>4. ~(k >= 1)
  <2> SUFFICES ASSUME k >= 1 PROVE FALSE
    BY Zenon
  <2>1. C * k >= C
    BY <1>3
  <2> QED BY <1>1, <1>3, <2>1
<1>5. ~(k <= -1)
  <2> SUFFICES ASSUME k <= -1 PROVE FALSE
    BY Zenon
  <2>1. C * k <= -C
    BY <1>3
  <2> QED BY <1>1, <1>3, <2>1
<1>6. k = 0
  BY <1>3, <1>4, <1>5
<1>7. q = y
  BY <1>1, <1>6 DEF k
<1>8. r = x
  BY <1>1, <1>3, <1>6
<1> QED BY <1>7, <1>8, Zenon DEF q, r

(* The cells that redraw_text_buffer counts through are those of the grid. *)
LEMMA DivRange ==
  ASSUME NEW C \in Nat \ {0}, NEW R \in Nat \ {0}, NEW n \in 0 .. C * R - 1
  PROVE  n % C \in 0 .. C - 1 /\ n \div C \in 0 .. R - 1
<1> DEFINE q == n \div C
           r == n % C
<1>1. q \in Int /\ r \in 0 .. C - 1 /\ n = C * q + r
  OBVIOUS
<1> HIDE DEF q, r
<1>2. q >= 0
  <2> SUFFICES ASSUME q <= -1 PROVE FALSE
    BY <1>1
  <2>1. C * q <= -C
    BY <1>1
  <2> QED BY <1>1, <2>1
<1>3. q < R
  <2> SUFFICES ASSUME q >= R PROVE FALSE
    BY <1>1
  <2>1. C * q >= C * R
    BY <1>1
  <2> QED BY <1>1, <2>1
<1> QED BY <1>1, <1>2, <1>3 DEF q, r

-----------------------------------------------------------------------------
(* The text and the page *)

(* The first line of the page that the screen shows with the cursor at     *)
(* line py.                                                                *)
TopOf(py) == IF py < Rows THEN 0 ELSE py - Rows + 1

(* text_buffer t with the cursor in row y is the bottom of a page whose    *)
(* last line is py.                                                        *)
Agree(t, y, page, py) ==
  /\ t \in [Cells -> Glyphs] /\ page \in [Sheet -> Glyphs] /\ py \in 0 .. MaxLines
  /\ y = py - TopOf(py)
  /\ \A i \in 0 .. Cols - 1, j \in 0 .. MaxLines + Rows : j > py => page[<<i, j>>] = " "
  /\ \A c \in Cells : t[c] = page[<<c[1], c[2] + TopOf(py)>>]

(* What scroll_graphics makes of text_buffer.                              *)
Up(t) == [c \in Cells |-> IF c[2] = Rows - 1 THEN " " ELSE t[<<c[1], c[2] + 1>>]]

(* The cursor's row is a row of the grid.                                  *)
LEMMA RowInGrid ==
  ASSUME NEW py \in 0 .. MaxLines
  PROVE  /\ TopOf(py) \in 0 .. MaxLines /\ py - TopOf(py) \in 0 .. Rows - 1
         /\ \A c \in Cells : <<c[1], c[2] + TopOf(py)>> \in Sheet
BY GridAssumption DEF TopOf, Cells, Sheet

(* What an agreement says, conjunct by conjunct.                           *)
LEMMA AgreeFacts ==
  ASSUME NEW t, NEW y \in Int, NEW page, NEW py \in Int, Agree(t, y, page, py)
  PROVE  /\ t \in [Cells -> Glyphs] /\ page \in [Sheet -> Glyphs] /\ py \in 0 .. MaxLines
         /\ y = py - TopOf(py) /\ TopOf(py) \in 0 .. MaxLines /\ y \in 0 .. Rows - 1
         /\ \A i \in 0 .. Cols - 1, j \in 0 .. MaxLines + Rows : j > py => page[<<i, j>>] = " "
         /\ \A c \in Cells : t[c] = page[<<c[1], c[2] + TopOf(py)>>]
<1>1. py \in 0 .. MaxLines /\ y = py - TopOf(py)
  BY Zenon DEF Agree
<1>2. TopOf(py) \in 0 .. MaxLines /\ y \in 0 .. Rows - 1
  BY <1>1, RowInGrid, Zenon
<1> QED
  BY <1>1, <1>2, Zenon DEF Agree

(* A glyph in the cursor's row is a glyph in the last line of the page.    *)
LEMMA PutAgrees ==
  ASSUME NEW t, NEW y \in Int, NEW page, NEW py \in Int, Agree(t, y, page, py),
         NEW x \in 0 .. Cols - 1, NEW g \in Glyphs
  PROVE  Agree([t EXCEPT ![<<x, y>>] = g], y, [page EXCEPT ![<<x, py>>] = g], py)
<1> DEFINE u == [t EXCEPT ![<<x, y>>] = g]
           q == [page EXCEPT ![<<x, py>>] = g]
<1>1. /\ t \in [Cells -> Glyphs] /\ page \in [Sheet -> Glyphs] /\ py \in 0 .. MaxLines
      /\ y = py - TopOf(py) /\ TopOf(py) \in 0 .. MaxLines /\ y \in 0 .. Rows - 1
  BY AgreeFacts, Zenon
<1>8. \A i \in 0 .. Cols - 1, j \in 0 .. MaxLines + Rows : j > py => page[<<i, j>>] = " "
  BY Zenon DEF Agree
<1>9. \A c \in Cells : t[c] = page[<<c[1], c[2] + TopOf(py)>>]
  BY Zenon DEF Agree
<1>2. <<x, y>> \in Cells /\ <<x, py>> \in Sheet
  BY <1>1, RowInGrid, GridAssumption DEF Cells, Sheet
<1>3. u \in [Cells -> Glyphs] /\ q \in [Sheet -> Glyphs]
  BY <1>1, <1>2, Zenon
<1>4. ASSUME NEW i \in 0 .. Cols - 1, NEW j \in 0 .. MaxLines + Rows, j > py
      PROVE  q[<<i, j>>] = " "
  <2>1. <<i, j>> \in Sheet /\ <<i, j>> # <<x, py>>
    BY <1>1, <1>4, GridAssumption DEF Sheet
  <2>2. page[<<i, j>>] = " "
    BY <1>4, <1>8, Zenon
  <2> QED
    BY <1>1, <2>1, <2>2, Zenon
<1>5. ASSUME NEW c \in Cells PROVE u[c] = q[<<c[1], c[2] + TopOf(py)>>]
  <2>1. <<c[1], c[2] + TopOf(py)>> \in Sheet
    BY <1>1, RowInGrid, Zenon
  <2>2. c = <<c[1], c[2]>> /\ c[1] \in Int /\ c[2] \in Int
    BY DEF Cells
  <2>3. c = <<x, y>> <=> <<c[1], c[2] + TopOf(py)>> = <<x, py>>
    BY <1>1, <2>2
  <2>4. t[c] = page[<<c[1], c[2] + TopOf(py)>>]
    BY <1>9, Zenon
  <2> QED
    BY <1>1, <1>2, <2>1, <2>3, <2>4, Zenon
<1> QED
  BY <1>1, <1>3, <1>4, <1>5, Zenon DEF Agree

(* A new line scrolls the text when the cursor is in the last row.         *)
LEMMA LineAgrees ==
  ASSUME NEW t, NEW y \in Int, NEW page, NEW py \in Int, Agree(t, y, page, py), py < MaxLines
  PROVE  /\ y + 1 < Rows => Agree(t, y + 1, page, py + 1)
         /\ y + 1 >= Rows => Agree(Up(t), Rows - 1, page, py + 1)
<1>1. /\ t \in [Cells -> Glyphs] /\ page \in [Sheet -> Glyphs] /\ py \in 0 .. MaxLines
      /\ y = py - TopOf(py) /\ TopOf(py) \in 0 .. MaxLines /\ y \in 0 .. Rows - 1
  BY AgreeFacts, Zenon
<1>8. \A i \in 0 .. Cols - 1, j \in 0 .. MaxLines + Rows : j > py => page[<<i, j>>] = " "
  BY Zenon DEF Agree
<1>9. \A c \in Cells : t[c] = page[<<c[1], c[2] + TopOf(py)>>]
  BY Zenon DEF Agree
<1>2. py + 1 \in 0 .. MaxLines
  BY <1>1, GridAssumption
<1>3. \A i \in 0 .. Cols - 1, j \in 0 .. MaxLines + Rows : j > py + 1 => page[<<i, j>>] = " "
  <2> SUFFICES ASSUME NEW i \in 0 .. Cols - 1, NEW j \in 0 .. MaxLines + Rows, j > py + 1
               PROVE  page[<<i, j>>] = " "
    BY Zenon
  <2>1. j > py
    BY <1>1, GridAssumption
  <2> QED
    BY <1>8, <2>1, Zenon
<1>4. CASE y + 1 < Rows
  <2>1. TopOf(py + 1) = TopOf(py)
    BY <1>1, <1>4, GridAssumption DEF TopOf
  <2> QED
    <3>1. y + 1 = (py + 1) - TopOf(py + 1)
      BY <1>1, <2>1, GridAssumption
    <3>2. Agree(t, y + 1, page, py + 1)
      BY <1>1, <1>2, <1>3, <1>9, <2>1, <3>1, Zenon DEF Agree
    <3> QED
      BY <1>4, <1>1, <3>2, GridAssumption
<1>5. CASE y + 1 >= Rows
  <2>1. TopOf(py + 1) = TopOf(py) + 1 /\ y = Rows - 1
    BY <1>1, <1>5, GridAssumption DEF TopOf
  <2>2. ASSUME NEW c \in Cells
        PROVE  Up(t)[c] \in Glyphs /\ Up(t)[c] = page[<<c[1], c[2] + TopOf(py + 1)>>]
    <3>1. c[1] \in 0 .. Cols - 1 /\ c[2] \in 0 .. Rows - 1
      BY Zenon DEF Cells
    <3>2. <<c[1], c[2] + TopOf(py + 1)>> \in Sheet
      BY <1>2, RowInGrid, Zenon
    <3>3. CASE c[2] = Rows - 1
      <4>1. c[2] + TopOf(py + 1) = py + 1
        BY <1>1, <2>1, <3>1, <3>3, GridAssumption
      <4>2. page[<<c[1], c[2] + TopOf(py + 1)>>] = " "
        <5>1. py + 1 \in 0 .. MaxLines + Rows /\ py + 1 > py
          BY <1>2, GridAssumption
        <5>2. page[<<c[1], py + 1>>] = " "
          BY <1>8, <3>1, <5>1, Zenon
        <5> QED
          BY <4>1, <5>2, Zenon
      <4> QED
        BY <3>3, <4>2, Zenon DEF Up, Glyphs
    <3>4. CASE c[2] # Rows - 1
      <4> DEFINE d == <<c[1], c[2] + 1>>
      <4>1. d \in Cells /\ d[1] = c[1] /\ d[2] = c[2] + 1
        BY <3>1, <3>4, GridAssumption DEF Cells
      <4>2. t[d] = page[<<c[1], (c[2] + 1) + TopOf(py)>>]
        BY <1>9, <4>1, Zenon
      <4>3. (c[2] + 1) + TopOf(py) = c[2] + TopOf(py + 1)
        BY <1>1, <2>1, <3>1
      <4> QED
        BY <1>1, <3>4, <4>1, <4>2, <4>3, Zenon DEF Up
    <3> QED
      BY <3>3, <3>4, Zenon
  <2>3. Up(t) \in [Cells -> Glyphs]
    BY <2>2, Zenon DEF Up
  <2>4. Rows - 1 = (py + 1) - TopOf(py + 1)
    BY <1>1, <2>1, GridAssumption
  <2> QED
    <3>1. Agree(Up(t), Rows - 1, page, py + 1)
      BY <1>1, <1>2, <1>3, <2>2, <2>3, <2>4, Zenon DEF Agree
    <3> QED
      BY <1>5, <1>1, <3>1, GridAssumption
<1> QED
  BY <1>4, <1>5, <1>1, GridAssumption, RowInGrid, Zenon

-----------------------------------------------------------------------------
(* What print_char does *)

(* The state that print_char works on.                                     *)
At(t, x, y, drawings) == [text |-> t, x |-> x, y |-> y, todo |-> drawings]

(* A line begun above the last row, or in it.                              *)
Line(t, y, drawings) ==
  IF y + 1 < Rows THEN At(t, 0, y + 1, drawings)
  ELSE At(Up(t), 0, Rows - 1, drawings \o RedrawText(Up(t)))

(* The two tests do nothing when the cursor is in the grid.                *)
LEMMA WrapStays ==
  ASSUME NEW t, NEW x \in 0 .. Cols - 1, NEW y \in 0 .. Rows - 1, NEW drawings
  PROVE  Wrap(At(t, x, y, drawings)) = At(t, x, y, drawings)
<1>1. ~(x >= Cols) /\ ~(y >= Rows)
  BY GridAssumption
<1> QED
  BY <1>1, Zenon DEF Wrap, At

(* The cursor goes to the beginning of the next line.                      *)
LEMMA NextLineAt ==
  ASSUME NEW t, NEW x \in Int, NEW y \in Int, NEW drawings
  PROVE  NextLine(At(t, x, y, drawings)) = At(t, 0, y + 1, drawings)
<1>1. [At(t, x, y, drawings) EXCEPT !.x = 0] = At(t, 0, y, drawings)
  BY DEF At
<1>2. [At(t, 0, y, drawings) EXCEPT !.y = @ + 1] = At(t, 0, y + 1, drawings)
  BY DEF At
<1>3. NextLine(At(t, x, y, drawings)) = [[At(t, x, y, drawings) EXCEPT !.x = 0] EXCEPT !.y = @ + 1]
  BY Zenon DEF NextLine
<1> QED
  BY <1>1, <1>2, <1>3, Zenon

(* They scroll the text when a line begins below the last row.             *)
LEMMA WrapLine ==
  ASSUME NEW t, NEW y \in 0 .. Rows - 1, NEW drawings
  PROVE  /\ Wrap(At(t, 0, y + 1, drawings)) = Line(t, y, drawings)
         /\ Wrap(At(t, Cols, y, drawings)) = Line(t, y, drawings)
<1>1. ~(0 >= Cols) /\ Cols >= Cols
  BY GridAssumption
<1>2. NextLine(At(t, Cols, y, drawings)) = At(t, 0, y + 1, drawings)
  BY NextLineAt, GridAssumption
<1>3. Scroll(At(t, 0, y + 1, drawings)) = At(Up(t), 0, Rows - 1, drawings \o RedrawText(Up(t)))
  BY Zenon DEF Scroll, At, Up
<1>4. y + 1 < Rows <=> ~(y + 1 >= Rows)
  BY GridAssumption
<1>5. /\ At(t, 0, y + 1, drawings).x = 0 /\ At(t, 0, y + 1, drawings).y = y + 1
      /\ At(t, Cols, y, drawings).x = Cols
  BY Zenon DEF At
<1> QED
  BY <1>1, <1>2, <1>3, <1>4, <1>5, Zenon DEF Wrap, Line

(* A glyph goes into the text and is drawn.                                *)
LEMMA PutGlyphAt ==
  ASSUME NEW t, NEW x, NEW y, NEW g
  PROVE  PutGlyph(At(t, x, y, <<>>), g)
           = At([t EXCEPT ![<<x, y>>] = g], x, y, <<RenderCell(<<x, y>>, g, "noteQuiet")>>)
<1> DEFINE s == At(t, x, y, <<>>)
           u == [t EXCEPT ![<<x, y>>] = g]
           d == RenderCell(<<x, y>>, g, "noteQuiet")
<1>1. s.x = x /\ s.y = y
  BY Zenon DEF At
<1>2. [s EXCEPT !.text[<<x, y>>] = g] = At(u, x, y, <<>>)
  BY DEF At
<1>3. [At(u, x, y, <<>>) EXCEPT !.todo = Append(@, d)] = At(u, x, y, <<d>>)
  BY DEF At
<1>4. PutGlyph(s, g) = [[s EXCEPT !.text[<<x, y>>] = g] EXCEPT !.todo = Append(@, d)]
  BY <1>1, Zenon DEF PutGlyph
<1> QED
  BY <1>2, <1>3, <1>4, Zenon

(* The characters of print_char, one by one.                               *)
LEMMA PrintedNewLine ==
  ASSUME NEW t, NEW x \in 0 .. Cols - 1, NEW y \in 0 .. Rows - 1
  PROVE  Printed(At(t, x, y, <<>>), "nl") = Line(t, y, <<>>)
<1>1. NextLine(At(t, x, y, <<>>)) = At(t, 0, y + 1, <<>>)
  BY NextLineAt, GridAssumption
<1>2. Printed(At(t, x, y, <<>>), "nl") = Wrap(At(t, 0, y + 1, <<>>))
  BY <1>1, Zenon DEF Printed
<1> QED
  BY <1>2, WrapLine, Zenon

(* A carriage return, or a backspace in the first column.                  *)
LEMMA PrintedReturn ==
  ASSUME NEW t, NEW x \in 0 .. Cols - 1, NEW y \in 0 .. Rows - 1
  PROVE  /\ Printed(At(t, x, y, <<>>), "cr") = At(t, 0, y, <<>>)
         /\ x = 0 => Printed(At(t, x, y, <<>>), "bs") = At(t, 0, y, <<>>)
<1>1. 0 \in 0 .. Cols - 1
  BY GridAssumption
<1>2. Wrap(At(t, 0, y, <<>>)) = At(t, 0, y, <<>>)
  BY <1>1, WrapStays, Zenon
<1>3. [At(t, x, y, <<>>) EXCEPT !.x = 0] = At(t, 0, y, <<>>)
  BY DEF At
<1>4. Printed(At(t, x, y, <<>>), "cr") = At(t, 0, y, <<>>)
  BY <1>2, <1>3, Zenon DEF Printed
<1>5. ASSUME x = 0 PROVE Printed(At(t, x, y, <<>>), "bs") = At(t, 0, y, <<>>)
  <2>1. ~(At(t, 0, y, <<>>).x > 0)
    BY DEF At
  <2>2. Backspace(At(t, 0, y, <<>>)) = At(t, 0, y, <<>>)
    BY <2>1, Zenon DEF Backspace
  <2> QED
    BY <1>2, <1>5, <2>2, Zenon DEF Printed
<1> QED
  BY <1>4, <1>5, Zenon

(* A backspace elsewhere.                                                  *)
LEMMA PrintedErase ==
  ASSUME NEW t, NEW w \in 0 .. Cols - 1, NEW y \in 0 .. Rows - 1
  PROVE  \A g : g = " " =>
           Printed(At(t, w + 1, y, <<>>), "bs")
             = At([t EXCEPT ![<<w, y>>] = g], w, y, <<RenderCell(<<w, y>>, g, "noteQuiet")>>)
<1> DEFINE s == At(t, w + 1, y, <<>>)
<1>1. s.x > 0
  BY GridAssumption DEF At
<1>2. [s EXCEPT !.x = @ - 1] = At(t, w, y, <<>>)
  BY GridAssumption DEF At
<1>3. \A g : PutGlyph(At(t, w, y, <<>>), g)
               = At([t EXCEPT ![<<w, y>>] = g], w, y, <<RenderCell(<<w, y>>, g, "noteQuiet")>>)
  BY PutGlyphAt
<1>4. \A u, d : Wrap(At(u, w, y, d)) = At(u, w, y, d)
  BY WrapStays, Zenon
<1> HIDE DEF s
<1>5. Backspace(s) = PutGlyph(At(t, w, y, <<>>), " ")
  BY <1>1, <1>2, Zenon DEF Backspace
<1>6. Printed(s, "bs") = Wrap(PutGlyph(At(t, w, y, <<>>), " "))
  BY <1>5, Zenon DEF Printed
<1>7. \A g : g = " " => Printed(s, "bs") =
               At([t EXCEPT ![<<w, y>>] = g], w, y, <<RenderCell(<<w, y>>, g, "noteQuiet")>>)
  BY <1>3, <1>4, <1>6, Zenon
<1> QED
  BY <1>7, Zenon DEF s

(* A letter, in the last column or before it.                              *)
LEMMA PrintedLetter ==
  ASSUME NEW t, NEW x \in 0 .. Cols - 1, NEW y \in 0 .. Rows - 1, NEW c, c \notin {"nl", "cr", "bs"}
  PROVE  Printed(At(t, x, y, <<>>), c) =
           IF x + 1 < Cols THEN At([t EXCEPT ![<<x, y>>] = c], x + 1, y, <<RenderCell(<<x, y>>, c, "noteQuiet")>>)
           ELSE Line([t EXCEPT ![<<x, y>>] = c], y, <<RenderCell(<<x, y>>, c, "noteQuiet")>>)
<1> DEFINE s == At(t, x, y, <<>>)
           u == [t EXCEPT ![<<x, y>>] = c]
           cell == <<RenderCell(<<x, y>>, c, "noteQuiet")>>
<1>1. PutGlyph(Wrap(s), c) = At(u, x, y, cell)
  BY PutGlyphAt, WrapStays
<1>2. PutLetter(s, c) = At(u, x + 1, y, cell)
  BY <1>1 DEF PutLetter, At
<1>3. Printed(s, c) = Wrap(At(u, x + 1, y, cell))
  BY <1>2, Zenon DEF Printed
<1> HIDE DEF s, u, cell
<1>4. CASE x + 1 < Cols
  <2>1. x + 1 \in 0 .. Cols - 1
    BY <1>4, GridAssumption
  <2>2. Printed(s, c) = At(u, x + 1, y, cell)
    BY <1>3, <2>1, WrapStays, Zenon
  <2> QED
    BY <1>4, <2>2, Zenon DEF s, u, cell
<1>5. CASE ~(x + 1 < Cols)
  <2>1. x + 1 = Cols
    BY <1>5, GridAssumption
  <2>2. Printed(s, c) = Line(u, y, cell)
    BY <1>3, <2>1, WrapLine, Zenon
  <2> QED
    BY <1>5, <2>2, Zenon DEF s, u, cell
<1> QED
  BY <1>4, <1>5, Zenon

(* The page, with the place of the next character.                         *)
On(x, y, page) == [x |-> x, y |-> y, page |-> page]

(* The characters on the page, one by one.                                 *)
LEMMA OnPageCases ==
  ASSUME NEW x \in 0 .. Cols - 1, NEW y \in Nat, NEW page
  PROVE  /\ OnPage(On(x, y, page), "nl") = On(0, y + 1, page)
         /\ OnPage(On(x, y, page), "cr") = On(0, y, page)
         /\ x = 0 => OnPage(On(x, y, page), "bs") = On(0, y, page)
<1>1. On(x, y, page).x = x
  BY Zenon DEF On
<1>2. [On(x, y, page) EXCEPT !.x = 0] = On(0, y, page)
  BY DEF On
<1>3. [On(0, y, page) EXCEPT !.y = @ + 1] = On(0, y + 1, page)
  BY DEF On
<1>4. OnPage(On(x, y, page), "nl") = [[On(x, y, page) EXCEPT !.x = 0] EXCEPT !.y = @ + 1]
  BY Zenon DEF OnPage
<1>5. OnPage(On(x, y, page), "cr") = [On(x, y, page) EXCEPT !.x = 0]
  BY Zenon DEF OnPage
<1>6. x = 0 => OnPage(On(x, y, page), "bs") = [On(x, y, page) EXCEPT !.x = 0]
  BY <1>1, Zenon DEF OnPage
<1> QED
  BY <1>2, <1>3, <1>4, <1>5, <1>6, Zenon

(* A backspace takes the last character off the page.                      *)
LEMMA OnPageErase ==
  ASSUME NEW w \in 0 .. Cols - 1, NEW y \in Nat, NEW page
  PROVE  \A g : g = " " =>
           OnPage(On(w + 1, y, page), "bs") = On(w, y, [page EXCEPT ![<<w, y>>] = g])
<1> DEFINE p == On(w + 1, y, page)
<1>1. p.x - 1 = w /\ p.x # 0 /\ p.y = y
  BY GridAssumption DEF On
<1>2. [p EXCEPT !.x = @ - 1] = On(w, y, page)
  BY GridAssumption DEF On
<1>3. \A g : [On(w, y, page) EXCEPT !.page[<<w, y>>] = g] = On(w, y, [page EXCEPT ![<<w, y>>] = g])
  BY DEF On
<1> HIDE DEF p
<1>4. OnPage(p, "bs") = [[p EXCEPT !.x = @ - 1] EXCEPT !.page[<<w, y>>] = " "]
  BY <1>1, Zenon DEF OnPage
<1>5. OnPage(p, "bs") = [On(w, y, page) EXCEPT !.page[<<w, y>>] = " "]
  BY <1>2, <1>4, Zenon
<1> QED
  BY <1>3, <1>5, Zenon DEF p

(* A letter is added to the page.                                          *)
LEMMA OnPageLetter ==
  ASSUME NEW x \in 0 .. Cols - 1, NEW y \in Nat, NEW page, NEW c, c \notin {"nl", "cr", "bs"}
  PROVE  OnPage(On(x, y, page), c) =
           IF x + 1 < Cols THEN On(x + 1, y, [page EXCEPT ![<<x, y>>] = c])
           ELSE On(0, y + 1, [page EXCEPT ![<<x, y>>] = c])
<1> DEFINE p == On(x, y, page)
           q == [page EXCEPT ![<<x, y>>] = c]
<1>1. p.x = x /\ p.y = y
  BY Zenon DEF On
<1>2. [p EXCEPT !.page[<<x, y>>] = c] = On(x, y, q)
  BY DEF On
<1> HIDE DEF p, q
<1>3. [On(x, y, q) EXCEPT !.x = 0] = On(0, y, q) /\ [On(x, y, q) EXCEPT !.x = @ + 1] = On(x + 1, y, q)
  BY DEF On
<1>4. [On(0, y, q) EXCEPT !.y = @ + 1] = On(0, y + 1, q)
  BY DEF On
<1>5. OnPage(p, c) = IF x + 1 < Cols THEN [On(x, y, q) EXCEPT !.x = @ + 1]
                     ELSE [[On(x, y, q) EXCEPT !.x = 0] EXCEPT !.y = @ + 1]
  <2>1. OnPage(p, c) = LET w == [p EXCEPT !.page[<<x, y>>] = c]
                       IN  IF x + 1 < Cols THEN [w EXCEPT !.x = @ + 1]
                           ELSE [[w EXCEPT !.x = 0] EXCEPT !.y = @ + 1]
    BY <1>1, Zenon DEF OnPage
  <2> QED
    BY <1>2, <2>1, Zenon
<1>6. OnPage(p, c) = IF x + 1 < Cols THEN On(x + 1, y, q) ELSE On(0, y + 1, q)
  BY <1>3, <1>4, <1>5, Zenon
<1> QED
  BY <1>6, Zenon DEF p, q

(* What a character leaves to draw: nothing, one cell, or the whole text.  *)
Drawn(t, u, drawings) ==
  \/ u = t /\ drawings = <<>>
  \/ \E d \in Cells, g \in Glyphs :
       u = [t EXCEPT ![d] = g] /\ drawings = <<RenderCell(d, g, "noteQuiet")>>
  \/ drawings = <<>> \o RedrawText(u)
  \/ \E d \in Cells, g \in Glyphs : drawings = <<RenderCell(d, g, "noteQuiet")>> \o RedrawText(u)

(* The text, the cursor and the drawings s follow from the text t as the   *)
(* page p says.                                                            *)
Follows(s, p, t) ==
  /\ p.x \in 0 .. Cols - 1 /\ p.y \in 0 .. MaxLines /\ p = On(p.x, p.y, p.page)
  /\ s.x = p.x /\ s.y \in 0 .. Rows - 1 /\ Agree(s.text, s.y, p.page, p.y)
  /\ Drawn(t, s.text, s.todo)

(* Follows, for states and pages in the form the cases have.               *)
LEMMA FollowsAt ==
  ASSUME NEW u, NEW x \in 0 .. Cols - 1, NEW y \in Int, NEW drawings, NEW page, NEW py \in Int,
         Agree(u, y, page, py), NEW t, Drawn(t, u, drawings)
  PROVE  Follows(At(u, x, y, drawings), On(x, py, page), t)
<1>1. py \in 0 .. MaxLines /\ y \in 0 .. Rows - 1
  BY AgreeFacts, Zenon
<1>2. LET s == At(u, x, y, drawings) IN s.x = x /\ s.y = y /\ s.text = u /\ s.todo = drawings
  BY Zenon DEF At
<1>3. LET p == On(x, py, page) IN p.x = x /\ p.y = py /\ p.page = page
  BY Zenon DEF On
<1> QED
  BY <1>1, <1>2, <1>3, Zenon DEF Follows

(* After a line, the text is the bottom of the page again.                 *)
LEMMA LineFollows ==
  ASSUME NEW t, NEW u, NEW y \in Int, NEW page, NEW py \in Int, Agree(u, y, page, py), py < MaxLines,
         NEW drawings, Drawn(t, u, drawings), Drawn(t, Up(u), drawings \o RedrawText(Up(u)))
  PROVE  Follows(Line(u, y, drawings), On(0, py + 1, page), t)
<1>1. y \in 0 .. Rows - 1
  BY AgreeFacts, Zenon
<1>2. 0 \in 0 .. Cols - 1 /\ y + 1 \in Int /\ py + 1 \in Int /\ Rows - 1 \in Int
  BY GridAssumption
<1>3. CASE y + 1 < Rows
  <2>1. Line(u, y, drawings) = At(u, 0, y + 1, drawings)
    BY <1>3, Zenon DEF Line
  <2>2. Agree(u, y + 1, page, py + 1)
    BY <1>3, LineAgrees, Zenon
  <2> QED
    BY <1>2, <2>1, <2>2, FollowsAt, Zenon
<1>4. CASE ~(y + 1 < Rows)
  <2>1. Line(u, y, drawings) = At(Up(u), 0, Rows - 1, drawings \o RedrawText(Up(u)))
    BY <1>4, Zenon DEF Line
  <2>2. y + 1 >= Rows
    BY <1>1, <1>4, GridAssumption
  <2>3. Agree(Up(u), Rows - 1, page, py + 1)
    BY <2>2, LineAgrees, Zenon
  <2> QED
    BY <1>2, <2>1, <2>3, FollowsAt, Zenon
<1> QED
  BY <1>3, <1>4, Zenon

(* print_char does to the text what it does to the page.                   *)
LEMMA PrintedFollows ==
  ASSUME NEW t, NEW x \in 0 .. Cols - 1, NEW y \in Int, NEW page, NEW py \in Int,
         Agree(t, y, page, py), py < MaxLines, NEW c \in Letters \cup {"nl", "cr", "bs"}
  PROVE  Follows(Printed(At(t, x, y, <<>>), c), OnPage(On(x, py, page), c), t)
<1>1. py \in 0 .. MaxLines /\ y \in 0 .. Rows - 1
  BY AgreeFacts, Zenon
<1>2. 0 \in 0 .. Cols - 1 /\ py \in Nat /\ py + 1 \in Int
  BY <1>1, GridAssumption
<1>3. Drawn(t, t, <<>>) /\ Drawn(t, Up(t), <<>> \o RedrawText(Up(t)))
  BY Zenon DEF Drawn
<1>4. CASE c = "nl"
  <2>1. Follows(Line(t, y, <<>>), On(0, py + 1, page), t)
    BY <1>3, LineFollows, Zenon
  <2>2. /\ Printed(At(t, x, y, <<>>), "nl") = Line(t, y, <<>>)
        /\ OnPage(On(x, py, page), "nl") = On(0, py + 1, page)
    BY <1>1, <1>2, PrintedNewLine, OnPageCases, Zenon
  <2> QED
    BY <1>4, <2>1, <2>2, Zenon
<1>5. CASE c = "cr" \/ (c = "bs" /\ x = 0)
  <2>1. Follows(At(t, 0, y, <<>>), On(0, py, page), t)
    BY <1>2, <1>3, FollowsAt, Zenon
  <2>2. /\ Printed(At(t, x, y, <<>>), "cr") = At(t, 0, y, <<>>)
        /\ x = 0 => Printed(At(t, x, y, <<>>), "bs") = At(t, 0, y, <<>>)
    BY <1>1, PrintedReturn, Zenon
  <2>3. /\ OnPage(On(x, py, page), "cr") = On(0, py, page)
        /\ x = 0 => OnPage(On(x, py, page), "bs") = On(0, py, page)
    BY <1>2, OnPageCases, Zenon
  <2> QED
    BY <1>5, <2>1, <2>2, <2>3, Zenon
<1>6. CASE c = "bs" /\ x # 0
  <2>1. PICK w \in 0 .. Cols - 1 : x = w + 1
    <3>1. x - 1 \in 0 .. Cols - 1 /\ x = (x - 1) + 1
      BY <1>6, GridAssumption
    <3> QED
      BY <3>1, Zenon
  <2>2. PICK g \in Glyphs : g = " "
    BY Zenon DEF Glyphs
  <2> DEFINE u == [t EXCEPT ![<<w, y>>] = g]
             q == [page EXCEPT ![<<w, py>>] = g]
             cell == <<RenderCell(<<w, y>>, g, "noteQuiet")>>
  <2>3. Printed(At(t, w + 1, y, <<>>), "bs") = At(u, w, y, cell)
    BY <1>1, <2>2, PrintedErase, Zenon
  <2>4. OnPage(On(w + 1, py, page), "bs") = On(w, py, q)
    <3>1. \A h : h = " " => OnPage(On(w + 1, py, page), "bs") = On(w, py, [page EXCEPT ![<<w, py>>] = h])
      BY <1>2, OnPageErase
    <3> QED
      BY <2>2, <3>1, Zenon
  <2>5. Agree(u, y, q, py)
    BY PutAgrees, Zenon
  <2>6. <<w, y>> \in Cells
    BY <1>1, Zenon DEF Cells
  <2>7. Drawn(t, u, cell)
    BY <2>6, Zenon DEF Drawn
  <2> HIDE DEF u, q, cell
  <2>8. Follows(At(u, w, y, cell), On(w, py, q), t)
    BY <2>5, <2>7, FollowsAt, Zenon
  <2> QED
    BY <1>6, <2>1, <2>3, <2>4, <2>8, Zenon
<1>7. CASE c \notin {"nl", "cr", "bs"}
  <2> DEFINE u == [t EXCEPT ![<<x, y>>] = c]
             q == [page EXCEPT ![<<x, py>>] = c]
             cell == <<RenderCell(<<x, y>>, c, "noteQuiet")>>
  <2>1. c \in Glyphs /\ <<x, y>> \in Cells
    BY <1>1, <1>7, Zenon DEF Cells, Glyphs
  <2>2. Agree(u, y, q, py)
    BY <2>1, PutAgrees, Zenon
  <2>3. Drawn(t, u, cell) /\ Drawn(t, Up(u), cell \o RedrawText(Up(u)))
    <3> HIDE DEF u
    <3>1. Drawn(t, Up(u), cell \o RedrawText(Up(u)))
      BY <2>1, Zenon DEF Drawn
    <3>2. Drawn(t, u, cell)
      BY <2>1, Zenon DEF Drawn, u
    <3> QED
      BY <3>1, <3>2, Zenon
  <2>4. Printed(At(t, x, y, <<>>), c) =
          IF x + 1 < Cols THEN At(u, x + 1, y, cell) ELSE Line(u, y, cell)
    BY <1>1, <1>7, PrintedLetter, Zenon
  <2>5. OnPage(On(x, py, page), c) = IF x + 1 < Cols THEN On(x + 1, py, q) ELSE On(0, py + 1, q)
    BY <1>2, <1>7, OnPageLetter
  <2> HIDE DEF u, q, cell
  <2>6. CASE x + 1 < Cols
    <3>1. x + 1 \in 0 .. Cols - 1
      BY <2>6, GridAssumption
    <3> QED
      BY <2>2, <2>3, <2>4, <2>5, <2>6, <3>1, FollowsAt, Zenon
  <2>7. CASE ~(x + 1 < Cols)
    BY <2>2, <2>3, <2>4, <2>5, <2>7, LineFollows, Zenon
  <2> QED
    BY <2>6, <2>7, Zenon
<1> QED
  BY <1>4, <1>5, <1>6, <1>7, Zenon

-----------------------------------------------------------------------------
(* The text follows the output *)

(* TextInv, with the conjuncts that print_char reads.                      *)
LEMMA TextAgrees ==
  ASSUME ConTypeOK, TextInv
  PROVE  /\ Agree(text, cursor[2], paper.page, paper.y)
         /\ cursor[1] = paper.x /\ cursor[1] \in 0 .. Cols - 1 /\ cursor[2] \in 0 .. Rows - 1
         /\ paper.y \in 0 .. MaxLines /\ paper = On(paper.x, paper.y, paper.page)
<1>1. /\ paper.x \in 0 .. Cols - 1 /\ paper.y \in 0 .. MaxLines /\ paper.page \in [Sheet -> Glyphs]
      /\ paper = On(paper.x, paper.y, paper.page)
  BY Zenon DEF ConTypeOK, Paper, On
<1>2. Top = TopOf(paper.y)
  BY Zenon DEF Top, TopOf
<1>3. cursor[1] = paper.x /\ cursor[2] = paper.y - TopOf(paper.y)
  BY <1>2, Zenon DEF TextInv
<1>4. cursor[2] \in 0 .. Rows - 1
  BY <1>1, <1>3, RowInGrid, Zenon
<1>5. \A c \in Cells : text[c] = paper.page[<<c[1], c[2] + TopOf(paper.y)>>]
  BY <1>2, Zenon DEF TextInv, Bottom
<1>6. \A i \in 0 .. Cols - 1, j \in 0 .. MaxLines + Rows : j > paper.y => paper.page[<<i, j>>] = " "
  BY Zenon DEF TextInv
<1>7. text \in [Cells -> Glyphs]
  BY Zenon DEF ConTypeOK
<1>8. Agree(text, cursor[2], paper.page, paper.y)
  BY <1>1, <1>3, <1>5, <1>6, <1>7, Zenon DEF Agree
<1> QED
  BY <1>1, <1>3, <1>4, <1>8, Zenon

(* The converse, after a step.                                             *)
LEMMA AgreesText ==
  ASSUME Agree(text, cursor[2], paper.page, paper.y)',
         (cursor[2] \in 0 .. Rows - 1)', (paper.x \in 0 .. Cols - 1)', (paper.y \in 0 .. MaxLines)',
         (paper = On(paper.x, paper.y, paper.page))', (cursor = <<paper.x, cursor[2]>>)'
  PROVE  TextInv' /\ (text \in [Cells -> Glyphs])' /\ (cursor \in Cells)' /\ (paper \in Paper)'
<1>1. /\ text' \in [Cells -> Glyphs] /\ paper'.page \in [Sheet -> Glyphs]
      /\ cursor'[2] = paper'.y - TopOf(paper'.y)
  BY Zenon DEF Agree
<1>2. /\ \A i \in 0 .. Cols - 1, j \in 0 .. MaxLines + Rows : j > paper'.y => paper'.page[<<i, j>>] = " "
  BY Zenon DEF Agree
<1>3. \A c \in Cells : text'[c] = paper'.page[<<c[1], c[2] + TopOf(paper'.y)>>]
  BY Zenon DEF Agree
<1>4. Top' = TopOf(paper'.y)
  BY Zenon DEF Top, TopOf
<1>5. paper' \in Paper
  BY <1>1, Zenon DEF On, Paper
<1>6. cursor' \in Cells
  BY DEF Cells
<1>7. text' = Bottom'
  BY <1>1, <1>3, <1>4, Zenon DEF Bottom
<1>8. cursor' = <<paper'.x, paper'.y - Top'>>
  BY <1>1, <1>4, Zenon
<1> QED
  BY <1>1, <1>2, <1>5, <1>6, <1>7, <1>8, Zenon DEF TextInv

(* print_char keeps text_buffer the bottom of the page.                    *)
LEMMA PrintStep ==
  ASSUME ConTypeOK, TextInv, NEW c \in Letters \cup {"nl", "cr", "bs"}, PrintChar(c)
  PROVE  /\ TextInv' /\ (text \in [Cells -> Glyphs])' /\ (cursor \in Cells)' /\ (paper \in Paper)'
         /\ \E drawings : Drawn(text, text', drawings) /\ todo' = Append(drawings, FinalPresent)
<1> DEFINE s == Printed(At(text, cursor[1], cursor[2], <<>>), c)
<1>1. /\ Agree(text, cursor[2], paper.page, paper.y)
      /\ cursor[1] = paper.x /\ cursor[1] \in 0 .. Cols - 1 /\ cursor[2] \in 0 .. Rows - 1
      /\ paper.y \in 0 .. MaxLines /\ paper = On(paper.x, paper.y, paper.page)
  BY TextAgrees, Zenon
<1>2. /\ text' = s.text /\ cursor' = <<s.x, s.y>> /\ todo' = Append(s.todo, FinalPresent)
      /\ paper' = OnPage(paper, c) /\ paper.y < MaxLines
  BY Zenon DEF PrintChar, At
<1>3. Follows(s, OnPage(paper, c), text)
  <2>1. cursor[2] \in Int /\ paper.y \in Int
    BY <1>1
  <2>2. Follows(Printed(At(text, cursor[1], cursor[2], <<>>), c), OnPage(On(cursor[1], paper.y, paper.page), c), text)
    BY <1>1, <1>2, <2>1, PrintedFollows, Zenon
  <2> QED
    BY <1>1, <2>2, Zenon
<1> HIDE DEF s
<1>4. /\ paper'.x \in 0 .. Cols - 1 /\ paper'.y \in 0 .. MaxLines /\ paper' = On(paper'.x, paper'.y, paper'.page)
      /\ s.x = paper'.x /\ s.y \in 0 .. Rows - 1 /\ Agree(s.text, s.y, paper'.page, paper'.y)
      /\ Drawn(text, s.text, s.todo)
  BY <1>2, <1>3, Zenon DEF Follows
<1>5. cursor'[2] = s.y /\ cursor' = <<paper'.x, cursor'[2]>> /\ cursor'[2] \in 0 .. Rows - 1
  BY <1>2, <1>4, Zenon
<1>6. Agree(text', cursor'[2], paper'.page, paper'.y)
  BY <1>2, <1>4, <1>5, Zenon
<1>7. TextInv' /\ (text \in [Cells -> Glyphs])' /\ (cursor \in Cells)' /\ (paper \in Paper)'
  BY <1>4, <1>5, <1>6, AgreesText, Zenon
<1>8. Drawn(text, text', s.todo) /\ todo' = Append(s.todo, FinalPresent)
  BY <1>2, <1>4, Zenon
<1> QED
  BY <1>7, <1>8, Zenon

(* cls begins a new page.                                                  *)
LEMMA ClearText ==
  ASSUME ClearScreen
  PROVE  TextInv' /\ (text \in [Cells -> Glyphs])' /\ (cursor \in Cells)' /\ (paper \in Paper)'
<1>1. text' = Blank /\ cursor' = <<0, 0>> /\ paper' = BlankPaper
  BY Zenon DEF ClearScreen
<1>2. /\ BlankPaper.x = 0 /\ BlankPaper.y = 0
      /\ BlankPaper.page = [c \in Sheet |-> " "]
  BY Zenon DEF BlankPaper, Sheet
<1>0. paper'.x = 0 /\ paper'.y = 0
  BY <1>1, <1>2, Zenon
<1>3. Top' = 0
  <2>1. 0 < Rows
    BY GridAssumption
  <2> QED
    BY <1>0, <2>1, Zenon DEF Top
<1>4. \A c \in Cells : <<c[1], c[2] + 0>> \in Sheet
  BY GridAssumption DEF Cells, Sheet
<1>5. text' = Bottom'
  BY <1>1, <1>2, <1>3, <1>4, Zenon DEF Blank, Bottom
<1>6. \A i \in 0 .. Cols - 1, j \in 0 .. MaxLines + Rows : paper'.page[<<i, j>>] = " "
  BY <1>1, <1>2, Zenon DEF Sheet
<1>7. paper' \in Paper
  <2>1. 0 \in 0 .. Cols - 1 /\ 0 \in 0 .. MaxLines
    BY GridAssumption
  <2>2. [c \in Sheet |-> " "] \in [Sheet -> Glyphs]
    BY Zenon DEF Glyphs
  <2>3. BlankPaper = [x |-> 0, y |-> 0, page |-> [c \in Sheet |-> " "]]
    BY Zenon DEF BlankPaper, Sheet
  <2> QED
    BY <1>1, <2>1, <2>2, <2>3, Zenon DEF Paper
<1>8. text' \in [Cells -> Glyphs] /\ cursor' \in Cells
  <2>1. <<0, 0>> \in Cells
    BY GridAssumption DEF Cells
  <2>2. Blank \in [Cells -> Glyphs]
    BY Zenon DEF Blank, Glyphs
  <2> QED
    BY <1>1, <2>1, <2>2, Zenon
<1>9. cursor' = <<paper'.x, paper'.y - Top'>>
  BY <1>0, <1>1, <1>3
<1> QED
  BY <1>5, <1>6, <1>7, <1>8, <1>9, Zenon DEF TextInv

-----------------------------------------------------------------------------
(* The drawings of an operation *)

(* When a drawing is one.                                                  *)
LEMMA DrawingTyped ==
  ASSUME NEW region \in SUBSET Screen, NEW D \in SUBSET Cells, NEW glyphs \in [D -> Glyphs],
         NEW under \in BOOLEAN, NEW then \in {"note", "noteCls", "noteQuiet", "maybe"},
         NEW first \in BOOLEAN, under \/ region \cap Cells \subseteq D
  PROVE  Drawing(region, glyphs, under, then, first) \in Drawings
<1>1. glyphs \in UNION {[E -> Glyphs] : E \in SUBSET Cells} /\ DOMAIN glyphs = D
  BY Zenon
<1> DEFINE d == Drawing(region, glyphs, under, then, first)
<1>2. d \in [region : SUBSET Screen, glyphs : UNION {[E -> Glyphs] : E \in SUBSET Cells},
             under : BOOLEAN, then : {"note", "noteCls", "noteQuiet", "maybe"}, first : BOOLEAN]
  BY <1>1, Zenon DEF Drawing
<1>3. d.under = under /\ d.region = region /\ d.glyphs = glyphs
  BY Zenon DEF Drawing
<1> HIDE DEF d
<1>4. d.under \/ d.region \cap Cells \subseteq DOMAIN d.glyphs
  BY <1>1, <1>3, Zenon
<1>5. d \in Drawings
  BY <1>2, <1>4, Zenon DEF Drawings
<1> QED
  BY <1>5, Zenon DEF d

(* A cell drawn by render_cell.                                            *)
LEMMA RenderCellTyped ==
  ASSUME NEW c \in Cells, NEW g \in Glyphs, NEW then \in {"note", "noteCls", "noteQuiet", "maybe"}
  PROVE  /\ RenderCell(c, g, then) \in Drawings
         /\ RenderCell(c, g, then).region = {c} /\ RenderCell(c, g, then).glyphs[c] = g
         /\ RenderCell(c, g, then).under = FALSE
<1> DEFINE f == [d \in {c} |-> g]
<1>1. {c} \in SUBSET Screen /\ {c} \in SUBSET Cells
  BY CellsAssumption, Zenon
<1>2. f \in [{c} -> Glyphs] /\ f[c] = g
  BY Zenon
<1>3. RenderCell(c, g, then) = Drawing({c}, f, FALSE, then, TRUE)
  BY Zenon DEF RenderCell
<1> HIDE DEF f
<1>4. Drawing({c}, f, FALSE, then, TRUE) \in Drawings
  <2>1. {c} \cap Cells \subseteq {c} /\ FALSE \in BOOLEAN /\ TRUE \in BOOLEAN
    BY Zenon
  <2> QED
    BY <1>1, <1>2, <2>1, DrawingTyped, Zenon
<1>5. LET d == Drawing({c}, f, FALSE, then, TRUE) IN d.region = {c} /\ d.glyphs = f /\ d.under = FALSE
  BY Zenon DEF Drawing
<1> QED
  BY <1>2, <1>3, <1>4, <1>5, Zenon

(* Drawings that put no glyph anywhere.                                    *)
LEMMA EmptyTyped ==
  /\ FinalPresent \in Drawings /\ FinalPresent.region = {} /\ FinalPresent.under = FALSE
  /\ \A c \in Cells : LET d == Drawing({c}, NoGlyphs, TRUE, "note", TRUE)
                      IN  d \in Drawings /\ d.region = {c} /\ d.under = TRUE
<1>1. NoGlyphs \in [{} -> Glyphs] /\ {} \in SUBSET Cells /\ {} \in SUBSET Screen
  BY Zenon DEF NoGlyphs
<1>2. FinalPresent \in Drawings
  <2>1. Drawing({}, NoGlyphs, FALSE, "maybe", TRUE) \in Drawings
    BY <1>1, DrawingTyped, Zenon
  <2> QED
    BY <2>1, Zenon DEF FinalPresent
<1>3. FinalPresent.region = {} /\ FinalPresent.under = FALSE
  BY Zenon DEF FinalPresent, Drawing
<1>4. ASSUME NEW c \in Cells
      PROVE  LET d == Drawing({c}, NoGlyphs, TRUE, "note", TRUE)
             IN  d \in Drawings /\ d.region = {c} /\ d.under = TRUE
  <2>1. {c} \in SUBSET Screen
    BY CellsAssumption, Zenon
  <2>2. Drawing({c}, NoGlyphs, TRUE, "note", TRUE) \in Drawings
    BY <1>1, <2>1, DrawingTyped, Zenon
  <2> QED
    BY <2>2, Zenon DEF Drawing
<1> QED
  BY <1>2, <1>3, <1>4, Zenon

(* redraw_text_buffer draws every cell of the text, and nothing else.      *)
LEMMA RedrawTyped ==
  ASSUME NEW t \in [Cells -> Glyphs]
  PROVE  /\ RedrawText(t) \in Seq(Drawings) /\ Len(RedrawText(t)) = Cols * Rows
         /\ \A i \in 1 .. Cols * Rows :
              /\ ~RedrawText(t)[i].under
              /\ \A c \in RedrawText(t)[i].region : RedrawText(t)[i].glyphs[c] = t[c]
         /\ \A c \in Cells : \E i \in 1 .. Cols * Rows : c \in RedrawText(t)[i].region
<1> DEFINE cell(i) == <<(i - 1) % Cols, (i - 1) \div Cols>>
           d(i) == Drawing({cell(i)}, [e \in {cell(i)} |-> t[e]], FALSE, "note", i = 1)
<1>1. RedrawText(t) = [i \in 1 .. Cols * Rows |-> d(i)]
  BY Zenon DEF RedrawText
<1>2. Cols * Rows \in Nat
  BY GridAssumption
<1>3. ASSUME NEW i \in 1 .. Cols * Rows PROVE cell(i) \in Cells
  <2>1. i - 1 \in 0 .. Cols * Rows - 1
    BY <1>2
  <2>2. (i - 1) % Cols \in 0 .. Cols - 1 /\ (i - 1) \div Cols \in 0 .. Rows - 1
    BY <2>1, DivRange, GridAssumption, Zenon
  <2> QED
    BY <2>2, Zenon DEF Cells
<1> HIDE DEF cell
<1>4. ASSUME NEW i \in 1 .. Cols * Rows
      PROVE  /\ d(i) \in Drawings /\ ~d(i).under /\ d(i).region = {cell(i)}
             /\ \A c \in d(i).region : d(i).glyphs[c] = t[c]
  <2> DEFINE f == [e \in {cell(i)} |-> t[e]]
             b == (i = 1)
  <2>1. {cell(i)} \in SUBSET Screen /\ {cell(i)} \in SUBSET Cells
    BY <1>3, CellsAssumption, Zenon
  <2>2. f \in [{cell(i)} -> Glyphs] /\ \A c \in {cell(i)} : f[c] = t[c]
    BY <1>3, Zenon
  <2>3. {cell(i)} \cap Cells \subseteq {cell(i)} /\ FALSE \in BOOLEAN /\ b \in BOOLEAN
    BY Zenon
  <2>4. d(i) = Drawing({cell(i)}, f, FALSE, "note", b)
    BY Zenon
  <2> HIDE DEF f, b
  <2>5. Drawing({cell(i)}, f, FALSE, "note", b) \in Drawings
    BY <2>1, <2>2, <2>3, DrawingTyped, Zenon
  <2>6. LET e == Drawing({cell(i)}, f, FALSE, "note", b) IN e.region = {cell(i)} /\ e.glyphs = f /\ e.under = FALSE
    BY Zenon DEF Drawing
  <2> HIDE DEF d
  <2> QED
    BY <2>2, <2>4, <2>5, <2>6, Zenon
<1> HIDE DEF d
<1>5. RedrawText(t) \in Seq(Drawings) /\ Len(RedrawText(t)) = Cols * Rows
  BY <1>1, <1>2, <1>4
<1>6. ASSUME NEW c \in Cells PROVE \E i \in 1 .. Cols * Rows : c = cell(i)
  <2>1. PICK x \in 0 .. Cols - 1, y \in 0 .. Rows - 1 : c = <<x, y>>
    BY DEF Cells
  <2>2. y * Cols + x \in Nat /\ y \in Nat
    BY GridAssumption
  <2>3. (y * Cols + x) % Cols = x /\ (y * Cols + x) \div Cols = y
    BY <2>2, DivModUnique, GridAssumption, Zenon
  <2>4. y * Cols + x + 1 <= Cols * Rows
    <3>1. y + 1 <= Rows /\ x + 1 <= Cols
      BY GridAssumption
    <3>2. (y + 1) * Cols <= Rows * Cols
      BY <3>1, GridAssumption
    <3>3. (y + 1) * Cols = y * Cols + Cols
      BY GridAssumption
    <3> QED
      BY <3>1, <3>2, <3>3, GridAssumption
  <2>5. PICK i \in 1 .. Cols * Rows : i - 1 = y * Cols + x
    <3>1. (y * Cols + x) + 1 \in 1 .. Cols * Rows /\ ((y * Cols + x) + 1) - 1 = y * Cols + x
      BY <1>2, <2>2, <2>4
    <3> QED
      BY <3>1, Zenon
  <2>6. cell(i) = <<x, y>>
    BY <2>3, <2>5, Zenon DEF cell
  <2> QED
    BY <2>1, <2>5, <2>6, Zenon
<1>7. \A c \in Cells : \E i \in 1 .. Cols * Rows : c \in RedrawText(t)[i].region
  BY <1>1, <1>4, <1>6, Zenon
<1>8. \A i \in 1 .. Cols * Rows :
        /\ ~RedrawText(t)[i].under
        /\ \A c \in RedrawText(t)[i].region : RedrawText(t)[i].glyphs[c] = t[c]
  BY <1>1, <1>4
<1> QED
  BY <1>5, <1>7, <1>8, Zenon

-----------------------------------------------------------------------------
(* Every drawing brings the back buffer nearer to the text *)

(* Between two operations the back buffer shows the text.                  *)
LEMMA IdleShows ==
  ASSUME ConTypeOK, DrawInv, todo = <<>>
  PROVE  \A c \in Cells : back[c].glyph = text[c] /\ (back[c].under => c = mark)
BY DEF DrawInv, Puts

(* What print_char leaves to draw, in front of the redrawn text.           *)
LEMMA RedrawStep ==
  ASSUME ConTypeOK, (text \in [Cells -> Glyphs])', UNCHANGED <<back, mark>>,
         NEW pre \in Seq(Drawings), \A i \in DOMAIN pre : ~pre[i].under,
         todo' = Append(pre \o RedrawText(text'), FinalPresent)
  PROVE  DrawInv' /\ (todo \in Seq(Drawings))'
<1> DEFINE n == Len(pre)
           r == RedrawText(text')
           m == Cols * Rows
<1>1. /\ r \in Seq(Drawings) /\ Len(r) = m /\ m \in Nat /\ n \in Nat
      /\ \A i \in 1 .. m : ~r[i].under /\ \A c \in r[i].region : r[i].glyphs[c] = text'[c]
      /\ \A c \in Cells : \E i \in 1 .. m : c \in r[i].region
  BY RedrawTyped, GridAssumption
<1>0. m \in Nat /\ n \in Nat
  BY <1>1, Zenon
<1>2. FinalPresent \in Drawings /\ FinalPresent.region = {} /\ FinalPresent.under = FALSE
  BY EmptyTyped, Zenon
<1> HIDE DEF r, m
<1>3. todo' = Append(pre \o r, FinalPresent)
  BY Zenon DEF r
<1>4. /\ todo' \in Seq(Drawings) /\ Len(todo') = n + m + 1 /\ DOMAIN todo' = 1 .. n + m + 1
      /\ \A i \in 1 .. n : todo'[i] = pre[i]
      /\ \A i \in 1 .. m : todo'[n + i] = r[i]
      /\ todo'[n + m + 1] = FinalPresent
  BY <1>1, <1>2, <1>3
<1> HIDE DEF n
<1>5. \A i \in DOMAIN todo' : ~todo'[i].under
  <2> SUFFICES ASSUME NEW i \in 1 .. n + m + 1 PROVE ~todo'[i].under
    BY <1>4, Zenon
  <2>1. CASE i \in 1 .. n
    BY <1>4, <2>1 DEF n
  <2>2. CASE i \in n + 1 .. n + m
    <3>1. PICK k \in 1 .. m : i = n + k
      <4>1. i - n \in 1 .. m /\ i = n + (i - n)
        BY <1>0, <2>2
      <4> QED
        BY <4>1, Zenon
    <3> QED
      BY <1>1, <1>4, <3>1, Zenon
  <2>3. CASE i = n + m + 1
    BY <1>2, <1>4, <2>3, Zenon
  <2> QED
    <3>1. i \in 1 .. n \/ i \in n + 1 .. n + m \/ i = n + m + 1
      BY <1>0
    <3> QED
      BY <2>1, <2>2, <2>3, <3>1, Zenon
<1>6. ASSUME NEW c \in Cells PROVE \E j \in n + 1 .. n + m : Puts(j, c)' /\ todo'[j].glyphs[c] = text'[c]
  <2>1. PICK i \in 1 .. m : c \in r[i].region
    BY <1>1, Zenon
  <2>2. n + i \in n + 1 .. n + m /\ n + i \in DOMAIN todo' /\ todo'[n + i] = r[i]
    BY <1>1, <1>4
  <2> QED
    BY <1>1, <2>1, <2>2, Zenon DEF Puts
<1>7. ASSUME NEW c \in Cells, NEW i \in DOMAIN todo', Puts(i, c)', todo'[i].glyphs[c] # text'[c]
      PROVE  i \in 1 .. n
  <2>1. CASE i \in n + 1 .. n + m
    <3>1. PICK k \in 1 .. m : i = n + k
      <4>1. i - n \in 1 .. m /\ i = n + (i - n)
        BY <1>0, <2>1
      <4> QED
        BY <4>1, Zenon
    <3> QED
      BY <1>1, <1>4, <1>7, <3>1 DEF Puts
  <2>2. CASE i = n + m + 1
    BY <1>2, <1>4, <1>7, <2>2, Zenon DEF Puts
  <2> QED
    <3>1. i \in 1 .. n + m + 1
      BY <1>4, Zenon
    <3>2. i \in 1 .. n \/ i \in n + 1 .. n + m \/ i = n + m + 1
      BY <1>0, <3>1
    <3> QED
      BY <2>1, <2>2, <3>2, Zenon
<1>8. ASSUME NEW c \in Cells
      PROVE  /\ \A i \in DOMAIN todo' : Puts(i, c)' /\ todo'[i].glyphs[c] # text'[c] =>
                  \E j \in DOMAIN todo' : j > i /\ Puts(j, c)' /\ todo'[j].glyphs[c] = text'[c]
             /\ \E i \in DOMAIN todo' : Puts(i, c)'
  <2>1. PICK j \in n + 1 .. n + m : Puts(j, c)' /\ todo'[j].glyphs[c] = text'[c]
    BY <1>6, Zenon
  <2>2. j \in DOMAIN todo' /\ \A i \in 1 .. n : j > i
    BY <1>1, <1>4
  <2> QED
    BY <1>7, <2>1, <2>2, Zenon
<1>9. DrawInv'
  BY <1>5, <1>8, Zenon DEF DrawInv
<1> QED
  BY <1>4, <1>9, Zenon

(* A single cell, or nothing, that print_char leaves to draw.              *)
LEMMA CellStep ==
  ASSUME ConTypeOK, DrawInv, todo = <<>>, UNCHANGED <<back, mark>>,
         NEW d \in Cells, NEW g \in Glyphs, text' = [text EXCEPT ![d] = g],
         todo' = Append(<<RenderCell(d, g, "noteQuiet")>>, FinalPresent)
  PROVE  DrawInv' /\ (todo \in Seq(Drawings))'
<1>1. /\ RenderCell(d, g, "noteQuiet") \in Drawings /\ RenderCell(d, g, "noteQuiet").region = {d}
      /\ RenderCell(d, g, "noteQuiet").glyphs[d] = g /\ RenderCell(d, g, "noteQuiet").under = FALSE
  BY RenderCellTyped
<1>2. FinalPresent \in Drawings /\ FinalPresent.region = {} /\ FinalPresent.under = FALSE
  BY EmptyTyped, Zenon
<1>3. \A c \in Cells : back[c].glyph = text[c] /\ (back[c].under => c = mark)
  BY IdleShows, Zenon
<1>4. /\ todo' \in Seq(Drawings) /\ DOMAIN todo' = {1, 2}
      /\ todo'[1] = RenderCell(d, g, "noteQuiet") /\ todo'[2] = FinalPresent
  BY <1>1, <1>2
<1>5. \A c \in Cells : text'[c] = IF c = d THEN g ELSE text[c]
  BY Zenon DEF ConTypeOK
<1>6. \A i \in DOMAIN todo', c \in Cells : Puts(i, c)' <=> i = 1 /\ c = d
  BY <1>1, <1>2, <1>4, Zenon DEF Puts
<1>7. \A i \in DOMAIN todo' : ~todo'[i].under
  BY <1>1, <1>2, <1>4, Zenon
<1>8. \A c \in Cells, i \in DOMAIN todo' : Puts(i, c)' => todo'[i].glyphs[c] = text'[c]
  BY <1>1, <1>4, <1>5, <1>6
<1>9. DrawInv'
  BY <1>3, <1>4, <1>5, <1>6, <1>7, <1>8 DEF DrawInv
<1> QED
  BY <1>4, <1>9, Zenon

(* Nothing to draw but a present.                                          *)
LEMMA NothingStep ==
  ASSUME ConTypeOK, DrawInv, todo = <<>>, UNCHANGED <<back, mark, text>>,
         todo' = Append(<<>>, FinalPresent)
  PROVE  DrawInv' /\ (todo \in Seq(Drawings))'
<1>1. FinalPresent \in Drawings /\ FinalPresent.region = {} /\ FinalPresent.under = FALSE
  BY EmptyTyped, Zenon
<1>2. \A c \in Cells : back[c].glyph = text[c] /\ (back[c].under => c = mark)
  BY IdleShows, Zenon
<1>3. todo' \in Seq(Drawings) /\ DOMAIN todo' = {1} /\ todo'[1] = FinalPresent
  BY <1>1
<1>4. \A i \in DOMAIN todo', c \in Cells : ~Puts(i, c)' /\ c \notin todo'[i].region
  BY <1>1, <1>3, Zenon DEF Puts
<1>5. DrawInv'
  BY <1>2, <1>4, Zenon DEF DrawInv
<1> QED
  BY <1>3, <1>5, Zenon

(* print_char.                                                             *)
LEMMA PrintDraws ==
  ASSUME ConInv, NEW c \in Letters \cup {"nl", "cr", "bs"}, PrintChar(c)
  PROVE  ConInv'
<1> USE DEF ConInv
<1>1. todo = <<>> /\ UNCHANGED <<back, mark>>
  BY Zenon DEF PrintChar, Idle
<1>2. TextInv' /\ (text \in [Cells -> Glyphs])' /\ (cursor \in Cells)' /\ (paper \in Paper)'
  BY PrintStep, Zenon
<1>3. PICK drawings : Drawn(text, text', drawings) /\ todo' = Append(drawings, FinalPresent)
  BY PrintStep, Zenon
<1>4. DrawInv' /\ (todo \in Seq(Drawings))'
  <2>1. CASE text' = text /\ drawings = <<>>
    BY <1>1, <1>3, <2>1, NothingStep, Zenon
  <2>2. ASSUME NEW d \in Cells, NEW g \in Glyphs, text' = [text EXCEPT ![d] = g],
               drawings = <<RenderCell(d, g, "noteQuiet")>>
        PROVE  DrawInv' /\ (todo \in Seq(Drawings))'
    BY <1>1, <1>3, <2>2, CellStep, Zenon
  <2>3. CASE drawings = <<>> \o RedrawText(text')
    <3>1. <<>> \in Seq(Drawings) /\ \A i \in DOMAIN <<>> : ~<<>>[i].under
      OBVIOUS
    <3> QED
      BY <1>1, <1>2, <1>3, <2>3, <3>1, RedrawStep, Zenon
  <2>4. ASSUME NEW d \in Cells, NEW g \in Glyphs,
               drawings = <<RenderCell(d, g, "noteQuiet")>> \o RedrawText(text')
        PROVE  DrawInv' /\ (todo \in Seq(Drawings))'
    <3> DEFINE pre == <<RenderCell(d, g, "noteQuiet")>>
    <3>1. RenderCell(d, g, "noteQuiet") \in Drawings /\ RenderCell(d, g, "noteQuiet").under = FALSE
      BY RenderCellTyped
    <3>2. pre \in Seq(Drawings) /\ \A i \in DOMAIN pre : ~pre[i].under
      BY <3>1
    <3>3. todo' = Append(pre \o RedrawText(text'), FinalPresent)
      BY <1>3, <2>4, Zenon
    <3> HIDE DEF pre
    <3> QED
      BY <1>1, <1>2, <3>2, <3>3, RedrawStep, Zenon
  <2> QED
    BY <1>3, <2>1, <2>2, <2>3, <2>4, Zenon DEF Drawn
<1> QED
  BY <1>1, <1>2, <1>4, Zenon DEF ConTypeOK

(* cls.                                                                    *)
LEMMA ClearDraws ==
  ASSUME ConInv, ClearScreen
  PROVE  ConInv'
<1> USE DEF ConInv
<1> DEFINE d == Drawing(Screen, Blank, FALSE, "noteCls", TRUE)
<1>1. todo' = <<d>> /\ text' = Blank /\ UNCHANGED <<back, mark>>
  BY Zenon DEF ClearScreen
<1>2. TextInv' /\ (text \in [Cells -> Glyphs])' /\ (cursor \in Cells)' /\ (paper \in Paper)'
  BY ClearText, Zenon
<1>3. d.region = Screen /\ d.glyphs = Blank /\ d.under = FALSE
  BY Zenon DEF Drawing
<1>4. d \in Drawings
  <2>1. Blank \in [Cells -> Glyphs]
    BY <1>1, <1>2, Zenon
  <2>2. Screen \in SUBSET Screen /\ Cells \in SUBSET Cells /\ Screen \cap Cells \subseteq Cells
    BY Zenon
  <2> QED
    BY <2>1, <2>2, DrawingTyped, Zenon
<1> HIDE DEF d
<1>5. (todo \in Seq(Drawings))' /\ DOMAIN todo' = {1} /\ todo'[1] = d
  BY <1>1, <1>4
<1>6. \A i \in DOMAIN todo', c \in Cells : Puts(i, c)' /\ todo'[i].glyphs[c] = text'[c]
  BY <1>1, <1>3, <1>5, CellsAssumption, Zenon DEF Puts
<1>7. \A i \in DOMAIN todo' : ~todo'[i].under
  BY <1>3, <1>5, Zenon
<1>8. DrawInv'
  BY <1>5, <1>6, <1>7, Zenon DEF DrawInv
<1> QED
  BY <1>1, <1>2, <1>5, <1>8, Zenon DEF ConTypeOK

(* The drawing of graphics_cursor_hide puts the letter back.               *)
LEMMA HideDraws ==
  ASSUME ConTypeOK, NEW then \in {"note", "noteQuiet"}
  PROVE  /\ mark = None => Hide(then) = <<>>
         /\ mark # None => /\ mark \in Cells /\ Hide(then) = <<RenderCell(mark, text[mark], then)>>
                           /\ Hide(then)[1] \in Drawings /\ Hide(then)[1].region = {mark}
                           /\ Hide(then)[1].glyphs[mark] = text[mark] /\ Hide(then)[1].under = FALSE
<1>1. CASE mark = None
  BY <1>1, Zenon DEF Hide
<1>2. CASE mark # None
  <2>1. mark \in Cells /\ text[mark] \in Glyphs
    BY <1>2, Zenon DEF ConTypeOK
  <2>2. Hide(then) = <<RenderCell(mark, text[mark], then)>>
    BY <1>2, Zenon DEF Hide
  <2>3. /\ RenderCell(mark, text[mark], then) \in Drawings
        /\ RenderCell(mark, text[mark], then).region = {mark}
        /\ RenderCell(mark, text[mark], then).glyphs[mark] = text[mark]
        /\ RenderCell(mark, text[mark], then).under = FALSE
    <3>2. PICK g \in Glyphs : g = text[mark]
      BY <2>1, Zenon
    <3>3. /\ RenderCell(mark, g, then) \in Drawings /\ RenderCell(mark, g, then).region = {mark}
          /\ RenderCell(mark, g, then).glyphs[mark] = g /\ RenderCell(mark, g, then).under = FALSE
      <4>1. CASE then = "note"
        BY <2>1, <4>1, RenderCellTyped
      <4>2. CASE then = "noteQuiet"
        BY <2>1, <4>2, RenderCellTyped
      <4> QED
        BY <4>1, <4>2, Zenon
    <3> QED
      BY <3>2, <3>3, Zenon
  <2> QED
    BY <1>2, <2>1, <2>2, <2>3
<1> QED
  BY <1>1, <1>2, Zenon

(* An operation that hides the cursor.                                     *)
LEMMA HideStep ==
  ASSUME ConInv, todo = <<>>, NEW then \in {"note", "noteQuiet"}, todo' = Hide(then), mark' = None,
         UNCHANGED <<text, cursor, back, paper>>
  PROVE  ConInv'
<1> USE DEF ConInv
<1>1. \A c \in Cells : back[c].glyph = text[c] /\ (back[c].under => c = mark)
  BY IdleShows, Zenon
<1>2. TextInv'
  BY Zenon DEF TextInv, Bottom, Top
<1>3. CASE mark = None
  <2>1. todo' = <<>>
    BY <1>3, HideDraws, Zenon
  <2>2. DrawInv'
    BY <1>1, <1>3, <2>1, NoneAssumption DEF DrawInv, Puts
  <2>3. ConTypeOK'
    BY <2>1, Zenon DEF ConTypeOK
  <2> QED
    BY <1>2, <2>2, <2>3, Zenon
<1>4. CASE mark # None
  <2>1. /\ mark \in Cells /\ todo' = <<RenderCell(mark, text[mark], then)>>
        /\ todo'[1] \in Drawings /\ todo'[1].region = {mark}
        /\ todo'[1].glyphs[mark] = text[mark] /\ todo'[1].under = FALSE
    BY <1>4, HideDraws, Zenon
  <2>2. DOMAIN todo' = {1} /\ todo' \in Seq(Drawings)
    BY <2>1
  <2>3. \A i \in DOMAIN todo', c \in Cells : Puts(i, c)' <=> c = mark
    BY <2>1, <2>2, Zenon DEF Puts
  <2>4. \A i \in DOMAIN todo' : todo'[i].glyphs[mark] = text[mark] /\ ~todo'[i].under
    BY <2>1, <2>2, Zenon
  <2>5. DrawInv'
    BY <1>1, <2>2, <2>3, <2>4 DEF DrawInv
  <2>6. ConTypeOK'
    BY <2>2, Zenon DEF ConTypeOK
  <2> QED
    BY <1>2, <2>5, <2>6, Zenon
<1> QED
  BY <1>3, <1>4, Zenon

(* An operation that shows it.                                             *)
LEMMA ShowStep ==
  ASSUME ConInv, todo = <<>>, todo' = Show, mark' = cursor, UNCHANGED <<text, cursor, back, paper>>
  PROVE  ConInv'
<1> USE DEF ConInv
<1> DEFINE d == Drawing({cursor}, NoGlyphs, TRUE, "note", TRUE)
<1>0. cursor \in Cells
  BY Zenon DEF ConTypeOK
<1>1. \A c \in Cells : back[c].glyph = text[c] /\ (back[c].under => c = mark)
  BY IdleShows, Zenon
<1>2. TextInv'
  BY Zenon DEF TextInv, Bottom, Top
<1>3. d \in Drawings /\ d.region = {cursor} /\ d.under = TRUE
  BY <1>0, EmptyTyped, Zenon
<1>4. mark # cursor => todo' = Append(Hide("noteQuiet"), d)
  BY Zenon DEF Show
<1> HIDE DEF d
<1>5. CASE mark = cursor
  <2>1. todo' = <<>>
    BY <1>5, Zenon DEF Show
  <2>2. DrawInv'
    BY <1>1, <1>5, <2>1 DEF DrawInv, Puts
  <2>3. ConTypeOK'
    BY <2>1, Zenon DEF ConTypeOK
  <2> QED
    BY <1>2, <2>2, <2>3, Zenon
<1>6. CASE mark # cursor /\ mark = None
  <2>1. todo' = Append(<<>>, d)
    BY <1>4, <1>6, HideDraws, Zenon
  <2>2. DOMAIN todo' = {1} /\ todo' \in Seq(Drawings) /\ todo'[1] = d
    BY <1>3, <2>1
  <2>3. \A i \in DOMAIN todo', c \in Cells : ~Puts(i, c)' /\ (c \in todo'[i].region => c = cursor)
    BY <1>3, <2>2, Zenon DEF Puts
  <2>4. \A c \in Cells : ~back[c].under
    BY <1>1, <1>6, NoneAssumption, Zenon
  <2>5. DrawInv'
    BY <1>1, <2>3, <2>4, Zenon DEF DrawInv
  <2>6. ConTypeOK'
    BY <1>0, <2>2, Zenon DEF ConTypeOK
  <2> QED
    BY <1>2, <2>5, <2>6, Zenon
<1>7. CASE mark # cursor /\ mark # None
  <2> DEFINE h == RenderCell(mark, text[mark], "noteQuiet")
  <2>1. /\ mark \in Cells /\ Hide("noteQuiet") = <<h>>
        /\ h \in Drawings /\ h.region = {mark} /\ h.glyphs[mark] = text[mark] /\ h.under = FALSE
    <3>1. /\ mark \in Cells /\ Hide("noteQuiet") = <<h>>
          /\ Hide("noteQuiet")[1] \in Drawings /\ Hide("noteQuiet")[1].region = {mark}
          /\ Hide("noteQuiet")[1].glyphs[mark] = text[mark] /\ Hide("noteQuiet")[1].under = FALSE
      BY <1>7, HideDraws, Zenon
    <3> HIDE DEF h
    <3>2. Hide("noteQuiet")[1] = h
      BY <3>1
    <3> QED
      BY <3>1, <3>2, Zenon
  <2> HIDE DEF h
  <2>2. todo' = Append(<<h>>, d)
    BY <1>4, <1>7, <2>1, Zenon
  <2>3. DOMAIN todo' = {1, 2} /\ todo' \in Seq(Drawings) /\ todo'[1] = h /\ todo'[2] = d
    BY <1>3, <2>1, <2>2
  <2>4. \A i \in DOMAIN todo', c \in Cells : Puts(i, c)' <=> i = 1 /\ c = mark
    BY <1>3, <2>1, <2>3, Zenon DEF Puts
  <2>5. \A i \in DOMAIN todo', c \in Cells : c \in todo'[i].region /\ todo'[i].under => c = cursor
    BY <1>3, <2>1, <2>3, Zenon
  <2>6. todo'[1].glyphs[mark] = text[mark]
    BY <2>1, <2>3, Zenon
  <2>7. DrawInv'
    BY <1>1, <2>3, <2>4, <2>5, <2>6 DEF DrawInv
  <2>8. ConTypeOK'
    BY <1>0, <2>3, Zenon DEF ConTypeOK
  <2> QED
    BY <1>2, <2>7, <2>8, Zenon
<1> QED
  BY <1>5, <1>6, <1>7, Zenon

(* The next drawing of the operation.                                      *)
LEMMA DrawStep ==
  ASSUME ConInv, DrawNext
  PROVE  ConInv'
<1> USE DEF ConInv
<1> DEFINE d == Head(todo)
<1>1. /\ todo # <<>> /\ todo' = Tail(todo) /\ UNCHANGED <<text, cursor, mark, paper>>
      /\ back' = [c \in Cells |->
                    IF c \notin d.region THEN back[c]
                    ELSE IF d.under THEN [back[c] EXCEPT !.under = TRUE]
                    ELSE [glyph |-> d.glyphs[c], under |-> FALSE]]
  BY Zenon DEF DrawNext, Draw
<1>2. /\ todo \in Seq(Drawings) /\ todo' \in Seq(Drawings) /\ 1 \in DOMAIN todo /\ d = todo[1] /\ d \in Drawings
      /\ \A i \in DOMAIN todo' : i + 1 \in DOMAIN todo /\ todo'[i] = todo[i + 1] /\ i + 1 > 1
      /\ \A i \in DOMAIN todo : i # 1 => i - 1 \in DOMAIN todo' /\ todo'[i - 1] = todo[i]
  BY <1>1 DEF ConTypeOK
<1>3. /\ d.under \in BOOLEAN
      /\ \A c \in Cells : c \in d.region /\ ~d.under => d.glyphs[c] \in Glyphs
  <2>1. /\ d.under \in BOOLEAN /\ d.glyphs \in UNION {[D -> Glyphs] : D \in SUBSET Cells}
        /\ d.under \/ d.region \cap Cells \subseteq DOMAIN d.glyphs
    BY <1>2, Zenon DEF Drawings
  <2> QED
    BY <2>1, Zenon
<1> HIDE DEF d
<1>4. \A i \in DOMAIN todo', c \in Cells : Puts(i, c)' <=> Puts(i + 1, c)
  BY <1>2, Zenon DEF Puts
<1>5. \A i \in DOMAIN todo, c \in Cells : i # 1 => (Puts(i - 1, c)' <=> Puts(i, c))
  BY <1>2, Zenon DEF Puts
<1>6. back \in [Cells -> [glyph : Glyphs, under : BOOLEAN]]
  BY Zenon DEF ConTypeOK
<1>7. \A c \in Cells :
        /\ c \notin d.region => back'[c] = back[c]
        /\ c \in d.region /\ d.under => back'[c].glyph = back[c].glyph /\ back'[c].under
        /\ c \in d.region /\ ~d.under => back'[c].glyph = d.glyphs[c] /\ ~back'[c].under
  BY <1>1, <1>6, Zenon
<1>8. (back \in [Cells -> [glyph : Glyphs, under : BOOLEAN]])'
  <2> SUFFICES ASSUME NEW c \in Cells PROVE back'[c] \in [glyph : Glyphs, under : BOOLEAN]
    BY <1>1, Zenon
  <2>1. CASE c \notin d.region
    BY <1>6, <1>7, <2>1, Zenon
  <2>2. CASE c \in d.region /\ d.under
    <3>1. back'[c] = [back[c] EXCEPT !.under = TRUE] /\ back[c] \in [glyph : Glyphs, under : BOOLEAN]
      BY <1>1, <1>6, <2>2, Zenon
    <3> QED
      BY <3>1, Zenon
  <2>3. CASE c \in d.region /\ ~d.under
    <3>1. back'[c] = [glyph |-> d.glyphs[c], under |-> FALSE]
      BY <1>1, <2>3, Zenon
    <3> QED
      BY <1>3, <2>3, <3>1
  <2> QED
    BY <1>3, <2>1, <2>2, <2>3, Zenon
<1>9. ConTypeOK'
  BY <1>1, <1>2, <1>8, Zenon DEF ConTypeOK
<1>10. TextInv'
  BY <1>1, Zenon DEF TextInv, Bottom, Top
<1>11. ASSUME NEW c \in Cells, NEW i \in DOMAIN todo', Puts(i, c)', todo'[i].glyphs[c] # text[c]
       PROVE  \E j \in DOMAIN todo' : j > i /\ Puts(j, c)' /\ todo'[j].glyphs[c] = text[c]
  <2>1. Puts(i + 1, c) /\ i + 1 \in DOMAIN todo /\ todo[i + 1].glyphs[c] # text[c]
    BY <1>2, <1>4, <1>11, Zenon
  <2>2. PICK j \in DOMAIN todo : j > i + 1 /\ Puts(j, c) /\ todo[j].glyphs[c] = text[c]
    BY <2>1, Zenon DEF DrawInv
  <2>3. i \in Nat /\ i > 0 /\ j \in Nat
    BY <1>2
  <2>4. j # 1 /\ j - 1 > i
    BY <2>2, <2>3
  <2> QED
    BY <1>2, <1>5, <2>2, <2>4
<1>12. ASSUME NEW c \in Cells, \A i \in DOMAIN todo' : ~Puts(i, c)'
       PROVE  back'[c].glyph = text[c]
  <2>1. \A i \in DOMAIN todo : i # 1 => ~Puts(i, c)
    BY <1>2, <1>5, <1>12, Zenon
  <2>2. CASE Puts(1, c)
    <3>1. todo[1].glyphs[c] = text[c]
      <4> SUFFICES ASSUME todo[1].glyphs[c] # text[c] PROVE FALSE
        BY Zenon
      <4>1. PICK j \in DOMAIN todo : j > 1 /\ Puts(j, c)
        BY <1>2, <2>2, Zenon DEF DrawInv
      <4> QED
        BY <2>1, <4>1
    <3> QED
      BY <1>2, <1>7, <2>2, <3>1, Zenon DEF Puts
  <2>3. CASE ~Puts(1, c)
    <3>1. back[c].glyph = text[c]
      BY <2>1, <2>3, Zenon DEF DrawInv
    <3> QED
      BY <1>2, <1>7, <2>3, <3>1, Zenon DEF Puts
  <2> QED
    BY <2>2, <2>3, Zenon
<1>13. ASSUME NEW c \in Cells, back'[c].under
       PROVE  c = mark \/ \E i \in DOMAIN todo' : Puts(i, c)'
  <2>1. CASE c \in d.region /\ d.under
    BY <1>2, <2>1, Zenon DEF DrawInv
  <2>2. CASE c \notin d.region
    <3>1. back[c].under /\ ~Puts(1, c)
      BY <1>2, <1>7, <1>13, <2>2, Zenon DEF Puts
    <3>2. CASE c # mark
      <4>1. PICK i \in DOMAIN todo : Puts(i, c)
        BY <3>1, <3>2, Zenon DEF DrawInv
      <4>2. i # 1 /\ i - 1 \in DOMAIN todo' /\ Puts(i - 1, c)'
        BY <1>2, <1>5, <3>1, <4>1, Zenon
      <4> QED
        BY <4>2, Zenon
    <3> QED
      BY <3>2, Zenon
  <2> QED
    BY <1>7, <1>13, <2>1, <2>2, Zenon
<1>14. ASSUME NEW c \in Cells, NEW i \in DOMAIN todo', c \in todo'[i].region, todo'[i].under
       PROVE  c = mark
  BY <1>2, <1>14 DEF DrawInv
<1>15. DrawInv'
  BY <1>1, <1>11, <1>12, <1>13, <1>14 DEF DrawInv
<1> QED
  BY <1>9, <1>10, <1>15, Zenon

-----------------------------------------------------------------------------
(* The theorems about the console *)

(* The empty screen.                                                       *)
LEMMA ConInvInit == ConInit => ConInv
<1> SUFFICES ASSUME ConInit PROVE ConInv
  BY Zenon
<1>1. /\ text = Blank /\ cursor = <<0, 0>> /\ paper = BlankPaper /\ mark = None /\ todo = <<>>
  BY Zenon DEF ConInit
<1>0. back = [c \in Cells |-> [glyph |-> " ", under |-> FALSE]]
  BY Zenon DEF ConInit
<1>2. BlankPaper.x = 0 /\ BlankPaper.y = 0 /\ BlankPaper.page = [c \in Sheet |-> " "]
  BY Zenon DEF BlankPaper, Sheet
<1>3. paper.x = 0 /\ paper.y = 0
  BY <1>1, <1>2, Zenon
<1>4. Top = 0
  <2>1. 0 < Rows
    BY GridAssumption
  <2> QED
    BY <1>3, <2>1, Zenon DEF Top
<1>5. \A c \in Cells : <<c[1], c[2] + 0>> \in Sheet
  BY GridAssumption DEF Cells, Sheet
<1>6. text = Bottom
  BY <1>1, <1>2, <1>4, <1>5, Zenon DEF Blank, Bottom
<1>7. \A i \in 0 .. Cols - 1, j \in 0 .. MaxLines + Rows : paper.page[<<i, j>>] = " "
  BY <1>1, <1>2, Zenon DEF Sheet
<1>8. cursor = <<paper.x, paper.y - Top>>
  <2>1. cursor = <<0, 0>> /\ paper.y - Top = 0
    BY <1>1, <1>3, <1>4
  <2> QED
    BY <1>3, <2>1, Zenon
<1>9. TextInv
  BY <1>6, <1>7, <1>8, Zenon DEF TextInv
<1>10. paper \in Paper
  <2>1. 0 \in 0 .. Cols - 1 /\ 0 \in 0 .. MaxLines
    BY GridAssumption
  <2>2. [c \in Sheet |-> " "] \in [Sheet -> Glyphs]
    BY Zenon DEF Glyphs
  <2>3. BlankPaper = [x |-> 0, y |-> 0, page |-> [c \in Sheet |-> " "]]
    BY Zenon DEF BlankPaper, Sheet
  <2> QED
    BY <1>1, <2>1, <2>2, <2>3, Zenon DEF Paper
<1>11. text \in [Cells -> Glyphs] /\ cursor \in Cells
  <2>1. <<0, 0>> \in Cells
    BY GridAssumption DEF Cells
  <2>2. Blank \in [Cells -> Glyphs]
    BY Zenon DEF Blank, Glyphs
  <2> QED
    BY <1>1, <2>1, <2>2, Zenon
<1>12. back \in [Cells -> [glyph : Glyphs, under : BOOLEAN]]
  BY <1>0, Zenon DEF Glyphs
<1>13. ConTypeOK
  <2>1. mark \in Cells \cup {None} /\ todo \in Seq(Drawings)
    BY <1>1
  <2> QED
    BY <1>10, <1>11, <1>12, <2>1, Zenon DEF ConTypeOK
<1>14. DrawInv
  <2>1. todo = <<>>
    BY <1>1, Zenon
  <2>2. \A c \in Cells : back[c].glyph = text[c] /\ ~back[c].under
    BY <1>0, <1>1, Zenon DEF Blank
  <2> QED
    BY <2>1, <2>2 DEF DrawInv, Puts
<1> QED
  BY <1>9, <1>13, <1>14, Zenon DEF ConInv

(* Every step of the console keeps the back buffer on its way to the text. *)
LEMMA ConStep == ConInv /\ [ConNext]_conVars => ConInv'
<1> SUFFICES ASSUME ConInv, [ConNext]_conVars PROVE ConInv'
  BY Zenon
<1>1. CASE UNCHANGED console
  <2>1. UNCHANGED <<text, cursor, back, mark, todo, paper>>
    BY <1>1, Zenon DEF console
  <2>2. ConTypeOK' /\ DrawInv'
    BY <2>1 DEF ConInv, ConTypeOK, DrawInv, Puts
  <2>3. TextInv'
    BY <2>1, Zenon DEF ConInv, TextInv, Bottom, Top
  <2> QED
    BY <2>2, <2>3, Zenon DEF ConInv
<1>2. CASE \E c \in Letters \cup {"nl", "cr", "bs"} : PrintChar(c)
  BY <1>2, PrintDraws, Zenon
<1>3. CASE ClearScreen
  BY <1>3, ClearDraws, Zenon
<1>4. CASE ResetBlink
  <2>1. todo = <<>> /\ todo' = Show /\ mark' = cursor /\ UNCHANGED <<text, cursor, back, paper>>
    BY <1>4, Zenon DEF ResetBlink, Idle
  <2> QED
    BY <2>1, ShowStep, Zenon
<1>5. CASE BlinkStep
  <2>1. todo = <<>> /\ UNCHANGED <<text, cursor, back, paper>>
    BY <1>5, Zenon DEF BlinkStep, Idle
  <2>2. CASE todo' = Hide("note") /\ mark' = None
    BY <2>1, <2>2, HideStep, Zenon
  <2>3. CASE todo' = Show /\ mark' = cursor
    BY <2>1, <2>3, ShowStep, Zenon
  <2> QED
    BY <1>5, <2>2, <2>3, Zenon DEF BlinkStep
<1>6. CASE SuspendCursor
  <2>1. todo = <<>> /\ todo' = Hide("noteQuiet") /\ mark' = None /\ UNCHANGED <<text, cursor, back, paper>>
    BY <1>6, Zenon DEF SuspendCursor, Idle
  <2> QED
    BY <2>1, HideStep, Zenon
<1>7. CASE DrawNext
  BY <1>7, DrawStep, Zenon
<1> QED
  BY <1>1, <1>2, <1>3, <1>4, <1>5, <1>6, <1>7
  DEF ConNext, conVars, Note, Presenting, Control, OtherStep

(* The inductive invariant of the console.                                 *)
THEOREM ConsoleInvariant == ConSpec => []ConInv
BY ConInvInit, ConStep, PTL DEF ConSpec

(* Between two operations the back buffer shows the bottom of what was     *)
(* printed, however often print_char wrapped and scrolled and whatever the *)
(* cursor did, for every size of the grid and every number of lines.       *)
THEOREM ConsoleShowsOutput == ConSpec => []ScreenShowsOutput
<1>1. ConInv => ScreenShowsOutput
  BY IdleShows, Zenon DEF ConInv, ScreenShowsOutput, Idle, TextInv
<1> QED
  BY <1>1, ConsoleInvariant, PTL

(* The console draws and presents as the frame protocol allows.            *)
LEMMA ConFrameStep == FrameInv /\ ConInv /\ [ConNext]_conVars => FrameInv'
<1> SUFFICES ASSUME FrameInv, ConInv, [ConNext]_conVars PROVE FrameInv'
  BY Zenon
<1>0. Printer \in Tasks
  BY PrinterAssumption, OwnersAssumption, Zenon
<1>1. CASE UNCHANGED vars
  BY <1>1, FrameStep, Zenon
<1>2. CASE DrawNext
  <2> DEFINE d == Head(todo)
  <2>1. d \in Drawings
    <3>1. todo \in Seq(Drawings) /\ todo # <<>>
      BY <1>2, Zenon DEF DrawNext, ConInv, ConTypeOK
    <3> QED
      BY <3>1
  <2>2. d.then \in {"note", "noteCls", "noteQuiet", "maybe"}
    BY <2>1, Zenon DEF Drawings
  <2>3. CASE d.then = "note" \/ d.then = "noteCls" \/ d.then = "noteQuiet"
    <3>1. DrawFirst(Printer, d.region, d.then)
      BY <1>2, <2>3, Zenon DEF DrawNext, Draw, DrawCell, Cls, DrawQuietly
    <3> HIDE DEF d
    <3>2. d.then \in {"note", "noteCls", "noteQuiet"}
      BY <2>3, Zenon
    <3> QED
      BY <1>0, <3>1, <3>2, DrawFirstStep, Zenon
  <2>4. CASE d.then = "maybe"
    <3>1. AskMaybe(Printer)
      BY <1>2, <2>4, Zenon DEF DrawNext, Draw
    <3> QED
      BY <1>0, <3>1, ControlStep, Zenon
  <2> QED
    BY <2>2, <2>3, <2>4, Zenon
<1>3. CASE Note
  BY <1>0, <1>3, NoteOwedStep, Zenon DEF Note
<1>4. CASE Presenting
  <2>1. CASE ReadDeferred(Printer)
    BY <1>0, <2>1, ControlStep, Zenon
  <2>2. CASE FlushPending(Printer) \/ PresentPending(Printer)
    BY <1>0, <2>2, PresentStep, Zenon DEF FlushPending, PresentPending
  <2> QED
    BY <1>4, <2>1, <2>2, Zenon DEF Presenting
<1>5. CASE Control
  BY <1>0, <1>5, ControlStep, Zenon DEF Control
<1>6. CASE OtherStep
  <2>1. PICK t \in Tasks : (\E R \in Regions : DrawNoted(t, R)) \/ ReadDeferred(t) \/ FlushPending(t)
    BY <1>6, Zenon DEF OtherStep
  <2>2. CASE \E R \in Regions : DrawNoted(t, R)
    BY <2>2, DrawNotedStep, Zenon
  <2>3. CASE ReadDeferred(t)
    BY <2>3, ControlStep, Zenon
  <2>4. CASE FlushPending(t)
    BY <2>4, PresentStep, Zenon DEF FlushPending
  <2> QED
    BY <2>1, <2>2, <2>3, <2>4, Zenon
<1>7. CASE (\E c \in Letters \cup {"nl", "cr", "bs"} : PrintChar(c)) \/ ClearScreen \/ ResetBlink
           \/ BlinkStep \/ SuspendCursor
  <2>1. UNCHANGED vars
    BY <1>7, Zenon DEF PrintChar, ClearScreen, ResetBlink, BlinkStep, SuspendCursor
  <2> QED
    BY <1>1, <2>1, Zenon
<1> QED
  BY <1>1, <1>2, <1>3, <1>4, <1>5, <1>6, <1>7, Zenon DEF ConNext, conVars

(* Nothing the console draws is lost, whatever cells and texts it redraws. *)
THEOREM ConsoleFrame == ConSpec => []FrameInv
<1>1. ConInit => FrameInv
  BY FrameInit, Zenon DEF ConInit
<1> QED
  BY <1>1, ConFrameStep, ConsoleInvariant, PTL DEF ConSpec

(* With the console printing, video_present_pending still forgets no pixel *)
(* that it did not copy.                                                   *)
THEOREM ConsoleLosesNothing == ConSpec => []NoLostDamage
<1>1. FrameInv => NoLostDamage
  BY Zenon DEF FrameInv
<1> QED
  BY <1>1, ConsoleFrame, PTL

(* And once nobody draws and presents are not deferred, the screen shows   *)
(* the back buffer, but for a cursor suspended without a present.          *)
THEOREM ConsoleBecomesCurrent == ConSpec => []QuietScreenIsCurrent
<1>1. FrameInv => QuietScreenIsCurrent
  BY Zenon DEF FrameInv, NoLostDamage, IdleOwesNothing, SomebodyPresents,
         QuietScreenIsCurrent
<1> QED
  BY <1>1, ConsoleFrame, PTL
=============================================================================
