------------------------------- MODULE Console -------------------------------
(***************************************************************************)
(* The text console in graphics mode: print_char with wrapping, scrolling  *)
(* and backspace, cls, and the cursor that is drawn, hidden, blinks and is *)
(* suspended (video_text.c), on the drawing protocol of VideoFrame.        *)
(*                                                                         *)
(* One task prints at a time: the shell, or the application it waits for.  *)
(* An operation changes text_buffer and the cursor variables, which nobody *)
(* else touches, and goes through several sections of the video lock; todo *)
(* is the list of drawings it still has to make.                           *)
(***************************************************************************)
EXTENDS VideoFrame, Integers, Sequences

CONSTANTS Cols, Rows,  \* text_cols, text_rows
          Printer,     \* the task that prints
          Letters,     \* printable characters
          MaxLines,    \* bound: lines begun after a cls
          None

Cells == (0 .. Cols - 1) \X (0 .. Rows - 1)

ASSUME GridAssumption == Cols \in Nat \ {0} /\ Rows \in Nat \ {0} /\ MaxLines \in Nat
ASSUME NoneAssumption == None \notin Cells
ASSUME CellsAssumption == Cells \subseteq Screen
ASSUME PrinterAssumption == Printer \in Owners

VARIABLES text,    \* text_buffer
          cursor,  \* <<cursor_x, cursor_y>>
          back,    \* what the back buffer shows in a cell: a glyph, an underline
          mark,    \* graphics_cursor_x and _y, None unless graphics_cursor_drawn
          blink,   \* graphics_cursor_enabled
          todo,    \* the drawings left of the present operation
          paper    \* history: what was printed since the last cls, on a page
                   \* that does not scroll, and the place of the next character

console == <<text, cursor, back, mark, blink, todo, paper>>
conVars == <<vars, console>>

Blank == [c \in Cells |-> " "]

BlankPaper == [x |-> 0, y |-> 0, page |-> [c \in (0 .. Cols - 1) \X (0 .. MaxLines + Rows) |-> " "]]

ConInit ==
  /\ Init
  /\ text = Blank /\ cursor = <<0, 0>>
  /\ back = [c \in Cells |-> [glyph |-> " ", under |-> FALSE]]
  /\ mark = None /\ blink = FALSE
  /\ todo = <<>> /\ paper = BlankPaper

-----------------------------------------------------------------------------
(* A drawing: the pixels, the glyphs put into cells or an underline below  *)
(* them, the section that notes it, and whether it opens a new group.      *)
Drawing(region, glyphs, under, then, first) ==
  [region |-> region, glyphs |-> glyphs, under |-> under, then |-> then, first |-> first]

NoGlyphs == [c \in {} |-> " "]

(* render_cell and video_note_cell.                                        *)
RenderCell(c, glyph, then) == Drawing({c}, [d \in {c} |-> glyph], FALSE, then, TRUE)

(* The call of video_maybe_present_pending at the end of print_char.       *)
FinalPresent == Drawing({}, NoGlyphs, FALSE, "maybe", TRUE)

(* redraw_text_buffer and video_note_text_area.                            *)
RedrawText(t) ==
  [i \in 1 .. Cols * Rows |->
     LET c == <<(i - 1) % Cols, (i - 1) \div Cols>>
     IN  Drawing({c}, [d \in {c} |-> t[d]], FALSE, "note", i = 1)]

(* scroll_graphics, on a record of the text, the cursor and the drawings.  *)
Scroll(s) ==
  LET up == [c \in Cells |-> IF c[2] = Rows - 1 THEN " " ELSE s.text[<<c[1], c[2] + 1>>]]
  IN  [text |-> up, x |-> s.x, y |-> Rows - 1, todo |-> s.todo \o RedrawText(up)]

NextLine(s) == [s EXCEPT !.x = 0, !.y = @ + 1]

(* The two tests that follow every character: the column, then the row.    *)
Wrap(s) ==
  LET w == IF s.x >= Cols THEN NextLine(s) ELSE s
  IN  IF w.y >= Rows THEN Scroll(w) ELSE w

PutGlyph(s, glyph) ==
  [s EXCEPT !.text[<<s.x, s.y>>] = glyph,
            !.todo = Append(@, RenderCell(<<s.x, s.y>>, glyph, "noteQuiet"))]

Backspace(s) == IF s.x > 0 THEN PutGlyph([s EXCEPT !.x = @ - 1], " ") ELSE s

PutLetter(s, c) == LET p == PutGlyph(Wrap(s), c) IN [p EXCEPT !.x = @ + 1]

(* What print_char does with one character.                                *)
Printed(s, c) ==
  Wrap(CASE c = "nl" -> NextLine(s)
         [] c = "cr" -> [s EXCEPT !.x = 0]
         [] c = "bs" -> Backspace(s)
         [] OTHER    -> PutLetter(s, c))

-----------------------------------------------------------------------------
(* Reference: characters go onto a page that does not scroll.              *)
OnPage(p, c) ==
  IF c = "nl" THEN [p EXCEPT !.x = 0, !.y = @ + 1]
  ELSE IF c = "cr" \/ (c = "bs" /\ p.x = 0) THEN [p EXCEPT !.x = 0]
  ELSE IF c = "bs" THEN [p EXCEPT !.x = @ - 1, !.page[<<p.x - 1, p.y>>] = " "]
  ELSE LET w == [p EXCEPT !.page[<<p.x, p.y>>] = c]
       IN  IF p.x + 1 < Cols THEN [w EXCEPT !.x = @ + 1] ELSE [w EXCEPT !.x = 0, !.y = @ + 1]

-----------------------------------------------------------------------------
Idle == todo = <<>> /\ pc[Printer] = "idle"

PrintChar(c) ==
  /\ Idle /\ paper.y < MaxLines
  /\ LET s == Printed([text |-> text, x |-> cursor[1], y |-> cursor[2], todo |-> <<>>], c)
     IN  /\ text' = s.text /\ cursor' = <<s.x, s.y>>
         /\ todo' = Append(s.todo, FinalPresent)
  /\ paper' = OnPage(paper, c)
  /\ UNCHANGED <<vars, back, mark, blink>>

(* cls.  graphics_cursor_drawn stays as it is.                             *)
ClearScreen ==
  /\ Idle
  /\ text' = Blank /\ cursor' = <<0, 0>> /\ paper' = BlankPaper
  /\ todo' = <<Drawing(Screen, Blank, FALSE, "noteCls", TRUE)>>
  /\ UNCHANGED <<vars, back, mark, blink>>

(* graphics_cursor_hide, in the section that notes the cell as told.       *)
Hide(then) == IF mark = None THEN <<>> ELSE <<RenderCell(mark, text[mark], then)>>

(* Mutant of Show: the cursor is drawn at its new place and stays where it *)
(* was.                                                                    *)
ShowAgain == IF mark = cursor THEN <<>> ELSE <<Drawing({cursor}, NoGlyphs, TRUE, "note", TRUE)>>

(* graphics_cursor_show: the cursor is inside the grid between two calls.  *)
Show ==
  IF mark = cursor THEN <<>>
  ELSE Append(Hide("noteQuiet"), Drawing({cursor}, NoGlyphs, TRUE, "note", TRUE))

(* video_cursor_reset_blink: after every key, and with the prompt.         *)
ResetBlink ==
  /\ Idle
  /\ blink' = TRUE /\ todo' = Show /\ mark' = cursor
  /\ UNCHANGED <<vars, text, cursor, back, paper>>

(* video_cursor_blink_step, when its period is over.                       *)
BlinkStep ==
  /\ Idle /\ blink
  /\ \/ mark # None /\ todo' = Hide("note") /\ mark' = None
     \/ mark = None /\ todo' = Show /\ mark' = cursor
  /\ UNCHANGED <<vars, text, cursor, back, blink, paper>>

(* video_cursor_suspend_graphics, before an application has the screen.    *)
SuspendCursor ==
  /\ Idle
  /\ todo' = Hide("noteQuiet") /\ mark' = None /\ blink' = FALSE
  /\ UNCHANGED <<vars, text, cursor, back, paper>>

-----------------------------------------------------------------------------
(* The next section of the operation.                                      *)
Draw(d) ==
  /\ IF d.first THEN pc[Printer] = "idle" ELSE pc[Printer] = d.then
  /\ CASE d.then = "note"       -> DrawCell(Printer, d.region)
       [] d.then = "noteCls"    -> Cls(Printer, d.region)
       [] d.then = "noteQuiet" -> DrawQuietly(Printer, d.region)
       [] d.then = "maybe"      -> AskMaybe(Printer)
  /\ back' = [c \in Cells |->
                IF c \notin d.region THEN back[c]
                ELSE IF d.under THEN [back[c] EXCEPT !.under = TRUE]
                ELSE [glyph |-> d.glyphs[c], under |-> FALSE]]

DrawNext ==
  /\ todo # <<>>
  /\ Draw(Head(todo))
  /\ todo' = Tail(todo)
  /\ UNCHANGED <<text, cursor, mark, blink, paper>>

(* All that a group draws is noted at once.                                *)
GroupOver == todo # <<>> => Head(todo).first

Note ==
  /\ GroupOver
  /\ NoteDirty(Printer) \/ NoteCls(Printer) \/ NoteQuietly(Printer)
  /\ UNCHANGED console

Presenting ==
  /\ ReadDeferred(Printer) \/ FlushPending(Printer) \/ PresentPending(Printer)
  /\ UNCHANGED console

(* Between two operations the printing task presents, or defers.           *)
Control ==
  /\ Idle
  /\ AskPresent(Printer) \/ \E on \in BOOLEAN : SetDeferred(Printer, on)
  /\ UNCHANGED console

(* Other tasks draw beside the text.                                       *)
OtherStep ==
  /\ \E t \in Tasks \ Owners :
       (\E R \in Regions : DrawNoted(t, R)) \/ ReadDeferred(t) \/ FlushPending(t)
  /\ UNCHANGED console

ConNext ==
  \/ \E c \in Letters \cup {"nl", "cr", "bs"} : PrintChar(c)
  \/ ClearScreen \/ ResetBlink \/ BlinkStep \/ SuspendCursor
  \/ DrawNext \/ Note \/ Presenting \/ Control \/ OtherStep

ConSpec == ConInit /\ [][ConNext]_conVars

-----------------------------------------------------------------------------
(* The screen is as much of the page as fits above and including the line  *)
(* of the cursor.                                                          *)
Top == IF paper.y < Rows THEN 0 ELSE paper.y - Rows + 1

Bottom == [c \in Cells |-> paper.page[<<c[1], c[2] + Top>>]]

(* Between two operations the back buffer shows the bottom of what was     *)
(* printed since the last cls, in every cell, and the cursor's underline   *)
(* nowhere but at the place the next graphics_cursor_hide repairs:         *)
(* wrapping and scrolling of print_char, the redraw of a scrolled text,    *)
(* and the cell by cell repairs under a cursor that was left behind,       *)
(* printed over or cleared, agree.                                         *)
ScreenShowsOutput ==
  Idle => \A c \in Cells : /\ back[c].glyph = Bottom[c]
                           /\ back[c].under => c = mark
=============================================================================
