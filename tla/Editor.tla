------------------------------- MODULE Editor -------------------------------
(***************************************************************************)
(* The text editor, external_apps/apps/edit/edit.c: the grid of characters, *)
(* the menu commands, the modal dialogs and the incremental repainting.     *)
(*                                                                          *)
(* A key is one action.  The dialog for files and the question about        *)
(* unsaved changes wait for keys of their own, and the current directory    *)
(* changes while they do, so they are states (dlg); the dialogs that only   *)
(* read a string are part of the command that opens them.  File contents    *)
(* are sequences of characters.                                             *)
(***************************************************************************)
EXTENDS Naturals, Sequences, FiniteSets, FiniteSetsExt

CONSTANTS Rows, Cols,    \* EDIT_ROWS, EDIT_COLS
          Letters,       \* printable characters, without the blank
          Bytes,         \* what files are made of
          Capitals,      \* capital -> small letter
          Queries,       \* what is typed into the search dialogs
          Tree,          \* directory -> directories in it
          RootDir,
          Names,         \* file names
          Untitled,      \* DEFAULT_NEW_FILE
          InitDisk,      \* <<directory, name>> -> content or None
          MaxOps,        \* bound: keys that edit the text, commands
          None

ASSUME GridAssumption == Rows \in Nat \ {0} /\ Cols \in Nat \ {0}
ASSUME NamesAssumption == Untitled \in Names /\ None \notin Names

Blank == " "
NL == "nl"
Chars == Letters \cup {Blank}

(* A file is a sequence of bytes. *)
Content == Seq(Bytes)

ASSUME CharsAssumption == Blank \notin Letters /\ NL \notin Letters /\ Chars \cup {NL} \subseteq Bytes
ASSUME QueriesAssumption == Queries \subseteq Seq(Chars)
ASSUME TreeAssumption == RootDir \in DOMAIN Tree /\ \A d \in DOMAIN Tree : Tree[d] \subseteq DOMAIN Tree
ASSUME DiskAssumption == InitDisk \in [(DOMAIN Tree) \X Names -> {None} \cup Content] /\ None \notin Content

Cells == (1 .. Rows) \X (1 .. Cols)
BlankText == [p \in Cells |-> Blank]
Items == {"new", "open", "save", "saveas", "exit", "copy", "paste", "select", "undo",
          "redo", "find", "next", "prev", "goto", "replace", "help"}

VARIABLES lines, undo_lines, redo_lines, can_undo, can_redo,
          cur,            \* <<cur_row, cur_col>>, from 1
          menu,           \* the item the open menu is on, "off" without menu_mode
          dlg,            \* the dialog that has the keys
          current_file, is_new_file, dirty,
          clipboard_line, \* <<>> without has_clipboard_line
          last_search,
          cursor_visible,
          running,
          cwd, disk,      \* the kernel's side
          screen,         \* what is on the display: text, highlighted cells, a menu or dialog over it
          home,           \* history: directory of the last file read or written
          strayed,        \* history: a dialog was opened since and gave no file
          answer,         \* history: the answer to the question about unsaved changes
          ops

text == <<lines, undo_lines, redo_lines, can_undo, can_redo>>
file == <<current_file, is_new_file, dirty, home, strayed>>
vars == <<text, cur, menu, dlg, file, clipboard_line, last_search, cursor_visible, running,
          cwd, disk, screen, answer, ops>>

-----------------------------------------------------------------------------
(* The grid. *)

Row(t, r) == [c \in 1 .. Cols |-> t[<<r, c>>]]

line_used_len(row) == Max({0} \cup {c \in DOMAIN row : row[c] # Blank})

Used(t, r) == SubSeq(Row(t, r), 1, line_used_len(Row(t, r)))

Pad(s) == [c \in 1 .. Cols |-> IF c <= Len(s) THEN s[c] ELSE Blank]

LastUsedRow(t) == Max({0} \cup {r \in 1 .. Rows : Used(t, r) # <<>>})

(* Pieces one behind the other. *)
Joined(pieces) ==
  LET joined[i \in 0 .. Len(pieces)] == IF i = 0 THEN <<>> ELSE joined[i - 1] \o pieces[i]
  IN  joined[Len(pieces)]

editor_export_buffer(t) ==
  LET rows == [r \in 1 .. LastUsedRow(t) |->
                 Used(t, r) \o (IF r < LastUsedRow(t) THEN <<NL>> ELSE <<>>)]
  IN  Joined(rows)

(* The text and the place of the next character after one more byte; a row may be one past the last.  Carriage *)
(* returns and what cannot be printed are skipped.                                                            *)
Imported(s, ch) ==
  IF s.r > Rows \/ ch \notin Chars \cup {NL} THEN s
  ELSE IF ch = NL THEN [s EXCEPT !.r = @ + 1, !.c = 1]
  ELSE [t |-> [s.t EXCEPT ![<<s.r, s.c>>] = ch],
        r |-> IF s.c = Cols THEN s.r + 1 ELSE s.r,
        c |-> IF s.c = Cols THEN 1 ELSE s.c + 1]

editor_import_buffer(data) ==
  LET after[i \in 0 .. Len(data)] ==
        IF i = 0 THEN [t |-> BlankText, r |-> 1, c |-> 1] ELSE Imported(after[i - 1], data[i])
      end == after[Len(data)]
  IN  [t |-> end.t, cur |-> IF end.r > Rows THEN <<Rows, Cols>> ELSE <<end.r, end.c>>]

-----------------------------------------------------------------------------
(* Searching: occurrences lie within the used part of a row. *)

char_lower(ch) == IF ch \in DOMAIN Capitals THEN Capitals[ch] ELSE ch

str_contains_at_ci(row, c, q) ==
  /\ q # <<>> /\ c + Len(q) - 1 <= line_used_len(row)
  /\ \A i \in 1 .. Len(q) : char_lower(row[c + i - 1]) = char_lower(q[i])

Hits(t, q) == {p \in Cells : str_contains_at_ci(Row(t, p[1]), p[2], q)}

Before(p, q) == p[1] < q[1] \/ (p[1] = q[1] /\ p[2] <= q[2])

find_text_forward(t, q, from) == {p \in Hits(t, q) : Before(from, p)}
find_text_backward(t, q, from) == {p \in Hits(t, q) : Before(p, from)}

First(S) == CHOOSE p \in S : \A q \in S : Before(p, q)
Final(S) == CHOOSE p \in S : \A q \in S : Before(q, p)

(* replace_all_occurrences on one row: the new row, cut at Cols. *)
ReplaceRow(row, find, new) ==
  LET used == line_used_len(row)
      scan[i \in 1 .. Cols + 1] ==
        IF i > used THEN <<>>
        ELSE IF str_contains_at_ci(row, i, find)
             THEN new \o (IF i + Len(find) > used THEN <<>> ELSE scan[i + Len(find)])
             ELSE <<row[i]>> \o scan[i + 1]
  IN  Pad(scan[1])

replace_all_occurrences(t, find, new) ==
  [p \in Cells |-> IF \E h \in Hits(t, find) : h[1] = p[1]
                   THEN ReplaceRow(Row(t, p[1]), find, new)[p[2]] ELSE t[p]]

-----------------------------------------------------------------------------
(* Drawing. *)

draw_base_ui(t, over) == [text |-> t, lit |-> {}, over |-> over]

(* Mutant of draw_cell: the character under the cursor is not drawn again. *)
draw_cell_Mut(s, t, p, is_cursor) ==
  [s EXCEPT !.lit = IF is_cursor THEN @ \cup {p} ELSE @ \ {p}]

draw_cell(s, t, p, is_cursor) ==
  [s EXCEPT !.text[p] = t[p], !.lit = IF is_cursor THEN @ \cup {p} ELSE @ \ {p}]

draw_menu_overlay(s) == [s EXCEPT !.over = TRUE]
draw_dialog_frame(s) == [s EXCEPT !.over = TRUE]

(* The full repaint after a command: lines 1335 to 1340. *)
Repaint ==
  /\ cursor_visible' = TRUE
  /\ screen' = draw_cell(draw_base_ui(lines', FALSE), lines', cur', TRUE)

(* What every key does first, when the cursor is in its dark phase. *)
Awake == IF menu = "off" /\ ~cursor_visible THEN draw_cell(screen, lines, cur, TRUE) ELSE screen

-----------------------------------------------------------------------------
Init ==
  /\ lines = BlankText /\ undo_lines = BlankText /\ redo_lines = BlankText
  /\ can_undo = FALSE /\ can_redo = FALSE
  /\ cur = <<1, 1>> /\ menu = "off" /\ dlg = "none"
  /\ current_file = Untitled /\ is_new_file = TRUE /\ dirty = FALSE
  /\ clipboard_line = <<>> /\ last_search = <<>>
  /\ cursor_visible = TRUE /\ running = TRUE
  /\ cwd = RootDir /\ disk = InitDisk
  /\ screen = draw_cell(draw_base_ui(lines, FALSE), lines, cur, TRUE)
  /\ home = RootDir /\ strayed = FALSE /\ answer = None /\ ops = 0

Count == ops < MaxOps /\ ops' = ops + 1

(* A key for the text: no menu, no dialog. *)
Key == running /\ menu = "off" /\ dlg = "none"

(* Mutant of push_undo_snapshot: what was undone can still be redone. *)
push_undo_snapshot_Mut ==
  undo_lines' = lines /\ can_undo' = TRUE /\ UNCHANGED <<redo_lines, can_redo>>

push_undo_snapshot ==
  undo_lines' = lines /\ can_undo' = TRUE /\ can_redo' = FALSE /\ UNCHANGED redo_lines

(* The end of the loop for a key that changed or moved something. *)
Redraw(changed) ==
  /\ cursor_visible' = TRUE
  /\ dirty' = (dirty \/ changed)
  /\ screen' = draw_cell(draw_cell(Awake, lines', cur, FALSE), lines', cur', TRUE)
  /\ UNCHANGED <<menu, dlg, current_file, is_new_file, home, strayed, clipboard_line, last_search,
                 running, cwd, disk, answer>>

Blink ==
  /\ Key
  /\ cursor_visible' = ~cursor_visible
  /\ screen' = draw_cell(screen, lines, cur, ~cursor_visible)
  /\ UNCHANGED <<text, cur, menu, dlg, file, clipboard_line, last_search, running, cwd, disk, answer, ops>>

(* Up, down and return move the cursor. *)
Move ==
  /\ Key
  /\ cur' \in {<<cur[1] - 1, cur[2]>>, <<cur[1] + 1, cur[2]>>, <<cur[1] + 1, 1>>} \cap Cells
  /\ UNCHANGED <<text, ops>>
  /\ Redraw(FALSE)

(* Where a typed character leaves the cursor. *)
Advance(p) ==
  IF p[2] < Cols THEN <<p[1], p[2] + 1>>
  ELSE IF p[1] < Rows THEN <<p[1] + 1, 1>> ELSE p

Type(ch) ==
  /\ Key /\ Count
  /\ push_undo_snapshot
  /\ lines' = [lines EXCEPT ![cur] = ch]
  /\ cur' = Advance(cur)
  /\ Redraw(TRUE)

Backspace ==
  /\ Key /\ Count /\ cur # <<1, 1>>
  /\ push_undo_snapshot
  /\ LET prev == line_used_len(Row(lines, cur[1] - 1))
         joins == cur[2] = 1
         col == IF ~joins THEN cur[2] - 1 ELSE IF prev > 0 THEN prev ELSE 1
         erases == ~joins \/ prev > 0
     IN  /\ cur' = <<IF joins THEN cur[1] - 1 ELSE cur[1], col>>
         /\ lines' = IF erases THEN [lines EXCEPT ![cur'] = Blank] ELSE lines
         /\ Redraw(erases)

-----------------------------------------------------------------------------
(* The menu. *)

ToggleMenu ==
  /\ running /\ dlg = "none"
  /\ menu' = IF menu = "off" THEN "new" ELSE "off"
  /\ cursor_visible' = (menu' = "off")
  /\ screen' = IF menu' = "off" THEN draw_cell(draw_base_ui(lines, FALSE), lines, cur, TRUE)
               ELSE draw_base_ui(lines, TRUE)
  /\ UNCHANGED <<text, cur, dlg, file, clipboard_line, last_search, running, cwd, disk, answer, ops>>

(* The arrow keys lead from the first item to every item of every menu. *)
MoveInMenu ==
  /\ running /\ dlg = "none" /\ menu = "new"
  /\ menu' \in Items \ {menu}
  /\ screen' = draw_menu_overlay(screen)
  /\ UNCHANGED <<text, cur, dlg, file, clipboard_line, last_search, cursor_visible, running, cwd, disk, answer, ops>>

(* Return on an item. *)
Command(item) == running /\ dlg = "none" /\ menu = item /\ menu' = "off" /\ Count

Editing == UNCHANGED <<dlg, current_file, is_new_file, home, strayed, running, cwd, disk, answer>>

New ==
  /\ Command("new")
  /\ push_undo_snapshot
  /\ lines' = BlankText /\ cur' = <<1, 1>>
  /\ current_file' = Untitled /\ is_new_file' = TRUE /\ dirty' = FALSE
  /\ Repaint
  /\ UNCHANGED <<dlg, home, strayed, clipboard_line, last_search, running, cwd, disk, answer>>

(* has_current_file is set from the start and never reset. *)
Save(ok) ==
  /\ Command("save")
  /\ disk' = IF ok THEN [disk EXCEPT ![<<cwd, current_file>>] = editor_export_buffer(lines)] ELSE disk
  /\ dirty' = (dirty /\ ~ok) /\ is_new_file' = (is_new_file /\ ~ok)
  /\ home' = IF ok THEN cwd ELSE home
  /\ strayed' = (strayed /\ ~ok)
  /\ UNCHANGED <<text, cur, dlg, current_file, clipboard_line, last_search, running, cwd, answer>>
  /\ Repaint

(* run_file_dialog starts by going up to the root of the drive. *)
EnterDialog(kind) ==
  /\ dlg' = kind /\ cwd' = RootDir /\ strayed' = TRUE
  /\ screen' = draw_dialog_frame(draw_cell(draw_base_ui(lines, FALSE), lines, cur, TRUE))

OpenDialog ==
  /\ \/ Command("open") /\ EnterDialog("open")
     \/ Command("saveas") /\ EnterDialog("saveas")
  /\ UNCHANGED <<text, cur, current_file, is_new_file, dirty, home, clipboard_line, last_search,
                 cursor_visible, running, disk, answer>>

copy_current_line(t, r) == Used(t, r)

Copy ==
  /\ Command("copy")
  /\ LET line == copy_current_line(lines, cur[1])
     IN  clipboard_line' = IF line = <<>> THEN clipboard_line ELSE line
  /\ UNCHANGED <<text, cur, dirty, last_search>> /\ Editing /\ Repaint

paste_on_current_line(t, p, clip) ==
  LET n == Min({Len(clip), Cols - p[2] + 1})
  IN  [t |-> [q \in Cells |-> IF q[1] = p[1] /\ q[2] \in p[2] .. p[2] + n - 1
                              THEN clip[q[2] - p[2] + 1] ELSE t[q]],
       cur |-> <<p[1], Min({p[2] + n, Cols})>>]

Paste ==
  /\ Command("paste")
  /\ IF clipboard_line = <<>> THEN UNCHANGED <<text, cur, dirty>>
     ELSE LET new == paste_on_current_line(lines, cur, clipboard_line)
          IN  push_undo_snapshot /\ lines' = new.t /\ cur' = new.cur /\ dirty' = TRUE
  /\ UNCHANGED <<clipboard_line, last_search>> /\ Editing /\ Repaint

(* Selecionar and the items of the help menu only show a message. *)
Select ==
  /\ Command("select")
  /\ UNCHANGED <<text, cur, dirty, clipboard_line, last_search>> /\ Editing /\ Repaint

Help ==
  /\ Command("help")
  /\ UNCHANGED <<text, cur, dirty, clipboard_line, last_search>> /\ Editing /\ Repaint

Undo ==
  /\ Command("undo")
  /\ IF ~can_undo THEN UNCHANGED <<text, dirty>>
     ELSE /\ redo_lines' = lines /\ can_redo' = TRUE
          /\ lines' = undo_lines /\ can_undo' = FALSE
          /\ dirty' = TRUE /\ UNCHANGED undo_lines
  /\ UNCHANGED <<cur, clipboard_line, last_search>> /\ Editing /\ Repaint

Redo ==
  /\ Command("redo")
  /\ IF ~can_redo THEN UNCHANGED <<text, dirty>>
     ELSE /\ undo_lines' = lines /\ can_undo' = TRUE
          /\ lines' = redo_lines /\ can_redo' = FALSE
          /\ dirty' = TRUE /\ UNCHANGED redo_lines
  /\ UNCHANGED <<cur, clipboard_line, last_search>> /\ Editing /\ Repaint

(* What a text dialog hands back; nothing when it is cancelled. *)
run_text_input_dialog == Queries \cup {<<>>}

Find(q) ==
  /\ Command("find")
  /\ LET hits == find_text_forward(lines, q, <<1, 1>>)
     IN  IF hits = {} THEN UNCHANGED <<cur, last_search>>
         ELSE cur' = First(hits) /\ last_search' = q
  /\ UNCHANGED <<text, dirty, clipboard_line>> /\ Editing /\ Repaint

(* From the cursor on, then from the other end of the text. *)
Again ==
  /\ LET ahead == find_text_forward(lines, last_search, <<cur[1], cur[2] + 1>>)
         behind == find_text_backward(lines, last_search, <<cur[1], cur[2] - 1>>)
         all == Hits(lines, last_search)
     IN  \/ /\ Command("next")
            /\ cur' = IF ahead # {} THEN First(ahead) ELSE IF all # {} THEN First(all) ELSE cur
         \/ /\ Command("prev")
            /\ cur' = IF behind # {} THEN Final(behind) ELSE IF all # {} THEN Final(all) ELSE cur
  /\ UNCHANGED <<text, dirty, clipboard_line, last_search>> /\ Editing /\ Repaint

(* A line number; 0 stands for what is not one, and for a cancelled dialog. *)
parse_positive_int == 0 .. Rows + 1

Goto(n) ==
  /\ Command("goto")
  /\ cur' = IF n \in 1 .. Rows THEN <<n, cur[2]>> ELSE cur
  /\ UNCHANGED <<text, dirty, clipboard_line, last_search>> /\ Editing /\ Repaint

Replace(q, new) ==
  /\ Command("replace")
  /\ IF q = <<>> THEN UNCHANGED <<text, dirty, last_search>>
     ELSE /\ push_undo_snapshot
          /\ lines' = replace_all_occurrences(lines, q, new)
          /\ LET some == Hits(lines, q) # {}
             IN  dirty' = (dirty \/ some) /\ last_search' = IF some THEN q ELSE last_search
  /\ UNCHANGED <<cur, clipboard_line>> /\ Editing /\ Repaint

-----------------------------------------------------------------------------
(* The dialog for files. *)

Dialogs == {"open", "saveas", "exitas"}

load_dialog_entries == {name \in Names : disk[<<cwd, name>>] # None}

(* Return on a directory, backspace. *)
Browse ==
  /\ dlg \in Dialogs
  /\ cwd' \in Tree[cwd] \cup {d \in DOMAIN Tree : cwd \in Tree[d]}
  /\ UNCHANGED <<text, cur, menu, dlg, file, clipboard_line, last_search, cursor_visible, running, disk, screen, answer, ops>>

(* The dialog is over and the editor goes on.  A menu that was open when     *)
(* Escape asked for the exit is drawn again.                                 *)
Resume ==
  /\ dlg' = "none"
  /\ cursor_visible' = (menu = "off" \/ cursor_visible)
  /\ screen' = draw_cell(draw_base_ui(lines', menu # "off"), lines', cur', TRUE)
  /\ UNCHANGED <<menu, clipboard_line, last_search, running>>

Cancel ==
  /\ dlg # "none"
  /\ UNCHANGED <<text, cur, file, cwd, disk, answer, ops>>
  /\ Resume

(* Mutant of Load: the name of the file that was open before is kept. *)
Load_Mut(name) ==
  /\ push_undo_snapshot
  /\ LET new == editor_import_buffer(disk[<<cwd, name>>])
     IN  lines' = new.t /\ cur' = new.cur
  /\ is_new_file' = FALSE /\ dirty' = FALSE
  /\ home' = cwd /\ strayed' = FALSE /\ UNCHANGED current_file

(* Open, the file was read. *)
Load(name) ==
  /\ push_undo_snapshot
  /\ LET new == editor_import_buffer(disk[<<cwd, name>>])
     IN  lines' = new.t /\ cur' = new.cur
  /\ current_file' = name /\ is_new_file' = FALSE /\ dirty' = FALSE
  /\ home' = cwd /\ strayed' = FALSE

Open(name, ok) ==
  /\ dlg = "open"
  /\ name \in load_dialog_entries
  /\ IF ok THEN Load(name) ELSE UNCHANGED <<text, cur, file>>
  /\ Resume
  /\ UNCHANGED <<cwd, disk, answer, ops>>

(* Save As, Exit with a name asked for, Exit under the name it has. *)
WriteAs(name) ==
  /\ disk' = [disk EXCEPT ![<<cwd, name>>] = editor_export_buffer(lines)]
  /\ current_file' = name /\ is_new_file' = FALSE /\ dirty' = FALSE
  /\ home' = cwd /\ strayed' = FALSE

Leave ==
  /\ running' = FALSE /\ dlg' = "none"
  /\ screen' = [text |-> BlankText, lit |-> {}, over |-> FALSE]
  /\ UNCHANGED <<menu, cursor_visible, clipboard_line, last_search>>

SaveAs(name, ok) ==
  /\ dlg \in {"saveas", "exitas"}
  /\ IF ok THEN WriteAs(name) ELSE UNCHANGED <<file, disk>>
  /\ UNCHANGED <<text, cur, cwd, answer, ops>>
  /\ IF ok /\ dlg = "exitas" THEN Leave ELSE Resume

-----------------------------------------------------------------------------
(* Leaving: Escape anywhere, or the item Exit. *)

AsksFirst == dirty

handle_exit_request ==
  /\ running /\ dlg = "none" /\ Count
  /\ menu' = menu \/ (menu = "exit" /\ menu' = "off")
  /\ answer' = None
  /\ IF AsksFirst
     THEN /\ dlg' = "unsaved" /\ screen' = draw_dialog_frame(Awake)
          /\ cursor_visible' = (cursor_visible \/ menu = "off")
          /\ UNCHANGED <<clipboard_line, last_search, running>>
     ELSE /\ running' = FALSE /\ dlg' = "none"
          /\ screen' = [text |-> BlankText, lit |-> {}, over |-> FALSE]
          /\ UNCHANGED <<cursor_visible, clipboard_line, last_search>>
  /\ UNCHANGED <<text, cur, file, cwd, disk>>

run_unsaved_dialog(ok) ==
  /\ dlg = "unsaved"
  /\ UNCHANGED <<text, cur, ops>>
  /\ \/ /\ answer' = "no" /\ Leave
        /\ UNCHANGED <<file, cwd, disk>>
     \/ /\ answer' = "yes" /\ is_new_file
        /\ dlg' = "exitas" /\ cwd' = RootDir /\ strayed' = TRUE
        /\ UNCHANGED <<current_file, is_new_file, dirty, home, disk, menu, cursor_visible,
                       clipboard_line, last_search, running, screen>>
     \/ /\ answer' = "yes" /\ ~is_new_file
        /\ IF ok THEN WriteAs(current_file) /\ Leave ELSE UNCHANGED <<file, disk>> /\ Resume
        /\ UNCHANGED cwd

Stopped == ~running /\ UNCHANGED vars

-----------------------------------------------------------------------------
Edit ==
  \/ \E ch \in Chars : Type(ch)
  \/ Backspace \/ Move \/ Blink
  \/ Copy \/ Paste \/ Select \/ Help \/ Undo \/ Redo \/ Again
  \/ \E q \in run_text_input_dialog : Find(q)
  \/ \E n \in parse_positive_int : Goto(n)
  \/ \E q, new \in run_text_input_dialog : Replace(q, new)

Files ==
  \/ New \/ OpenDialog \/ Browse \/ Cancel
  \/ \E ok \in BOOLEAN : Save(ok) \/ run_unsaved_dialog(ok)
  \/ \E name \in Names, ok \in BOOLEAN : Open(name, ok) \/ SaveAs(name, ok)

Next == ToggleMenu \/ MoveInMenu \/ Edit \/ Files \/ handle_exit_request \/ Stopped

Spec == Init /\ [][Next]_vars

-----------------------------------------------------------------------------
Texts == [Cells -> Chars]
Screens == [text : Texts, lit : SUBSET Cells, over : BOOLEAN]

(* Type correctness; the cursor never leaves the grid that the code indexes  *)
(* with it.                                                                  *)
TypeOK ==
  /\ lines \in Texts /\ undo_lines \in Texts /\ redo_lines \in Texts
  /\ can_undo \in BOOLEAN /\ can_redo \in BOOLEAN
  /\ cur \in Cells
  /\ menu \in Items \cup {"off"} /\ dlg \in Dialogs \cup {"none", "unsaved"}
  /\ current_file \in Names /\ is_new_file \in BOOLEAN /\ dirty \in BOOLEAN
  /\ clipboard_line \in Seq(Chars) /\ last_search \in Seq(Chars)
  /\ cursor_visible \in BOOLEAN /\ running \in BOOLEAN
  /\ cwd \in DOMAIN Tree /\ home \in DOMAIN Tree /\ strayed \in BOOLEAN
  /\ disk \in [(DOMAIN Tree) \X Names -> {None} \cup Content]
  /\ screen \in Screens

(* Whenever the text has the keys the display shows exactly it, with the     *)
(* cursor's cell highlighted in the light phase and no other cell ever: the  *)
(* loop of app_main repaints cell by cell, and wholly after a menu or dialog.*)
ScreenShowsText ==
  running =>
    /\ screen.over = (menu # "off" \/ dlg # "none")
    /\ Key => screen.text = lines /\ screen.lit = IF cursor_visible THEN {cur} ELSE {}

(* A row that is full to the last column and followed by another: its line   *)
(* feed opens a second row when the file is read back.                       *)
FullRow(t) == \E r \in 1 .. LastUsedRow(t) - 1 : line_used_len(Row(t, r)) = Cols

(* Text that is not marked dirty is on disk, in the file that Save would     *)
(* write next: opening it again gives what is on the screen.  Two exceptions *)
(* are the code's: a full row does not survive a save (FullRow), and after a *)
(* dialog that gave no file the directory is no longer the file's (strayed). *)
CleanMeansSaved ==
  ~dirty /\ ~is_new_file =>
    LET content == disk[<<IF strayed THEN home ELSE cwd, current_file>>]
    IN  content # None /\ (FullRow(lines) \/ editor_import_buffer(content).t = lines)

(* What a step may do to the text that it replaces. *)
TextKept ==
  /\ lines' # lines => \/ can_undo' /\ undo_lines' = lines
                       \/ can_redo' /\ redo_lines' = lines
  /\ can_redo /\ can_redo' => lines' = lines
  /\ dirty' /\ ~running' => answer' = "no"

(* No text disappears: whatever replaces it (a key, a paste, a replacement,  *)
(* New, Open) leaves it in the undo buffer, an undo leaves it in the redo    *)
(* buffer, redo is offered only as long as the text is what undo left, and   *)
(* the editor ends with unsaved text only after the answer "no".             *)
NothingLost == [][TextKept]_vars
=============================================================================
