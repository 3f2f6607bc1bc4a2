---------------------------- MODULE EditorProofs ----------------------------
(***************************************************************************)
(* Proofs about module Editor: the display shows the text, text that is    *)
(* not marked dirty is on disk, and no text is lost, for every size of     *)
(* the grid, every alphabet, every directory tree and every disk.          *)
(***************************************************************************)
EXTENDS EditorLemmas

-----------------------------------------------------------------------------
(* The inductive invariant. *)

(* The text; one of undo and redo is offered at most. *)
TextOK ==
  /\ lines \in Texts /\ undo_lines \in Texts /\ redo_lines \in Texts
  /\ can_undo \in BOOLEAN /\ can_redo \in BOOLEAN /\ ~(can_undo /\ can_redo)
  /\ cur \in Cells

UiOK ==
  /\ menu \in Items \cup {"off"} /\ dlg \in Dialogs \cup {"none", "unsaved"}
  /\ clipboard_line \in Seq(Chars) /\ last_search \in Seq(Chars)
  /\ cursor_visible \in BOOLEAN /\ running \in BOOLEAN
  /\ screen \in Screens

(* The files; the current directory is that of the file unless a dialog has left it. *)
FileOK ==
  /\ current_file \in Names /\ is_new_file \in BOOLEAN /\ dirty \in BOOLEAN
  /\ cwd \in DOMAIN Tree /\ home \in DOMAIN Tree /\ strayed \in BOOLEAN
  /\ disk \in [(DOMAIN Tree) \X Names -> {None} \cup Content]
  /\ dlg \in Dialogs => strayed
  /\ ~strayed => home = cwd

(* No dialog outlives the editor, which ends with unsaved text only when told so. *)
EndOK ==
  /\ dlg # "none" => running
  /\ ~running /\ dirty => answer = "no"

IInv == TextOK /\ UiOK /\ FileOK /\ EndOK /\ ScreenShowsText /\ CleanMeansSaved

(* The invariant has the types of the module. *)
LEMMA InvTypes ==
  ASSUME IInv
  PROVE  TypeOK
BY Zenon DEF IInv, TextOK, UiOK, FileOK, TypeOK

(* The file that Save would write. *)
Where == <<IF strayed THEN home ELSE cwd, current_file>>

(* Text on disk stays there when neither changes. *)
LEMMA CleanKept ==
  ASSUME CleanMeansSaved, lines' = lines, disk' = disk, Where' = Where,
         dirty' = dirty, is_new_file' = is_new_file
  PROVE  CleanMeansSaved'
BY Zenon DEF CleanMeansSaved, Where

(* Text that is dirty or has no file yet need not be on disk. *)
LEMMA CleanNot ==
  ASSUME dirty' \/ is_new_file'
  PROVE  CleanMeansSaved'
BY Zenon DEF CleanMeansSaved

(* Text that has been written is on disk. *)
LEMMA CleanWritten ==
  ASSUME TextOK, FileOK, NEW n \in Names,
         disk' = [disk EXCEPT ![<<cwd, n>>] = editor_export_buffer(lines)],
         lines' = lines, cwd' = cwd, home' = cwd, strayed' = FALSE, current_file' = n
  PROVE  CleanMeansSaved' /\ disk' \in [(DOMAIN Tree) \X Names -> {None} \cup Content]
<1> DEFINE data == editor_export_buffer(lines)
<1>1. lines \in Texts /\ cwd \in DOMAIN Tree /\ disk \in [(DOMAIN Tree) \X Names -> {None} \cup Content]
  BY Zenon DEF TextOK, FileOK
<1>2. data \in Content /\ data # None
  BY <1>1, ExportPlaces, DiskAssumption, Zenon
<1>3. ~FullRow(lines) => editor_import_buffer(data).t = lines
  BY <1>1, RoundTrip, Zenon
<1> HIDE DEF data
<1>4. <<cwd, n>> \in (DOMAIN Tree) \X Names
  BY <1>1, Zenon
<1>5. disk' = [disk EXCEPT ![<<cwd, n>>] = data]
  BY Zenon DEF data
<1>6. disk'[<<cwd, n>>] = data /\ disk' \in [(DOMAIN Tree) \X Names -> {None} \cup Content]
  BY <1>1, <1>2, <1>4, <1>5
<1> QED BY <1>2, <1>3, <1>6, Zenon DEF CleanMeansSaved

(* The editor starts with a blank text, on the display, and no file. *)
LEMMA InitInv ==
  ASSUME Init
  PROVE  IInv
<1>1. BlankText \in Texts /\ <<1, 1>> \in Cells
  BY StartTyped, GridAssumption DEF Cells
<1>2. TextOK
  BY <1>1, Zenon DEF Init, TextOK
<1>3. screen \in Screens /\ screen.text = lines /\ screen.lit = {cur} /\ screen.over = FALSE
  <2>1. lines \in Texts /\ cur \in Cells /\ FALSE \in BOOLEAN
    BY <1>1, Zenon DEF Init
  <2>2. screen = draw_cell(draw_base_ui(lines, FALSE), lines, cur, TRUE)
    BY Zenon DEF Init
  <2> QED BY <2>1, <2>2, Painted
<1>4. UiOK
  <2>1. <<>> \in Seq(Chars)
    OBVIOUS
  <2> QED BY <1>3, <2>1, Zenon DEF Init, UiOK
<1>5. FileOK
  BY NamesAssumption, TreeAssumption, DiskAssumption, Zenon DEF Init, FileOK, Dialogs
<1>6. EndOK
  BY Zenon DEF Init, EndOK
<1>7. ScreenShowsText
  BY <1>3, Zenon DEF Init, ScreenShowsText, Key
<1>8. CleanMeansSaved
  BY Zenon DEF Init, CleanMeansSaved
<1> QED BY <1>2, <1>4, <1>5, <1>6, <1>7, <1>8, Zenon DEF IInv
-----------------------------------------------------------------------------
(* Commands of the menu. *)

(* The full repaint after a command shows the text. *)
LEMMA PaintStep ==
  ASSUME TextOK', Repaint, menu' = "off", dlg' = "none"
  PROVE  screen' \in Screens /\ cursor_visible' = TRUE /\ ScreenShowsText'
<1>1. lines' \in Texts /\ cur' \in Cells /\ FALSE \in BOOLEAN
  BY Zenon DEF TextOK
<1>2. screen' \in Screens /\ screen'.text = lines' /\ screen'.lit = {cur'} /\ screen'.over = FALSE
  BY <1>1, Painted DEF Repaint
<1> QED BY <1>2, Zenon DEF Repaint, ScreenShowsText, Key

(* A command that leaves the files alone. *)
LEMMA CommandStep ==
  ASSUME IInv, running, dlg = "none", menu' = "off", Repaint, Editing, TextOK',
         clipboard_line' \in Seq(Chars), last_search' \in Seq(Chars), dirty' \in BOOLEAN,
         dirty' \/ (lines' = lines /\ dirty' = dirty),
         \/ lines' = lines
         \/ can_undo' /\ undo_lines' = lines
         \/ can_redo' /\ redo_lines' = lines,
         can_redo /\ can_redo' => lines' = lines
  PROVE  IInv' /\ TextKept
<1>1. screen' \in Screens /\ cursor_visible' = TRUE /\ ScreenShowsText'
  BY PaintStep, Zenon DEF Editing
<1>2. UiOK'
  BY <1>1, Zenon DEF IInv, UiOK, Editing
<1>3. FileOK'
  BY Zenon DEF IInv, FileOK, Editing
<1>4. EndOK'
  BY Zenon DEF IInv, EndOK, Editing
<1>5. CleanMeansSaved'
  <2>1. CASE dirty'
    BY <2>1, CleanNot, Zenon
  <2>2. CASE lines' = lines /\ dirty' = dirty
    BY <2>2, CleanKept, Zenon DEF IInv, Editing, Where
  <2> QED BY <2>1, <2>2, Zenon
<1>6. TextKept
  BY Zenon DEF TextKept, Editing
<1> QED BY <1>1, <1>2, <1>3, <1>4, <1>5, <1>6, Zenon DEF IInv

(* Copying keeps the text. *)
LEMMA CopyStep ==
  ASSUME IInv, Copy
  PROVE  IInv' /\ TextKept
<1>1. TextOK' /\ lines' = lines /\ dirty' = dirty /\ dirty' \in BOOLEAN
  BY Zenon DEF IInv, TextOK, FileOK, Copy, text
<1>2. clipboard_line' \in Seq(Chars) /\ last_search' \in Seq(Chars)
  <2>1. cur[1] \in 1 .. Rows /\ lines \in Texts
    BY Zenon DEF IInv, TextOK, Cells
  <2>2. copy_current_line(lines, cur[1]) \in Seq(Chars)
    BY <2>1, UsedSeq, Zenon DEF copy_current_line
  <2> QED BY <2>2, Zenon DEF IInv, UiOK, Copy
<1> QED BY <1>1, <1>2, CommandStep, Zenon DEF Copy, Command

(* Messages change nothing. *)
LEMMA MessageStep ==
  ASSUME IInv, Select \/ Help
  PROVE  IInv' /\ TextKept
<1>1. TextOK' /\ lines' = lines /\ dirty' = dirty /\ dirty' \in BOOLEAN
  BY DEF IInv, TextOK, FileOK, Select, Help, text
<1>2. clipboard_line' \in Seq(Chars) /\ last_search' \in Seq(Chars)
  BY Zenon DEF IInv, UiOK, Select, Help
<1> QED BY <1>1, <1>2, CommandStep, Zenon DEF Select, Help, Command

(* A search moves the cursor. *)
LEMMA FindStep ==
  ASSUME IInv, NEW q \in run_text_input_dialog, Find(q)
  PROVE  IInv' /\ TextKept
<1> DEFINE hits == find_text_forward(lines, q, <<1, 1>>)
<1>1. hits \in SUBSET Cells
  BY Zenon DEF find_text_forward, Hits
<1>2. cur' \in Cells
  <2>1. CASE hits = {}
    BY <2>1, Zenon DEF Find, IInv, TextOK
  <2>2. CASE hits # {}
    <3>1. First(hits) \in hits
      <4> HIDE DEF hits
      <4> QED BY <1>1, <2>2, FirstFound, Zenon
    <3> QED BY <1>1, <2>2, <3>1, Zenon DEF Find
  <2> QED BY <2>1, <2>2, Zenon
<1>3. q \in Seq(Chars)
  <2>1. <<>> \in Seq(Chars)
    OBVIOUS
  <2> QED BY <2>1, QueriesAssumption, Zenon DEF run_text_input_dialog
<1>4. TextOK' /\ lines' = lines /\ dirty' = dirty /\ dirty' \in BOOLEAN
  BY <1>2, Zenon DEF IInv, TextOK, FileOK, Find, text
<1>5. clipboard_line' \in Seq(Chars) /\ last_search' \in Seq(Chars)
  BY <1>3, Zenon DEF IInv, UiOK, Find
<1> QED BY <1>4, <1>5, CommandStep, Zenon DEF Find, Command

(* Also when it is repeated. *)
LEMMA AgainStep ==
  ASSUME IInv, Again
  PROVE  IInv' /\ TextKept
<1> DEFINE ahead == find_text_forward(lines, last_search, <<cur[1], cur[2] + 1>>)
           behind == find_text_backward(lines, last_search, <<cur[1], cur[2] - 1>>)
           all == Hits(lines, last_search)
<1>1. ahead \in SUBSET Cells /\ behind \in SUBSET Cells /\ all \in SUBSET Cells
  BY Zenon DEF find_text_forward, find_text_backward, Hits
<1>2. cur' \in {First(ahead), First(all), Final(behind), Final(all), cur}
      /\ (cur' = cur \/ (ahead # {} /\ cur' = First(ahead)) \/ (all # {} /\ cur' \in {First(all), Final(all)})
          \/ (behind # {} /\ cur' = Final(behind)))
  BY Zenon DEF Again
<1> HIDE DEF ahead, behind, all
<1>3. cur' \in Cells
  <2>1. ahead # {} => First(ahead) \in Cells
    BY <1>1, FirstFound, Zenon
  <2>2. all # {} => First(all) \in Cells /\ Final(all) \in Cells
    BY <1>1, FirstFound, FinalFound, Zenon
  <2>3. behind # {} => Final(behind) \in Cells
    BY <1>1, FinalFound, Zenon
  <2>4. cur \in Cells
    BY Zenon DEF IInv, TextOK
  <2> QED BY <1>2, <2>1, <2>2, <2>3, <2>4, Zenon
<1>4. TextOK' /\ lines' = lines /\ dirty' = dirty /\ dirty' \in BOOLEAN
  BY <1>3, Zenon DEF IInv, TextOK, FileOK, Again, text
<1>5. clipboard_line' \in Seq(Chars) /\ last_search' \in Seq(Chars)
  BY Zenon DEF IInv, UiOK, Again
<1>6. running /\ dlg = "none" /\ menu' = "off" /\ Repaint /\ Editing
  BY Zenon DEF Again, Command
<1> QED BY <1>4, <1>5, <1>6, CommandStep

(* And so does a line number. *)
LEMMA GotoStep ==
  ASSUME IInv, NEW n \in parse_positive_int, Goto(n)
  PROVE  IInv' /\ TextKept
<1>1. cur' \in Cells
  BY Zenon DEF Goto, IInv, TextOK, Cells
<1>2. TextOK' /\ lines' = lines /\ dirty' = dirty /\ dirty' \in BOOLEAN
  BY <1>1, Zenon DEF IInv, TextOK, FileOK, Goto, text
<1>3. clipboard_line' \in Seq(Chars) /\ last_search' \in Seq(Chars)
  BY Zenon DEF IInv, UiOK, Goto
<1> QED BY <1>2, <1>3, CommandStep, Zenon DEF Goto, Command

(* A pasted line goes to the undo buffer. *)
LEMMA PasteStep ==
  ASSUME IInv, Paste
  PROVE  IInv' /\ TextKept
<1>1. TextOK /\ dirty \in BOOLEAN /\ clipboard_line \in Seq(Chars) /\ last_search \in Seq(Chars)
  BY Zenon DEF IInv, UiOK, FileOK
<1>2. clipboard_line' \in Seq(Chars) /\ last_search' \in Seq(Chars)
  BY <1>1, Zenon DEF Paste
<1>3. running /\ dlg = "none" /\ menu' = "off" /\ Repaint /\ Editing
  BY Zenon DEF Paste, Command
<1>4. CASE clipboard_line = <<>>
  <2>1. TextOK' /\ lines' = lines /\ dirty' = dirty
    BY <1>1, <1>4, Zenon DEF TextOK, Paste, text
  <2> QED BY <1>1, <1>2, <1>3, <2>1, CommandStep
<1>5. CASE clipboard_line # <<>>
  <2> DEFINE new == paste_on_current_line(lines, cur, clipboard_line)
  <2>1. push_undo_snapshot /\ lines' = new.t /\ cur' = new.cur /\ dirty' = TRUE
    BY <1>5, Zenon DEF Paste
  <2>2. new.t \in Texts /\ new.cur \in Cells
    BY <1>1, <1>5, PasteTyped, Zenon DEF TextOK
  <2> HIDE DEF new
  <2>3. TextOK' /\ can_undo' /\ undo_lines' = lines /\ ~can_redo'
    BY <1>1, <2>1, <2>2, Zenon DEF TextOK, push_undo_snapshot
  <2> QED BY <1>2, <1>3, <2>1, <2>3, CommandStep
<1> QED BY <1>4, <1>5, Zenon

(* Undo keeps what it undoes for redo. *)
LEMMA UndoStep ==
  ASSUME IInv, Undo
  PROVE  IInv' /\ TextKept
<1>1. TextOK /\ dirty \in BOOLEAN
  BY Zenon DEF IInv, FileOK
<1>2. clipboard_line' \in Seq(Chars) /\ last_search' \in Seq(Chars)
  BY Zenon DEF Undo, IInv, UiOK
<1>3. running /\ dlg = "none" /\ menu' = "off" /\ Repaint /\ Editing
  BY Zenon DEF Undo, Command
<1>4. CASE ~can_undo
  <2>1. TextOK' /\ lines' = lines /\ dirty' = dirty
    BY <1>1, <1>4 DEF TextOK, Undo, text
  <2> QED BY <1>1, <1>2, <1>3, <2>1, CommandStep
<1>5. CASE can_undo
  <2>1. TextOK' /\ can_redo' /\ redo_lines' = lines /\ ~can_redo /\ dirty' = TRUE
    BY <1>1, <1>5, Zenon DEF TextOK, Undo
  <2> QED BY <1>2, <1>3, <2>1, CommandStep
<1> QED BY <1>4, <1>5, Zenon

(* Redo keeps what it replaces for undo. *)
LEMMA RedoStep ==
  ASSUME IInv, Redo
  PROVE  IInv' /\ TextKept
<1>1. TextOK /\ dirty \in BOOLEAN
  BY Zenon DEF IInv, FileOK
<1>2. clipboard_line' \in Seq(Chars) /\ last_search' \in Seq(Chars)
  BY Zenon DEF Redo, IInv, UiOK
<1>3. running /\ dlg = "none" /\ menu' = "off" /\ Repaint /\ Editing
  BY Zenon DEF Redo, Command
<1>4. CASE ~can_redo
  <2>1. TextOK' /\ lines' = lines /\ dirty' = dirty
    BY <1>1, <1>4, Zenon DEF TextOK, Redo, text
  <2> QED BY <1>1, <1>2, <1>3, <2>1, CommandStep, Zenon
<1>5. CASE can_redo
  <2>1. TextOK' /\ can_undo' /\ undo_lines' = lines /\ ~can_redo' /\ dirty' = TRUE
    BY <1>1, <1>5, Zenon DEF TextOK, Redo
  <2> QED BY <1>2, <1>3, <2>1, CommandStep, Zenon
<1> QED BY <1>4, <1>5, Zenon

(* A replacement that finds nothing leaves the text as it is; another marks it dirty. *)
LEMMA ReplaceStep ==
  ASSUME IInv, NEW q \in run_text_input_dialog, NEW new \in run_text_input_dialog, Replace(q, new)
  PROVE  IInv' /\ TextKept
<1>1. TextOK /\ dirty \in BOOLEAN /\ clipboard_line \in Seq(Chars) /\ last_search \in Seq(Chars)
  BY Zenon DEF IInv, UiOK, FileOK
<1>2. running /\ dlg = "none" /\ menu' = "off" /\ Repaint /\ Editing
  BY Zenon DEF Replace, Command
<1>3. q \in Seq(Chars) /\ new \in Seq(Chars)
  <2>1. <<>> \in Seq(Chars)
    OBVIOUS
  <2> QED BY <2>1, QueriesAssumption, Zenon DEF run_text_input_dialog
<1>4. clipboard_line' \in Seq(Chars) /\ last_search' \in Seq(Chars)
  BY <1>1, <1>3 DEF Replace
<1>5. CASE q = <<>>
  <2>1. TextOK' /\ lines' = lines /\ dirty' = dirty
    BY <1>1, <1>5, Zenon DEF TextOK, Replace, text
  <2> QED BY <1>1, <1>2, <1>4, <2>1, CommandStep
<1>6. CASE q # <<>>
  <2>1. push_undo_snapshot /\ lines' = replace_all_occurrences(lines, q, new) /\ cur' = cur
        /\ dirty' = (dirty \/ Hits(lines, q) # {})
    BY <1>6, Zenon DEF Replace
  <2>2. replace_all_occurrences(lines, q, new) \in Texts
    BY <1>1, <1>3, <1>6, ReplaceTyped, Zenon DEF TextOK
  <2>3. TextOK' /\ can_undo' /\ undo_lines' = lines /\ ~can_redo'
    BY <1>1, <2>1, <2>2, Zenon DEF TextOK, push_undo_snapshot
  <2>4. dirty' \in BOOLEAN
    BY <1>1, <2>1, Zenon
  <2>5. CASE Hits(lines, q) # {}
    BY <1>2, <1>4, <2>1, <2>3, <2>4, <2>5, CommandStep
  <2>6. CASE Hits(lines, q) = {}
    <3>1. lines = [p \in Cells |-> lines[p]]
      BY <1>1, Zenon DEF TextOK, Texts
    <3>2. replace_all_occurrences(lines, q, new) = [p \in Cells |-> lines[p]]
      BY <2>6, Zenon DEF replace_all_occurrences
    <3>3. lines' = lines /\ dirty' = dirty
      BY <1>1, <2>1, <2>6, <3>1, <3>2
    <3> QED BY <1>2, <1>4, <2>3, <2>4, <3>3, CommandStep
  <2> QED BY <2>5, <2>6, Zenon
<1> QED BY <1>5, <1>6, Zenon
-----------------------------------------------------------------------------
(* Keys that edit: only the cell of the cursor, before and after, is redrawn. *)

(* The phase that follows a key starts from a display that shows the cursor. *)
LEMMA AwakeShows ==
  ASSUME IInv, Key
  PROVE  Awake \in Screens /\ Awake.text = lines /\ Awake.lit = {cur} /\ Awake.over = FALSE
<1>1. /\ screen \in Screens /\ screen.text = lines /\ screen.over = FALSE
      /\ screen.lit = IF cursor_visible THEN {cur} ELSE {}
  BY Zenon DEF IInv, UiOK, ScreenShowsText, Key
<1>2. lines \in Texts /\ cur \in Cells /\ menu = "off"
  BY Zenon DEF IInv, TextOK, Key
<1>3. CASE cursor_visible
  BY <1>1, <1>2, <1>3, Zenon DEF Awake
<1>4. CASE ~cursor_visible
  <2>1. Updated(draw_cell(screen, lines, cur, TRUE), screen, lines, cur, screen.lit \cup {cur})
    BY <1>1, <1>2, DrawOn, Zenon
  <2>2. Awake = draw_cell(screen, lines, cur, TRUE)
    BY <1>2, <1>4, Zenon DEF Awake
  <2>3. Updated(Awake, screen, lines, cur, {} \cup {cur})
    BY <1>1, <1>4, <2>1, <2>2, Zenon
  <2>4. [lines EXCEPT ![cur] = lines[cur]] = lines
    BY <1>2, Zenon DEF Texts
  <2>5. Awake \in Screens /\ Awake.text = lines /\ Awake.lit = {} \cup {cur} /\ Awake.over = FALSE
    BY <1>1, <2>3, <2>4, Zenon DEF Updated
  <2> QED BY <2>5, Zenon
<1> QED BY <1>3, <1>4, Zenon

(* A key that changes at most the cells the cursor leaves and enters. *)
LEMMA KeyStep ==
  ASSUME IInv, Key, NEW changed \in BOOLEAN, Redraw(changed), TextOK',
         \A p \in Cells : p # cur /\ p # cur' => lines'[p] = lines[p],
         changed \/ lines' = lines,
         lines' # lines => can_undo' /\ undo_lines' = lines,
         can_redo /\ can_redo' => lines' = lines
  PROVE  IInv' /\ TextKept
<1> DEFINE a == Awake
           b == draw_cell(a, lines', cur, FALSE)
<1>1. a \in Screens /\ a.text = lines /\ a.lit = {cur} /\ a.over = FALSE
  BY AwakeShows, Zenon
<1>2. lines \in Texts /\ lines' \in Texts /\ cur \in Cells /\ cur' \in Cells
  BY Zenon DEF IInv, TextOK
<1>3. screen' = draw_cell(b, lines', cur', TRUE)
  BY Zenon DEF Redraw
<1> HIDE DEF a
<1>4. Updated(b, a, lines', cur, a.lit \ {cur})
  BY <1>1, <1>2, DrawOff, Zenon
<1> HIDE DEF b
<1>5. b \in Screens /\ b.text = [lines EXCEPT ![cur] = lines'[cur]] /\ b.lit = {} /\ b.over = FALSE
  <2>1. b \in Screens /\ b.text = [lines EXCEPT ![cur] = lines'[cur]] /\ b.lit = {cur} \ {cur} /\ b.over = FALSE
    BY <1>1, <1>4, Zenon DEF Updated
  <2> QED BY <2>1, Zenon
<1>6. Updated(screen', b, lines', cur', b.lit \cup {cur'})
  BY <1>2, <1>3, <1>5, DrawOn, Zenon
<1>7. screen' \in Screens /\ screen'.text = [b.text EXCEPT ![cur'] = lines'[cur']]
      /\ screen'.lit = {cur'} /\ screen'.over = FALSE
  <2>1. screen'.lit = {} \cup {cur'}
    BY <1>5, <1>6, Zenon DEF Updated
  <2> QED BY <1>5, <1>6, <2>1, Zenon DEF Updated
<1>8. screen'.text = lines'
  <2> DEFINE u == [lines EXCEPT ![cur] = lines'[cur]]
             v == [u EXCEPT ![cur'] = lines'[cur']]
  <2>1. u \in Texts /\ \A p \in Cells : u[p] = IF p = cur THEN lines'[cur] ELSE lines[p]
    BY <1>2, Zenon DEF Texts
  <2>2. screen'.text = v
    BY <1>5, <1>7, Zenon
  <2> HIDE DEF u
  <2>3. v \in Texts /\ \A p \in Cells : v[p] = IF p = cur' THEN lines'[cur'] ELSE u[p]
    BY <1>2, <2>1, Zenon DEF Texts
  <2> HIDE DEF v
  <2>4. \A p \in Cells : v[p] = lines'[p]
    BY <2>1, <2>3, Zenon
  <2> QED BY <1>2, <2>2, <2>3, <2>4 DEF Texts
<1>9. UiOK'
  BY <1>7, Zenon DEF IInv, UiOK, Redraw
<1>10. FileOK'
  BY Zenon DEF IInv, FileOK, Redraw
<1>11. EndOK'
  BY Zenon DEF IInv, EndOK, Redraw, Key
<1>12. ScreenShowsText'
  BY <1>7, <1>8, Zenon DEF ScreenShowsText, Redraw, Key
<1>13. CleanMeansSaved'
  <2>1. CASE changed
    BY <2>1, CleanNot, Zenon DEF Redraw
  <2>2. CASE ~changed
    <3>1. dirty' = dirty
      BY <2>2, Zenon DEF IInv, FileOK, Redraw
    <3> QED BY <2>2, <3>1, CleanKept, Zenon DEF IInv, Redraw, Where
  <2> QED BY <2>1, <2>2, Zenon
<1>14. TextKept
  BY Zenon DEF TextKept, Redraw, Key
<1> QED BY <1>9, <1>10, <1>11, <1>12, <1>13, <1>14 DEF IInv

(* Moving. *)
LEMMA MoveStep ==
  ASSUME IInv, Move
  PROVE  IInv' /\ TextKept
<1>1. TextOK' /\ lines' = lines
  BY Zenon DEF Move, IInv, TextOK, text
<1> QED BY <1>1, KeyStep, Zenon DEF Move

(* Typing. *)
LEMMA TypeStep ==
  ASSUME IInv, NEW ch \in Chars, Type(ch)
  PROVE  IInv' /\ TextKept
<1>1. lines' \in Texts /\ \A p \in Cells : p # cur => lines'[p] = lines[p]
  BY Zenon DEF Type, IInv, TextOK, Texts
<1>2. cur' \in Cells
  BY GridAssumption DEF Type, IInv, TextOK, Cells, Advance
<1>3. TextOK' /\ can_undo' /\ undo_lines' = lines /\ ~can_redo'
  BY <1>1, <1>2, Zenon DEF Type, IInv, TextOK, push_undo_snapshot
<1> QED BY <1>1, <1>3, KeyStep, Zenon DEF Type

(* Backspace, which joins nothing but may step back to the end of the row above. *)
LEMMA BackspaceStep ==
  ASSUME IInv, Backspace
  PROVE  IInv' /\ TextKept
<1> DEFINE prev == line_used_len(Row(lines, cur[1] - 1))
           joins == cur[2] = 1
           col == IF ~joins THEN cur[2] - 1 ELSE IF prev > 0 THEN prev ELSE 1
           erases == ~joins \/ prev > 0
<1>1. Key /\ push_undo_snapshot /\ Redraw(erases)
      /\ cur' = <<IF joins THEN cur[1] - 1 ELSE cur[1], col>>
      /\ lines' = IF erases THEN [lines EXCEPT ![cur'] = Blank] ELSE lines
  BY Zenon DEF Backspace
<1>2. lines \in Texts /\ cur \in Cells /\ Blank \in Chars
  BY Zenon DEF IInv, TextOK, Chars
<1>3. cur[1] \in 1 .. Rows /\ cur[2] \in 1 .. Cols /\ cur = <<cur[1], cur[2]>>
  BY <1>2 DEF Cells
<1>4. joins => cur[1] - 1 \in 1 .. Rows
  <2>1. joins => cur[1] # 1
    BY <1>3, Zenon DEF Backspace
  <2> QED BY <1>3, <2>1, GridAssumption
<1>5. joins => prev \in 0 .. Cols
  <2> DEFINE r == cur[1] - 1
  <2>1. r \in 1 .. Rows => line_used_len(Row(lines, r)) \in 0 .. Cols
    <3> HIDE DEF r
    <3> QED BY <1>2, RowTyped, UsedLen, Zenon
  <2> QED BY <1>4, <2>1, Zenon
<1> HIDE DEF prev
<1>6. cur' \in Cells
  BY <1>1, <1>3, <1>4, <1>5, GridAssumption DEF Cells
<1>7. erases \in BOOLEAN
  BY Zenon
<1> HIDE DEF erases
<1>8. lines' \in Texts /\ \A p \in Cells : p # cur' => lines'[p] = lines[p]
  BY <1>1, <1>2, <1>6, Zenon DEF Texts
<1>9. TextOK' /\ can_undo' /\ undo_lines' = lines /\ ~can_redo'
  BY <1>1, <1>6, <1>8, Zenon DEF IInv, TextOK, push_undo_snapshot
<1>10. erases \/ lines' = lines
  BY <1>1, Zenon
<1> QED BY <1>1, <1>7, <1>8, <1>9, <1>10, KeyStep, Zenon

(* The blinking cursor. *)
LEMMA BlinkStep ==
  ASSUME IInv, Blink
  PROVE  IInv' /\ TextKept
<1>1. /\ screen \in Screens /\ screen.text = lines /\ screen.over = FALSE
      /\ screen.lit = IF cursor_visible THEN {cur} ELSE {}
  BY Zenon DEF IInv, UiOK, ScreenShowsText, Key, Blink
<1>2. lines \in Texts /\ cur \in Cells /\ cursor_visible \in BOOLEAN
  BY Zenon DEF IInv, TextOK, UiOK
<1>3. [lines EXCEPT ![cur] = lines[cur]] = lines
  BY <1>2, Zenon DEF Texts
<1>4. screen' \in Screens /\ screen'.text = lines /\ screen'.over = FALSE
      /\ screen'.lit = IF cursor_visible' THEN {cur} ELSE {}
  <2>1. CASE cursor_visible
    <3>1. ~cursor_visible' /\ screen' = draw_cell(screen, lines, cur, FALSE)
      BY <2>1, Zenon DEF Blink
    <3>2. Updated(screen', screen, lines, cur, screen.lit \ {cur})
      BY <1>1, <1>2, <3>1, DrawOff, Zenon
    <3>3. screen.lit \ {cur} = {}
      BY <1>1, <2>1, Zenon
    <3> QED BY <1>1, <1>3, <3>1, <3>2, <3>3 DEF Updated
  <2>2. CASE ~cursor_visible
    <3>1. cursor_visible' /\ screen' = draw_cell(screen, lines, cur, TRUE)
      BY <2>2, Zenon DEF Blink
    <3>2. Updated(screen', screen, lines, cur, screen.lit \cup {cur})
      BY <1>1, <1>2, <3>1, DrawOn, Zenon
    <3>3. screen.lit \cup {cur} = {cur}
      BY <1>1, <2>2, Zenon
    <3> QED BY <1>1, <1>3, <3>1, <3>2, <3>3 DEF Updated
  <2> QED BY <1>2, <2>1, <2>2, Zenon
<1>5. UNCHANGED <<text, cur, menu, dlg, file, clipboard_line, last_search, running, cwd, disk, answer>>
      /\ cursor_visible' \in BOOLEAN /\ running /\ menu = "off" /\ dlg = "none"
  BY <1>2, Zenon DEF Blink, Key
<1>6. TextOK' /\ FileOK' /\ EndOK'
  BY <1>5, Zenon DEF IInv, TextOK, FileOK, EndOK, text, file
<1>7. UiOK'
  BY <1>4, <1>5, Zenon DEF IInv, UiOK
<1>8. ScreenShowsText'
  BY <1>4, <1>5, Zenon DEF ScreenShowsText, Key, text
<1>9. CleanMeansSaved'
  BY <1>5, CleanKept, Zenon DEF IInv, text, file, Where
<1>10. TextKept
  BY <1>5, Zenon DEF TextKept, text
<1> QED BY <1>6, <1>7, <1>8, <1>9, <1>10 DEF IInv

-----------------------------------------------------------------------------
(* The menu, and the commands about files. *)

(* What keeps text and files keeps all but the display. *)
LEMMA QuietStep ==
  ASSUME IInv, UNCHANGED <<text, cur, file, clipboard_line, last_search, cwd, disk>>,
         menu' \in Items \cup {"off"}, cursor_visible' \in BOOLEAN, screen' \in Screens,
         UiOK, FileOK', EndOK', ScreenShowsText', dlg' \in Dialogs \cup {"none", "unsaved"},
         running' \in BOOLEAN
  PROVE  IInv' /\ TextKept
<1>1. TextOK'
  BY Zenon DEF IInv, TextOK, text
<1>2. UiOK'
  BY Zenon DEF UiOK
<1>3. CleanMeansSaved'
  BY CleanKept, Zenon DEF IInv, text, file, Where
<1>4. TextKept
  BY Zenon DEF TextKept, EndOK, text
<1> QED BY <1>1, <1>2, <1>3, <1>4, Zenon DEF IInv
(* The key that opens and closes the menu. *)
LEMMA ToggleStep ==
  ASSUME IInv, ToggleMenu
  PROVE  IInv' /\ TextKept
<1>1. lines \in Texts /\ cur \in Cells /\ FALSE \in BOOLEAN /\ UiOK /\ FileOK /\ EndOK
  BY Zenon DEF IInv, TextOK
<1>2. UNCHANGED <<text, cur, dlg, file, clipboard_line, last_search, running, cwd, disk, answer>>
      /\ running /\ dlg = "none" /\ menu' \in {"new", "off"} /\ cursor_visible' = (menu' = "off")
  BY Zenon DEF ToggleMenu
<1>3. lines' = lines /\ cur' = cur
  BY <1>2, Zenon DEF text
<1>4. screen' \in Screens /\ ScreenShowsText'
  <2>1. CASE menu' = "off"
    <3>1. screen' = draw_cell(draw_base_ui(lines, FALSE), lines, cur, TRUE)
      BY <2>1, Zenon DEF ToggleMenu
    <3>2. screen' \in Screens /\ screen'.text = lines /\ screen'.lit = {cur} /\ screen'.over = FALSE
      BY <1>1, <3>1, Painted
    <3> QED BY <1>2, <1>3, <2>1, <3>2, Zenon DEF ScreenShowsText
  <2>2. CASE menu' = "new"
    <3>1. screen' = draw_base_ui(lines, TRUE)
      BY <2>2, Zenon DEF ToggleMenu
    <3>2. screen' \in Screens /\ screen'.over = TRUE
      BY <1>1, <3>1, Zenon DEF draw_base_ui, Screens
    <3> QED BY <2>2, <3>2, Zenon DEF ScreenShowsText, Key
  <2> QED BY <1>2, <2>1, <2>2, Zenon
<1>5. FileOK' /\ EndOK'
  BY <1>1, <1>2, Zenon DEF FileOK, EndOK, file
<1>6. menu' \in Items \cup {"off"} /\ cursor_visible' \in BOOLEAN
      /\ dlg' \in Dialogs \cup {"none", "unsaved"} /\ running' \in BOOLEAN
  BY <1>1, <1>2, Zenon DEF UiOK, Items
<1> QED BY <1>1, <1>2, <1>4, <1>5, <1>6, QuietStep

(* The keys that move in it. *)
LEMMA MenuStep ==
  ASSUME IInv, MoveInMenu
  PROVE  IInv' /\ TextKept
<1>1. screen \in Screens /\ UiOK /\ FileOK /\ EndOK
  BY Zenon DEF IInv, UiOK
<1>2. UNCHANGED <<text, cur, dlg, file, clipboard_line, last_search, cursor_visible, running, cwd, disk, answer>>
      /\ running /\ dlg = "none" /\ menu' \in Items
  BY Zenon DEF MoveInMenu
<1>3. screen' \in Screens /\ screen'.over = TRUE
  BY <1>1, Covered, Zenon DEF MoveInMenu
<1>4. menu' # "off"
  BY <1>2, Zenon DEF Items
<1>5. ScreenShowsText'
  BY <1>3, <1>4, Zenon DEF ScreenShowsText, Key
<1>6. FileOK' /\ EndOK'
  BY <1>1, <1>2, Zenon DEF FileOK, EndOK, file
<1>7. cursor_visible' \in BOOLEAN /\ dlg' \in Dialogs \cup {"none", "unsaved"} /\ running' \in BOOLEAN
  BY <1>1, <1>2, Zenon DEF UiOK
<1> QED BY <1>1, <1>2, <1>3, <1>5, <1>6, <1>7, QuietStep

(* A new text keeps the old one for undo. *)
LEMMA NewStep ==
  ASSUME IInv, New
  PROVE  IInv' /\ TextKept
<1>1. BlankText \in Texts /\ <<1, 1>> \in Cells
  BY StartTyped, GridAssumption DEF Cells
<1>2. TextOK' /\ can_undo' /\ undo_lines' = lines /\ ~can_redo'
  BY <1>1, Zenon DEF IInv, TextOK, New, push_undo_snapshot
<1>3. running /\ dlg = "none" /\ menu' = "off" /\ Repaint
      /\ UNCHANGED <<dlg, home, strayed, clipboard_line, last_search, running, cwd, disk, answer>>
      /\ current_file' = Untitled /\ is_new_file' = TRUE /\ dirty' = FALSE
  BY Zenon DEF New, Command
<1>4. screen' \in Screens /\ cursor_visible' = TRUE /\ ScreenShowsText'
  BY <1>2, <1>3, PaintStep, Zenon
<1>5. UiOK'
  BY <1>3, <1>4, Zenon DEF IInv, UiOK
<1>6. FileOK'
  BY <1>3, NamesAssumption, Zenon DEF IInv, FileOK
<1>7. EndOK'
  BY <1>3, Zenon DEF IInv, EndOK
<1>8. CleanMeansSaved'
  BY <1>3, CleanNot, Zenon
<1>9. TextKept
  BY <1>2, <1>3, Zenon DEF TextKept
<1> QED BY <1>2, <1>4, <1>5, <1>6, <1>7, <1>8, <1>9 DEF IInv

(* Save writes what the next Open would read. *)
LEMMA SaveStep ==
  ASSUME IInv, NEW ok \in BOOLEAN, Save(ok)
  PROVE  IInv' /\ TextKept
<1>1. UNCHANGED <<text, cur, dlg, current_file, clipboard_line, last_search, running, cwd, answer>>
      /\ running /\ dlg = "none" /\ menu' = "off" /\ Repaint
  BY Zenon DEF Save, Command
<1>2. TextOK' /\ lines' = lines
  BY <1>1, Zenon DEF IInv, TextOK, text
<1>3. screen' \in Screens /\ cursor_visible' = TRUE /\ ScreenShowsText'
  BY <1>1, <1>2, PaintStep, Zenon
<1>4. UiOK'
  BY <1>1, <1>3, Zenon DEF IInv, UiOK
<1>5. EndOK'
  BY <1>1, Zenon DEF IInv, EndOK
<1>6. TextKept
  BY <1>1, <1>2, Zenon DEF TextKept
<1>7. TextOK /\ FileOK /\ CleanMeansSaved /\ current_file \in Names /\ dirty \in BOOLEAN /\ is_new_file \in BOOLEAN
      /\ strayed \in BOOLEAN
  BY Zenon DEF IInv, FileOK
<1>8. FileOK' /\ CleanMeansSaved'
  <2>1. CASE ok
    <3>1. disk' = [disk EXCEPT ![<<cwd, current_file>>] = editor_export_buffer(lines)]
          /\ dirty' = FALSE /\ is_new_file' = FALSE /\ home' = cwd /\ strayed' = FALSE
      BY <2>1, <1>7, Zenon DEF Save
    <3>2. CleanMeansSaved' /\ disk' \in [(DOMAIN Tree) \X Names -> {None} \cup Content]
      BY <1>1, <1>2, <1>7, <3>1, CleanWritten
    <3> QED BY <1>1, <1>7, <3>1, <3>2, Zenon DEF FileOK, Dialogs
  <2>2. CASE ~ok
    <3>1. disk' = disk /\ dirty' = dirty /\ is_new_file' = is_new_file /\ home' = home /\ strayed' = strayed
      BY <2>2, <1>7, Zenon DEF Save
    <3>2. CleanMeansSaved'
      BY <1>1, <1>2, <1>7, <3>1, CleanKept DEF Where
    <3> QED BY <1>1, <1>7, <3>1, <3>2, Zenon DEF FileOK
  <2> QED BY <2>1, <2>2, Zenon
<1> QED BY <1>2, <1>3, <1>4, <1>5, <1>6, <1>8 DEF IInv

(* Text that is on disk stays there while dialogs move the current directory. *)
LEMMA StrayStep ==
  ASSUME IInv, UNCHANGED <<text, cur, current_file, is_new_file, dirty, home, clipboard_line, last_search,
                           cursor_visible, running, disk>>,
         strayed' = TRUE, cwd' \in DOMAIN Tree, dlg' \in Dialogs, running,
         menu' \in Items \cup {"off"}, screen' \in Screens, screen'.over = TRUE
  PROVE  IInv' /\ TextKept
<1>1. TextOK'
  BY Zenon DEF IInv, TextOK, text
<1>2. UiOK'
  BY Zenon DEF IInv, UiOK
<1>3. FileOK'
  BY Zenon DEF IInv, FileOK
<1>4. EndOK'
  BY Zenon DEF IInv, EndOK
<1>5. dlg' # "none"
  BY Zenon DEF Dialogs
<1>6. ScreenShowsText'
  BY <1>5, Zenon DEF ScreenShowsText, Key
<1>7. CleanMeansSaved'
  <2>1. Where' = Where
    BY Zenon DEF IInv, FileOK, Where
  <2> QED BY <2>1, CleanKept, Zenon DEF IInv, text
<1>8. TextKept
  BY Zenon DEF TextKept, text
<1> QED BY <1>1, <1>2, <1>3, <1>4, <1>6, <1>7, <1>8 DEF IInv

(* The dialog for files opens in the root directory. *)
LEMMA OpenDialogStep ==
  ASSUME IInv, OpenDialog
  PROVE  IInv' /\ TextKept
<1>1. PICK kind \in Dialogs : EnterDialog(kind) /\ running /\ menu' = "off"
  BY Zenon DEF OpenDialog, Command, Dialogs
<1>2. dlg' \in Dialogs /\ cwd' = RootDir /\ strayed' = TRUE
      /\ screen' = draw_dialog_frame(draw_cell(draw_base_ui(lines, FALSE), lines, cur, TRUE))
  BY <1>1, Zenon DEF EnterDialog
<1>3. lines \in Texts /\ cur \in Cells /\ FALSE \in BOOLEAN
  BY Zenon DEF IInv, TextOK
<1>4. draw_cell(draw_base_ui(lines, FALSE), lines, cur, TRUE) \in Screens
  BY <1>3, Painted, Zenon
<1>5. screen' \in Screens /\ screen'.over = TRUE
  BY <1>2, <1>4, Covered, Zenon
<1>6. cwd' \in DOMAIN Tree
  BY <1>2, TreeAssumption, Zenon
<1>7. UNCHANGED <<text, cur, current_file, is_new_file, dirty, home, clipboard_line, last_search,
                  cursor_visible, running, disk>>
  BY Zenon DEF OpenDialog
<1> QED BY <1>1, <1>2, <1>5, <1>6, <1>7, StrayStep, Zenon

(* It walks the tree. *)
LEMMA BrowseStep ==
  ASSUME IInv, Browse
  PROVE  IInv' /\ TextKept
<1>1. UiOK /\ FileOK /\ EndOK /\ ScreenShowsText /\ dlg \in Dialogs
  BY Zenon DEF IInv, Browse
<1>2. strayed /\ running /\ dlg # "none"
  BY <1>1, Zenon DEF FileOK, EndOK, Dialogs
<1>3. cwd' \in DOMAIN Tree
  BY <1>1, TreeAssumption, Zenon DEF Browse, FileOK
<1>4. strayed' = TRUE
  BY <1>1, <1>2, Zenon DEF FileOK, Browse, file
<1>5. screen \in Screens /\ screen.over = TRUE /\ menu \in Items \cup {"off"}
  BY <1>1, <1>2, Zenon DEF UiOK, ScreenShowsText
<1>6. UNCHANGED <<text, cur, current_file, is_new_file, dirty, home, clipboard_line, last_search,
                  cursor_visible, running, disk, menu, dlg, screen>>
  BY Zenon DEF Browse, file
<1> QED BY <1>1, <1>2, <1>3, <1>4, <1>5, <1>6, StrayStep

(* The text is drawn again when a dialog is over, below the menu if one was open. *)
LEMMA ResumeStep ==
  ASSUME UiOK, TextOK', Resume
  PROVE  UiOK' /\ ScreenShowsText' /\ dlg' = "none" /\ running' = running
<1> DEFINE over == menu # "off"
<1>1. over \in BOOLEAN /\ lines' \in Texts /\ cur' \in Cells
  BY Zenon DEF TextOK
<1>2. screen' = draw_cell(draw_base_ui(lines', over), lines', cur', TRUE)
      /\ dlg' = "none" /\ cursor_visible' = (menu = "off" \/ cursor_visible)
      /\ UNCHANGED <<menu, clipboard_line, last_search, running>>
  BY Zenon DEF Resume
<1>3. (menu = "off") = ~over
  BY Zenon
<1> HIDE DEF over
<1>4. screen' \in Screens /\ screen'.text = lines' /\ screen'.lit = {cur'} /\ screen'.over = over
  <2>1. TRUE \in BOOLEAN /\ FALSE \in BOOLEAN /\ (over = TRUE \/ over = FALSE)
    BY <1>1, Zenon
  <2>2. CASE over = TRUE
    <3>1. screen' = draw_cell(draw_base_ui(lines', TRUE), lines', cur', TRUE)
      BY <1>2, <2>2, Zenon
    <3> QED BY <1>1, <2>1, <2>2, <3>1, Painted
  <2>3. CASE over = FALSE
    <3>1. screen' = draw_cell(draw_base_ui(lines', FALSE), lines', cur', TRUE)
      BY <1>2, <2>3, Zenon
    <3> QED BY <1>1, <2>1, <2>3, <3>1, Painted
  <2> QED BY <2>1, <2>2, <2>3, Zenon
<1>5. UiOK'
  BY <1>2, <1>4, Zenon DEF UiOK
<1>6. ScreenShowsText'
  BY <1>2, <1>4, Zenon DEF over, ScreenShowsText, Key
<1> QED BY <1>2, <1>5, <1>6, Zenon

(* Escape closes it. *)
LEMMA CancelStep ==
  ASSUME IInv, Cancel
  PROVE  IInv' /\ TextKept
<1>1. UNCHANGED <<text, cur, file, cwd, disk, answer>> /\ Resume /\ dlg # "none"
  BY Zenon DEF Cancel
<1>2. TextOK'
  BY <1>1, Zenon DEF IInv, TextOK, text
<1>3. UiOK' /\ ScreenShowsText' /\ dlg' = "none" /\ running' = running
  BY <1>1, <1>2, ResumeStep, Zenon DEF IInv
<1>4. FileOK' /\ EndOK'
  BY <1>1, <1>3, Zenon DEF IInv, FileOK, EndOK, file, Dialogs
<1>5. CleanMeansSaved'
  BY <1>1, CleanKept, Zenon DEF IInv, text, file, Where
<1>6. TextKept
  BY <1>1, <1>4, Zenon DEF TextKept, EndOK, text
<1> QED BY <1>2, <1>3, <1>4, <1>5, <1>6 DEF IInv
(* A file that was read is what the screen shows. *)
LEMMA OpenStep ==
  ASSUME IInv, NEW name \in Names, NEW ok \in BOOLEAN, Open(name, ok)
  PROVE  IInv' /\ TextKept
<1>1. UNCHANGED <<cwd, disk, answer>> /\ Resume /\ name \in load_dialog_entries /\ dlg = "open"
  BY Zenon DEF Open
<1>2. TextOK /\ UiOK /\ FileOK /\ EndOK /\ CleanMeansSaved
  BY Zenon DEF IInv
<1>3. running
  BY <1>1, <1>2, Zenon DEF EndOK
<1>4. CASE ~ok
  <2>1. UNCHANGED <<text, cur, file>>
    BY <1>4, Zenon DEF Open
  <2>2. TextOK'
    BY <1>2, <2>1, Zenon DEF TextOK, text
  <2>3. UiOK' /\ ScreenShowsText' /\ dlg' = "none" /\ running' = running
    BY <1>1, <1>2, <2>2, ResumeStep, Zenon
  <2>4. FileOK' /\ EndOK'
    BY <1>1, <1>2, <2>1, <2>3, Zenon DEF FileOK, EndOK, file, Dialogs
  <2>5. CleanMeansSaved'
    BY <1>1, <1>2, <2>1, CleanKept, Zenon DEF text, file, Where
  <2>6. TextKept
    BY <2>1, <2>4, Zenon DEF TextKept, EndOK, text
  <2> QED BY <2>2, <2>3, <2>4, <2>5, <2>6, Zenon DEF IInv
<1>5. CASE ok
  <2> DEFINE data == disk[<<cwd, name>>]
  <2>1. Load(name)
    BY <1>5, Zenon DEF Open
  <2>2. <<cwd, name>> \in (DOMAIN Tree) \X Names /\ data # None
    BY <1>1, <1>2, Zenon DEF FileOK, load_dialog_entries
  <2>3. data \in Content
    BY <1>2, <2>2, Zenon DEF FileOK
  <2>4. push_undo_snapshot /\ lines' = editor_import_buffer(data).t /\ cur' = editor_import_buffer(data).cur
        /\ current_file' = name /\ is_new_file' = FALSE /\ dirty' = FALSE /\ home' = cwd /\ strayed' = FALSE
    BY <2>1, Zenon DEF Load
  <2>5. disk'[<<cwd', name>>] = data
    BY <1>1, Zenon
  <2> HIDE DEF data
  <2>6. lines' \in Texts /\ cur' \in Cells
    BY <2>3, <2>4, ImportTyped, Zenon
  <2>7. TextOK' /\ can_undo' /\ undo_lines' = lines /\ ~can_redo'
    BY <1>2, <2>4, <2>6, Zenon DEF TextOK, push_undo_snapshot
  <2>8. UiOK' /\ ScreenShowsText' /\ dlg' = "none" /\ running' = running
    BY <1>1, <1>2, <2>7, ResumeStep, Zenon
  <2>9. FileOK'
    BY <1>1, <1>2, <2>4, <2>8, Zenon DEF FileOK, Dialogs
  <2>10. EndOK'
    BY <1>3, <2>8, Zenon DEF EndOK
  <2>11. CleanMeansSaved'
    BY <2>2, <2>4, <2>5, Zenon DEF CleanMeansSaved
  <2>12. TextKept
    BY <1>3, <2>7, <2>8, Zenon DEF TextKept
  <2> QED BY <2>7, <2>8, <2>9, <2>10, <2>11, <2>12 DEF IInv
<1> QED BY <1>4, <1>5, Zenon

(* Nothing is shown once the editor has left. *)
LEMMA GoneStep ==
  ASSUME UiOK, running' = FALSE, dlg' = "none", menu' \in Items \cup {"off"},
         screen' = [text |-> BlankText, lit |-> {}, over |-> FALSE],
         UNCHANGED <<cursor_visible, clipboard_line, last_search>>
  PROVE  UiOK' /\ ScreenShowsText'
<1>1. screen' \in Screens
  BY StartTyped, Zenon DEF Screens
<1>2. UiOK'
  BY <1>1, Zenon DEF UiOK
<1> QED BY <1>2, Zenon DEF ScreenShowsText

(* Both ways for a dialog to end that has written the text. *)
LEMMA WrittenStep ==
  ASSUME IInv, NEW name \in Names, WriteAs(name), UNCHANGED <<text, cur, cwd>>,
         running, Resume \/ Leave
  PROVE  IInv' /\ TextKept
<1>1. disk' = [disk EXCEPT ![<<cwd, name>>] = editor_export_buffer(lines)]
      /\ current_file' = name /\ is_new_file' = FALSE /\ dirty' = FALSE /\ home' = cwd /\ strayed' = FALSE
  BY Zenon DEF WriteAs
<1>2. TextOK /\ UiOK /\ FileOK
  BY Zenon DEF IInv
<1>3. TextOK' /\ lines' = lines
  BY <1>2, Zenon DEF TextOK, text
<1>4. CleanMeansSaved' /\ disk' \in [(DOMAIN Tree) \X Names -> {None} \cup Content]
  BY <1>1, <1>2, <1>3, CleanWritten, Zenon
<1>5. UiOK' /\ ScreenShowsText' /\ dlg' = "none"
  <2>1. CASE Resume
    BY <1>2, <1>3, <2>1, ResumeStep, Zenon
  <2>2. CASE Leave
    <3>1. menu' \in Items \cup {"off"}
      BY <1>2, <2>2, Zenon DEF Leave, UiOK
    <3> QED BY <1>2, <2>2, <3>1, GoneStep, Zenon DEF Leave
  <2> QED BY <2>1, <2>2, Zenon
<1>6. FileOK'
  BY <1>1, <1>2, <1>4, <1>5, Zenon DEF FileOK, Dialogs
<1>7. EndOK'
  BY <1>1, <1>5, Zenon DEF EndOK
<1>8. TextKept
  BY <1>1, <1>3, Zenon DEF TextKept
<1> QED BY <1>3, <1>4, <1>5, <1>6, <1>7, <1>8 DEF IInv

(* A failed write changes no file. *)
LEMMA FailedStep ==
  ASSUME IInv, UNCHANGED <<text, cur, file, cwd, disk>>, dlg # "none", Resume
  PROVE  IInv' /\ TextKept
<1>1. TextOK /\ UiOK /\ FileOK /\ EndOK /\ CleanMeansSaved
  BY Zenon DEF IInv
<1>2. TextOK'
  BY <1>1, Zenon DEF TextOK, text
<1>3. UiOK' /\ ScreenShowsText' /\ dlg' = "none" /\ running' = running
  BY <1>1, <1>2, ResumeStep, Zenon
<1>4. FileOK' /\ EndOK'
  BY <1>1, <1>3, Zenon DEF FileOK, EndOK, file, Dialogs
<1>5. CleanMeansSaved'
  BY <1>1, CleanKept, Zenon DEF text, file, Where
<1>6. TextKept
  BY <1>4, Zenon DEF TextKept, EndOK, text
<1> QED BY <1>2, <1>3, <1>4, <1>5, <1>6, Zenon DEF IInv

(* Save As, from the menu and on the way out. *)
LEMMA SaveAsStep ==
  ASSUME IInv, NEW name \in Names, NEW ok \in BOOLEAN, SaveAs(name, ok)
  PROVE  IInv' /\ TextKept
<1>1. UNCHANGED <<text, cur, cwd>> /\ dlg # "none" /\ running
  BY Zenon DEF SaveAs, IInv, EndOK
<1>2. CASE ok
  BY <1>1, <1>2, WrittenStep, Zenon DEF SaveAs
<1>3. CASE ~ok
  BY <1>1, <1>3, FailedStep, Zenon DEF SaveAs
<1> QED BY <1>2, <1>3, Zenon

-----------------------------------------------------------------------------
(* Leaving. *)

(* Escape, or the item Exit. *)
LEMMA ExitStep ==
  ASSUME IInv, handle_exit_request
  PROVE  IInv' /\ TextKept
<1>1. UiOK /\ FileOK /\ EndOK /\ lines \in Texts /\ cur \in Cells /\ screen \in Screens
  BY Zenon DEF IInv, TextOK, UiOK
<1>2. UNCHANGED <<text, cur, file, cwd, disk, clipboard_line, last_search>> /\ running /\ dlg = "none"
      /\ menu' \in Items \cup {"off"}
  BY <1>1, Zenon DEF handle_exit_request, UiOK
<1>3. dirty \in BOOLEAN /\ cursor_visible \in BOOLEAN
  BY <1>1, Zenon DEF FileOK, UiOK
<1>4. CASE dirty
  <2>1. dlg' = "unsaved" /\ screen' = draw_dialog_frame(Awake) /\ running' = running
        /\ cursor_visible' = (cursor_visible \/ menu = "off")
    BY <1>4, Zenon DEF handle_exit_request, AsksFirst
  <2>2. Awake \in Screens
    <3>1. Updated(draw_cell(screen, lines, cur, TRUE), screen, lines, cur, screen.lit \cup {cur})
      BY <1>1, DrawOn, Zenon
    <3>2. draw_cell(screen, lines, cur, TRUE) \in Screens
      BY <3>1, Zenon DEF Updated
    <3> QED BY <1>1, <3>2, Zenon DEF Awake
  <2>3. screen' \in Screens /\ screen'.over = TRUE
    BY <2>1, <2>2, Covered, Zenon
  <2>4. ScreenShowsText'
    BY <2>1, <2>3, Zenon DEF ScreenShowsText, Key
  <2>5. FileOK' /\ EndOK'
    BY <1>1, <1>2, <2>1, Zenon DEF FileOK, EndOK, file, Dialogs
  <2>6. cursor_visible' \in BOOLEAN /\ running' \in BOOLEAN /\ dlg' \in Dialogs \cup {"none", "unsaved"}
    BY <1>1, <2>1, Zenon DEF UiOK
  <2> QED BY <1>1, <1>2, <2>3, <2>4, <2>5, <2>6, QuietStep
<1>5. CASE ~dirty
  <2>1. running' = FALSE /\ dlg' = "none" /\ screen' = [text |-> BlankText, lit |-> {}, over |-> FALSE]
        /\ UNCHANGED <<cursor_visible, clipboard_line, last_search>>
    BY <1>5, Zenon DEF handle_exit_request, AsksFirst
  <2>2. UiOK' /\ ScreenShowsText'
    BY <1>1, <1>2, <2>1, GoneStep, Zenon
  <2>3. FileOK' /\ EndOK'
    BY <1>1, <1>2, <1>5, <2>1 DEF FileOK, EndOK, file, Dialogs
  <2>4. cursor_visible' \in BOOLEAN /\ running' \in BOOLEAN /\ dlg' \in Dialogs \cup {"none", "unsaved"}
        /\ screen' \in Screens
    BY <2>2, Zenon DEF UiOK
  <2> QED BY <1>1, <1>2, <2>2, <2>3, <2>4, QuietStep
<1> QED BY <1>3, <1>4, <1>5, Zenon

(* The question about unsaved changes. *)
LEMMA AnswerStep ==
  ASSUME IInv, NEW ok \in BOOLEAN, run_unsaved_dialog(ok)
  PROVE  IInv' /\ TextKept
<1>1. UiOK /\ FileOK /\ EndOK /\ dlg = "unsaved" /\ running /\ UNCHANGED <<text, cur>>
  BY Zenon DEF run_unsaved_dialog, IInv, EndOK
<1>2. CASE answer' = "no" /\ Leave /\ UNCHANGED <<file, cwd, disk>>
  <2>1. running' = FALSE /\ dlg' = "none" /\ screen' = [text |-> BlankText, lit |-> {}, over |-> FALSE]
        /\ UNCHANGED <<menu, cursor_visible, clipboard_line, last_search>> /\ menu' \in Items \cup {"off"}
    BY <1>1, <1>2, Zenon DEF Leave, UiOK
  <2>2. UiOK' /\ ScreenShowsText'
    BY <1>1, <2>1, GoneStep, Zenon
  <2>3. FileOK' /\ EndOK'
    BY <1>1, <1>2, <2>1, Zenon DEF FileOK, EndOK, file, Dialogs
  <2>4. cursor_visible' \in BOOLEAN /\ running' \in BOOLEAN /\ dlg' \in Dialogs \cup {"none", "unsaved"}
        /\ screen' \in Screens
    BY <2>2, Zenon DEF UiOK
  <2> QED BY <1>1, <1>2, <2>1, <2>2, <2>3, <2>4, QuietStep
<1>3. CASE /\ dlg' = "exitas" /\ cwd' = RootDir /\ strayed' = TRUE
           /\ UNCHANGED <<current_file, is_new_file, dirty, home, disk, menu, cursor_visible,
                          clipboard_line, last_search, running, screen>>
  <2>1. dlg' \in Dialogs /\ cwd' \in DOMAIN Tree
    BY <1>3, TreeAssumption, Zenon DEF Dialogs
  <2>2. menu' \in Items \cup {"off"} /\ screen' \in Screens
    BY <1>1, <1>3, Zenon DEF UiOK
  <2>3. screen'.over = TRUE
    BY <1>1, <1>3, Zenon DEF IInv, ScreenShowsText
  <2> QED BY <1>1, <1>3, <2>1, <2>2, <2>3, StrayStep
<1>4. CASE /\ IF ok THEN WriteAs(current_file) /\ Leave ELSE UNCHANGED <<file, disk>> /\ Resume
           /\ UNCHANGED cwd
  <2>1. current_file \in Names /\ dlg # "none"
    BY <1>1, Zenon DEF FileOK
  <2>2. CASE ok
    BY <1>1, <1>4, <2>1, <2>2, WrittenStep
  <2>3. CASE ~ok
    BY <1>1, <1>4, <2>1, <2>3, FailedStep
  <2> QED BY <2>2, <2>3, Zenon
<1> QED BY <1>2, <1>3, <1>4, Zenon DEF run_unsaved_dialog

(* Steps that change nothing. *)
LEMMA IdleStep ==
  ASSUME IInv, UNCHANGED vars
  PROVE  IInv' /\ TextKept
<1>1. UNCHANGED <<text, cur, menu, dlg, file, clipboard_line, last_search, cursor_visible, running,
                  cwd, disk, screen, answer>>
  BY Zenon DEF vars
<1>2. TextOK' /\ UiOK' /\ FileOK' /\ EndOK'
  BY <1>1 DEF IInv, TextOK, UiOK, FileOK, EndOK, text, file
<1>3. ScreenShowsText'
  BY <1>1, Zenon DEF IInv, ScreenShowsText, Key, text
<1>4. CleanMeansSaved'
  BY <1>1, CleanKept, Zenon DEF IInv, text, file, Where
<1>5. TextKept
  BY <1>1, <1>2, Zenon DEF TextKept, EndOK, text
<1> QED BY <1>2, <1>3, <1>4, <1>5 DEF IInv

-----------------------------------------------------------------------------
(* Every step keeps the invariant and loses no text. *)
LEMMA NextStep ==
  ASSUME IInv, [Next]_vars
  PROVE  IInv' /\ TextKept
<1>1. CASE ToggleMenu
  BY <1>1, ToggleStep, Zenon
<1>2. CASE MoveInMenu
  BY <1>2, MenuStep, Zenon
<1>3. CASE Edit
  BY <1>3, TypeStep, BackspaceStep, MoveStep, BlinkStep, CopyStep, PasteStep, MessageStep, UndoStep,
     RedoStep, AgainStep, FindStep, GotoStep, ReplaceStep DEF Edit
<1>4. CASE Files
  BY <1>4, NewStep, OpenDialogStep, BrowseStep, CancelStep, SaveStep, AnswerStep, OpenStep, SaveAsStep
     DEF Files
<1>5. CASE handle_exit_request
  BY <1>5, ExitStep, Zenon
<1>6. CASE Stopped \/ UNCHANGED vars
  BY <1>6, IdleStep, Zenon DEF Stopped
<1> QED BY <1>1, <1>2, <1>3, <1>4, <1>5, <1>6 DEF Next

(* The inductive invariant of the editor holds always. *)
THEOREM EditorInvariant == Spec => []IInv
<1>1. Init => IInv
  BY InitInv, Zenon
<1>2. IInv /\ [Next]_vars => IInv'
  BY NextStep, Zenon
<1> QED BY <1>1, <1>2, PTL DEF Spec

(* The cursor stays on the grid that the code indexes with it, and everything has its type. *)
THEOREM EditorTypes == Spec => []TypeOK
<1>1. IInv => TypeOK
  BY InvTypes, Zenon
<1> QED BY <1>1, EditorInvariant, PTL

(* Whatever is typed, pasted, searched or undone, the display shows the text and one cursor whenever the *)
(* text has the keys, for every size of the grid.                                                        *)
THEOREM EditorShowsText == Spec => []ScreenShowsText
<1>1. IInv => ScreenShowsText
  BY Zenon DEF IInv
<1> QED BY <1>1, EditorInvariant, PTL

(* Text not marked dirty is in the file that Save would write, and is read back as it is unless a full row *)
(* stands in the way.                                                                                     *)
THEOREM EditorCleanMeansSaved == Spec => []CleanMeansSaved
<1>1. IInv => CleanMeansSaved
  BY Zenon DEF IInv
<1> QED BY <1>1, EditorInvariant, PTL

(* No step of the editor makes text disappear without leaving it to undo or redo, and the editor ends with *)
(* unsaved text only after the answer "no".                                                               *)
THEOREM EditorLosesNothing == Spec => NothingLost
<1>1. IInv /\ [Next]_vars => [TextKept]_vars
  BY NextStep, Zenon
<1> QED BY <1>1, EditorInvariant, PTL DEF Spec, NothingLost
=============================================================================
