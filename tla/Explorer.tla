------------------------------ MODULE Explorer ------------------------------
(***************************************************************************)
(* The file manager windows of the desktop program                         *)
(* (external_apps/apps/win95_demo/win95_explorer.c, win95_fileops.c): where *)
(* each window is, what it lists, its history, and the context menu and    *)
(* dialogs by which files are changed.                                     *)
(*                                                                          *)
(* The windows share one task, so one current directory and one clipboard: *)
(* every operation first walks to the folder of its window.  A window is   *)
(* at a folder of a drive or at the list of drives; its list is a set, and *)
(* the selected item is a name.  While a menu or dialog is up it takes all *)
(* input (module Desktop).                                                 *)
(***************************************************************************)
EXTENDS FileCalls

CONSTANTS Slots,       \* EXPLORER_MAX_WINDOWS
          MaxDepth,    \* EXPLORER_MAX_DEPTH
          HistoryMax,  \* EXPLORER_HISTORY_MAX
          HomeDrive, HomeFolder,  \* the folder on the desktop
          InitDisks,   \* the disks when the program starts
          MaxOps       \* bound: changes of folder and of files

ASSUME LimitsAssumption == MaxDepth \in Nat \ {0} /\ HistoryMax \in Nat \ {0}
ASSUME HomeAssumption == HomeDrive \in Drives /\ HomeFolder \in Folders
ASSUME SlotsAssumption == Slots \subseteq Nat \ {0}
ASSUME DisksAssumption == \A d \in InitDisks : Sound(d)

VARIABLES disk,
          task,      \* the program's task
          win,       \* g_explorer_slots
          overlay,   \* the context menu or the dialog
          stale,     \* history: windows whose list is out of date
          ops

vars == <<disk, task, win, overlay, stale, ops>>

Place(d, dirs) == [drive |-> d, dirs |-> dirs]
AllDrives == Place(None, <<>>)

(* Where a window may be. *)
Places == {AllDrives} \cup [drive : Drives, dirs : Seq(Folders)]

Closed == [open |-> FALSE, place |-> AllDrives, list |-> {}, selected |-> None,
           history |-> <<>>, index |-> 0, shown |-> AllDrives, failed |-> FALSE]

NoOverlay == [kind |-> "none", action |-> "none", window |-> 0, target |-> None]

(* A result of an operation on a window: the disks, the task and the window after it, and whether the list was read. *)
Result(d, t, w) == [disk |-> d, task |-> t, win |-> w, read |-> FALSE]
Shown(d, t, w) == [disk |-> d, task |-> t, win |-> w, read |-> TRUE]

-----------------------------------------------------------------------------
(* History. *)

explorer_history_reset(w) == [w EXCEPT !.history = <<w.place>>, !.index = 1]

(* Mutant of explorer_history_commit_current: what lay ahead is kept when the history is full. *)
explorer_history_commit_current_Mut(w) ==
  LET full == Len(w.history) >= HistoryMax
      old == IF full THEN Tail(w.history) ELSE SubSeq(w.history, 1, w.index)
  IN IF w.history[w.index] = w.place THEN w
     ELSE [w EXCEPT !.history = Append(old, w.place), !.index = Len(old) + 1]

explorer_history_commit_current(w) ==
  LET before == SubSeq(w.history, 1, w.index)
      old == IF Len(before) >= HistoryMax THEN Tail(before) ELSE before
  IN IF w.history[w.index] = w.place THEN w
     ELSE [w EXCEPT !.history = Append(old, w.place), !.index = Len(old) + 1]

explorer_can_go_back(w) == Len(w.history) > 1 /\ w.index > 1
explorer_can_go_forward(w) == Len(w.history) > 1 /\ w.index < Len(w.history)

explorer_history_restore(w, n) == [w EXCEPT !.index = n, !.place = w.history[n]]

-----------------------------------------------------------------------------
(* Walking to the folder of a window, one CHDIR after the other; a failure leaves the task on the way. *)

(* Mutant of Start: the walk begins in the root of whatever drive the task is on. *)
Start_Mut(t, p) == [ok |-> TRUE, task |-> [t EXCEPT !.cwd = Root]]

Start(t, p) == [ok |-> TRUE, task |-> chdir_drive(t, p.drive)]

Walked(d, r, n) ==
  IF r.ok /\ CanEnter(d, r.task, n) THEN [ok |-> TRUE, task |-> chdir(d, r.task, n)]
  ELSE [ok |-> FALSE, task |-> r.task]

enter_explorer_dir(d, t, p) ==
  LET walk[i \in 0 .. Len(p.dirs)] == IF i = 0 THEN Start(t, p) ELSE Walked(d, walk[i - 1], p.dirs[i])
  IN  walk[Len(p.dirs)]

DriveItems == {[name |-> d, dir |-> TRUE] : d \in Drives}

(* The path shown becomes that of the place. *)
explorer_update_texts(w) == [w EXCEPT !.shown = w.place, !.failed = FALSE]

(* The list is read again (of drives: with the first, HomeDrive, selected) and the selected name kept if it is still there; when the folder cannot be entered *)
(* the old list and the old path stay on display.                                                          *)
explorer_refresh_list(d, t, w) ==
  LET r == enter_explorer_dir(d, t, w.place)
      list == list_entries(d, r.task)
      read == explorer_update_texts(w)
  IN CASE w.place = AllDrives ->
            Shown(d, t, [read EXCEPT !.list = DriveItems, !.selected = HomeDrive])
       [] w.place # AllDrives /\ ~r.ok -> Result(d, r.task, [w EXCEPT !.failed = TRUE])
       [] OTHER ->
            Shown(d, r.task, [read EXCEPT !.list = list,
                                          !.selected = IF \E i \in list : i.name = @ THEN @ ELSE None])

Item(w) == [name |-> w.selected, dir |-> [name |-> w.selected, dir |-> TRUE] \in w.list]

-----------------------------------------------------------------------------
(* Moving about. *)

explorer_open_desktop_folder(d, t) ==
  explorer_refresh_list(d, t, explorer_history_reset([Closed EXCEPT !.open = TRUE, !.place = Place(HomeDrive, <<HomeFolder>>)]))

(* Into another place: recorded before it is known whether it can be entered. *)
GoTo(d, t, w, p) == explorer_refresh_list(d, t, explorer_history_commit_current([w EXCEPT !.place = p]))

(* A file is shown by the viewer, which only reads it. *)
open_file_viewer(d, t, w) == Result(d, enter_explorer_dir(d, t, w.place).task, w)

explorer_open_selected(d, t, w) ==
  CASE w.place = AllDrives -> GoTo(d, t, w, Place(w.selected, <<>>))
    [] w.place # AllDrives /\ ~Item(w).dir -> open_file_viewer(d, t, w)
    [] w.place # AllDrives /\ Item(w).dir /\ Len(w.place.dirs) >= MaxDepth -> Result(d, t, w)
    [] OTHER -> GoTo(d, t, w, Place(w.place.drive, Append(w.place.dirs, w.selected)))

explorer_go_up(d, t, w) ==
  CASE w.place = AllDrives -> Result(d, t, w)
    [] w.place # AllDrives /\ w.place.dirs = <<>> -> GoTo(d, t, w, AllDrives)
    [] OTHER -> GoTo(d, t, w, Place(w.place.drive, SubSeq(w.place.dirs, 1, Len(w.place.dirs) - 1)))

explorer_go_back(d, t, w) ==
  IF explorer_can_go_back(w) THEN explorer_refresh_list(d, t, explorer_history_restore(w, w.index - 1)) ELSE Result(d, t, w)

explorer_go_forward(d, t, w) ==
  IF explorer_can_go_forward(w) THEN explorer_refresh_list(d, t, explorer_history_restore(w, w.index + 1)) ELSE Result(d, t, w)

-----------------------------------------------------------------------------
(* File operations: walk to the folder, call, read the list again. *)

(* Mutant of Refreshed: the list is not read again. *)
Refreshed_Mut(D, t, w) == {Result(d, t, w) : d \in D}

Refreshed(D, t, w) == {explorer_refresh_list(d, t, w) : d \in D}

(* The calls of the dialogs, by action. *)
FileCall(d, t, action, target, input) ==
  CASE action = "new"    -> mkdir(d, t, input)
    [] action = "rename" -> rename_entry(d, t, target, input)
    [] action = "delete" -> delete_entry(d, t, target)

explorer_exec(d, t, w, action, target, input) ==
  LET r == enter_explorer_dir(d, t, w.place) IN
    IF w.place = AllDrives \/ input = None THEN {Result(d, t, w)}
    ELSE IF ~r.ok THEN {Result(d, r.task, w)}
    ELSE Refreshed(FileCall(d, r.task, action, target, input), r.task, w)

explorer_exec_clip(d, t, w, cut) ==
  LET r == enter_explorer_dir(d, t, w.place) IN
    Result(d, IF r.ok THEN clip_set(d, r.task, w.selected, cut) ELSE r.task, w)

explorer_exec_paste(d, t, w) ==
  LET r == enter_explorer_dir(d, t, w.place) IN
    IF ~r.ok THEN {Result(d, r.task, w)}
    ELSE {explorer_refresh_list(p.disk, p.task, w) : p \in clip_paste(d, r.task)}

-----------------------------------------------------------------------------
(* The program. *)

(* A result r for window i: the lists of the others are out of date when a disk has changed. *)
Apply(i, r) ==
  /\ disk' = r.disk /\ task' = r.task /\ win' = [win EXCEPT ![i] = r.win]
  /\ stale' = (IF r.disk # disk THEN stale \cup ({j \in Slots : win[j].open} \ {i}) ELSE stale)
              \ (IF r.read THEN {i} ELSE {})

Init ==
  /\ disk \in InitDisks
  /\ task = InitTask(HomeDrive)
  /\ win = [i \in Slots |-> Closed]
  /\ overlay = NoOverlay
  /\ stale = {}
  /\ ops = 0

Free(i) == win[i].open /\ overlay = NoOverlay
Count == ops < MaxOps /\ ops' = ops + 1

(* A folder of the desktop is opened in the first free slot. *)
Open ==
  /\ overlay = NoOverlay /\ Count
  /\ \E i \in Slots : /\ ~win[i].open /\ \A j \in Slots : j < i => win[j].open
                      /\ Apply(i, explorer_open_desktop_folder(disk, task))
  /\ UNCHANGED overlay

Select ==
  /\ \E i \in Slots : /\ Free(i)
                      /\ \E x \in win[i].list : win' = [win EXCEPT ![i].selected = x.name]
  /\ UNCHANGED <<disk, task, overlay, stale, ops>>

OpenSelected ==
  /\ Count
  /\ \E i \in Slots : Free(i) /\ win[i].selected # None /\ Apply(i, explorer_open_selected(disk, task, win[i]))
  /\ UNCHANGED overlay

Up == Count /\ (\E i \in Slots : Free(i) /\ Apply(i, explorer_go_up(disk, task, win[i]))) /\ UNCHANGED overlay

Back == Count /\ (\E i \in Slots : Free(i) /\ Apply(i, explorer_go_back(disk, task, win[i]))) /\ UNCHANGED overlay

Forward == Count /\ (\E i \in Slots : Free(i) /\ Apply(i, explorer_go_forward(disk, task, win[i]))) /\ UNCHANGED overlay

explorer_close_window ==
  /\ \E i \in Slots : Free(i) /\ win' = [win EXCEPT ![i] = Closed] /\ stale' = stale \ {i}
  /\ UNCHANGED <<disk, task, overlay, ops>>

(* The actions of the context menu of w. *)
MenuActions(w) ==
  IF w.place = AllDrives THEN (IF w.selected = None THEN {} ELSE {"open"})
  ELSE {"new", "paste"} \cup (IF w.selected = None THEN {} ELSE {"open", "rename", "delete"})
                       \cup (IF w.selected = None \/ Item(w).dir THEN {} ELSE {"cut", "copy"})

ctx_menu_open_for ==
  /\ \E i \in Slots : Free(i) /\ MenuActions(win[i]) # {} /\ overlay' = [NoOverlay EXCEPT !.kind = "menu", !.window = i]
  /\ UNCHANGED <<disk, task, win, stale, ops>>

(* The dialog of an action on the selected item of window i. *)
Dialog(i, action) ==
  [kind |-> IF action = "delete" THEN "confirm" ELSE "prompt", action |-> action, window |-> i,
   target |-> IF action = "new" THEN None ELSE win[i].selected]

(* The tool bar asks for a dialog. *)
fileops_request ==
  /\ \E i \in Slots : \E action \in {"new", "rename", "delete"} \cap MenuActions(win[i]) :
       Free(i) /\ overlay' = Dialog(i, action)
  /\ UNCHANGED <<disk, task, win, stale, ops>>

ctx_menu_execute ==
  /\ overlay.kind = "menu"
  /\ LET i == overlay.window
         w == win[i]
     IN \E action \in MenuActions(w) :
          \/ /\ action \in {"new", "rename", "delete"}
             /\ overlay' = Dialog(i, action)
             /\ UNCHANGED <<disk, task, win, stale, ops>>
          \/ /\ action = "open" /\ Count
             /\ Apply(i, explorer_open_selected(disk, task, w))
             /\ overlay' = NoOverlay
          \/ /\ action \in {"cut", "copy"} /\ Count
             /\ Apply(i, explorer_exec_clip(disk, task, w, action = "cut"))
             /\ overlay' = NoOverlay
          \/ /\ action = "paste" /\ Count
             /\ \E r \in explorer_exec_paste(disk, task, w) : Apply(i, r)
             /\ overlay' = NoOverlay

(* OK or Enter, with any text in a prompt: none, or a name of the kind that is asked for. *)
Inputs ==
  CASE overlay.kind = "confirm"                                -> {overlay.target}
    [] overlay.kind = "prompt" /\ overlay.target \in Files      -> {None} \cup Files
    [] OTHER                                                   -> {None} \cup Folders

modal_confirm ==
  /\ overlay.kind \in {"prompt", "confirm"} /\ Count
  /\ \E input \in Inputs :
       \E r \in explorer_exec(disk, task, win[overlay.window], overlay.action, overlay.target, input) :
         Apply(overlay.window, r)
  /\ overlay' = NoOverlay

(* Cancel, Esc, or a click beside the menu. *)
modal_close == overlay # NoOverlay /\ overlay' = NoOverlay /\ UNCHANGED <<disk, task, win, stale, ops>>

(* Input to other windows of the program. *)
Elsewhere == overlay = NoOverlay /\ UNCHANGED vars

Next ==
  \/ Elsewhere
  \/ Open \/ Select \/ OpenSelected \/ Up \/ Back \/ Forward \/ explorer_close_window
  \/ ctx_menu_open_for \/ fileops_request \/ ctx_menu_execute \/ modal_confirm \/ modal_close

Spec == Init /\ [][Next]_vars

-----------------------------------------------------------------------------
(* Properties. *)

(* The folder at place p of the disks d, as drive and cluster. *)
Located(d, p) == {<<p.drive, c>> : c \in Resolve(d, p.drive, p.dirs)}

(* A window lists what is in its folder and nothing else, and its selected  *)
(* item is one of the list, unless a change made through another window    *)
(* came after it was read, or the folder could not be entered.  Its folder *)
(* is the one the names of its path lead to, each taken as                 *)
(* fat16_match_name takes it.  A folder of more than UI_LISTVIEW_MAX_ITEMS *)
(* entries, "." and ".." counted, is listed only in part.                  *)
ListMatchesFolder ==
  \A i \in Slots : win[i].open /\ i \notin stale /\ ~win[i].failed =>
    LET w == win[i] IN
      /\ w.selected # None => \E x \in w.list : x.name = w.selected
      /\ w.place # AllDrives =>
           \E f \in Located(disk, w.place) :
             LET dir == disk[f[1]][f[2]]
                 items == {[name |-> n, dir |-> dir[n].dir] : n \in Present(dir)}
             IN  w.list \subseteq items /\ (Cardinality(items) <= Room(f[2]) => w.list = items)

(* What a step changes on the disks, and where. *)
ActsThere ==
  LET w == win[overlay.window] IN
    disk' # disk /\ ~w.failed =>
      \A d \in Drives : \A c \in Clusters :
        disk'[d][c] # disk[d][c] =>
          /\ d = w.shown.drive
          /\ \/ <<d, c>> \in Located(disk, w.shown)
             \/ overlay.kind = "menu" /\ task.clip_cut /\ c = task.clip_src

(* An operation confirmed in a window changes only the folder whose path    *)
(* the window shows, whatever the other windows did to the task's current  *)
(* directory and drive - and, when a cut file is pasted, the folder it is  *)
(* looked up in and deleted from.  That is the one at the cluster it was   *)
(* cut in, but on the drive the window shows: the clipboard does not keep  *)
(* the drive, and no other drive is ever touched.                          *)
ActsWhereShown == [][ActsThere]_vars

Contents(d) == {d[x[1]][x[2]][x[3]].at : x \in Drives \X Clusters \X Files} \ {0}

(* What a step takes from the disks. *)
LosesDeleted ==
  \A x \in Contents(disk) \ Contents(disk') :
    /\ overlay.action = "delete"
    /\ \E f \in Located(disk, win[overlay.window].place) :
         LET dir == disk[f[1]][f[2]] IN ~dir[Found(dir, overlay.target)].dir /\ dir[Found(dir, overlay.target)].at = x

(* The contents of a file are lost only by a confirmed deletion: cutting    *)
(* and pasting, also where the copy is refused or the deletion fails, and  *)
(* renaming keep them somewhere.  What a deletion loses is the first file  *)
(* of the folder that fat16_match_name takes for the confirmed name; when  *)
(* that bears a longer extension, it is not the one the dialog showed.     *)
ContentsKept == [][LosesDeleted]_vars

(* What a step does to the history of each window. *)
HistoryOf(i) == INSTANCE Trail WITH Limit <- HistoryMax, trail <- win[i].history, at <- win[i].index, here <- win[i].place
HistoryStep == \A i \in Slots : HistoryOf(i)!Next \/ UNCHANGED <<win[i].history, win[i].index, win[i].place>>

(* Each window's history is the bounded trail of the places it was at.     *)
ImplementsTrail == (\A i \in Slots : HistoryOf(i)!Init) /\ [][HistoryStep]_win
=============================================================================
