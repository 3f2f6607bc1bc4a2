------------------------------ MODULE Desktop ------------------------------
(***************************************************************************)
(* The desktop program, external_apps/apps/win95_demo: the event loop with  *)
(* its choice of what to repaint, the whole mouse and keyboard handling     *)
(* (start menu, task bar, title buttons, dragging and resizing with an      *)
(* outline, desktop item, context menu and dialog), over the window manager *)
(* of module WindowManager.                                                 *)
(*                                                                          *)
(* A mouse event is a sample of position and buttons: motion and a change   *)
(* of a button may arrive in one sample, and the position before it may be  *)
(* any.  The screen is known by the pixels that do not show what they       *)
(* should: a pixel is a column in the row of the frames or in the row of    *)
(* the clients; the task bar and the pixels under the pointer are left out. *)
(* The file manager windows have one file to open (module Explorer has what *)
(* they do with files).                                                     *)
(***************************************************************************)
EXTENDS WindowManager

CONSTANTS MinWidth,   \* WINDOW_MIN_W
          InitWidth,  \* width of a new window
          MaxId,      \* bound: windows ever created
          MaxOps      \* bound: presses of a button and keys

ASSUME WidthAssumption == MinWidth \in 1 .. InitWidth /\ InitWidth \in 1 .. Width

MainId == 1           \* state.window_id; kept after the window is closed
Rows == {"frame", "client"}
Pixels == (0 .. (Width - 1)) \X Rows
MenuPixels == {0} \X Rows
ItemPixel == <<Width - 1, "client">>

(* Positions: on the desktop, or on the task bar (column Width). *)
TaskParts == {"start", "task1", "task2", "task3"}
Positions == ((0 .. (Width - 1)) \X Parts) \cup ({Width} \X TaskParts)

VARIABLES wm,         \* state.wm
          st,         \* the rest of demo_state_t
          down,       \* state.mouse: the left button
          stale,      \* pixels that do not show what they should
          running,
          missed,     \* history: a quick repaint was chosen for more than a motion
          swallowed,  \* history: the left button went up over an overlay
          strayed,    \* history: controls left pressed when it went up over another or over a close box
          ops

vars == <<wm, st, down, stale, running, missed, swallowed, strayed, ops>>

NoButton == <<0, "none">>

InitSt == [start_open |-> FALSE, start_pressed |-> FALSE, item_pressed |-> "none", item_hot |-> "none",
           task_pressed |-> 0, title_pressed |-> NoButton,
           dragging |-> 0, offset |-> 0,
           resizing |-> 0, edge |-> "none", start_x |-> 0, start_bounds |-> EmptyRect,
           preview |-> EmptyRect, hover |-> NoButton,
           selected |-> FALSE, last_item |-> FALSE, last_title |-> 0,
           mouse_pressed |-> NoControl, overlay |-> "none", overlay_window |-> 0, viewer |-> 0]

-----------------------------------------------------------------------------
(* Geometry. *)

(* current_window_rect and window_rect_by_id: nothing for a minimised window. *)
window_rect_by_id(w, id) ==
  LET v == find_window(w, id) IN IF v.minimized THEN EmptyRect ELSE v.bounds

Explorers(w) == {i \in Used(w) : w.win[i].kind = "explorer"}
IsExplorer(w, id) == find_window(w, id).kind = "explorer"

(* The hull of all file manager windows, minimised ones included. *)
explorer_window_rect(w) ==
  LET B == {w.win[i].bounds : i \in Explorers(w)}
      left == Min({b.x : b \in B})
  IN IF B = {} THEN EmptyRect ELSE Rect(left, Max({b.x + b.w : b \in B}) - left)

current_drag_preview_rect(s) == IF s.dragging = 0 /\ s.resizing = 0 THEN EmptyRect ELSE s.preview

(* The windows of the task bar, in the order of their slots. *)
taskbar_button_hit_test(w, part) ==
  LET n == [task1 |-> 1, task2 |-> 2, task3 |-> 3]
      nth == {i \in Used(w) : part \in DOMAIN n /\ Cardinality({j \in Used(w) : j <= i}) = n[part]}
  IN IF nth = {} THEN 0 ELSE w.win[Max(nth)].id

start_menu_hit_test(s, e) ==
  IF s.start_open /\ e.x = 0 /\ e.part \in {"item", "exit"} THEN e.part ELSE "none"

OverMenu(s, e) == s.start_open /\ e.x = 0

OverItem(e) == e.x = Width - 1 /\ e.part = "item"

title_button_hit_action(w, id, e) ==
  IF e.x \in Columns(find_window(w, id).bounds) /\ e.part \in {"minimize", "maximize"} THEN e.part ELSE "none"

window_resize_hit_test(w, id, x, part) ==
  LET v == find_window(w, id) IN
    CASE ~Exists(w, id) \/ v.minimized \/ v.maximized       -> "none"
      [] part = "left" /\ x = v.bounds.x                    -> "left"
      [] part = "right" /\ x = v.bounds.x + v.bounds.w - 1  -> "right"
      [] OTHER                                              -> "none"

clamp_rect_to_desktop(r) ==
  LET x == IF r.x < 0 THEN 0 ELSE r.x
      x2 == IF x + r.w > Width THEN Width - r.w ELSE x
  IN Rect(IF x2 < 0 THEN 0 ELSE x2, r.w)

clamp_resize_preview(r, edge) ==
  LET wide == IF r.w < MinWidth THEN Rect(IF edge = "left" THEN r.x + r.w - MinWidth ELSE r.x, MinWidth) ELSE r
      left == IF wide.x < 0 THEN Rect(0, wide.w + wide.x) ELSE wide
      right == IF left.x + left.w > Width THEN Rect(left.x, Width - left.x) ELSE left
  IN IF right.w < MinWidth THEN Rect(right.x, MinWidth) ELSE right

resize_preview_for_mouse(s, e) ==
  LET dx == e.x - s.start_x
      b == s.start_bounds
  IN clamp_resize_preview(IF s.edge = "left" THEN Rect(b.x + dx, b.w - dx) ELSE Rect(b.x, b.w + dx), s.edge)

-----------------------------------------------------------------------------
(* The picture. *)

(* What is to be seen at pixel p, below an outline. *)
Look(w, s, p) ==
  LET id == top_window_at(w, p[1])
      v == find_window(w, id)
  IN CASE s.start_open /\ p \in MenuPixels -> <<"menu", s.item_hot, s.item_pressed>>
       [] ~(s.start_open /\ p \in MenuPixels) /\ id = 0 -> <<"desktop", p = ItemPixel /\ s.selected>>
       [] ~(s.start_open /\ p \in MenuPixels) /\ id # 0 /\ p[2] = "frame" -> <<"frame", id, w.active = id>>
       [] OTHER -> <<"client", id, {c \in w.pressed : c[1] = id}, {c \in w.open : c[1] = id},
                     IF v.kind = "main" THEN w.value ELSE 0, IF w.focus[1] = id THEN w.focus ELSE NoControl, v.marked>>

Same(a, b) == a[1] = b[1] /\ a = b

(* Pixels drawn when the columns in C, or only the desktop item, are dirty: an open start menu is redrawn as a whole. *)
redraw_region(s, C, item) ==
  LET P == {p \in Pixels : p[1] \in C} \cup (IF item THEN {ItemPixel} ELSE {}) IN
    IF s.start_open /\ P \cap MenuPixels # {} THEN P \cup MenuPixels ELSE P

(* The pixels that show something else than they should after w and s became w2 and s2 and the pixels in P were    *)
(* painted: an outline is drawn over what is there, and only painting removes it; a motion does not draw it.       *)
NowStale(w, s, w2, s2, P, outlined) ==
  LET old == Columns(current_drag_preview_rect(s))
      new == Columns(current_drag_preview_rect(s2))
  IN {p \in Pixels \ P : \/ p \in stale
                         \/ p[1] \in old \ new
                         \/ p[1] \in new \ old /\ ~outlined
                         \/ <<w, s>> # <<w2, s2>> /\ ~Same(Look(w, s, p), Look(w2, s2, p))}

-----------------------------------------------------------------------------
(* Windows of the program. *)

dismiss_start_menu(s) ==
  [s EXCEPT !.start_open = FALSE, !.start_pressed = FALSE, !.item_pressed = "none", !.item_hot = "none"]

open_start_menu(s) == [dismiss_start_menu(s) EXCEPT !.start_open = TRUE]

explorer_open_desktop_folder(w) ==
  LET n == create_window(w, "explorer", Rect(Width - InitWidth, InitWidth)) IN
    IF n = w THEN set_focus_control(w, NoControl)
    ELSE set_focus_control(bring_to_front(n, w.next), <<w.next, "value">>)

(* The steps of an event: what it has changed so far, and whether the handler has returned. *)
Begin(w, s) == [wm |-> w, st |-> s, layout |-> FALSE, consumed |-> FALSE, done |-> FALSE, exit |-> FALSE]
Bump(r) == [r EXCEPT !.layout = TRUE]
Consume(r) == [r EXCEPT !.consumed = TRUE]
Return(r) == [r EXCEPT !.done = TRUE]

open_file_viewer(r) ==
  LET old == r.st.viewer
      made == create_window(r.wm, "viewer", Rect((Width - InitWidth) \div 2, InitWidth))
  IN Bump(IF Exists(r.wm, old) THEN [r EXCEPT !.wm = unminimize_window(@, old)]
          ELSE IF made = r.wm THEN [r EXCEPT !.st.viewer = 0]
          ELSE [r EXCEPT !.wm = bring_to_front(made, r.wm.next), !.st.viewer = r.wm.next])

explorer_select_item(r, id) ==
  Bump([r EXCEPT !.wm = SetWindow(@, [find_window(@, id) EXCEPT !.marked = TRUE])])

explorer_open_selected(r, id) == IF find_window(r.wm, id).marked THEN open_file_viewer(r) ELSE r

close_main_window(r) == [r EXCEPT !.st = dismiss_start_menu(@), !.wm = close_window(@, MainId)]

modal_open(r, id) == Bump([r EXCEPT !.st.overlay = "modal", !.st.overlay_window = id])

(* The buttons that do something: Cancel of the main window, New folder of a file manager window. *)
handle_activated_control(r, c) ==
  CASE c = <<MainId, "button">>                         -> close_main_window(r)
    [] c[2] = "button" /\ IsExplorer(r.wm, c[1])         -> modal_open(r, c[1])
    [] OTHER                                            -> r

clear_window_interaction_state(s, id) ==
  [s EXCEPT !.dragging = IF @ = id THEN 0 ELSE @,
            !.resizing = IF @ = id THEN 0 ELSE @,
            !.edge = IF s.resizing = id THEN "none" ELSE @,
            !.start_bounds = IF s.resizing = id THEN EmptyRect ELSE @,
            !.hover = IF @[1] = id THEN NoButton ELSE @,
            !.title_pressed = IF @[1] = id THEN NoButton ELSE @]

activate_taskbar_window(r, id) ==
  IF ~Exists(r.wm, id) THEN r
  ELSE Bump(IF find_window(r.wm, id).minimized \/ r.wm.active # id
            THEN [r EXCEPT !.wm = unminimize_window(@, id)] ELSE [r EXCEPT !.wm = minimize_window(@, id)])

activate_title_button(r, id, action) ==
  Bump(IF action = "minimize" THEN [r EXCEPT !.wm = minimize_window(@, id)]
       ELSE [r EXCEPT !.wm = toggle_maximize_window(@, id, DesktopRect)])

-----------------------------------------------------------------------------
(* handle_mouse, in the order of the code. e is the event. *)

modal_handle_mouse(r, e) ==
  IF e.press /\ e.pick \in {"ok", "cancel"} THEN Bump([r EXCEPT !.st.overlay = "none"]) ELSE r

ctx_menu_handle_mouse(r, e) ==
  LET id == r.st.overlay_window
      closed == Bump([r EXCEPT !.st.overlay = "none"])
  IN CASE ~e.press                -> r
       [] e.press /\ e.pick = "ok" -> explorer_open_selected(closed, id)
       [] e.press /\ e.pick = "new" -> modal_open(closed, id)
       [] OTHER                   -> closed

(* A right click on a file manager window selects the item under it and opens the context menu. *)
RightPress(r, e) ==
  LET id == top_window_at(r.wm, e.x)
      front == [r EXCEPT !.wm = bring_to_front(@, id)]
      picked == IF e.part = "value" THEN explorer_select_item(front, id) ELSE front
  IN IF e.right /\ IsExplorer(r.wm, id)
     THEN Return(Bump([picked EXCEPT !.st.overlay = "menu", !.st.overlay_window = id])) ELSE r

update_resize_hover(r, e) ==
  LET id == top_window_at(r.wm, e.x)
      edge == window_resize_hit_test(r.wm, id, e.x, e.part)
      h == IF e.x = Width \/ OverMenu(r.st, e) \/ edge = "none" THEN NoButton ELSE <<id, edge>>
  IN IF r.st.resizing # 0 \/ r.st.dragging # 0 \/ h = r.st.hover THEN r
     ELSE Bump([r EXCEPT !.st.hover = h])

HoverItem(r, e) == [r EXCEPT !.st.item_hot = start_menu_hit_test(r.st, e)]

PressTaskbar(r, e) ==
  LET id == taskbar_button_hit_test(r.wm, e.part) IN
    CASE e.press /\ e.part = "start" ->
           Consume([r EXCEPT !.st.start_pressed = TRUE, !.st.task_pressed = 0, !.st.item_pressed = "none"])
      [] e.press /\ id # 0 ->
           Consume([r EXCEPT !.st = [dismiss_start_menu(@) EXCEPT !.task_pressed = id]])
      [] OTHER -> r

ReleaseTaskbar(r, e) ==
  LET id == r.st.task_pressed
      n == Consume([r EXCEPT !.st.task_pressed = 0])
  IN IF ~e.release \/ id = 0 THEN r
     ELSE IF taskbar_button_hit_test(r.wm, e.part) = id THEN Return(activate_taskbar_window(n, id)) ELSE n

PressFrame(r, e) ==
  LET id == top_window_at(r.wm, e.x)
      edge == window_resize_hit_test(r.wm, id, e.x, e.part)
      action == title_button_hit_action(r.wm, id, e)
      bounds == find_window(r.wm, id).bounds
      front == Consume(Bump([r EXCEPT !.wm = bring_to_front(@, id), !.st = dismiss_start_menu(@)]))
  IN CASE ~e.press \/ r.consumed -> r
       [] e.press /\ ~r.consumed /\ edge # "none" ->
            [front EXCEPT !.st.resizing = id, !.st.edge = edge, !.st.hover = <<id, edge>>, !.st.start_x = e.x,
                          !.st.start_bounds = bounds, !.st.preview = bounds]
       [] e.press /\ ~r.consumed /\ edge = "none" /\ action # "none" ->
            [front EXCEPT !.st.title_pressed = <<id, action>>]
       [] OTHER -> r

ReleaseFrame(r, e) ==
  LET b == r.st.title_pressed
      n == Consume([r EXCEPT !.st.title_pressed = NoButton])
  IN IF r.done \/ ~e.release \/ b = NoButton THEN r
     ELSE IF title_button_hit_action(r.wm, b[1], e) = b[2]
          THEN Return(activate_title_button(n, b[1], b[2])) ELSE n

PressMenu(r, e) ==
  CASE r.done \/ ~e.press \/ r.consumed -> r
    [] OverMenu(r.st, e) /\ e.press /\ ~r.consumed ->
         Consume([r EXCEPT !.st.item_pressed = start_menu_hit_test(r.st, e), !.st.start_pressed = FALSE])
    [] OTHER -> IF r.st.start_open THEN [r EXCEPT !.st = dismiss_start_menu(@)] ELSE r

ReleaseMenu(r, e) ==
  LET hit == start_menu_hit_test(r.st, e)
      over == OverMenu(r.st, e)
      up == [r EXCEPT !.st.start_pressed = FALSE]
      done == Consume([up EXCEPT !.st.item_pressed = "none"])
  IN CASE r.done \/ ~e.release -> r
       [] ~r.done /\ e.release /\ r.st.start_pressed /\ e.part = "start" ->
            Return([r EXCEPT !.st = IF r.st.start_open THEN dismiss_start_menu(@) ELSE open_start_menu(@)])
       [] OTHER ->
            IF r.st.item_pressed # "none"
            THEN IF over /\ r.st.item_pressed = hit
                 THEN Return([done EXCEPT !.st = dismiss_start_menu(@), !.exit = hit = "exit"]) ELSE done
            ELSE IF over THEN Consume(up) ELSE up

(* A press on the desktop: the item is selected, a second quick click opens it. *)
PressDesktop(r, e) ==
  LET again == r.st.last_item /\ e.quick
      chosen == [r EXCEPT !.st = [dismiss_start_menu(@) EXCEPT !.selected = TRUE, !.last_item = ~again]]
      inMain == e.x \in Columns(window_rect_by_id(r.wm, MainId))
  IN CASE ~e.press -> r
       [] e.press /\ top_window_at(r.wm, e.x) = 0 /\ OverItem(e) ->
            Return(IF again THEN Bump([chosen EXCEPT !.wm = explorer_open_desktop_folder(@)]) ELSE chosen)
       [] OTHER -> IF inMain THEN r ELSE [r EXCEPT !.st.selected = FALSE]

(* The dispatch, with the snapshot of popups and pressed buttons around it. *)
Dispatch(r, o, e) ==
  LET seen == (r.wm.open = {}) # (o.wm.open = {}) \/ (r.wm.pressed = {}) # (o.wm.pressed = {})
  IN [r EXCEPT !.wm = o.wm,
               !.layout = @ \/ seen \/ o.control # NoControl \/ o.activated,
               !.st.mouse_pressed = IF ~e.press THEN @ ELSE o.control]

(* A press on a title: a second quick click toggles the size, else a drag begins. *)
PressTitle(r, o, e) ==
  LET v == find_window(r.wm, o.window)
      clicked == [r EXCEPT !.st.last_title = o.window]
  IN CASE ~(Exists(r.wm, o.window) /\ e.press /\ o.control = NoControl /\ ~o.close /\ e.part = "title") -> r
       [] r.st.last_title = o.window /\ e.quick /\ e.press ->
            Return(Bump([r EXCEPT !.wm = toggle_maximize_window(@, o.window, DesktopRect), !.st.last_title = 0]))
       [] OTHER ->
            IF v.maximized THEN clicked
            ELSE [clicked EXCEPT !.st.dragging = o.window, !.st.offset = e.x - v.bounds.x, !.st.preview = v.bounds]

(* Mutant of Drag: the sample that releases the button still moves the outline. *)
Drag_Mut(r, e) ==
  IF r.st.dragging # 0 /\ Exists(r.wm, r.st.dragging)
  THEN Bump([r EXCEPT !.st.preview = clamp_rect_to_desktop(Rect(e.x - r.st.offset, @.w))]) ELSE r

Drag(r, e) ==
  LET id == r.st.dragging
      v == find_window(r.wm, id)
  IN CASE id = 0 -> r
       [] id # 0 /\ e.left /\ Exists(r.wm, id) ->
            Bump([r EXCEPT !.st.preview = clamp_rect_to_desktop(Rect(e.x - r.st.offset, @.w))])
       [] id # 0 /\ (~Exists(r.wm, id) \/ v.minimized) -> [r EXCEPT !.st.dragging = 0, !.st.preview = EmptyRect]
       [] OTHER -> r

Resize(r, e) ==
  LET id == r.st.resizing IN
    IF id = 0 \/ ~e.left THEN r
    ELSE IF Exists(r.wm, id) /\ ~find_window(r.wm, id).minimized
         THEN Bump([r EXCEPT !.st.preview = resize_preview_for_mouse(r.st, e)])
         ELSE [r EXCEPT !.st.resizing = 0, !.st.edge = "none", !.st.start_bounds = EmptyRect, !.st.preview = EmptyRect]

(* A press in the list selects the file, a second quick click opens it. *)
PressList(r, o, e) ==
  LET id == o.control[1]
      v == find_window(r.wm, id)
      again == v.clicked /\ e.quick
      picked == explorer_select_item([r EXCEPT !.wm = SetWindow(@, [v EXCEPT !.clicked = ~again])], id)
  IN IF e.press /\ TypeOf(r.wm, o.control) = "listview"
     THEN IF again THEN explorer_open_selected(picked, id) ELSE picked
     ELSE r

(* A release puts the window where the outline is, and ends everything held. *)
Commit(r, e) ==
  LET d == r.st.dragging
      z == r.st.resizing
      moved == IF Exists(r.wm, d) THEN SetWindow(r.wm, [find_window(r.wm, d) EXCEPT !.bounds = r.st.preview]) ELSE r.wm
      sized == IF Exists(moved, z)
               THEN SetWindow(moved, [find_window(moved, z) EXCEPT !.bounds = r.st.preview, !.restore = r.st.preview])
               ELSE moved
  IN IF ~e.release THEN r
     ELSE [r EXCEPT !.wm = sized, !.layout = @ \/ Exists(r.wm, d) \/ Exists(r.wm, z),
                    !.st.dragging = 0, !.st.resizing = 0, !.st.edge = "none",
                    !.st.start_bounds = EmptyRect, !.st.preview = EmptyRect, !.st.mouse_pressed = NoControl]

(* What the event activates: a window's close button, or a control, also by the release inside its bounds *)
(* when the window manager did not see the press.                                                        *)
Activate(r, o, e, held) ==
  LET inside == e.release /\ TypeOf(r.wm, held) # "none" /\ e.part = held[2]
                /\ e.x \in Columns(find_window(r.wm, held[1]).bounds)
      act == o.activated \/ inside
      c == IF ~o.activated /\ inside THEN held ELSE o.control
      cleared == [r EXCEPT !.st = [clear_window_interaction_state(@, o.window) EXCEPT !.preview = EmptyRect]]
  IN CASE o.close /\ act ->
            IF o.window = MainId THEN close_main_window(cleared)
            ELSE Bump([cleared EXCEPT !.wm = close_window(@, o.window),
                                      !.st.viewer = IF @ = o.window THEN 0 ELSE @])
       [] ~o.close /\ act /\ c # NoControl -> handle_activated_control(r, c)
       [] OTHER -> r

AfterChrome(r, e) ==
  LET a == PressDesktop(r, e)
      o == dispatch_mouse(a.wm, e)
      b == Dispatch(a, o, e)
      c == PressTitle(b, o, e)
      f == Commit(PressList(Resize(Drag(c, e), e), o, e), e)
  IN IF r.done \/ r.consumed THEN r ELSE IF a.done THEN a ELSE IF c.done THEN c
     ELSE Activate(f, o, e, b.st.mouse_pressed)

Chrome(r, e) ==
  LET a == ReleaseTaskbar(PressTaskbar(update_resize_hover(HoverItem(r, e), e), e), e)
  IN IF a.done THEN a ELSE ReleaseMenu(PressMenu(ReleaseFrame(PressFrame(a, e), e), e), e)

handle_mouse(w, s, e) ==
  LET r == Begin(w, s)
      right == RightPress(r, e)
  IN CASE s.overlay = "modal" -> modal_handle_mouse(r, e)
       [] s.overlay = "menu"  -> ctx_menu_handle_mouse(r, e)
       [] OTHER               -> IF right.done THEN right ELSE AfterChrome(Chrome(r, e), e)

-----------------------------------------------------------------------------
(* The event loop. *)

TitleParts == {"title", "minimize", "maximize", "close"}

(* What the repainting tells apart of a part. *)
Zone(part) ==
  CASE part \in TitleParts -> "title" [] part \in {"left", "right"} -> part [] part \in TaskParts -> "bar"
    [] OTHER -> "client"

Spot(x, part) == [x |-> x, zone |-> Zone(part)]

cursor_touches_title_bar(w, pos) ==
  pos.zone = "title" /\ \E i \in Shown(w) : pos.x \in Columns(w.win[i].bounds)

(* The region of the first window, by slot, under the pointer. *)
cursor_window_region(w, pos) ==
  LET under == {i \in Shown(w) : pos.x \in Columns(w.win[i].bounds)}
      v == w.win[Min(under)]
  IN CASE under = {} -> "desktop"
       [] under # {} /\ window_resize_hit_test(w, v.id, pos.x, pos.zone) # "none" -> "border"
       [] OTHER -> IF pos.zone = "title" THEN "title" ELSE "client"

cursor_crosses_window_chrome(w, a, b) ==
  LET p == cursor_window_region(w, a)
      q == cursor_window_region(w, b)
  IN p # q /\ {p, q} \cap {"title", "border"} # {}

MenuState(s) == <<s.start_open, s.start_pressed, s.item_pressed, s.item_hot>>

(* The three rectangles the loop compares: main window, file manager windows, active window. *)
Outlines(w) == <<window_rect_by_id(w, MainId), explorer_window_rect(w), window_rect_by_id(w, w.active)>>

(* Mutant of DirtyColumns: the windows are repainted where they are, not where they were. *)
DirtyColumns_Mut(old, new) == UNION {Columns(new[i]) : i \in 1 .. 3}

DirtyColumns(old, new) == UNION {Columns(old[i]) \cup Columns(new[i]) : i \in 1 .. 3}

(* What the loop compares after an event that led to r. *)
Compared(r) ==
  LET old == Outlines(wm)
      new == IF r.wm = wm THEN old ELSE Outlines(r.wm)
  IN [main |-> old[1] # new[1],
      drag |-> current_drag_preview_rect(st) # current_drag_preview_rect(r.st),
      menu |-> MenuState(st) # MenuState(r.st),
      overlay |-> st.overlay # "none" \/ r.st.overlay # "none",
      item |-> st.selected # r.st.selected,
      changed |-> r.layout \/ old # new \/ wm.active # r.wm.active,
      dirty |-> DirtyColumns(old, new)]

(* A motion repaints only under the pointer; it came from spot from. *)
OnlyMotion(r, c, from, to) ==
  /\ ~c.overlay /\ ~c.main /\ ~c.drag /\ ~c.menu
  /\ ~cursor_touches_title_bar(r.wm, from) /\ ~cursor_touches_title_bar(r.wm, to)
  /\ ~cursor_crosses_window_chrome(r.wm, from, to)

OnlyDrag(c) == ~c.overlay /\ c.drag /\ ~c.main /\ ~c.menu

Paint(how, columns, item) == [how |-> how, columns |-> columns, item |-> item]

(* How the loop repaints: for a sample that moved, and for one that did not. *)
AfterMotion(r, c, from, to) ==
  IF OnlyMotion(r, c, from, to) THEN Paint("motion", {}, FALSE)
  ELSE IF OnlyDrag(c) THEN Paint("drag", Columns(current_drag_preview_rect(st)) \cup Columns(r.st.preview), FALSE)
  ELSE Paint("full", {}, FALSE)

AtRest(c) ==
  CASE c.overlay \/ c.menu \/ c.drag \/ (c.changed /\ c.dirty = {} /\ ~c.item) -> Paint("full", {}, FALSE)
    [] OTHER -> Paint("dirty", IF c.changed THEN c.dirty ELSE {}, c.item)

(* Where the pointer may have been: what matters is whether it touched a title on the way. *)
Origins(e) == {Spot(e.x, e.part)} \cup {Spot(x, "title") : x \in 0 .. (Width - 1)}

Repaints(r, c, e) ==
  {AtRest(c)} \cup (IF c.overlay THEN {} ELSE {AfterMotion(r, c, from, Spot(e.x, e.part)) : from \in Origins(e)})

ScrollDrag(e) == e.left /\ TypeOf(wm, wm.pressed_control) = "scrollbar"

HeldNothing(w, s, left) ==
  /\ s.dragging = 0 /\ s.resizing = 0 /\ s.preview = EmptyRect
  /\ s.task_pressed = 0 /\ s.title_pressed = NoButton /\ ~s.start_pressed /\ s.item_pressed = "none"
  /\ s.mouse_pressed = NoControl
  /\ w.pressed_window = 0 /\ w.pressed_control = NoControl /\ ~w.pressed_hit_close
  /\ w.pressed \subseteq left

(* Where ui_wm_dispatch_mouse returns with the release of one control, or of the close box. *)
OverSomething(e) ==
  LET top == top_window_at(wm, e.x)
  IN  top # 0 /\ (e.part = "close" \/ hit_test_control(wm, top, e.part) # NoControl)

(* Where a session begins: after app_main has set up, with the desktop item opened, and with a file of it opened *)
(* as well; so that the bound is spent on what follows.                                                        *)
AtStart == Begin(set_focus_control(create_window(Init_wm, "main", Rect(0, InitWidth)), <<MainId, "value">>), InitSt)
WithFolder == [AtStart EXCEPT !.wm = explorer_open_desktop_folder(@), !.st.selected = TRUE]
WithFile == LET id == WithFolder.wm.active IN explorer_open_selected(explorer_select_item(WithFolder, id), id)

Init ==
  /\ \E r \in {AtStart, WithFolder, WithFile} : wm = r.wm /\ st = r.st
  /\ down = FALSE
  /\ stale = {}
  /\ running = TRUE /\ missed = FALSE /\ swallowed = FALSE /\ strayed = {} /\ ops = 0

(* A sample of the mouse, handled and painted. *)
MouseEvent(e) ==
  \E r \in {handle_mouse(wm, st, e)} : \E c \in {Compared(r)} : \E paint \in Repaints(r, c, e) :
     /\ r.wm.next <= MaxId + 1
     /\ ops' = IF e.press \/ e.right THEN ops + 1 ELSE ops
     /\ wm' = r.wm /\ st' = r.st
     /\ down' = e.left
     /\ running' = ~r.exit
     /\ stale' = IF r.exit \/ paint.how = "full" THEN {}
                 ELSE NowStale(wm, st, r.wm, r.st, redraw_region(r.st, paint.columns, paint.item), paint.how # "motion")
     /\ missed' = (~r.exit /\ paint.how # "full"
                   /\ (missed \/ (paint.how \in {"motion", "drag"} /\ (e.press \/ e.release \/ ScrollDrag(e)))))
     /\ strayed' = IF e.release /\ OverSomething(e) THEN r.wm.pressed ELSE strayed \cap r.wm.pressed
     /\ swallowed' = (~HeldNothing(r.wm, r.st, strayed')
                      /\ (swallowed \/ (e.release /\ st.overlay # "none")))

(* Where a sample may be: what the position means to an overlay is in pick. *)
Places == IF st.overlay = "none" THEN Positions ELSE {<<0, "title">>}

(* A sample without a change of the left button depends on the zone, on the item of the start menu if that is    *)
(* open and, when the right button goes down, on the list.                                                      *)
MotionParts == {"title", "left", "right", "item", "start", "value"} \cup (IF st.start_open THEN {"exit"} ELSE {})

(* The samples at pos. val is read only by a scroll bar, quick only where a second click counts, pick only in an *)
(* overlay, right only over a file manager window; the two buttons do not change in one sample.                *)
Samples(pos, now) ==
  LET press == now /\ ~down
      explorer == IsExplorer(wm, top_window_at(wm, pos[1]))
  IN [x : {pos[1]}, part : {pos[2]}, left : {now}, press : {press}, release : {~now /\ down},
      right : IF now = down /\ explorer /\ st.overlay = "none" /\ ops < MaxOps THEN BOOLEAN ELSE {FALSE},
      quick : IF press /\ pos[2] \in {"title", "item", "value"} THEN BOOLEAN ELSE {FALSE},
      val   : IF now /\ "value" \in {pos[2], wm.pressed_control[2]} THEN 0 .. MaxValue ELSE {wm.value},
      pick  : IF press /\ st.overlay # "none" THEN {"ok", "cancel", "new"} ELSE {"cancel"}]

Press == running /\ ~down /\ ops < MaxOps /\ \E pos \in Places : \E e \in Samples(pos, TRUE) : MouseEvent(e)

Release == running /\ down /\ \E pos \in Places : \E e \in Samples(pos, FALSE) : MouseEvent(e)

Motion ==
  running /\ \E pos \in Places : pos[2] \in MotionParts /\ \E e \in Samples(pos, down) : MouseEvent(e)

cycle_focus(w) ==
  set_focus_control(w, <<MainId, IF w.focus = <<MainId, "popup">> THEN "value" ELSE "popup">>)

(* The navigation buttons of a file manager window count as one stop, "other". *)
cycle_explorer_focus(w) ==
  set_focus_control(w, <<w.active, IF w.focus = <<w.active, "value">> THEN "other" ELSE "value">>)

handle_keyboard(r, k) ==
  LET a == r.wm.active
      inExplorer == IsExplorer(r.wm, a)
  IN CASE r.st.overlay = "modal" ->
            IF k \in {"esc", "enter"} THEN Bump([r EXCEPT !.st.overlay = "none"]) ELSE r
       [] r.st.overlay = "menu" ->
            IF k = "esc" THEN Bump([r EXCEPT !.st.overlay = "none"]) ELSE r
       [] r.st.overlay = "none" /\ k = "esc" -> [r EXCEPT !.exit = TRUE]
       [] r.st.overlay = "none" /\ k = "tab" ->
            [r EXCEPT !.wm = IF inExplorer THEN cycle_explorer_focus(@) ELSE cycle_focus(@)]
       [] r.st.overlay = "none" /\ inExplorer /\ k \in {"up", "down"} -> explorer_select_item(r, a)
       [] r.st.overlay = "none" /\ inExplorer /\ k = "enter" -> explorer_open_selected(r, a)
       [] OTHER -> IF k \in {"enter", "space"} /\ r.wm.focus = <<MainId, "button">>
                   THEN close_main_window(r)
                   ELSE [r EXCEPT !.wm = dispatch_key(@, IF k = "space" THEN "enter" ELSE k)]

(* A key: the whole screen is painted after it. *)
Key ==
  /\ running /\ ops < MaxOps
  /\ \E k \in {"esc", "tab", "enter", "space", "up", "down"} :
       LET r == handle_keyboard(Begin(wm, st), k) IN
         /\ r.wm.next <= MaxId + 1
         /\ ops' = ops + 1
         /\ wm' = r.wm /\ st' = r.st
         /\ running' = ~r.exit
         /\ stale' = {}
         /\ missed' = FALSE
         /\ strayed' = strayed \cap r.wm.pressed
         /\ UNCHANGED <<down, swallowed>>

(* After Back to DOS or Esc the program has ended. *)
Ended == ~running /\ UNCHANGED vars

Next == Press \/ Release \/ Motion \/ Key \/ Ended

Spec == Init /\ [][Next]_vars

-----------------------------------------------------------------------------
(* Properties. *)

(* The display shows the windows, popups, outline and desktop as they are,  *)
(* although most events repaint only some columns - unless a quick repaint  *)
(* was chosen for a sample that also changed a button or moved a scroll     *)
(* bar, and nothing was repainted as a whole since.                         *)
ScreenIsCurrent == running /\ ~missed => stale = {}

(* The active window is the topmost of those that are shown, there is one   *)
(* whenever any is shown, and no two windows have the same height in the    *)
(* stack.                                                                   *)
ActiveOnTop ==
  /\ wm.active = top_visible_window_id(wm)
  /\ \A i, j \in Used(wm) : wm.win[i].z = wm.win[j].z => i = j

(* With the left button up nothing is held: no drag, resize, or pressed     *)
(* button goes on, unless the button went up over a context menu or dialog. *)
(* Only a control may stay drawn as pressed, when the button went up over   *)
(* another control or a close box: ui_wm_dispatch_mouse then lets go of     *)
(* that one alone.                                                          *)
HoldEndsWithButton == ~down /\ ~swallowed => HeldNothing(wm, st, strayed)

OnDesktop ==
  \A i \in Used(wm) : LET b == wm.win[i].bounds IN b.x >= 0 /\ b.x + b.w <= Width /\ b.w >= MinWidth

(* A window moves only to where its outline was shown, to the whole desktop *)
(* or back to where it was before that; and it stays on the desktop and     *)
(* keeps the least width, wherever the pointer has dragged its outline.     *)
MovesAsShown ==
  [][/\ OnDesktop'
     /\ \A i \in Used(wm) \cap Used(wm') :
          LET v == wm.win[i]
              n == wm'.win[i]
          IN v.id = n.id /\ v.bounds # n.bounds =>
               \/ v.id \in {st.dragging, st.resizing} /\ n.bounds = st.preview
               \/ v.maximized # n.maximized /\ n.bounds \in {DesktopRect, v.restore}]_vars
=============================================================================
