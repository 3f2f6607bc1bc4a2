---------------------------- MODULE WindowManager ----------------------------
(***************************************************************************)
(* The window manager of the user interface toolkit,                        *)
(* external_apps/runtime/ui/ui_wm.h, as operators on its state wm: the      *)
(* table of windows, stacking, activation, focus, popups, and the           *)
(* dispatching of mouse events with what is held pressed between them.      *)
(*                                                                          *)
(* All windows span the same heights and differ in their columns, so a      *)
(* position is a column and the part of a window that lies at its height:   *)
(* the title, one of the three title buttons, an edge, or a control.  A     *)
(* control is named by its window and its part.                             *)
(***************************************************************************)
EXTENDS Integers, Sequences, FiniteSets, FiniteSetsExt

CONSTANTS Width,       \* columns of the desktop
          MaxWindows,  \* UI_WM_MAX_WINDOWS
          MaxValue     \* max_value of a scroll bar

ASSUME DesktopAssumption == Width \in Nat \ {0} /\ MaxWindows \in Nat \ {0} /\ MaxValue \in Nat

ControlParts == {"button", "value", "popup"}
Parts == ControlParts \cup {"title", "minimize", "maximize", "close", "left", "right", "item", "exit"}

ControlType == [main     |-> [button |-> "button", value |-> "scrollbar", popup |-> "dropdown"],
                explorer |-> [button |-> "button", value |-> "listview", popup |-> "none"],
                viewer   |-> [button |-> "none", value |-> "none", popup |-> "none"]]

NoControl == <<0, "none">>
Rect(x, w) == [x |-> x, w |-> w]
EmptyRect == Rect(0, 0)
Columns(r) == r.x .. (r.x + r.w - 1)
DesktopRect == Rect(0, Width)

-----------------------------------------------------------------------------
(* The table of windows: a slot with id 0 is free. *)

FreeSlot == [id |-> 0, kind |-> "none", bounds |-> EmptyRect, restore |-> EmptyRect,
             minimized |-> FALSE, maximized |-> FALSE, z |-> 0, marked |-> FALSE, clicked |-> FALSE]

Used(wm) == {i \in DOMAIN wm.win : wm.win[i].id # 0}
Shown(wm) == {i \in Used(wm) : ~wm.win[i].minimized}
Slot(wm, id) == {i \in Used(wm) : wm.win[i].id = id}
Exists(wm, id) == id # 0 /\ Slot(wm, id) # {}
find_window(wm, id) ==
  LET found == IF id = 0 THEN {} ELSE Slot(wm, id) IN
    IF found = {} THEN FreeSlot ELSE wm.win[CHOOSE i \in found : TRUE]
SetWindow(wm, w) == [wm EXCEPT !.win = [i \in DOMAIN @ |-> IF @[i].id = w.id THEN w ELSE @[i]]]

Init_wm == [win |-> <<>>, next |-> 1, active |-> 0, focus |-> NoControl,
            pressed_window |-> 0, pressed_control |-> NoControl, pressed_hit_close |-> FALSE,
            pressed |-> {}, open |-> {}, value |-> 0]

set_active_window(wm, id) == [wm EXCEPT !.active = id]

Topmost(wm, S) ==
  IF S = {} THEN 0
  ELSE LET z == Max({wm.win[i].z : i \in S}) IN wm.win[Max({i \in S : wm.win[i].z = z})].id

top_visible_window_id(wm) == Topmost(wm, Shown(wm))

top_window_at(wm, x) == Topmost(wm, {i \in Shown(wm) : x \in Columns(wm.win[i].bounds)})

(* The slot a new window takes: the first free one, else a new one, else none (0). *)
NewSlot(wm) ==
  LET free == DOMAIN wm.win \ Used(wm) IN
    IF free # {} THEN Min(free) ELSE IF Len(wm.win) < MaxWindows THEN Len(wm.win) + 1 ELSE 0

(* ui_wm_create_window_ex; the window's id is the old wm.next, or there is none. *)
create_window(wm, kind, bounds) ==
  LET n == NewSlot(wm)
      top == Max({-1} \cup {wm.win[i].z : i \in Used(wm)})
      entry == [FreeSlot EXCEPT !.id = wm.next, !.kind = kind, !.bounds = bounds, !.restore = bounds,
                                !.z = top + 1]
      table == IF n > Len(wm.win) THEN Append(wm.win, entry) ELSE [wm.win EXCEPT ![n] = entry]
  IN IF n = 0 THEN wm
     ELSE set_active_window([wm EXCEPT !.win = table, !.next = @ + 1], wm.next)

normalize_z_order(wm) ==
  LET below(i) == {j \in Used(wm) : \/ wm.win[j].z < wm.win[i].z
                                    \/ wm.win[j].z = wm.win[i].z /\ j < i}
  IN [wm EXCEPT !.win = [i \in DOMAIN @ |-> IF i \in Used(wm) THEN [@[i] EXCEPT !.z = Cardinality(below(i))]
                                            ELSE @[i]]]

bring_to_front(wm, id) ==
  LET n == normalize_z_order(wm)
      top == Max({-1} \cup {n.win[i].z : i \in Used(n)})
  IN IF ~Exists(wm, id) THEN wm
     ELSE set_active_window(SetWindow(n, [find_window(n, id) EXCEPT !.z = top + 1]), id)

-----------------------------------------------------------------------------
(* Closing, minimising, maximising. *)

OfWindow(c, id) == c[1] = id

close_window(wm, id) ==
  LET gone == [wm EXCEPT
                 !.win = [i \in DOMAIN @ |-> IF @[i].id = id THEN FreeSlot ELSE @[i]],
                 !.focus = IF OfWindow(@, id) THEN NoControl ELSE @,
                 !.pressed_control = IF OfWindow(@, id) THEN NoControl ELSE @,
                 !.pressed = {c \in @ : ~OfWindow(c, id)},
                 !.open = {c \in @ : ~OfWindow(c, id)},
                 !.pressed_window = IF @ = id THEN 0 ELSE @,
                 !.pressed_hit_close = @ /\ wm.pressed_window # id]
  IN IF wm.active = id THEN set_active_window(gone, top_visible_window_id(gone)) ELSE gone

(* Mutant of minimize_window: the minimised window stays active. *)
minimize_window_Mut(wm, id) ==
  IF Exists(wm, id) THEN SetWindow(wm, [find_window(wm, id) EXCEPT !.minimized = TRUE]) ELSE wm

minimize_window(wm, id) ==
  LET n == SetWindow(wm, [find_window(wm, id) EXCEPT !.minimized = TRUE]) IN
    IF ~Exists(wm, id) THEN wm
    ELSE IF wm.active = id THEN set_active_window(n, top_visible_window_id(n)) ELSE n

unminimize_window(wm, id) ==
  IF Exists(wm, id)
  THEN bring_to_front(SetWindow(wm, [find_window(wm, id) EXCEPT !.minimized = FALSE]), id) ELSE wm

restore_window(wm, id) ==
  LET w == find_window(wm, id)
  IN bring_to_front(SetWindow(wm, [w EXCEPT !.minimized = FALSE, !.maximized = FALSE,
                                            !.bounds = IF w.maximized THEN w.restore ELSE @]), id)

maximize_window(wm, id, desktop) ==
  LET w == find_window(wm, id)
  IN bring_to_front(SetWindow(wm, [w EXCEPT !.minimized = FALSE, !.maximized = TRUE,
                                            !.restore = IF w.maximized THEN @ ELSE w.bounds,
                                            !.bounds = IF w.maximized THEN @ ELSE desktop]), id)

toggle_maximize_window(wm, id, desktop) ==
  CASE ~Exists(wm, id)              -> wm
    [] find_window(wm, id).maximized -> restore_window(wm, id)
    [] OTHER                        -> maximize_window(wm, id, desktop)

-----------------------------------------------------------------------------
(* Controls. *)

TypeOf(wm, c) ==
  LET k == find_window(wm, c[1]).kind IN
    IF k = "none" \/ c[2] \notin ControlParts THEN "none" ELSE ControlType[k][c[2]]

(* An open popup lies over the value control, and is hit first. *)
InPopup(wm, id, part) == part = "value" /\ <<id, "popup">> \in wm.open

hit_test_control(wm, id, part) ==
  CASE InPopup(wm, id, part)           -> <<id, "popup">>
    [] TypeOf(wm, <<id, part>>) = "none" -> NoControl
    [] OTHER                           -> <<id, part>>

set_focus_control(wm, c) == [wm EXCEPT !.focus = c]

close_open_popups(wm, but) == [wm EXCEPT !.open = @ \cap {but}]

(* Mutant of HoldNothing: the control keeps the mouse. *)
HoldNothing_Mut(wm) == [wm EXCEPT !.pressed_window = 0, !.pressed_hit_close = FALSE]

HoldNothing(wm) ==
  [wm EXCEPT !.pressed_window = 0, !.pressed_control = NoControl, !.pressed_hit_close = FALSE]

ReleaseAll(wm) == [HoldNothing(wm) EXCEPT !.pressed = {}]

PressControl(wm, id, c, val) ==
  LET held == close_open_popups(set_focus_control(
                [HoldNothing(wm) EXCEPT !.pressed_window = id, !.pressed_control = c, !.pressed = {}], c), c)
  IN CASE TypeOf(wm, c) \in {"button", "dropdown"} -> [held EXCEPT !.pressed = {c}]
       [] TypeOf(wm, c) = "scrollbar"              -> [held EXCEPT !.value = val]
       [] OTHER                                    -> held

(* Release over control c: what it does to the popup, and whether it activates. *)
Activates(wm, id, c) ==
  CASE TypeOf(wm, c) = "button"    -> wm.pressed_window = id /\ wm.pressed_control = c /\ c \in wm.pressed
    [] TypeOf(wm, c) = "dropdown"  -> c \in wm.pressed
    [] TypeOf(wm, c) = "scrollbar" -> TRUE
    [] OTHER                       -> FALSE

ReleaseControl(wm, c) ==
  LET stays == c \in wm.pressed /\ c \notin wm.open   \* the box toggles, an item or a stray release closes
      n == [HoldNothing(wm) EXCEPT !.pressed = @ \ {c}]
  IN IF TypeOf(wm, c) = "dropdown"
     THEN [n EXCEPT !.open = IF stays THEN @ \cup {c} ELSE @ \ {c}] ELSE n

(* ui_wm_dispatch_mouse for event e, with its results. *)
dispatch_mouse(wm, e) ==
  LET top == top_window_at(wm, e.x)
      front == IF e.press THEN bring_to_front(wm, top) ELSE wm
      c == hit_test_control(wm, top, e.part)
      Result(n, act, win, ctl, close) == [wm |-> n, activated |-> act, window |-> win, control |-> ctl, close |-> close]
      pressed_close == [HoldNothing(front) EXCEPT !.pressed_window = top, !.pressed_hit_close = TRUE]
  IN CASE top = 0 ->
            Result(IF e.release THEN ReleaseAll(wm)
                   ELSE IF e.press THEN HoldNothing(close_open_popups(wm, NoControl)) ELSE wm,
                   FALSE, 0, NoControl, FALSE)
       [] top # 0 /\ e.left /\ TypeOf(wm, wm.pressed_control) = "scrollbar" ->
            Result([wm EXCEPT !.value = e.val], TRUE, wm.pressed_control[1], wm.pressed_control, FALSE)
       [] OTHER ->
            CASE e.part = "close" ->
                   Result(IF e.press THEN pressed_close ELSE IF e.release THEN HoldNothing(wm) ELSE wm,
                          e.release /\ wm.pressed_hit_close /\ wm.pressed_window = top, top, NoControl, TRUE)
              [] e.part # "close" /\ c # NoControl ->
                   Result(IF e.press THEN PressControl(front, top, c, e.val)
                          ELSE IF e.release THEN ReleaseControl(wm, c) ELSE wm,
                          e.release /\ Activates(wm, top, c), top, c, FALSE)
              [] OTHER ->
                   Result(IF e.press
                          THEN [ReleaseAll(close_open_popups(front, NoControl)) EXCEPT !.pressed_window = top]
                          ELSE IF e.release THEN ReleaseAll(wm) ELSE wm,
                          FALSE, top, NoControl, FALSE)

(* ui_wm_dispatch_key: a key goes to the control that has the focus. *)
dispatch_key(wm, key) ==
  CASE TypeOf(wm, wm.focus) = "dropdown" /\ key = "enter" ->
         [wm EXCEPT !.open = IF wm.focus \in @ THEN @ \ {wm.focus} ELSE @ \cup {wm.focus}]
    [] TypeOf(wm, wm.focus) = "scrollbar" /\ key = "up" /\ wm.value > 0 -> [wm EXCEPT !.value = @ - 1]
    [] TypeOf(wm, wm.focus) = "scrollbar" /\ key = "down" /\ wm.value < MaxValue -> [wm EXCEPT !.value = @ + 1]
    [] OTHER -> wm
=============================================================================
